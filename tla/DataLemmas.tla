----------------------------- MODULE DataLemmas -----------------------------
(***************************************************************************)
(* Facts that the proofs about sequences, pointers and tables keep needing: *)
(* induction and recursion over the numbers, and least elements.            *)
(***************************************************************************)
EXTENDS Naturals, Sequences, SequencesExt, FiniteSets, FiniteSetTheorems,
        WellFoundedInduction, NaturalsInduction, TLAPS

(* Induction for a set instead of a predicate. *)
LEMMA LessIsWellFounded == IsWellFoundedOn({x \in Nat \X Nat : x[1] < x[2]}, Nat)
<1>1. OpToRel(<, Nat) = {x \in Nat \X Nat : x[1] < x[2]}
  BY DEF OpToRel
<1> QED BY <1>1, NatLessThanWellFounded

(* A nonempty set of numbers has a least element, which Min returns. *)
LEMMA LeastElement ==
  ASSUME NEW S \in SUBSET Nat, S # {}
  PROVE  Min(S) \in S /\ \A x \in S : Min(S) <= x
<1> DEFINE R == {x \in Nat \X Nat : x[1] < x[2]}
<1>1. PICK m \in S : \A y \in S : ~(<<y, m>> \in R)
  BY LessIsWellFounded, WFMin
<1>2. ASSUME NEW y \in S PROVE m <= y
  <2>1. ~(y < m)
    <3> SUFFICES ASSUME y < m PROVE FALSE
      OBVIOUS
    <3>1. <<y, m>> \in R
      OBVIOUS
    <3> QED BY <1>1, <3>1
  <2> QED BY <2>1
<1> QED BY <1>2 DEF Min

LEMMA InductionOn ==
  ASSUME NEW S, 0 \in S, \A n \in Nat : n \in S => n + 1 \in S
  PROVE  Nat \subseteq S
<1> SUFFICES ASSUME Nat \ S # {} PROVE FALSE
  OBVIOUS
<1> DEFINE m == Min(Nat \ S)
<1>1. m \in Nat \ S /\ \A x \in Nat \ S : m <= x
  BY LeastElement
<1> HIDE DEF m
<1>2. m - 1 \in Nat /\ m - 1 \in S /\ (m - 1) + 1 = m
  BY <1>1
<1> QED BY <1>1, <1>2

(* A function that is given step by step exists. *)
Stepping(A, a, N, G) ==
  CHOOSE f : f \in [0 .. N -> A] /\ f[0] = a /\ \A k \in 1 .. N : f[k] = G[k][f[k - 1]]

LEMMA Stepwise ==
  ASSUME NEW A, NEW a \in A, NEW N \in Nat, NEW G \in [1 .. N -> [A -> A]]
  PROVE  LET f == Stepping(A, a, N, G)
         IN  f \in [0 .. N -> A] /\ f[0] = a /\ \A k \in 1 .. N : f[k] = G[k][f[k - 1]]
<1> DEFINE Runs(f, n) == f[0] = a /\ \A k \in 1 .. n : f[k] = G[k][f[k - 1]]
           S == {n \in Nat : n <= N => \E f \in [0 .. n -> A] : Runs(f, n)}
<1>1. 0 \in S
  <2>1. Runs([k \in 0 .. 0 |-> a], 0)
    OBVIOUS
  <2> QED BY <2>1
<1>2. ASSUME NEW n \in Nat, n \in S PROVE n + 1 \in S
  <2> SUFFICES ASSUME n + 1 <= N
               PROVE  \E f \in [0 .. n + 1 -> A] : Runs(f, n + 1)
    OBVIOUS
  <2>1. PICK f \in [0 .. n -> A] : Runs(f, n)
    BY <1>2
  <2> DEFINE g == [k \in 0 .. n + 1 |-> IF k = n + 1 THEN G[n + 1][f[n]] ELSE f[k]]
  <2>2. f[n] \in A /\ G[n + 1] \in [A -> A]
    OBVIOUS
  <2>3. g \in [0 .. n + 1 -> A]
    BY <2>2
  <2>4. Runs(g, n + 1)
    <3>1. g[0] = a
      BY <2>1
    <3>2. ASSUME NEW k \in 1 .. n + 1 PROVE g[k] = G[k][g[k - 1]]
      <4>1. CASE k = n + 1
        <5>1. k - 1 = n /\ n # n + 1 /\ n \in 0 .. n + 1
          BY <4>1
        <5> QED BY <4>1, <5>1
      <4>2. CASE k # n + 1
        <5>1. k \in 1 .. n /\ k - 1 \in 0 .. n + 1 /\ k - 1 # n + 1
          BY <4>2
        <5> QED BY <5>1, <4>2, <2>1
      <4> QED BY <4>1, <4>2
    <3> QED BY <3>1, <3>2
  <2> QED BY <2>3, <2>4
<1>3. N \in S
  <2> HIDE DEF S
  <2> QED BY <1>1, <1>2, InductionOn
<1>4. \E f : f \in [0 .. N -> A] /\ f[0] = a /\ \A k \in 1 .. N : f[k] = G[k][f[k - 1]]
  BY <1>3
<1> QED BY <1>4 DEF Stepping

(* What was appended to, and what was, can be told from the result. *)
SameParts(s, x, t, y) == Append(s, x) = Append(t, y) => s = t /\ x = y

LEMMA AppendTellsParts ==
  ASSUME NEW S, NEW s \in Seq(S), NEW t \in Seq(S), NEW x, NEW y
  PROVE  SameParts(s, x, t, y)
<1> SUFFICES ASSUME Append(s, x) = Append(t, y) PROVE s = t /\ x = y
  BY DEF SameParts
<1>1. Len(s) \in Nat /\ Len(t) \in Nat /\ Len(Append(s, x)) = Len(s) + 1
      /\ Len(Append(t, y)) = Len(t) + 1
  OBVIOUS
<1>2. Len(s) = Len(t)
  BY <1>1
<1>3. Append(s, x)[Len(s) + 1] = x /\ Append(t, y)[Len(t) + 1] = y
  BY <1>1
<1>4. \A i \in 1 .. Len(s) : Append(s, x)[i] = s[i] /\ Append(t, y)[i] = t[i]
  BY <1>2
<1> QED BY <1>2, <1>3, <1>4

LEMMA BoundedSeqElements ==
  ASSUME NEW S, NEW n \in Nat, NEW s \in BoundedSeq(S, n)
  PROVE  \E m \in 0 .. n : s \in [1 .. m -> S]
BY DEF BoundedSeq, SeqOf
=============================================================================
