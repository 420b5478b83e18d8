------------------------------ MODULE Versions ------------------------------
(***************************************************************************)
(* The version constraints of .fdh/manifest.yaml.  A version is its three  *)
(* numbers and whether it is a pre-release; a constraint names one, two or *)
(* three numbers, and an operator.                                         *)
(***************************************************************************)
EXTENDS Naturals, Sequences, SequencesExt

CONSTANTS
  Parts,  \* the numbers that occur in a version
  NoPart  \* a number that a constraint leaves out

ASSUME PartAssumption == Parts \subseteq Nat /\ NoPart \notin Nat

Semver == [major : Parts, minor : Parts, patch : Parts, pre : BOOLEAN]

\* NoPart also stands for no version at all.
ASSUME SemverAssumption == NoPart \notin Semver

\* ParseConstraint: "" and "latest" are any; no operator is an exact version.
Constraint ==
  {c \in [op : {"any", "exact", "caret", "tilde"}, major : Parts,
          minor : Parts \union {NoPart}, patch : Parts \union {NoPart}] :
     c.minor = NoPart => c.patch = NoPart}

OrZero(part) == IF part = NoPart THEN 0 ELSE part

\* canonicalExact: what is left out is 0.  The suffix of a pre-release is dropped.
CanonicalExact(c) ==
  [major |-> c.major, minor |-> OrZero(c.minor), patch |-> OrZero(c.patch), pre |-> FALSE]

\* Mutant: the patch is compared in every minor version.
GteEach(v, minor, patch) ==
  minor # NoPart => v.minor >= minor /\ (patch # NoPart => v.patch >= patch)

\* gte: at least minor.patch, where a number that is left out is no bound.
Gte(v, minor, patch) ==
  minor # NoPart =>
    \/ v.minor > minor
    \/ v.minor = minor /\ (patch # NoPart => v.patch >= patch)

Caret(c, v) ==
  IF c.major = 0
  THEN /\ v.major = 0
       /\ c.minor # NoPart => v.minor = c.minor /\ Gte(v, c.minor, c.patch)
  ELSE v.major = c.major /\ Gte(v, c.minor, c.patch)

Tilde(c, v) ==
  /\ v.major = c.major
  /\ c.minor # NoPart => v.minor = c.minor /\ Gte(v, c.minor, c.patch)

Matches(c, v) ==
  \/ c.op = "any"
  \/ c.op = "exact" /\ v = CanonicalExact(c)
  \/ c.op = "caret" /\ Caret(c, v)
  \/ c.op = "tilde" /\ Tilde(c, v)

\* greater: a pre-release counts as its release.
Greater(v, w) ==
  \/ v.major > w.major
  \/ v.major = w.major /\ v.minor > w.minor
  \/ v.major = w.major /\ v.minor = w.minor /\ v.patch > w.patch

\* HighestSatisfying: the first of the highest of a list that match.
HighestSatisfying(c, list) ==
  LET best[i \in 0 .. Len(list)] ==
        IF i = 0 THEN NoPart
        ELSE IF Matches(c, list[i]) /\ (best[i - 1] # NoPart => Greater(list[i], best[i - 1]))
             THEN list[i] ELSE best[i - 1]
  IN  best[Len(list)]

-----------------------------------------------------------------------------
(* What the operators mean: from Floor to below Ceiling. *)

Floor(c) == CanonicalExact(c)
Ceiling(c) ==
  IF (c.op = "caret" /\ c.major # 0) \/ c.minor = NoPart
  THEN [major |-> c.major + 1, minor |-> 0, patch |-> 0, pre |-> FALSE]
  ELSE [major |-> c.major, minor |-> c.minor + 1, patch |-> 0, pre |-> FALSE]

InRange(c, v) ==
  CASE c.op = "any"   -> TRUE
    [] c.op = "exact" -> v = Floor(c)
    [] OTHER          -> ~Greater(Floor(c), v) /\ Greater(Ceiling(c), v)

(* The version picked for a constraint is in the constraint's range and no other
   version of the range is above it; none is picked only when none is in the range
   (semver.go, Matches and HighestSatisfying). *)
PicksHighestOfRange(n) ==
  \A c \in Constraint, list \in BoundedSeq(Semver, n) :
    LET best == HighestSatisfying(c, list)
        Fits == {v \in ToSet(list) : InRange(c, v)}
    IN  IF best = NoPart THEN Fits = {}
        ELSE best \in Fits /\ \A v \in Fits : ~Greater(v, best)
=============================================================================
