-------------------------- MODULE InstinctClusters --------------------------
(***************************************************************************)
(* What `fdh evolve` computes (pkg/instincts/cluster.go, draft.go,         *)
(* internal/cli/evolve.go): groups of alike instincts of one domain, and   *)
(* the directory each draft is written to.  An instinct is a record of     *)
(* domain, tags, words (titleKeywords) and conf, its confidence in tenths. *)
(***************************************************************************)
EXTENDS Integers, FiniteSets, Sequences, SequencesExt

(* similarity: 0.4 * jaccard(tags) + 0.6 * jaccard(words) >= tenths / 10,
   without the fractions; jaccardStrings of two empty sets is 0. *)
Shared(a, b) == Cardinality(a \cap b)
United(a, b) == IF a \cup b = {} THEN 1 ELSE Cardinality(a \cup b)
Alike(a, b, tenths) ==
    LET tags == United(a.tags, b.tags)
        words == United(a.words, b.words)
    IN  4 * Shared(a.tags, b.tags) * words + 6 * Shared(a.words, b.words) * tags
          >= tenths * tags * words

(* transitiveClusters: parent pointers, joined pair by pair in the order of the
   two loops; `alike` holds the pairs of positions that are similar.  That find
   also shortens the paths it follows changes no root. *)
Root(parent, i) ==
    LET up[n \in 0 .. Cardinality(DOMAIN parent)] == IF n = 0 THEN i ELSE parent[up[n - 1]]
    IN  up[Cardinality(DOMAIN parent)]

\* Mutant: the two are joined, not their roots.
JoinDirect(parent, i, j) == [parent EXCEPT ![i] = j]
Join(parent, i, j) == [parent EXCEPT ![Root(parent, i)] = Root(parent, j)]

\* The inner loop: i is joined with what follows it.
JoinRow(parent, i, n, alike) ==
    LET upTo[j \in 0 .. n] ==
          IF j = 0 THEN parent
          ELSE IF i < j /\ <<i, j>> \in alike THEN Join(upTo[j - 1], i, j) ELSE upTo[j - 1]
    IN  upTo[n]

Parents(n, alike) ==
    LET rows[i \in 0 .. n] == IF i = 0 THEN [k \in 1 .. n |-> k]
                              ELSE JoinRow(rows[i - 1], i, n, alike)
    IN  rows[n]

TransitiveClusters(n, alike) ==
    LET parent == Parents(n, alike)
    IN  {{i \in 1 .. n : Root(parent, i) = r} : r \in {Root(parent, i) : i \in 1 .. n}}

(* ClusterAll: by domain, then by similarity; a group is a draft when it is large
   and sure enough, and reported as skipped otherwise. *)
Domains(items) == {items[i].domain : i \in DOMAIN items}

ClustersOf(items, tenths) ==
    UNION {LET alike == {ij \in (DOMAIN items) \X (DOMAIN items) :
                             /\ items[ij[1]].domain = d /\ items[ij[2]].domain = d
                             /\ Alike(items[ij[1]], items[ij[2]], tenths)}
           IN  {g \in TransitiveClusters(Len(items), alike) : \A i \in g : items[i].domain = d}
             : d \in Domains(items)}

SumOver(items, g) == FoldLeft(LAMBDA s, i : IF i \in g THEN s + items[i].conf ELSE s, 0,
                              [i \in DOMAIN items |-> i])
Large(g, least) == Cardinality(g) >= least
Sure(items, g, conf) == SumOver(items, g) >= conf * Cardinality(g)
Candidates(items, tenths, least, conf) ==
    {g \in ClustersOf(items, tenths) : Large(g, least) /\ Sure(items, g, conf)}

(* The directory of a draft: the second cluster of a slug gets "-2", and so on. *)
\* Mutant: the second draft of a slug takes the first one's directory.
DirectoriesPlain(slugs) == slugs

Directories(slugs) ==
    [k \in DOMAIN slugs |->
       LET n == Cardinality({m \in 1..k : slugs[m] = slugs[k]})
       IN  IF n = 1 THEN slugs[k] ELSE Append(slugs[k], n)]

-----------------------------------------------------------------------------
(* Reference: i and j are linked when no set that keeps alike pairs together
   separates them. *)
KeepsPairs(alike, S) == \A ij \in alike : ij[1] \in S <=> ij[2] \in S
Linked(n, alike, i) ==
    {j \in 1 .. n : \A S \in SUBSET (1 .. n) : KeepsPairs(alike, S) /\ i \in S => j \in S}

(* The pointers of transitiveClusters end up as the connected components, in
   whatever order the pairs are joined, for every graph on Size instincts. *)
ClustersAreComponents(Size) ==
    \A alike \in SUBSET {ij \in (1 .. Size) \X (1 .. Size) : ij[1] < ij[2]} :
        TransitiveClusters(Size, alike) = {Linked(Size, alike, i) : i \in 1 .. Size}

(* No instinct is in two drafts and no draft mixes domains or joins two groups
   that share nothing, for the instincts of Sample. *)
DraftsPartition(Sample, Size) ==
    \A items \in [1 .. Size -> Sample] :
        LET drafts == Candidates(items, 5, 2, 6) IN
        /\ \A g, h \in drafts : g = h \/ g \cap h = {}
        /\ \A g \in drafts :
             /\ Cardinality({items[i].domain : i \in g}) = 1
             /\ \A i \in DOMAIN items \ g : \A j \in g :
                  items[i].domain = items[j].domain => ~Alike(items[i], items[j], 5)

(* Two drafts of one run are never written to one directory, as long as no slug
   ends in a number by itself. *)
DraftsKept(Slugs, Size) ==
    \A slugs \in [1 .. Size -> Slugs] : IsInjective(Directories(slugs))
=============================================================================
