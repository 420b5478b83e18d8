-------------------------- MODULE InstinctDrafts ---------------------------
(***************************************************************************)
(* What `fdh evolve` makes of the instincts that the commands of           *)
(* StateLedger keep: groups of alike instincts, and a directory for each.  *)
(***************************************************************************)
EXTENDS StateLedger, InstinctClusters

CONSTANTS
    Sample,        \* instincts, as the groups tell them apart
    SlugWords,     \* the words of slugs
    Slugs,         \* slugs of drafts
    MaxGraph,      \* instincts of a graph of similarity
    MaxInstincts,  \* instincts that are grouped
    MaxDrafts      \* drafts of one run

\* No slug ends in a number by itself.
ASSUME SlugAssumption == Slugs \subseteq Seq(SlugWords) /\ \A w \in SlugWords : w \notin Nat
ASSUME DraftAssumption == MaxGraph \in Nat /\ MaxInstincts \in Nat /\ MaxDrafts \in Nat

(* The functions of `fdh evolve` depend on no state: they are checked at the start. *)
AtStart == started = 0

(* The groups of `fdh evolve` are the connected components of similarity, and its
   drafts are disjoint, of one domain and closed under similarity (cluster.go,
   transitiveClusters and ClusterAll). *)
DraftsAreGroups ==
    AtStart => ClustersAreComponents(MaxGraph) /\ DraftsPartition(Sample, MaxInstincts)

(* Colliding slugs get directories of their own (evolve.go). *)
DraftsAreKept == AtStart => DraftsKept(Slugs, MaxDrafts)
=============================================================================
