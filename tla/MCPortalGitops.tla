--------------------------- MODULE MCPortalGitops ---------------------------
(* Instances of PortalGitops for TLC: a component in the catalogue and one that
   is not, the default harness and another. *)
EXTENDS PortalGitops, TLC

CONSTANTS lint, docs, base_h, team_h, r1, r2

RequestSymmetry == Permutations(Requests)

Entry(d, s) == [default |-> d, status |-> s]
Curate(c, v) == [type |-> "default", comp |-> c, value |-> v]
Age(c, s) == [type |-> "lifecycle", comp |-> c, to |-> s]
Edit(h, A, R) == [type |-> "harness", harness |-> h, add |-> A, remove |-> R]
Import(c) == [type |-> "import", comp |-> c]

\* lint is a default component, docs is not there yet.
MCFirstTrees ==
  {[registry  |-> [c \in Comps |-> IF c = lint THEN Entry(TRUE, "active") ELSE Nothing],
    harnesses |-> [h \in Harnesses |-> IF h = Default THEN {lint} ELSE {}]]}

\* Two actions on one component, which write to one branch, and the edit of a harness
\* that needs what only others import.
MCAsked == {Curate(lint, FALSE), Age(lint, "deprecated"), Edit(team_h, {docs}, {lint})}

MCPushed == {Age(lint, "yanked"), Import(docs)}
=============================================================================
