------------------------------ MODULE MCFdhEnds ------------------------------
(* The instance of project_ends: FdhProject with one small project, and beside
   it the catalogues and the version constraints that its commands read, over
   bounded inputs; every agent has an adapter for skills, one has one for hooks. *)
EXTENDS MCFdhProject, FdhDocuments

CONSTANTS skill, hook, other, n1, n2, bad, d1, d2, codex, ghost

Entry(n, k, p, a, d, f) ==
  [name |-> n, kind |-> k, path |-> p, agents |-> a, default |-> d, floorOK |-> f]

MCAdapters == [k \in Kinds |-> IF k = hook THEN {claude} ELSE Canonical]

\* Every entry that is right, and one with each thing that can be wrong with it.
MCEntries ==
  {Entry(n, k, <<k, d>>, {a}, x, TRUE) :
     n \in {n1, n2}, k \in {skill, hook}, d \in {d1, d2}, a \in {claude, codex}, x \in BOOLEAN}
  \union {Entry(n1, skill, <<hook, d1>>, {claude}, TRUE, TRUE),
          Entry(bad, skill, <<skill, d1>>, {claude}, TRUE, TRUE),
          Entry(n1, other, <<skill, d1>>, {claude}, TRUE, TRUE),
          Entry(n1, skill, <<skill, d1>>, {}, TRUE, TRUE),
          Entry(n1, skill, <<skill, d1>>, {claude, ghost}, TRUE, TRUE),
          Entry(n1, skill, <<skill, d1>>, {claude}, TRUE, FALSE)}
=============================================================================
