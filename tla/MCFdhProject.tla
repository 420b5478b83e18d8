---------------------------- MODULE MCFdhProject ----------------------------
(* Instances of FdhProject for TLC: two skills, one agent that stores a skill
   as a directory (claude) and one that stores it as a flat file (copilot). *)
EXTENDS FdhReports, TLC

CONSTANTS lint, docs, claude, copilot, h1, h2, v1, v2, p1, p2

ProcSymmetry == Permutations(Procs)

Tree(x, y) == [i \in Files |-> IF i = 1 THEN x ELSE y]

TwoSkills == {lint, docs}
JustLint == {lint}
OwnNames == [c \in Comps |-> c]
MCLayout == [c \in Comps |-> [a \in Agents |->
              IF a = claude THEN "dir" ELSE IF c = lint THEN "flat" ELSE "none"]]
\* One skill for each agent: lint as a directory, docs as a flat file.
OneEach == [c \in Comps |-> [a \in Agents |->
             IF c = lint /\ a = claude THEN "dir"
             ELSE IF c = docs /\ a = copilot THEN "flat" ELSE "none"]]

\* Commit 2 changes SKILL.md of lint and drops its second file, and moves lint
\* from one harness to the other.
MCHubTree == [k \in Commits |-> [c \in Comps |->
  IF k = 1 THEN IF c = lint THEN Tree(v1, v1) ELSE Tree(v1, Absent)
  ELSE IF c = lint THEN Tree(v2, Absent) ELSE Tree(v1, Absent)]]
MCHubHarness == [k \in Commits |-> [h \in Harnesses |-> Comps \cap
  (IF h = h1 THEN {lint} ELSE IF k = 1 THEN {docs} ELSE {docs, lint})]]
\* Commit 2 replaces lint by docs, in the hub and in its harness.
SwapTree == [k \in Commits |-> [c \in Comps |->
  IF c = (IF k = 1 THEN lint ELSE docs) THEN Tree(v1, v2) ELSE NoFiles]]
SwapHarness == [k \in Commits |-> [h \in Harnesses |-> {IF k = 1 THEN lint ELSE docs}]]
=============================================================================
