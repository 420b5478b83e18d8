------------------------------- MODULE FdhHub -------------------------------
(***************************************************************************)
(* The hub: the git repository of components that fdh installs from, seen  *)
(* through its published history, and the pure functions of a manifest and *)
(* a commit that every command computes.                                   *)
(*                                                                         *)
(* The history is a constant, so what is proved about a command holds for  *)
(* every history of the hub.  File contents are abstract blobs: the code   *)
(* only copies them and compares hashes of them, and the canonical SHA-256 *)
(* of a tree is taken to be the tree itself (no collisions).               *)
(***************************************************************************)
EXTENDS Naturals

CONSTANTS
  Comps,        \* (kind, name) pairs of components
  NameOf,       \* the name of a component: two kinds may share one
  Skills,       \* the components whose kind is "skill"
  Agents,       \* the AI agents detected on the machine
  Layout,       \* Layout[c][a]: how the adapter of agent a stores component c
  Harnesses,    \* harness names
  NoHarness,    \* the manifest names no harness
  NumFiles,     \* files of a component, in the order a directory walk visits them
  Blobs,        \* file contents the hub publishes
  Absent,       \* no such file
  Torn,         \* a file cut short by a write that did not finish
  Edited,       \* a file the developer wrote
  MaxCommit,    \* bound: length of the hub's history
  HubTree,      \* HubTree[k][c]: files of component c at commit k
  HubHarness    \* HubHarness[k][h]: members of harness h at commit k

Files   == 1..NumFiles
Commits == 1..MaxCommit
Content == Blobs \union {Absent, Torn, Edited}
Trees   == [Files -> Content]
HubTrees == [Files -> Blobs \union {Absent}]
NoFiles == [i \in Files |-> Absent]

\* The body of a flat install is SKILL.md, the first file of the walk.
SkillMD == 1

ASSUME NumFilesAssumption  == NumFiles \in Nat \ {0}
ASSUME MaxCommitAssumption == MaxCommit \in Nat \ {0}
ASSUME BlobsAssumption ==
  {Absent, Torn, Edited} \cap Blobs = {} /\ Edited \notin {Absent, Torn}
ASSUME HarnessAssumption   == NoHarness \notin Harnesses
ASSUME LayoutAssumption    == Layout \in [Comps -> [Agents -> {"dir", "flat", "none"}]]
ASSUME HubTreeAssumption   == HubTree \in [Commits -> [Comps -> HubTrees]]
ASSUME HubHarnessAssumption ==
  HubHarness \in [Commits -> [Harnesses -> SUBSET Comps]]

\* The places a component can be installed: one per agent with an adapter for
\* its kind that the component supports.
Locs == {l \in Comps \X Agents : Layout[l[1]][l[2]] # "none"}
Comp(l) == l[1]
IsDir(l) == Layout[l[1]][l[2]] = "dir"
LocsOf(C) == {l \in Locs : Comp(l) \in C}

\* A component is listed in the registry of a commit iff it has files there.
Catalog(k) == {c \in Comps : HubTree[k][c] # NoFiles}

(***************************************************************************)
(* Manifests and their resolution.  "add" joins extends.add_* and the      *)
(* explicit entries: both are added to the set after the removals.         *)
(***************************************************************************)
Manifests == [harness : Harnesses \union {NoHarness},
              remove : SUBSET Comps, add : SUBSET Comps]

Members(m, k) == IF m.harness = NoHarness THEN {} ELSE HubHarness[k][m.harness]

\* The set a manifest asks for, its harness read at commit k.
Expand(m, k) == (Members(m, k) \ m.remove) \union m.add

\* Expand returns an error unless the catalogue of commit r has every member.
Resolvable(m, k, r) == Expand(m, k) \subseteq Catalog(r)

\* `fdh init` records the harness and, explicitly, every component selected.
WizardManifest(h, refs) == [harness |-> h, remove |-> {}, add |-> refs]

\* `fdh switch` keeps the extends and explicit entries, replaces the harness.
Retarget(m, h) == [m EXCEPT !.harness = h]

(***************************************************************************)
(* Markers.  A marker records the name of a component, the hub commit it   *)
(* came from, the hash of its source and the agent it was written for, in  *)
(* that order; "kept" tells how much of that is in the file.  A write that *)
(* does not finish leaves nothing, text that does not parse, or the fields *)
(* in front of the cut: "part" has a part of the hash, "hash" all of it    *)
(* and a part of the agent.  Readers take a missing field for empty.       *)
(***************************************************************************)
Extents == {"nothing", "garbled", "name", "commit", "part", "hash", "all"}
Markers == [hash : Trees, commit : Commits, kept : Extents]

HasName(m)   == m.kept \notin {"nothing", "garbled"}
HasCommit(m) == m.kept \in {"commit", "part", "hash", "all"}
HasHash(m)   == m.kept \in {"hash", "all"}
HasAgent(m)  == m.kept # "hash"
=============================================================================
