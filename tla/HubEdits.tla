------------------------------ MODULE HubEdits ------------------------------
(***************************************************************************)
(* The two files of the hub that the portal edits, as YAML values, and     *)
(* what an action means for them.  The directory of a component comes and  *)
(* goes with its registry entry, and an entry has one version, whose       *)
(* missing status means active.                                            *)
(***************************************************************************)
EXTENDS Naturals, Sequences

CONSTANTS
  Comps,      \* (kind, name) pairs of components
  Harnesses,  \* harness names
  Default,    \* the harness that mirrors the default: true entries
  Nothing     \* no entry

ASSUME DefaultAssumption == Default \in Harnesses

Statuses   == {"active", "deprecated", "yanked"}
Entries    == [default : BOOLEAN, status : Statuses]
Registries == [Comps -> Entries \union {Nothing}]
Rosters    == [Harnesses -> SUBSET Comps]
Trees      == [registry : Registries, harnesses : Rosters]

Acts ==
  [type : {"default"}, comp : Comps, value : BOOLEAN] \union
  [type : {"lifecycle"}, comp : Comps, to : {"deprecated", "yanked"}] \union
  [type : {"harness"}, harness : Harnesses, add : SUBSET Comps, remove : SUBSET Comps] \union
  [type : {"import"}, comp : Comps]

\* The deterministic branch: it names the component, not the action on it.
BranchOf(a) == CASE a.type \in {"default", "lifecycle"} -> <<"curate", a.comp>>
                 [] a.type = "harness" -> <<"harness", a.harness>>
                 [] OTHER -> <<"import", a.comp>>
Branches == {BranchOf(a) : a \in Acts}

Listed(t) == {c \in Comps : t.registry[c] # Nothing}

(***************************************************************************)
(* The edits of the two files.                                             *)
(***************************************************************************)
Rank(s) == CASE s = "active" -> 0 [] s = "deprecated" -> 1 [] s = "yanked" -> 2

\* Mutant: only a repeated state is refused.
NotRepeated(from, to) == from # to

\* The lifecycle moves forward only.
LifecycleAllowed(from, to) == Rank(to) > Rank(from)

SetVersionStatus(g, a) == [g EXCEPT ![a.comp].status = a.to]

\* The registry with the edit of action a.
EditRegistry(g, a) ==
  CASE a.type = "default" -> [g EXCEPT ![a.comp].default = a.value]
    [] a.type = "lifecycle" -> SetVersionStatus(g, a)
    [] a.type = "import" -> [g EXCEPT ![a.comp] = [default |-> FALSE, status |-> "active"]]
    [] OTHER -> g

\* Mutant: a component that loses the flag stays in the harness.
SyncAddsOnly(m, a) == [m EXCEPT ![Default] = @ \union {a.comp}]

SyncDefaultHarness(m, a) ==
  [m EXCEPT ![Default] = IF a.value THEN @ \union {a.comp} ELSE @ \ {a.comp}]

\* editKind: removals first, so a component in both lists stays.
ApplyHarnessEdit(m, a) == [m EXCEPT ![a.harness] = (@ \ a.remove) \union a.add]

\* Whether the commit of an action carries hub/harnesses.yaml: a change of
\* default does only when the membership it read has to change.
EditsRoster(m, a) ==
  \/ a.type = "harness"
  \/ a.type = "default" /\ a.value # (a.comp \in m[Default])

EditRoster(m, a) ==
  IF a.type = "harness" THEN ApplyHarnessEdit(m, a) ELSE SyncDefaultHarness(m, a)

\* What the composer checks of the registry it has read.
Accepts(g, a) ==
  CASE a.type = "import" -> g[a.comp] = Nothing
    [] a.type = "default" -> g[a.comp] # Nothing
    [] a.type = "lifecycle" -> IF g[a.comp] = Nothing THEN FALSE
                               ELSE LifecycleAllowed(g[a.comp].status, a.to)
    [] OTHER -> TRUE

\* What an action means for a tree, and when it makes sense.
Apply(t, a) ==
  [registry |-> EditRegistry(t.registry, a),
   harnesses |-> IF EditsRoster(t.harnesses, a) THEN EditRoster(t.harnesses, a)
                 ELSE t.harnesses]
Valid(t, a) ==
  /\ Accepts(t.registry, a)
  /\ a.type = "harness" => a.add \subseteq Listed(t)

\* What a commit of action a holds when its author has read the registry at commit
\* i of the hub's history h and the harnesses at commit j, and starts from commit k.
Edited(h, a, i, j, k) ==
  [registry  |-> IF a.type = "harness" THEN h[k].registry ELSE EditRegistry(h[i].registry, a),
   harnesses |-> IF EditsRoster(h[j].harnesses, a) THEN EditRoster(h[j].harnesses, a)
                 ELSE h[k].harnesses]

\* Three-way merge, an entry and a harness at a time.
Merged(f, old, new) == [x \in DOMAIN f |-> IF new[x] # old[x] THEN new[x] ELSE f[x]]
Conflict(f, old, new) ==
  \E x \in DOMAIN f : new[x] # old[x] /\ f[x] # old[x] /\ new[x] # f[x]
=============================================================================
