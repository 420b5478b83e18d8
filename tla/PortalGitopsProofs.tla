-------------------------- MODULE PortalGitopsProofs --------------------------
(***************************************************************************)
(* Theorems about PortalGitops, for every set of components, harnesses and *)
(* requests, and whatever people do to the hub while a request composes: a *)
(* pull request is one action, and its own unless its branch was deleted   *)
(* under it, a branch has an owner, merges of what was composed while main *)
(* stood still keep the mirror and the lifecycle, and all of it refines    *)
(* Proposals.                                                              *)
(***************************************************************************)
EXTENDS PortalGitops, TLAPS

(***************************************************************************)
(* The inductive invariant.                                                *)
(***************************************************************************)
\* What a request holds was on main when it read it: the registry at since, the
\* harnesses at some commit from there to n.
RegistryRead(r) ==
  /\ since[r] \in 1 .. Len(main)
  /\ act[r].type # "harness" =>
       registry[r] = main[since[r]].registry /\ Accepts(registry[r], act[r])
RosterRead(r, n) ==
  \E j \in since[r] .. n :
    act[r].type \in {"harness", "default"} => roster[r] = main[j].harnesses

Based  == {"exists", "create", "commit"}
Rested == {"tip"} \union Based

Reads(r) ==
  /\ step[r] # "idle" => act[r] \in Asked /\ AdditionsKnown(act[r])
  /\ step[r] = "registry" => act[r].type # "harness"
  /\ step[r] = "harnesses" => act[r].type \in {"harness", "default"}
  /\ step[r] = "harnesses" /\ act[r].type = "default" => RegistryRead(r)
  /\ step[r] \in Rested => RegistryRead(r)
  /\ step[r] = "tip" => RosterRead(r, Len(main))
  /\ step[r] \in Based => base[r] \in 1 .. Len(main) /\ RosterRead(r, base[r])

\* The commit of branch b is action a, which somebody asked for.
IsAction(b, a) == a \in Asked /\ BranchOf(a) = b /\ AdditionsKnown(a) /\ Holds(b, a)

\* Unless it was deleted under its request, a branch has one, which knows what it holds.
OneWriter(b) ==
  \A r \in Requests : Writes(r, b) =>
    /\ branch[b] # Nothing /\ pr[b] = Nothing
    /\ branch[b].ahead <=> step[r] = "open"
    /\ \A s \in Requests : Writes(s, b) => s = r

Built(b) ==
  /\ pr[b] # Nothing => branch[b] # Nothing /\ branch[b].ahead /\ BranchOf(pr[b]) = b
  /\ branch[b] # Nothing => branch[b].base \in 1 .. Len(main)
  /\ branch[b] # Nothing /\ branch[b].ahead =>
       \E a \in Asked :
         /\ IsAction(b, a)
         /\ b \notin cut => /\ pr[b] # Nothing => pr[b] = a
                            /\ \A r \in Requests : Writes(r, b) => act[r] = a
  /\ b \notin cut => OneWriter(b)

GitopsInv ==
  TypeOK /\ (\A r \in Requests : Reads(r)) /\ (\A b \in Branches : Built(b))

(***************************************************************************)
(* The edits.                                                              *)
(***************************************************************************)
LEMMA ActIs ==
  ASSUME NEW a \in Acts
  PROVE  /\ a.type \in {"default", "lifecycle", "harness", "import"} /\ a # Nothing
         /\ a.type # "harness" => a.comp \in Comps
         /\ a.type = "default" => a.value \in BOOLEAN
         /\ a.type = "lifecycle" => a.to \in {"deprecated", "yanked"}
         /\ a.type = "harness" => /\ a.harness \in Harnesses
                                  /\ a.add \in SUBSET Comps /\ a.remove \in SUBSET Comps
         /\ BranchOf(a) \in Branches
<1>1. a # Nothing
  BY NothingAssumption
<1>2. BranchOf(a) \in Branches
  BY DEF Branches
<1> QED BY <1>1, <1>2 DEF Acts

LEMMA EntryIs ==
  /\ Nothing \notin Entries
  /\ \A e \in Entries : /\ e.default \in BOOLEAN /\ e.status \in Statuses
                        /\ e = [default |-> e.default, status |-> e.status]
  /\ [default |-> FALSE, status |-> "active"] \in Entries
<1>1. \A e \in Entries : /\ e.default \in BOOLEAN /\ e.status \in Statuses
                         /\ e = [default |-> e.default, status |-> e.status]
  BY DEF Entries
<1>2. [default |-> FALSE, status |-> "active"] \in Entries
  BY DEF Entries, Statuses
<1> QED BY <1>1, <1>2, NothingAssumption

LEMMA RankIs == \A s \in Statuses : Rank(s) \in Nat
  BY DEF Rank, Statuses

\* An accepted edit changes one entry, which it never takes away or back.
LEMMA EditRegistryIs ==
  ASSUME NEW g \in Registries, NEW a \in Acts, Accepts(g, a)
  PROVE  /\ EditRegistry(g, a) \in Registries
         /\ a.type = "harness" => EditRegistry(g, a) = g
         /\ \A c \in Comps :
              /\ a.type # "harness" /\ c # a.comp => EditRegistry(g, a)[c] = g[c]
              /\ g[c] # Nothing =>
                   /\ EditRegistry(g, a)[c] # Nothing
                   /\ Rank(EditRegistry(g, a)[c].status) >= Rank(g[c].status)
                   /\ a.type # "default" => EditRegistry(g, a)[c].default = g[c].default
         /\ a.type = "default" => g[a.comp] # Nothing /\ EditRegistry(g, a)[a.comp].default = a.value
                                  /\ EditRegistry(g, a)[a.comp].status = g[a.comp].status
         /\ a.type = "import" => g[a.comp] = Nothing /\ EditRegistry(g, a)[a.comp] # Nothing
                                 /\ EditRegistry(g, a)[a.comp].default = FALSE
         /\ a.type = "lifecycle" => g[a.comp] # Nothing
<1> DEFINE e == EditRegistry(g, a)
           ac == a.comp
<1>1. a.type \in {"default", "lifecycle", "harness", "import"}
  BY ActIs
<1>2. \A c \in Comps : g[c] # Nothing => g[c] \in Entries /\ Rank(g[c].status) \in Nat
  BY EntryIs, RankIs DEF Registries
<1>3. CASE a.type = "harness"
  <2>1. e = g
    BY <1>3 DEF EditRegistry
  <2> QED BY <1>2, <1>3, <2>1
<1>4. CASE a.type = "default"
  <2>1. ac \in Comps /\ a.value \in BOOLEAN /\ g[ac] \in Entries /\ g[ac] # Nothing
    BY <1>2, <1>4, ActIs DEF Accepts
  <2> DEFINE new == [g[ac] EXCEPT !.default = a.value]
  <2>2. new \in Entries /\ new.default = a.value /\ new.status = g[ac].status
    BY <2>1 DEF Entries
  <2>3. e = [g EXCEPT ![ac] = new]
    BY <1>4, <2>1 DEF EditRegistry, Registries
  <2> HIDE DEF new, e
  <2>4. new # Nothing
    BY <2>2, EntryIs
  <2>5. e \in Registries /\ e[ac] = new /\ \A c \in Comps : c # ac => e[c] = g[c]
    BY <2>1, <2>2, <2>3 DEF Registries
  <2>6. \A c \in Comps : g[c] # Nothing => e[c] # Nothing /\ Rank(e[c].status) >= Rank(g[c].status)
    BY <1>2, <2>2, <2>4, <2>5
  <2> QED BY <1>4, <2>1, <2>2, <2>5, <2>6 DEF e
<1>5. CASE a.type = "lifecycle"
  <2>1. ac \in Comps /\ a.to \in Statuses /\ g[ac] \in Entries /\ g[ac] # Nothing
        /\ Rank(a.to) > Rank(g[ac].status)
    BY <1>2, <1>5, ActIs DEF Accepts, LifecycleAllowed, Statuses
  <2> DEFINE new == [g[ac] EXCEPT !.status = a.to]
  <2>2. new \in Entries /\ new.status = a.to /\ new.default = g[ac].default
    BY <2>1 DEF Entries
  <2>3. e = [g EXCEPT ![ac] = new]
    BY <1>5, <2>1 DEF EditRegistry, SetVersionStatus, Registries
  <2> HIDE DEF new, e
  <2>4. new # Nothing /\ Rank(new.status) \in Nat
    BY <2>2, EntryIs, RankIs
  <2>5. e \in Registries /\ e[ac] = new /\ \A c \in Comps : c # ac => e[c] = g[c]
    BY <2>1, <2>2, <2>3 DEF Registries
  <2>6. \A c \in Comps : g[c] # Nothing =>
          /\ e[c] # Nothing /\ Rank(e[c].status) >= Rank(g[c].status)
          /\ e[c].default = g[c].default
    <3>1. Rank(new.status) >= Rank(g[ac].status)
      BY <1>2, <2>1, <2>2, <2>4
    <3> QED BY <1>2, <2>1, <2>2, <2>4, <2>5, <3>1
  <2> QED BY <1>5, <2>1, <2>5, <2>6 DEF e
<1>6. CASE a.type = "import"
  <2>1. ac \in Comps /\ g[ac] = Nothing
    BY <1>6, ActIs DEF Accepts
  <2> DEFINE new == [default |-> FALSE, status |-> "active"]
  <2>2. e = [g EXCEPT ![ac] = new]
    BY <1>6 DEF EditRegistry
  <2>3. new \in Entries /\ new.default = FALSE
    BY EntryIs
  <2> HIDE DEF new, e
  <2>4. new # Nothing
    BY <2>3, EntryIs
  <2>5. e \in Registries /\ e[ac] = new /\ \A c \in Comps : c # ac => e[c] = g[c]
    BY <2>1, <2>2, <2>3 DEF Registries
  <2>6. \A c \in Comps : g[c] # Nothing => e[c] = g[c] /\ c # ac
    BY <2>1, <2>5
  <2> QED BY <1>2, <1>6, <2>1, <2>3, <2>4, <2>5, <2>6 DEF e
<1> QED BY <1>1, <1>3, <1>4, <1>5, <1>6

\* An edit of the roster changes one harness.
LEMMA EditRosterIs ==
  ASSUME NEW m \in Rosters, NEW a \in Acts, EditsRoster(m, a)
  PROVE  /\ EditRoster(m, a) \in Rosters
         /\ a.type = "harness" =>
              \A h \in Harnesses : EditRoster(m, a)[h] \subseteq m[h] \union a.add
         /\ a.type = "harness" =>
              \A h \in Harnesses : h # a.harness => EditRoster(m, a)[h] = m[h]
         /\ a.type = "default" =>
              /\ \A h \in Harnesses : EditRoster(m, a)[h] \subseteq m[h] \union {a.comp}
              /\ \A h \in Harnesses : h # Default => EditRoster(m, a)[h] = m[h]
              /\ EditRoster(m, a)[Default] =
                   IF a.value THEN m[Default] \union {a.comp} ELSE m[Default] \ {a.comp}
         /\ a.type \in {"harness", "default"}
<1>1. a.type \in {"harness", "default"}
  BY DEF EditsRoster
<1>2. CASE a.type = "harness"
  <2>1. a.harness \in Harnesses /\ a.add \in SUBSET Comps /\ a.remove \in SUBSET Comps
    BY <1>2, ActIs
  <2> DEFINE new == (m[a.harness] \ a.remove) \union a.add
  <2>2. EditRoster(m, a) = [m EXCEPT ![a.harness] = new]
    BY <1>2 DEF EditRoster, ApplyHarnessEdit
  <2>3. new \in SUBSET Comps /\ new \subseteq m[a.harness] \union a.add
    BY <2>1 DEF Rosters
  <2> HIDE DEF new
  <2>4. EditRoster(m, a) \in Rosters /\ EditRoster(m, a)[a.harness] = new
        /\ \A h \in Harnesses : h # a.harness => EditRoster(m, a)[h] = m[h]
    BY <2>1, <2>2, <2>3 DEF Rosters
  <2> QED BY <1>2, <2>3, <2>4
<1>3. CASE a.type = "default"
  <2>1. a.comp \in Comps /\ Default \in Harnesses
    BY <1>3, ActIs, DefaultAssumption
  <2> DEFINE new == IF a.value THEN m[Default] \union {a.comp} ELSE m[Default] \ {a.comp}
  <2>2. EditRoster(m, a) = [m EXCEPT ![Default] = new]
    BY <1>3 DEF EditRoster, SyncDefaultHarness
  <2>3. new \in SUBSET Comps /\ new \subseteq m[Default] \union {a.comp}
    BY <2>1 DEF Rosters
  <2> HIDE DEF new
  <2>4. EditRoster(m, a) \in Rosters /\ EditRoster(m, a)[Default] = new
        /\ \A h \in Harnesses : h # Default => EditRoster(m, a)[h] = m[h]
    BY <2>1, <2>2, <2>3 DEF Rosters
  <2> QED BY <1>3, <2>3, <2>4 DEF new
<1> QED BY <1>1, <1>2, <1>3

\* Applied where it makes sense, an action takes no component away and no status back.
KeepsEntries(old, new) ==
  \A c \in Comps : old.registry[c] # Nothing =>
    /\ new.registry[c] # Nothing
    /\ Rank(new.registry[c].status) >= Rank(old.registry[c].status)

LEMMA TreeIs ==
  ASSUME NEW t \in Trees
  PROVE  /\ t.registry \in Registries /\ t.harnesses \in Rosters
         /\ t = [registry |-> t.registry, harnesses |-> t.harnesses]
         /\ \A c \in Comps : t.registry[c] # Nothing =>
              /\ t.registry[c] \in Entries /\ Rank(t.registry[c].status) \in Nat
              /\ t.registry[c].default \in BOOLEAN
<1>1. t.registry \in Registries /\ t.harnesses \in Rosters
      /\ t = [registry |-> t.registry, harnesses |-> t.harnesses]
  BY DEF Trees
<1>2. \A c \in Comps : t.registry[c] # Nothing => t.registry[c] \in Entries
  BY <1>1 DEF Registries
<1> QED BY <1>1, <1>2, EntryIs, RankIs

LEMMA ApplyIs ==
  ASSUME NEW t \in Trees, NEW a \in Acts, Accepts(t.registry, a)
  PROVE  /\ Apply(t, a) \in Trees
         /\ Apply(t, a).registry = EditRegistry(t.registry, a)
         /\ Apply(t, a).harnesses = IF EditsRoster(t.harnesses, a)
                                    THEN EditRoster(t.harnesses, a) ELSE t.harnesses
         /\ KeepsEntries(t, Apply(t, a))
<1> DEFINE g == EditRegistry(t.registry, a)
           m == IF EditsRoster(t.harnesses, a) THEN EditRoster(t.harnesses, a) ELSE t.harnesses
<1>1. t.registry \in Registries /\ t.harnesses \in Rosters /\ Accepts(t.registry, a)
  BY TreeIs
<1>2. g \in Registries
      /\ \A c \in Comps : t.registry[c] # Nothing =>
           g[c] # Nothing /\ Rank(g[c].status) >= Rank(t.registry[c].status)
  BY <1>1, EditRegistryIs
<1>3. m \in Rosters
  BY <1>1, EditRosterIs
<1>4. Apply(t, a) = [registry |-> g, harnesses |-> m]
  BY DEF Apply
<1> HIDE DEF g, m
<1>5. Apply(t, a) \in Trees /\ Apply(t, a).registry = g /\ Apply(t, a).harnesses = m
  BY <1>2, <1>3, <1>4 DEF Trees
<1> QED BY <1>2, <1>5 DEF KeepsEntries, g, m

(***************************************************************************)
(* The merge of a proposal.                                                *)
(***************************************************************************)
MergeOf(t, old, new) ==
  [registry |-> Merged(t.registry, old.registry, new.registry),
   harnesses |-> Merged(t.harnesses, old.harnesses, new.harnesses)]

Clean(t, old, new) ==
  /\ ~Conflict(t.registry, old.registry, new.registry)
  /\ ~Conflict(t.harnesses, old.harnesses, new.harnesses)

\* What a clean merge holds, an entry and a harness at a time.
LEMMA MergeOfIs ==
  ASSUME NEW t \in Trees, NEW old \in Trees, NEW new \in Trees, Clean(t, old, new)
  PROVE  /\ MergeOf(t, old, new) \in Trees
         /\ \A c \in Comps :
              \/ /\ new.registry[c] # old.registry[c]
                 /\ MergeOf(t, old, new).registry[c] = new.registry[c]
                 /\ t.registry[c] \in {old.registry[c], new.registry[c]}
              \/ /\ new.registry[c] = old.registry[c]
                 /\ MergeOf(t, old, new).registry[c] = t.registry[c]
         /\ \A h \in Harnesses :
              \/ /\ new.harnesses[h] # old.harnesses[h]
                 /\ MergeOf(t, old, new).harnesses[h] = new.harnesses[h]
                 /\ t.harnesses[h] \in {old.harnesses[h], new.harnesses[h]}
              \/ /\ new.harnesses[h] = old.harnesses[h]
                 /\ MergeOf(t, old, new).harnesses[h] = t.harnesses[h]
<1> DEFINE g == Merged(t.registry, old.registry, new.registry)
           m == Merged(t.harnesses, old.harnesses, new.harnesses)
<1>1. /\ t.registry \in Registries /\ old.registry \in Registries /\ new.registry \in Registries
      /\ t.harnesses \in Rosters /\ old.harnesses \in Rosters /\ new.harnesses \in Rosters
  BY TreeIs
<1>2. DOMAIN t.registry = Comps /\ DOMAIN t.harnesses = Harnesses
  BY <1>1 DEF Registries, Rosters
<1>3. \A c \in Comps : g[c] = IF new.registry[c] # old.registry[c]
                              THEN new.registry[c] ELSE t.registry[c]
  BY <1>2 DEF Merged
<1>4. \A h \in Harnesses : m[h] = IF new.harnesses[h] # old.harnesses[h]
                                  THEN new.harnesses[h] ELSE t.harnesses[h]
  BY <1>2 DEF Merged
<1>5. g \in Registries
  BY <1>1, <1>2 DEF Merged, Registries
<1>6. m \in Rosters
  BY <1>1, <1>2 DEF Merged, Rosters
<1>7. \A c \in Comps : new.registry[c] # old.registry[c] =>
        t.registry[c] \in {old.registry[c], new.registry[c]}
  BY <1>2 DEF Clean, Conflict
<1>8. \A h \in Harnesses : new.harnesses[h] # old.harnesses[h] =>
        t.harnesses[h] \in {old.harnesses[h], new.harnesses[h]}
  BY <1>2 DEF Clean, Conflict
<1>9. MergeOf(t, old, new) = [registry |-> g, harnesses |-> m]
  BY DEF MergeOf
<1> HIDE DEF g, m
<1>10. /\ MergeOf(t, old, new) \in Trees
       /\ MergeOf(t, old, new).registry = g /\ MergeOf(t, old, new).harnesses = m
  BY <1>5, <1>6, <1>9 DEF Trees
<1> QED BY <1>3, <1>4, <1>7, <1>8, <1>10

LEMMA MergeKeepsEntries ==
  ASSUME NEW t \in Trees, NEW old \in Trees, NEW a \in Acts, Accepts(old.registry, a),
         Clean(t, old, Apply(old, a))
  PROVE  KeepsEntries(t, MergeOf(t, old, Apply(old, a)))
<1> DEFINE new == Apply(old, a)
           mrg == MergeOf(t, old, new)
<1>1. new \in Trees /\ KeepsEntries(old, new)
  BY ApplyIs
<1> HIDE DEF new
<1>2. ASSUME NEW c \in Comps, t.registry[c] # Nothing
      PROVE  /\ mrg.registry[c] # Nothing
             /\ Rank(mrg.registry[c].status) >= Rank(t.registry[c].status)
  <2>1. Rank(t.registry[c].status) \in Nat
    BY <1>2, TreeIs
  <2>2. CASE mrg.registry[c] = t.registry[c]
    BY <1>2, <2>1, <2>2
  <2>3. CASE mrg.registry[c] = new.registry[c] /\ t.registry[c] \in {old.registry[c], new.registry[c]}
    BY <1>1, <1>2, <2>1, <2>3 DEF KeepsEntries
  <2> QED BY <1>1, <2>2, <2>3, MergeOfIs DEF new
<1> QED BY <1>2 DEF KeepsEntries, new
\* A clean merge of an action keeps the mirror, unless the action edits the default harness.
LEMMA MergeKeepsMirrorOf ==
  ASSUME NEW t \in Trees, NEW old \in Trees, NEW a \in Acts, Accepts(old.registry, a),
         Clean(t, old, Apply(old, a)),
         a.type = "import" => a.comp \notin t.harnesses[Default],
         Mirror(t), Mirror(old), BranchOf(a) # <<"harness", Default>>
  PROVE  Mirror(MergeOf(t, old, Apply(old, a)))
<1> DEFINE new == Apply(old, a)
           mrg == MergeOf(t, old, new)
           g == old.registry
           m == old.harnesses
<1>1. /\ new \in Trees /\ new.registry = EditRegistry(g, a)
      /\ new.harnesses = IF EditsRoster(m, a) THEN EditRoster(m, a) ELSE m
  BY ApplyIs
<1>2. g \in Registries /\ m \in Rosters /\ Accepts(g, a) /\ Default \in Harnesses
  BY TreeIs, DefaultAssumption
<1>3. a.type \in {"default", "lifecycle", "harness", "import"}
  BY ActIs
<1> SUFFICES Mirror(mrg)
  OBVIOUS
<1> HIDE DEF new, g, m
<1>4. /\ mrg \in Trees
      /\ \A c \in Comps :
           \/ /\ new.registry[c] # g[c]
              /\ mrg.registry[c] = new.registry[c]
              /\ t.registry[c] \in {g[c], new.registry[c]}
           \/ new.registry[c] = g[c] /\ mrg.registry[c] = t.registry[c]
      /\ \/ /\ new.harnesses[Default] # m[Default]
            /\ mrg.harnesses[Default] = new.harnesses[Default]
            /\ t.harnesses[Default] \in {m[Default], new.harnesses[Default]}
         \/ new.harnesses[Default] = m[Default] /\ mrg.harnesses[Default] = t.harnesses[Default]
  BY <1>1, <1>2, MergeOfIs DEF new, g, m
<1> HIDE DEF mrg
<1>9. /\ new.registry \in Registries
      /\ a.type = "harness" => new.registry = g
      /\ \A c \in Comps :
           /\ a.type # "harness" /\ c # a.comp => new.registry[c] = g[c]
           /\ g[c] # Nothing =>
                /\ new.registry[c] # Nothing
                /\ a.type # "default" => new.registry[c].default = g[c].default
      /\ a.type = "default" => g[a.comp] # Nothing /\ new.registry[a.comp].default = a.value
                               /\ new.registry[a.comp].status = g[a.comp].status
      /\ a.type = "import" => g[a.comp] = Nothing /\ new.registry[a.comp].default = FALSE
      /\ a.type = "lifecycle" => g[a.comp] # Nothing
  <2> DEFINE e == EditRegistry(g, a)
  <2>1. /\ e \in Registries
        /\ a.type = "harness" => e = g
        /\ \A c \in Comps : a.type # "harness" /\ c # a.comp => e[c] = g[c]
    BY <1>2, EditRegistryIs
  <2>2. \A c \in Comps : g[c] # Nothing =>
          /\ e[c] # Nothing
          /\ a.type # "default" => e[c].default = g[c].default
    BY <1>2, EditRegistryIs
  <2>3. /\ a.type = "default" => g[a.comp] # Nothing /\ e[a.comp].default = a.value
                                 /\ e[a.comp].status = g[a.comp].status
        /\ a.type = "import" => g[a.comp] = Nothing /\ e[a.comp].default = FALSE
        /\ a.type = "lifecycle" => g[a.comp] # Nothing
    BY <1>2, EditRegistryIs
  <2>4. new.registry = e
    BY <1>1
  <2> HIDE DEF e
  <2> QED BY <2>1, <2>2, <2>3, <2>4
<1>5. ASSUME new.harnesses[Default] = m[Default],
             \A c \in Comps : g[c] # Nothing /\ new.registry[c] # g[c] =>
                                new.registry[c].default = g[c].default,
             \A c \in Comps : g[c] = Nothing /\ new.registry[c] # Nothing =>
                                ~new.registry[c].default
      PROVE  Mirror(mrg)
  <2> SUFFICES ASSUME NEW c \in Comps, mrg.registry[c] # Nothing
               PROVE  mrg.registry[c].default <=> c \in mrg.harnesses[Default]
    BY DEF Mirror
  <2>1. mrg.harnesses[Default] = t.harnesses[Default]
    BY <1>4, <1>5
  <2>2. CASE mrg.registry[c] = t.registry[c]
    BY <2>1, <2>2 DEF Mirror
  <2>3. CASE t.registry[c] = g[c] /\ mrg.registry[c] = new.registry[c] /\ new.registry[c] # g[c]
    <3>1. CASE g[c] # Nothing
      <4>1. t.registry[c].default <=> c \in t.harnesses[Default]
        BY <2>3, <3>1 DEF Mirror
      <4> QED BY <1>5, <2>1, <2>3, <3>1, <4>1
    <3>2. CASE g[c] = Nothing
      <4>1. c \notin t.harnesses[Default]
        BY <1>3, <1>9, <2>3, <3>2
      <4> QED BY <1>5, <2>1, <2>3, <3>2, <4>1
    <3> QED BY <3>1, <3>2
  <2> QED BY <1>4, <2>2, <2>3
<1>6. CASE a.type = "default"
  <2>1. a.comp \in Comps /\ a.value \in BOOLEAN /\ g[a.comp] # Nothing
        /\ new.registry[a.comp].default = a.value
        /\ new.registry[a.comp].status = g[a.comp].status
        /\ \A c \in Comps : c # a.comp => new.registry[c] = g[c]
    <3>1. a.comp \in Comps /\ a.value \in BOOLEAN
      BY <1>6, ActIs
    <3> QED BY <1>6, <1>9, <3>1
  <2>2. g[a.comp].default \in BOOLEAN /\ new.registry[a.comp] # Nothing
        /\ g[a.comp] \in Entries /\ new.registry[a.comp] \in Entries
    <3>1. g[a.comp] \in Entries /\ new.registry[a.comp] # Nothing
      BY <1>2, <1>9, <2>1 DEF Registries
    <3>2. new.registry[a.comp] \in Entries
      BY <1>9, <2>1, <3>1 DEF Registries
    <3> QED BY <3>1, <3>2, EntryIs
  <2>3. g[a.comp].default <=> a.comp \in m[Default]
    BY <2>1 DEF Mirror, g, m
  <2>4. CASE a.value = (a.comp \in m[Default])
    <3>1. ~EditsRoster(m, a)
      BY <1>6, <2>4 DEF EditsRoster
    <3>2. new.harnesses[Default] = m[Default]
      BY <1>1, <3>1
    <3>3. new.registry[a.comp].default = g[a.comp].default
      BY <2>1, <2>2, <2>3, <2>4
    <3>4. new.registry[a.comp] = g[a.comp]
      BY <2>1, <2>2, <3>3, EntryIs
    <3> QED BY <1>5, <2>1, <3>2, <3>4
  <2>5. CASE a.value # (a.comp \in m[Default])
    <3>1. EditsRoster(m, a)
      BY <1>6, <2>5 DEF EditsRoster
    <3>2. new.harnesses[Default] =
            IF a.value THEN m[Default] \union {a.comp} ELSE m[Default] \ {a.comp}
      <4>1. new.harnesses = EditRoster(m, a)
        BY <1>1, <3>1
      <4>2. EditRoster(m, a)[Default] =
              IF a.value THEN m[Default] \union {a.comp} ELSE m[Default] \ {a.comp}
        BY <1>2, <1>6, <3>1, EditRosterIs
      <4> QED BY <4>1, <4>2
    <3>3. new.harnesses[Default] # m[Default] /\ (a.comp \in new.harnesses[Default] <=> a.value)
      BY <2>1, <2>5, <3>2
    <3>4. mrg.harnesses[Default] = new.harnesses[Default]
          /\ t.harnesses[Default] \in {m[Default], new.harnesses[Default]}
      BY <1>4, <3>3
    <3>5. new.registry[a.comp] # g[a.comp]
      BY <2>1, <2>2, <2>3, <2>5
    <3>6. mrg.registry[a.comp] = new.registry[a.comp]
      BY <1>4, <2>1, <3>5
    <3> SUFFICES ASSUME NEW c \in Comps, mrg.registry[c] # Nothing
                 PROVE  mrg.registry[c].default <=> c \in mrg.harnesses[Default]
      BY DEF Mirror
    <3>7. CASE c = a.comp
      BY <2>1, <3>3, <3>4, <3>6, <3>7
    <3>8. CASE c # a.comp
      <4>1. mrg.registry[c] = t.registry[c]
        BY <1>4, <2>1, <3>8
      <4>2. c \in new.harnesses[Default] <=> c \in m[Default]
        BY <3>2, <3>8
      <4>3. c \in mrg.harnesses[Default] <=> c \in t.harnesses[Default]
        BY <3>4, <4>2
      <4> QED BY <3>8, <4>1, <4>3 DEF Mirror
    <3> QED BY <3>7, <3>8
  <2> QED BY <2>4, <2>5
<1>7. CASE a.type = "harness"
  <2>1. a.harness \in Harnesses /\ a.harness # Default
    BY <1>7, ActIs DEF BranchOf
  <2>2. new.harnesses[Default] = m[Default]
    <3>1. ASSUME EditsRoster(m, a) PROVE EditRoster(m, a)[Default] = m[Default]
      BY <1>2, <1>7, <2>1, <3>1, EditRosterIs
    <3> QED BY <1>1, <3>1
  <2>3. new.registry = g
    BY <1>7, <1>9
  <2> QED BY <1>5, <2>2, <2>3
<1>8. CASE a.type \in {"lifecycle", "import"}
  <2>1. new.harnesses = m
    BY <1>1, <1>8 DEF EditsRoster
  <2>2. \A c \in Comps : g[c] # Nothing => new.registry[c].default = g[c].default
    BY <1>8, <1>9
  <2>3. \A c \in Comps : g[c] = Nothing /\ new.registry[c] # Nothing => ~new.registry[c].default
    <3> SUFFICES ASSUME NEW c \in Comps, g[c] = Nothing, new.registry[c] # Nothing
                 PROVE  ~new.registry[c].default
      OBVIOUS
    <3>1. c = a.comp
      BY <1>8, <1>9
    <3>2. a.type = "import"
      BY <1>8, <1>9, <3>1
    <3> QED BY <1>9, <3>1, <3>2
  <2> QED BY <1>5, <2>1, <2>2, <2>3
<1> QED BY <1>3, <1>6, <1>7, <1>8

\* A commit of an action, whatever commits it was read from.
LEMMA EditedIs ==
  ASSUME TypeOK, NEW a \in Acts, NEW i \in 1 .. Len(main), NEW j \in 1 .. Len(main),
         NEW k \in 1 .. Len(main), Accepts(main[i].registry, a)
  PROVE  /\ Edited(main, a, i, j, k) \in Trees
         /\ Edited(main, a, k, k, k) = Apply(main[k], a)
<1>1. \A x \in 1 .. Len(main) : main[x].registry \in Registries /\ main[x].harnesses \in Rosters
  BY TreeIs DEF TypeOK
<1>2. EditRegistry(main[i].registry, a) \in Registries
  BY <1>1, EditRegistryIs
<1>3. EditsRoster(main[j].harnesses, a) => EditRoster(main[j].harnesses, a) \in Rosters
  BY <1>1, EditRosterIs
<1>4. Edited(main, a, i, j, k) \in Trees
  BY <1>1, <1>2, <1>3 DEF Edited, Trees
<1>5. a.type = "harness" => EditRegistry(main[k].registry, a) = main[k].registry
  BY DEF EditRegistry
<1>6. Edited(main, a, k, k, k) = Apply(main[k], a)
  BY <1>5 DEF Edited, Apply
<1> QED BY <1>4, <1>6

(***************************************************************************)
(* What a step leaves alone.                                               *)
(***************************************************************************)
LEMMA MainIs ==
  ASSUME TypeOK
  PROVE  /\ Len(main) \in Nat /\ Len(main) >= 1 /\ Len(main) \in 1 .. MaxMain
         /\ \A k \in 1 .. Len(main) : main[k] \in Trees
         /\ Tip \in Trees /\ Tip.registry \in Registries /\ Tip.harnesses \in Rosters
         /\ Len(main) \in 1 .. Len(main)
<1>1. main \in Seq(Trees) /\ Len(main) \in 1 .. MaxMain /\ MaxMain \in Nat
  BY BoundAssumption DEF TypeOK
<1>2. Len(main) \in Nat /\ Len(main) >= 1 /\ Len(main) \in 1 .. Len(main)
  BY <1>1
<1>3. \A k \in 1 .. Len(main) : main[k] \in Trees
  BY <1>1
<1>4. Tip \in Trees
  BY <1>2, <1>3 DEF Tip
<1> QED BY <1>1, <1>2, <1>3, <1>4, TreeIs

\* The commits of main stay, and main may get one more.
MainKept ==
  /\ Len(main') \in Nat /\ Len(main) <= Len(main')
  /\ \A k \in 1 .. Len(main) : main'[k] = main[k]

LEMMA MainAppended ==
  ASSUME TypeOK, NEW t \in Trees, main' = Append(main, t), Len(main) < MaxMain
  PROVE  /\ MainKept /\ Tip' = t
         /\ main' \in Seq(Trees) /\ Len(main)' \in 1 .. MaxMain
<1>1. main \in Seq(Trees) /\ Len(main) \in Nat /\ MaxMain \in Nat
  BY MainIs, BoundAssumption DEF TypeOK
<1>2. main' \in Seq(Trees) /\ Len(main') = Len(main) + 1 /\ main'[Len(main) + 1] = t
      /\ \A k \in 1 .. Len(main) : main'[k] = main[k]
  BY <1>1
<1> QED BY <1>1, <1>2 DEF MainKept, Tip

LEMMA MainSame ==
  ASSUME TypeOK, main' = main
  PROVE  MainKept
  BY MainIs DEF MainKept

LEMMA AdditionsStay ==
  ASSUME TypeOK, MainKept, NEW a, AdditionsKnown(a)
  PROVE  AdditionsKnown(a)'
<1> SUFFICES ASSUME a.type = "harness"
             PROVE  \E k \in 1 .. Len(main') : a.add \subseteq Listed(main'[k])
  BY DEF AdditionsKnown
<1>1. PICK k \in 1 .. Len(main) : a.add \subseteq Listed(main[k])
  BY DEF AdditionsKnown
<1>2. k \in 1 .. Len(main') /\ main'[k] = main[k]
  BY MainIs DEF MainKept
<1> QED BY <1>1, <1>2

LEMMA ActStays ==
  ASSUME TypeOK, MainKept, NEW r \in Requests, AdditionsKnown(act[r]), act'[r] = act[r]
  PROVE  AdditionsKnown(act[r])'
<1>1. PICK a : a = act[r]
  OBVIOUS
<1>2. AdditionsKnown(a)'
  BY <1>1, AdditionsStay
<1> QED BY <1>1, <1>2

LEMMA HoldsStays ==
  ASSUME TypeOK, MainKept, NEW b \in Branches, NEW a, branch[b] # Nothing,
         branch[b].base \in 1 .. Len(main), branch'[b] = branch[b], Holds(b, a)
  PROVE  Holds(b, a)'
<1>1. PICK i \in branch[b].since .. branch[b].base : \E j \in i .. branch[b].base :
        /\ Accepts(main[i].registry, a)
        /\ branch[b].tree = Edited(main, a, i, j, branch[b].base)
  BY DEF Holds
<1>2. PICK j \in i .. branch[b].base :
        /\ Accepts(main[i].registry, a)
        /\ branch[b].tree = Edited(main, a, i, j, branch[b].base)
  BY <1>1
<1> DEFINE k == branch[b].base
<1>3. branch[b].since \in 1 .. MaxMain /\ Len(main) \in Nat
  <2>1. branch[b] \in Heads
    BY DEF TypeOK
  <2> QED BY <2>1, MainIs DEF Heads
<1>4. i \in 1 .. Len(main) /\ j \in 1 .. Len(main) /\ k \in 1 .. Len(main)
  BY <1>3, BoundAssumption
<1>5. main'[i] = main[i] /\ main'[j] = main[j] /\ main'[k] = main[k]
  BY <1>4 DEF MainKept
<1>6. Edited(main, a, i, j, k)' = Edited(main, a, i, j, k)
  BY <1>5 DEF Edited
<1> QED BY <1>2, <1>5, <1>6 DEF Holds

\* The variables of request s.
Keeps(s) ==
  /\ step'[s] = step[s] /\ act'[s] = act[s]
  /\ registry'[s] = registry[s] /\ roster'[s] = roster[s]
  /\ base'[s] = base[s] /\ since'[s] = since[s]

LEMMA ReadsStay ==
  ASSUME TypeOK, NEW r \in Requests, MainKept, Reads(r), Keeps(r)
  PROVE  Reads(r)'
<1>1. since[r] \in Nat /\ base[r] \in Nat /\ Len(main) \in Nat /\ since[r] >= 1
  BY MainIs, BoundAssumption DEF TypeOK
<1>2. step[r] # "idle" => act[r] \in Asked /\ AdditionsKnown(act[r])'
  BY ActStays DEF Reads, Keeps
<1>3. RegistryRead(r) => RegistryRead(r)'
  BY <1>1 DEF RegistryRead, Keeps, MainKept
<1>4. ASSUME NEW n \in Nat, n <= Len(main), RosterRead(r, n) PROVE RosterRead(r, n)'
  <2>1. PICK j \in since[r] .. n :
          act[r].type \in {"harness", "default"} => roster[r] = main[j].harnesses
    BY <1>4 DEF RosterRead
  <2>2. main'[j] = main[j]
    BY <1>1, <1>4, <2>1 DEF MainKept
  <2> QED BY <2>1, <2>2 DEF RosterRead, Keeps
<1>5. RosterRead(r, Len(main)) => RosterRead(r, Len(main))'
  <2> SUFFICES ASSUME RosterRead(r, Len(main)) PROVE RosterRead(r, Len(main))'
    OBVIOUS
  <2>1. PICK j \in since[r] .. Len(main) :
          act[r].type \in {"harness", "default"} => roster[r] = main[j].harnesses
    BY DEF RosterRead
  <2>2. main'[j] = main[j] /\ j \in since[r] .. Len(main')
    BY <1>1, <2>1 DEF MainKept
  <2> QED BY <2>1, <2>2 DEF RosterRead, Keeps
<1>6. step[r] \in Based => base[r] \in 1 .. Len(main') /\ RosterRead(r, base[r])'
  <2> SUFFICES ASSUME step[r] \in Based PROVE base[r] \in 1 .. Len(main') /\ RosterRead(r, base[r])'
    OBVIOUS
  <2>1. base[r] \in 1 .. Len(main) /\ RosterRead(r, base[r])
    BY DEF Reads
  <2>2. PICK j \in since[r] .. base[r] :
          act[r].type \in {"harness", "default"} => roster[r] = main[j].harnesses
    BY <2>1 DEF RosterRead
  <2>3. main'[j] = main[j]
    BY <1>1, <2>1, <2>2 DEF MainKept
  <2>4. base[r] \in 1 .. Len(main')
    BY <1>1, <2>1 DEF MainKept
  <2> QED BY <2>2, <2>3, <2>4 DEF RosterRead, Keeps
<1> QED BY <1>2, <1>3, <1>5, <1>6 DEF Reads, Keeps

\* A branch that nobody touches: no request starts to write to it or goes on.
LEMMA BuiltStays ==
  ASSUME TypeOK, MainKept, NEW b \in Branches, Built(b),
         branch'[b] = branch[b], pr'[b] = pr[b], b \notin cut' => b \notin cut,
         \A r \in Requests : Writes(r, b)' => Writes(r, b) /\ step'[r] = step[r] /\ act'[r] = act[r]
  PROVE  Built(b)'
<1>1. branch[b] # Nothing => branch[b].base \in 1 .. Len(main')
  BY MainIs DEF Built, MainKept
<1>2. ASSUME branch[b] # Nothing, branch[b].ahead
      PROVE  \E a \in Asked :
               /\ IsAction(b, a)'
               /\ b \notin cut' => /\ pr'[b] # Nothing => pr'[b] = a
                                   /\ \A r \in Requests : Writes(r, b)' => act'[r] = a
  <2>1. PICK a \in Asked :
          /\ IsAction(b, a)
          /\ b \notin cut => /\ pr[b] # Nothing => pr[b] = a
                             /\ \A r \in Requests : Writes(r, b) => act[r] = a
    BY <1>2 DEF Built
  <2>2. AdditionsKnown(a)'
    BY <2>1, AdditionsStay DEF IsAction
  <2>3. Holds(b, a)'
    BY <1>2, <2>1, HoldsStays DEF IsAction, Built
  <2> QED BY <2>1, <2>2, <2>3 DEF IsAction
<1>3. b \notin cut' => OneWriter(b)'
  BY DEF Built, OneWriter
<1> QED BY <1>1, <1>2, <1>3 DEF Built

(***************************************************************************)
(* The requests.                                                           *)
(***************************************************************************)
\* Only request r moves, and what the hub has of branches it does not write to stays.
Alone(r) ==
  /\ main' = main /\ cut' = cut
  /\ \A s \in Requests \ {r} : Keeps(s)

LEMMA OthersWrite ==
  ASSUME NEW r \in Requests, NEW b, Alone(r), ~Writes(r, b)'
  PROVE  \A s \in Requests :
           Writes(s, b)' => Writes(s, b) /\ step'[s] = step[s] /\ act'[s] = act[s]
  BY DEF Alone, Keeps, Writes, Target

\* A step of a request that changes nothing on the hub.
LEMMA CallKeeps ==
  ASSUME GitopsInv, NEW r \in Requests, TypeOK', Alone(r), branch' = branch, pr' = pr,
         Reads(r)', step'[r] \notin {"commit", "open"}
  PROVE  GitopsInv'
<1>1. TypeOK /\ MainKept
  BY MainSame DEF GitopsInv, Alone
<1>2. \A s \in Requests : Reads(s)'
  BY <1>1, ReadsStay DEF Alone, GitopsInv
<1>3. \A b \in Branches : ~Writes(r, b)'
  BY DEF Writes
<1>4. \A b \in Branches : Built(b)'
  BY <1>1, <1>3, OthersWrite, BuiltStays DEF GitopsInv, Alone
<1> QED BY <1>2, <1>4 DEF GitopsInv

\* The next step of request r, when nothing else of it changes but what is named.
LEMMA GotoIs ==
  ASSUME TypeOK, NEW r \in Requests, NEW s \in StepNames, Goto(r, s)
  PROVE  /\ step' \in [Requests -> StepNames] /\ step'[r] = s
         /\ \A q \in Requests \ {r} : step'[q] = step[q]
  BY DEF Goto, TypeOK

LEMMA ForgetIs ==
  ASSUME TypeOK, NEW r \in Requests, Forget(r), main' = main, cut' = cut, faults' \in Nat,
         branch' \in [Branches -> Heads \union {Nothing}],
         pr' \in [Branches -> Acts \union {Nothing}]
  PROVE  TypeOK' /\ Alone(r) /\ Reads(r)' /\ step'[r] = "idle"
<1>1. /\ step' = [step EXCEPT ![r] = "idle"] /\ act' = [act EXCEPT ![r] = Nothing]
      /\ registry' = [registry EXCEPT ![r] = NoRegistry] /\ roster' = [roster EXCEPT ![r] = NoRoster]
      /\ base' = [base EXCEPT ![r] = 1] /\ since' = [since EXCEPT ![r] = 1]
  BY DEF Forget, ForgetFiles, Goto
<1>2. NoRegistry \in Registries /\ NoRoster \in Rosters /\ 1 \in 1 .. MaxMain
  BY BoundAssumption DEF NoRegistry, NoRoster, Registries, Rosters
<1>3. step' \in [Requests -> StepNames] /\ act' \in [Requests -> Acts \union {Nothing}]
  BY <1>1 DEF TypeOK, StepNames
<1>4. registry' \in [Requests -> Registries] /\ roster' \in [Requests -> Rosters]
      /\ base' \in [Requests -> 1 .. MaxMain] /\ since' \in [Requests -> 1 .. MaxMain]
  BY <1>1, <1>2 DEF TypeOK
<1>5. TypeOK'
  BY <1>3, <1>4 DEF TypeOK
<1>6. Alone(r) /\ step'[r] = "idle"
  BY <1>1 DEF Alone, Keeps, TypeOK
<1> QED BY <1>5, <1>6 DEF Reads, Rested, Based

LEMMA ForgetKeeps ==
  ASSUME GitopsInv, NEW r \in Requests, Forget(r), UNCHANGED hubVars, faults' \in Nat
  PROVE  GitopsInv'
<1>1. TypeOK /\ UNCHANGED <<main, branch, pr, cut>>
  BY DEF GitopsInv, hubVars
<1>2. TypeOK' /\ Alone(r) /\ Reads(r)' /\ step'[r] = "idle"
  BY <1>1, ForgetIs DEF TypeOK
<1> QED BY <1>1, <1>2, CallKeeps

LEMMA StartKeeps ==
  ASSUME GitopsInv, NEW r \in Requests, NEW a \in Asked, StartRequest(r, a)
  PROVE  GitopsInv'
<1>1. TypeOK /\ a \in Acts /\ AdditionsKnown(a)
  BY FirstAssumption DEF GitopsInv, StartRequest
<1>2. /\ act' = [act EXCEPT ![r] = a] /\ Goto(r, "find")
      /\ UNCHANGED <<main, branch, pr, cut, faults, registry, roster, base, since>>
  BY DEF StartRequest, hubVars, readVars
<1>3. step' \in [Requests -> StepNames] /\ step'[r] = "find"
      /\ \A q \in Requests \ {r} : step'[q] = step[q]
  BY <1>1, <1>2, GotoIs DEF StepNames
<1>4. act' \in [Requests -> Acts \union {Nothing}] /\ act'[r] = a
      /\ \A q \in Requests \ {r} : act'[q] = act[q]
  BY <1>1, <1>2 DEF TypeOK
<1>5. TypeOK'
  BY <1>1, <1>2, <1>3, <1>4 DEF TypeOK
<1>6. Alone(r)
  BY <1>2, <1>3, <1>4 DEF Alone, Keeps
<1>7. AdditionsKnown(a)'
  BY <1>1, <1>2, MainSame, AdditionsStay
<1>8. Reads(r)'
  BY <1>3, <1>4, <1>7 DEF Reads, Rested, Based
<1> QED BY <1>2, <1>3, <1>5, <1>6, <1>8, CallKeeps

LEMMA FindKeeps ==
  ASSUME GitopsInv, NEW r \in Requests, FindOpenPR(r)
  PROVE  GitopsInv'
<1>1. TypeOK /\ step[r] = "find" /\ UNCHANGED <<hubVars, faults>> /\ Reads(r)
      /\ act[r] \in Acts /\ AdditionsKnown(act[r])
  BY FirstAssumption DEF GitopsInv, FindOpenPR, Reads
<1>2. CASE Forget(r)
  BY <1>1, <1>2, ForgetKeeps DEF TypeOK
<1>3. CASE ~Forget(r)
  <2> DEFINE to == IF act[r].type = "harness" THEN "harnesses" ELSE "registry"
  <2>1. Goto(r, to) /\ UNCHANGED <<act, registry, roster, base, since>>
    BY <1>3 DEF FindOpenPR, readVars
  <2>2. to \in StepNames
    BY DEF StepNames
  <2>3. step' \in [Requests -> StepNames] /\ step'[r] = to
        /\ \A q \in Requests \ {r} : step'[q] = step[q]
    BY <1>1, <2>1, <2>2, GotoIs
  <2>4. TypeOK' /\ Alone(r) /\ branch' = branch /\ pr' = pr /\ main' = main
    BY <1>1, <2>1, <2>3 DEF TypeOK, Alone, Keeps, hubVars
  <2>5. AdditionsKnown(act[r])'
    BY <1>1, <2>1, <2>4, MainSame, ActStays
  <2>6. Reads(r)'
    BY <1>1, <2>1, <2>3, <2>5 DEF Reads, Rested, Based
  <2> QED BY <2>3, <2>4, <2>6, CallKeeps
<1> QED BY <1>2, <1>3

LEMMA RegistryKeeps ==
  ASSUME GitopsInv, NEW r \in Requests, GetRegistry(r)
  PROVE  GitopsInv'
<1>1. TypeOK /\ step[r] = "registry" /\ UNCHANGED <<hubVars, faults>> /\ Reads(r)
      /\ act[r] \in Asked /\ act[r] \in Acts /\ AdditionsKnown(act[r]) /\ act[r].type # "harness"
  BY FirstAssumption DEF GitopsInv, GetRegistry, Reads
<1>2. CASE Forget(r)
  BY <1>1, <1>2, ForgetKeeps DEF TypeOK
<1>3. CASE ~Forget(r)
  <2> DEFINE to == IF act[r].type = "default" THEN "harnesses" ELSE "tip"
  <2>1. /\ Goto(r, to) /\ UNCHANGED <<act, roster, base>> /\ Accepts(Tip.registry, act[r])
        /\ registry' = [registry EXCEPT ![r] = Tip.registry]
        /\ since' = [since EXCEPT ![r] = Len(main)]
    BY <1>3 DEF GetRegistry
  <2>2. to \in StepNames
    BY DEF StepNames
  <2>3. step' \in [Requests -> StepNames] /\ step'[r] = to
        /\ \A q \in Requests \ {r} : step'[q] = step[q]
    BY <1>1, <2>1, <2>2, GotoIs
  <2>4. Len(main) \in 1 .. MaxMain /\ Tip.registry \in Registries /\ Len(main) \in 1 .. Len(main)
        /\ Len(main) \in Nat
    BY <1>1, MainIs
  <2>5. registry' \in [Requests -> Registries] /\ since' \in [Requests -> 1 .. MaxMain]
        /\ registry'[r] = Tip.registry /\ since'[r] = Len(main)
        /\ \A q \in Requests \ {r} : registry'[q] = registry[q] /\ since'[q] = since[q]
    BY <1>1, <2>1, <2>4 DEF TypeOK
  <2>6. TypeOK' /\ Alone(r) /\ branch' = branch /\ pr' = pr /\ main' = main
    BY <1>1, <2>1, <2>3, <2>5 DEF TypeOK, Alone, Keeps, hubVars
  <2>7. AdditionsKnown(act[r])'
    BY <1>1, <2>1, <2>6, MainSame, ActStays
  <2>8. RegistryRead(r)'
    BY <2>1, <2>4, <2>5, <2>6 DEF RegistryRead, Tip
  <2>9. act[r].type # "default" => RosterRead(r, Len(main))'
    <3> SUFFICES ASSUME act[r].type # "default" PROVE RosterRead(r, Len(main))'
      OBVIOUS
    <3>1. Len(main) \in since'[r] .. Len(main')
      BY <2>4, <2>5, <2>6
    <3>2. ~(act'[r].type \in {"harness", "default"})
      BY <1>1, <2>1
    <3> QED BY <3>1, <3>2 DEF RosterRead
  <2>10. Reads(r)'
    BY <1>1, <2>1, <2>3, <2>7, <2>8, <2>9 DEF Reads, Rested, Based
  <2> QED BY <2>3, <2>6, <2>10, CallKeeps
<1> QED BY <1>2, <1>3

LEMMA HarnessesKeeps ==
  ASSUME GitopsInv, NEW r \in Requests, GetHarnesses(r)
  PROVE  GitopsInv'
<1>1. TypeOK /\ step[r] = "harnesses" /\ UNCHANGED <<hubVars, faults>> /\ Reads(r)
      /\ act[r] \in Asked /\ AdditionsKnown(act[r]) /\ act[r].type \in {"harness", "default"}
      /\ (act[r].type = "default" => RegistryRead(r))
  BY DEF GitopsInv, GetHarnesses, Reads
<1>2. /\ Goto(r, "tip") /\ UNCHANGED <<act, registry, base>>
      /\ roster' = [roster EXCEPT ![r] = Tip.harnesses]
      /\ since' = [since EXCEPT ![r] = IF act[r].type = "harness" THEN Len(main) ELSE @]
  BY DEF GetHarnesses
<1>3. step' \in [Requests -> StepNames] /\ step'[r] = "tip"
      /\ \A q \in Requests \ {r} : step'[q] = step[q]
  BY <1>1, <1>2, GotoIs DEF StepNames
<1>4. Len(main) \in 1 .. MaxMain /\ Tip.harnesses \in Rosters /\ Len(main) \in 1 .. Len(main)
      /\ Len(main) \in Nat
  BY <1>1, MainIs
<1>5. roster' \in [Requests -> Rosters] /\ since' \in [Requests -> 1 .. MaxMain]
      /\ roster'[r] = Tip.harnesses
      /\ since'[r] = (IF act[r].type = "harness" THEN Len(main) ELSE since[r])
      /\ \A q \in Requests \ {r} : roster'[q] = roster[q] /\ since'[q] = since[q]
  BY <1>1, <1>2, <1>4 DEF TypeOK
<1>6. TypeOK' /\ Alone(r) /\ branch' = branch /\ pr' = pr /\ main' = main
  BY <1>1, <1>2, <1>3, <1>5 DEF TypeOK, Alone, Keeps, hubVars
<1>7. AdditionsKnown(act[r])'
  BY <1>1, <1>2, <1>6, MainSame, ActStays
<1>8. RegistryRead(r)'
  BY <1>1, <1>2, <1>4, <1>5, <1>6 DEF RegistryRead
<1>9. RosterRead(r, Len(main))'
  <2>1. since'[r] \in 1 .. Len(main)
    BY <1>6, <1>8 DEF RegistryRead
  <2>2. Len(main) \in since'[r] .. Len(main') /\ roster'[r] = main'[Len(main)].harnesses
    BY <1>4, <1>5, <1>6, <2>1 DEF Tip
  <2> QED BY <2>2 DEF RosterRead
<1>10. Reads(r)'
  BY <1>1, <1>2, <1>3, <1>7, <1>8, <1>9 DEF Reads, Rested, Based
<1> QED BY <1>3, <1>6, <1>10, CallKeeps

LEMMA TipKeeps ==
  ASSUME GitopsInv, NEW r \in Requests, DefaultBranchSHA(r)
  PROVE  GitopsInv'
<1>1. TypeOK /\ step[r] = "tip" /\ UNCHANGED <<hubVars, faults>> /\ Reads(r)
      /\ act[r] \in Asked /\ AdditionsKnown(act[r])
      /\ RegistryRead(r) /\ RosterRead(r, Len(main))
  BY DEF GitopsInv, DefaultBranchSHA, Reads, Rested
<1>2. Goto(r, "exists") /\ UNCHANGED <<act, registry, roster, since>>
      /\ base' = [base EXCEPT ![r] = Len(main)]
  BY DEF DefaultBranchSHA
<1>3. step' \in [Requests -> StepNames] /\ step'[r] = "exists"
      /\ \A q \in Requests \ {r} : step'[q] = step[q]
  BY <1>1, <1>2, GotoIs DEF StepNames
<1>4. Len(main) \in 1 .. MaxMain /\ Len(main) \in 1 .. Len(main)
  BY <1>1, MainIs
<1>5. base' \in [Requests -> 1 .. MaxMain] /\ base'[r] = Len(main)
      /\ \A q \in Requests \ {r} : base'[q] = base[q]
  BY <1>1, <1>2, <1>4 DEF TypeOK
<1>6. TypeOK' /\ Alone(r) /\ branch' = branch /\ pr' = pr /\ main' = main
  BY <1>1, <1>2, <1>3, <1>5 DEF TypeOK, Alone, Keeps, hubVars
<1>7. AdditionsKnown(act[r])'
  BY <1>1, <1>2, <1>6, MainSame, ActStays
<1>8. RegistryRead(r)'
  BY <1>1, <1>2, <1>6 DEF RegistryRead
<1>9. RosterRead(r, base[r])'
  BY <1>1, <1>2, <1>5, <1>6 DEF RosterRead
<1>10. Reads(r)'
  BY <1>1, <1>2, <1>3, <1>4, <1>5, <1>6, <1>7, <1>8, <1>9 DEF Reads, Rested, Based
<1> QED BY <1>3, <1>6, <1>10, CallKeeps

\* A request that has its base and goes on holds what it held.
LEMMA BasedStays ==
  ASSUME GitopsInv, NEW r \in Requests, step[r] \in {"exists", "create"},
         step'[r] \in {"create", "commit"}, UNCHANGED <<main, act, readVars>>
  PROVE  Reads(r)'
<1>1. TypeOK /\ act[r] \in Asked /\ AdditionsKnown(act[r])
      /\ RegistryRead(r) /\ base[r] \in 1 .. Len(main) /\ RosterRead(r, base[r])
  BY DEF GitopsInv, Reads, Rested, Based
<1>2. AdditionsKnown(act[r])'
  BY <1>1, MainSame, ActStays
<1>3. RegistryRead(r)' /\ RosterRead(r, base[r])'
  BY <1>1 DEF RegistryRead, RosterRead, readVars
<1> QED BY <1>1, <1>2, <1>3 DEF Reads, Rested, Based, readVars

LEMMA ExistsKeeps ==
  ASSUME GitopsInv, NEW r \in Requests, BranchExists(r)
  PROVE  GitopsInv'
<1>1. TypeOK /\ step[r] = "exists" /\ UNCHANGED <<hubVars, faults>>
  BY DEF GitopsInv, BranchExists
<1>2. CASE Forget(r)
  BY <1>1, <1>2, ForgetKeeps DEF TypeOK
<1>3. CASE ~Forget(r)
  <2>1. Goto(r, "create") /\ UNCHANGED <<act, registry, roster, base, since>>
    BY <1>3 DEF BranchExists, readVars
  <2>2. step' \in [Requests -> StepNames] /\ step'[r] = "create"
        /\ \A q \in Requests \ {r} : step'[q] = step[q]
    BY <1>1, <2>1, GotoIs DEF StepNames
  <2>3. TypeOK' /\ Alone(r) /\ branch' = branch /\ pr' = pr /\ main' = main
    BY <1>1, <2>1, <2>2 DEF TypeOK, Alone, Keeps, hubVars
  <2>4. Reads(r)'
    BY <1>1, <2>1, <2>2, <2>3, BasedStays DEF readVars
  <2> QED BY <2>2, <2>3, <2>4, CallKeeps
<1> QED BY <1>2, <1>3

\* A step of request r that changes its own branch, and may open its pull request.
LEMMA WriteKeeps ==
  ASSUME GitopsInv, NEW r \in Requests, NEW b \in Branches, TypeOK', Alone(r), Reads(r)',
         \A d \in Branches \ {b} : branch'[d] = branch[d] /\ pr'[d] = pr[d] /\ ~Writes(r, d)',
         Built(b)'
  PROVE  GitopsInv'
<1>1. TypeOK /\ MainKept
  BY MainSame DEF GitopsInv, Alone
<1>2. \A s \in Requests : Reads(s)'
  BY <1>1, ReadsStay DEF Alone, GitopsInv
<1>3. \A d \in Branches \ {b} : Built(d)'
  BY <1>1, OthersWrite, BuiltStays DEF GitopsInv, Alone
<1> QED BY <1>2, <1>3 DEF GitopsInv

LEMMA CreateKeeps ==
  ASSUME GitopsInv, NEW r \in Requests, CreateBranch(r)
  PROVE  GitopsInv'
<1>1. /\ TypeOK /\ step[r] = "create" /\ UNCHANGED <<main, pr, cut, faults>>
      /\ act[r] \in Asked /\ act[r] \in Acts /\ base[r] \in 1 .. Len(main)
  BY FirstAssumption DEF GitopsInv, CreateBranch, Reads, Based
<1>2. CASE Forget(r) /\ branch' = branch
  BY <1>1, <1>2, ForgetKeeps DEF TypeOK, hubVars
<1>3. CASE ~(Forget(r) /\ branch' = branch)
  <2> PICK b \in Branches : b = Target(r)
    BY <1>1, ActIs DEF Target
  <2> DEFINE new == [since |-> base[r], base |-> base[r], tree |-> main[base[r]], ahead |-> FALSE]
  <2>1. /\ branch[b] = Nothing /\ branch' = [branch EXCEPT ![b] = new]
        /\ Goto(r, "commit") /\ UNCHANGED <<act, registry, roster, base, since>>
    BY <1>3 DEF CreateBranch, readVars
  <2>2. b \in Branches
    OBVIOUS
  <2>3. new \in Heads /\ new # Nothing /\ new.base = base[r] /\ ~new.ahead
    <3>1. main[base[r]] \in Trees /\ base[r] \in 1 .. MaxMain
      BY <1>1, MainIs DEF TypeOK
    <3>2. new \in Heads
      BY <3>1 DEF Heads
    <3> QED BY <3>2, NothingAssumption
  <2>4. step' \in [Requests -> StepNames] /\ step'[r] = "commit"
        /\ \A q \in Requests \ {r} : step'[q] = step[q]
    BY <1>1, <2>1, GotoIs DEF StepNames
  <2>5. Target(r)' = b /\ \A d : ~(d = b) => ~Writes(r, d)'
    BY <2>1 DEF Target, Writes
  <2> HIDE DEF new
  <2>6. branch' \in [Branches -> Heads \union {Nothing}] /\ branch'[b] = new
        /\ \A d \in Branches \ {b} : branch'[d] = branch[d]
    BY <1>1, <2>1, <2>2, <2>3 DEF TypeOK
  <2>7. TypeOK' /\ Alone(r) /\ main' = main
    BY <1>1, <2>1, <2>4, <2>6 DEF TypeOK, Alone, Keeps
  <2>8. Reads(r)'
    BY <1>1, <2>1, <2>4, BasedStays DEF readVars
  <2>9. pr[b] = Nothing
    BY <2>1, <2>2 DEF GitopsInv, Built
  <2>10. b \notin cut => OneWriter(b)'
    <3> SUFFICES ASSUME b \notin cut PROVE OneWriter(b)'
      OBVIOUS
    <3>1. \A s \in Requests : ~Writes(s, b)
      BY <2>1, <2>2 DEF GitopsInv, Built, OneWriter
    <3>2. \A s \in Requests \ {r} : ~Writes(s, b)'
      BY <2>7, <3>1 DEF Alone, Keeps, Writes, Target
    <3> QED BY <1>1, <2>3, <2>4, <2>6, <2>9, <3>2 DEF OneWriter
  <2>11. Built(b)'
    BY <1>1, <2>3, <2>6, <2>9, <2>10 DEF Built
  <2> QED BY <1>1, <2>2, <2>5, <2>6, <2>7, <2>8, <2>11, WriteKeeps
<1> QED BY <1>2, <1>3 DEF CreateBranch

\* What a request commits is its action, as it read it.
LEMMA CommitTreeIs ==
  ASSUME GitopsInv, NEW r \in Requests, step[r] = "commit"
  PROVE  /\ CommitTree(r) \in Trees
         /\ \E i \in since[r] .. base[r] : \E j \in i .. base[r] :
              /\ Accepts(main[i].registry, act[r])
              /\ CommitTree(r) = Edited(main, act[r], i, j, base[r])
<1>1. /\ TypeOK /\ act[r] \in Asked /\ act[r] \in Acts
      /\ RegistryRead(r) /\ base[r] \in 1 .. Len(main) /\ RosterRead(r, base[r])
  BY FirstAssumption DEF GitopsInv, Reads, Rested, Based
<1>2. PICK j \in since[r] .. base[r] :
        act[r].type \in {"harness", "default"} => roster[r] = main[j].harnesses
  BY <1>1 DEF RosterRead
<1> DEFINE i == since[r]
<1>3. i \in 1 .. Len(main) /\ j \in 1 .. Len(main) /\ i \in since[r] .. base[r]
      /\ j \in i .. base[r] /\ Len(main) \in Nat
  <2>1. i \in 1 .. Len(main) /\ Len(main) \in Nat
    BY <1>1, MainIs DEF RegistryRead
  <2> QED BY <1>1, <1>2, <2>1
<1>4. Accepts(main[i].registry, act[r])
  <2>1. act[r].type # "harness" => Accepts(main[i].registry, act[r])
    BY <1>1 DEF RegistryRead
  <2>2. act[r].type = "harness" => Accepts(main[i].registry, act[r])
    BY DEF Accepts
  <2> QED BY <2>1, <2>2
<1>5. CommitTree(r) = Edited(main, act[r], i, j, base[r])
  <2>1. act[r].type # "harness" => registry[r] = main[i].registry
    BY <1>1 DEF RegistryRead
  <2>2. /\ EditsRoster(roster[r], act[r]) <=> EditsRoster(main[j].harnesses, act[r])
        /\ EditsRoster(roster[r], act[r]) => roster[r] = main[j].harnesses
    BY <1>2 DEF EditsRoster
  <2> QED BY <2>1, <2>2 DEF CommitTree, Edited
<1>6. Edited(main, act[r], i, j, base[r]) \in Trees
  BY <1>1, <1>3, <1>4, EditedIs
<1> QED BY <1>3, <1>4, <1>5, <1>6

LEMMA CommitKeeps ==
  ASSUME GitopsInv, NEW r \in Requests, CommitFiles(r)
  PROVE  GitopsInv'
<1>1. /\ TypeOK /\ step[r] = "commit" /\ UNCHANGED <<main, pr, cut, faults>>
      /\ act[r] \in Asked /\ act[r] \in Acts /\ AdditionsKnown(act[r])
      /\ base[r] \in 1 .. Len(main) /\ since[r] \in 1 .. MaxMain
  BY FirstAssumption DEF GitopsInv, CommitFiles, Reads, Based, TypeOK
<1>2. CASE Forget(r) /\ branch' = branch
  BY <1>1, <1>2, ForgetKeeps DEF TypeOK, hubVars
<1>3. CASE ~(Forget(r) /\ branch' = branch)
  <2> PICK b \in Branches : b = Target(r)
    BY <1>1, ActIs DEF Target
  <2> DEFINE new == [since |-> since[r], base |-> base[r], tree |-> CommitTree(r), ahead |-> TRUE]
  <2>1. /\ FastForwards(b, base[r]) /\ branch' = [branch EXCEPT ![b] = new]
        /\ Goto(r, "open") /\ UNCHANGED act /\ ForgetFiles(r)
    BY <1>3 DEF CommitFiles
  <2>2. b \in Branches /\ BranchOf(act[r]) = b
    BY DEF Target
  <2>3. branch[b] # Nothing /\ ~branch[b].ahead
    BY <2>1 DEF FastForwards
  <2>4. new \in Heads /\ new # Nothing
    <3>1. CommitTree(r) \in Trees /\ base[r] \in 1 .. MaxMain
      BY <1>1, CommitTreeIs DEF TypeOK
    <3>2. new \in Heads
      BY <1>1, <3>1 DEF Heads
    <3> QED BY <3>2, NothingAssumption
  <2>5. step' \in [Requests -> StepNames] /\ step'[r] = "open"
        /\ \A q \in Requests \ {r} : step'[q] = step[q]
    BY <1>1, <2>1, GotoIs DEF StepNames
  <2>6. Target(r)' = b /\ \A d : ~(d = b) => ~Writes(r, d)'
    BY <2>1 DEF Target, Writes
  <2>7. new.base = base[r] /\ new.since = since[r] /\ new.tree = CommitTree(r) /\ new.ahead
    OBVIOUS
  <2>8. Writes(r, b)
    BY <1>1 DEF Writes
  <2> HIDE DEF new
  <2>9. branch' \in [Branches -> Heads \union {Nothing}] /\ branch'[b] = new
        /\ \A d \in Branches \ {b} : branch'[d] = branch[d]
    BY <1>1, <2>1, <2>2, <2>4 DEF TypeOK
  <2>10. TypeOK' /\ Alone(r) /\ main' = main
    <3>1. NoRegistry \in Registries /\ NoRoster \in Rosters /\ 1 \in 1 .. MaxMain
      BY BoundAssumption DEF NoRegistry, NoRoster, Registries, Rosters
    <3>2. /\ registry' = [registry EXCEPT ![r] = NoRegistry]
          /\ roster' = [roster EXCEPT ![r] = NoRoster]
          /\ base' = [base EXCEPT ![r] = 1] /\ since' = [since EXCEPT ![r] = 1]
      BY <2>1 DEF ForgetFiles
    <3>3. registry' \in [Requests -> Registries] /\ roster' \in [Requests -> Rosters]
          /\ base' \in [Requests -> 1 .. MaxMain] /\ since' \in [Requests -> 1 .. MaxMain]
      BY <1>1, <3>1, <3>2 DEF TypeOK
    <3>4. TypeOK'
      BY <1>1, <2>1, <2>5, <2>9, <3>3 DEF TypeOK
    <3>5. Alone(r)
      BY <1>1, <2>1, <2>5, <3>2 DEF Alone, Keeps, TypeOK
    <3> QED BY <1>1, <3>4, <3>5
  <2>11. AdditionsKnown(act[r])'
    BY <1>1, <2>1, MainSame, ActStays
  <2>12. Reads(r)'
    BY <1>1, <2>1, <2>5, <2>11 DEF Reads, Rested, Based
  <2>13. pr[b] = Nothing
    BY <2>2, <2>3 DEF GitopsInv, Built
  <2>14. ASSUME b \notin cut PROVE \A s \in Requests : Writes(s, b)' => s = r
    <3>1. \A s \in Requests : Writes(s, b) => s = r
      BY <2>2, <2>8, <2>14 DEF GitopsInv, Built, OneWriter
    <3> QED BY <2>10, <3>1 DEF Alone, Keeps, Writes, Target
  <2>15. PICK a \in Asked : a = act[r]
    BY <1>1
  <2>16. AdditionsKnown(a)' /\ act'[r] = a /\ BranchOf(a) = b
    BY <2>1, <2>2, <2>11, <2>15 DEF AdditionsKnown
  <2>17. Holds(b, a)'
    BY <1>1, <2>7, <2>9, <2>15, CommitTreeIs DEF Holds
  <2>18. Built(b)'
    <3>1. IsAction(b, a)'
      BY <2>15, <2>16, <2>17 DEF IsAction
    <3>2. branch'[b] # Nothing /\ branch'[b].base \in 1 .. Len(main') /\ branch'[b].ahead
      BY <1>1, <2>4, <2>7, <2>9
    <3>3. b \notin cut => \A s \in Requests : Writes(s, b)' => act'[s] = a
      BY <2>14, <2>16
    <3>4. b \notin cut => OneWriter(b)'
      BY <1>1, <2>5, <2>13, <2>14, <3>2 DEF OneWriter
    <3> QED BY <1>1, <2>13, <2>15, <3>1, <3>2, <3>3, <3>4 DEF Built
  <2> QED BY <1>1, <2>2, <2>6, <2>9, <2>10, <2>12, <2>18, WriteKeeps
<1> QED BY <1>2, <1>3 DEF CommitFiles

LEMMA OpenKeeps ==
  ASSUME GitopsInv, NEW r \in Requests, OpenPR(r)
  PROVE  GitopsInv'
<1>1. /\ TypeOK /\ step[r] = "open" /\ UNCHANGED <<main, branch, cut, faults>> /\ Forget(r)
      /\ act[r] \in Asked /\ act[r] \in Acts /\ act[r] # Nothing
  <2>1. act[r] \in Acts
    BY FirstAssumption DEF GitopsInv, OpenPR, Reads
  <2> QED BY <2>1, ActIs DEF GitopsInv, OpenPR, Reads
<1>2. CASE pr' = pr
  BY <1>1, <1>2, ForgetKeeps DEF TypeOK, hubVars
<1>3. CASE pr' # pr
  <2> PICK b \in Branches : b = Target(r)
    BY <1>1, ActIs DEF Target
  <2>1. /\ pr[b] = Nothing /\ branch[b] # Nothing /\ branch[b].ahead
        /\ pr' = [pr EXCEPT ![b] = act[r]]
    BY <1>3 DEF OpenPR
  <2>2. b \in Branches /\ BranchOf(act[r]) = b
    BY DEF Target
  <2>3. Writes(r, b)
    BY <1>1 DEF Writes
  <2>4. pr' \in [Branches -> Acts \union {Nothing}] /\ pr'[b] = act[r]
        /\ \A d \in Branches \ {b} : pr'[d] = pr[d]
    BY <1>1, <2>1, <2>2 DEF TypeOK
  <2>5. TypeOK' /\ Alone(r) /\ Reads(r)' /\ step'[r] = "idle"
    BY <1>1, <2>4, ForgetIs DEF TypeOK
  <2>6. \A d : ~Writes(r, d)'
    BY <2>5 DEF Writes
  <2>7. ASSUME b \notin cut PROVE \A s \in Requests : ~Writes(s, b)'
    <3>1. \A s \in Requests : Writes(s, b) => s = r
      BY <2>2, <2>3, <2>7 DEF GitopsInv, Built, OneWriter
    <3> QED BY <2>5, <2>6, <3>1 DEF Alone, Keeps, Writes, Target
  <2>8. Built(b)'
    <3>1. Built(b) /\ MainKept
      BY <1>1, <2>2, MainSame DEF GitopsInv
    <3>2. PICK a \in Asked :
            /\ IsAction(b, a)
            /\ b \notin cut => \A s \in Requests : Writes(s, b) => act[s] = a
      BY <2>1, <3>1 DEF Built
    <3>3. IsAction(b, a)'
      <4>1. AdditionsKnown(a)'
        BY <1>1, <3>1, <3>2, AdditionsStay DEF IsAction
      <4>2. Holds(b, a)'
        BY <1>1, <2>1, <2>2, <3>1, <3>2, HoldsStays DEF IsAction, Built
      <4> QED BY <3>2, <4>1, <4>2 DEF IsAction
    <3>4. b \notin cut => pr'[b] = a
      BY <2>3, <2>4, <3>2
    <3>5. b \notin cut => OneWriter(b)'
      BY <2>7 DEF OneWriter
    <3> QED BY <1>1, <2>1, <2>2, <2>4, <2>7, <3>1, <3>2, <3>3, <3>4, <3>5 DEF Built
  <2> QED BY <1>1, <2>2, <2>4, <2>5, <2>6, <2>8, WriteKeeps
<1> QED BY <1>2, <1>3

(***************************************************************************)
(* The people.                                                             *)
(***************************************************************************)
\* No request moves, and no request gets to write.
LEMMA PeopleKeep ==
  ASSUME GitopsInv, TypeOK', MainKept, UNCHANGED <<step, act, readVars>>, cut \subseteq cut',
         NEW b \in Branches, \A d \in Branches \ {b} : branch'[d] = branch[d] /\ pr'[d] = pr[d],
         Built(b)'
  PROVE  GitopsInv'
<1>1. TypeOK /\ \A s \in Requests : Keeps(s)
  BY DEF GitopsInv, Keeps, readVars
<1>2. \A s \in Requests : Reads(s)'
  BY <1>1, ReadsStay DEF GitopsInv
<1>3. \A d \in Branches, s \in Requests :
        Writes(s, d)' => Writes(s, d) /\ step'[s] = step[s] /\ act'[s] = act[s]
  BY DEF Writes, Target
<1>4. \A d \in Branches \ {b} : Built(d)'
  BY <1>1, <1>3, BuiltStays DEF GitopsInv
<1> QED BY <1>2, <1>4 DEF GitopsInv

\* The end of a pull request of a branch that nobody else writes to.
LEMMA EndIs ==
  ASSUME GitopsInv, NEW b \in Branches, pr[b] # Nothing, EndPR(b),
         MainKept, UNCHANGED <<step, act, cut>>
  PROVE  /\ pr' \in [Branches -> Acts \union {Nothing}]
         /\ branch' \in [Branches -> Heads \union {Nothing}]
         /\ pr'[b] = Nothing
         /\ \A d \in Branches \ {b} : branch'[d] = branch[d] /\ pr'[d] = pr[d]
         /\ Built(b)'
<1>1. TypeOK /\ Built(b) /\ \A d \in Branches : Writes(d, b)' <=> Writes(d, b)
  BY DEF GitopsInv, Writes, Target
<1>2. pr' = [pr EXCEPT ![b] = Nothing]
      /\ (branch' = [branch EXCEPT ![b] = Nothing] \/ branch' = branch)
  BY DEF EndPR
<1>3. /\ pr' \in [Branches -> Acts \union {Nothing}]
      /\ branch' \in [Branches -> Heads \union {Nothing}]
      /\ pr'[b] = Nothing /\ branch'[b] \in {Nothing, branch[b]}
      /\ \A d \in Branches \ {b} : branch'[d] = branch[d] /\ pr'[d] = pr[d]
  BY <1>1, <1>2 DEF TypeOK
<1>4. b \notin cut' => \A s \in Requests : ~Writes(s, b)'
  BY <1>1 DEF Built, OneWriter, Writes, Target
<1>5. branch[b] # Nothing => branch[b].base \in 1 .. Len(main')
  BY <1>1, MainIs DEF Built, MainKept
<1>6. ASSUME branch'[b] # Nothing, branch'[b].ahead
      PROVE  \E a \in Asked : IsAction(b, a)'
  <2>1. branch'[b] = branch[b]
    BY <1>3, <1>6
  <2>2. PICK a \in Asked : IsAction(b, a)
    BY <1>1, <1>6, <2>1 DEF Built
  <2>3. AdditionsKnown(a)'
    BY <1>1, <2>2, AdditionsStay DEF IsAction
  <2>4. Holds(b, a)'
    BY <1>1, <1>6, <2>1, <2>2, HoldsStays DEF IsAction, Built
  <2> QED BY <2>2, <2>3, <2>4 DEF IsAction
<1>7. b \notin cut' => OneWriter(b)'
  BY <1>4 DEF OneWriter
<1>8. Built(b)'
  BY <1>3, <1>4, <1>5, <1>6, <1>7 DEF Built
<1> QED BY <1>3, <1>8

\* The merge of pull request b brings in what its commit differs in from its base.
LEMMA MergeIs ==
  ASSUME GitopsInv, NEW b \in Branches, MergePR(b)
  PROVE  \E old \in Trees, new \in Trees :
           /\ old = main[branch[b].base] /\ new = branch[b].tree
           /\ branch[b].base \in 1 .. Len(main) /\ Len(main) < MaxMain
           /\ Clean(Tip, old, new) /\ MergeOf(Tip, old, new) \in Trees
           /\ main' = Append(main, MergeOf(Tip, old, new)) /\ Tip' = MergeOf(Tip, old, new)
           /\ MainKept /\ main' \in Seq(Trees) /\ Len(main)' \in 1 .. MaxMain
<1>1. TypeOK /\ branch[b] # Nothing /\ branch[b].base \in 1 .. Len(main) /\ Tip \in Trees
  BY MainIs DEF GitopsInv, Built, MergePR
<1>2. branch[b].tree \in Trees
  <2>1. branch[b] \in Heads
    BY <1>1 DEF TypeOK
  <2> QED BY <2>1 DEF Heads
<1>3. PICK old \in Trees, new \in Trees : old = main[branch[b].base] /\ new = branch[b].tree
  BY <1>1, <1>2, MainIs
<1>4. /\ Len(main) < MaxMain /\ Clean(Tip, old, new)
      /\ main' = Append(main, MergeOf(Tip, old, new))
  BY <1>3 DEF MergePR, Clean, MergeOf
<1>5. MergeOf(Tip, old, new) \in Trees
  BY <1>1, <1>4, MergeOfIs
<1>6. PICK t \in Trees : t = MergeOf(Tip, old, new)
  BY <1>5
<1>7. MainKept /\ Tip' = t /\ main' \in Seq(Trees) /\ Len(main)' \in 1 .. MaxMain
  BY <1>1, <1>4, <1>6, MainAppended
<1> QED BY <1>1, <1>3, <1>4, <1>5, <1>6, <1>7

LEMMA MergeKeeps ==
  ASSUME GitopsInv, NEW b \in Branches, MergePR(b)
  PROVE  GitopsInv'
<1>1. TypeOK /\ pr[b] # Nothing /\ EndPR(b) /\ UNCHANGED <<cut, faults, step, act, readVars>>
  BY DEF GitopsInv, MergePR
<1>2. MainKept /\ main' \in Seq(Trees) /\ Len(main)' \in 1 .. MaxMain
  BY MergeIs
<1>3. /\ pr' \in [Branches -> Acts \union {Nothing}]
      /\ branch' \in [Branches -> Heads \union {Nothing}]
      /\ \A d \in Branches \ {b} : branch'[d] = branch[d] /\ pr'[d] = pr[d]
      /\ Built(b)'
  BY <1>1, <1>2, EndIs
<1>4. TypeOK'
  BY <1>1, <1>2, <1>3 DEF TypeOK, readVars
<1> QED BY <1>1, <1>2, <1>3, <1>4, PeopleKeep

LEMMA CloseKeeps ==
  ASSUME GitopsInv, NEW b \in Branches, ClosePR(b)
  PROVE  GitopsInv'
<1>1. TypeOK /\ pr[b] # Nothing /\ EndPR(b) /\ UNCHANGED <<main, cut, faults, step, act, readVars>>
  BY DEF GitopsInv, ClosePR
<1>2. MainKept
  BY <1>1, MainSame
<1>3. /\ pr' \in [Branches -> Acts \union {Nothing}]
      /\ branch' \in [Branches -> Heads \union {Nothing}]
      /\ \A d \in Branches \ {b} : branch'[d] = branch[d] /\ pr'[d] = pr[d]
      /\ Built(b)'
  BY <1>1, <1>2, EndIs
<1>4. TypeOK'
  BY <1>1, <1>3 DEF TypeOK, readVars
<1> QED BY <1>1, <1>2, <1>3, <1>4, PeopleKeep

LEMMA DeleteKeeps ==
  ASSUME GitopsInv, NEW b \in Branches, DeleteStaleBranch(b)
  PROVE  GitopsInv'
<1>1. /\ TypeOK /\ pr[b] = Nothing /\ branch' = [branch EXCEPT ![b] = Nothing]
      /\ UNCHANGED <<main, pr, faults, step, act, readVars>>
      /\ cut' = IF \E r \in Requests : Writes(r, b) THEN cut \union {b} ELSE cut
  BY DEF GitopsInv, DeleteStaleBranch
<1>2. MainKept /\ cut \subseteq cut' /\ cut' \in SUBSET Branches
  BY <1>1, MainSame DEF TypeOK
<1>3. branch' \in [Branches -> Heads \union {Nothing}] /\ branch'[b] = Nothing
      /\ \A d \in Branches \ {b} : branch'[d] = branch[d] /\ pr'[d] = pr[d]
  BY <1>1 DEF TypeOK
<1>4. TypeOK'
  BY <1>1, <1>2, <1>3 DEF TypeOK, readVars
<1>5. b \notin cut' => \A r \in Requests : ~Writes(r, b)'
  BY <1>1 DEF Writes, Target
<1>6. b \notin cut' => OneWriter(b)'
  BY <1>5 DEF OneWriter
<1>7. Built(b)'
  BY <1>1, <1>3, <1>6 DEF Built
<1> QED BY <1>1, <1>2, <1>3, <1>4, <1>7, PeopleKeep

\* A push applies a change that makes sense.
LEMMA PushIs ==
  ASSUME TypeOK, NEW a \in Pushed, PushToMain(a)
  PROVE  /\ Apply(Tip, a) \in Trees /\ Valid(Tip, a) /\ KeepsEntries(Tip, Apply(Tip, a))
         /\ main' = Append(main, Apply(Tip, a)) /\ Tip' = Apply(Tip, a) /\ MainKept
         /\ main' \in Seq(Trees) /\ Len(main)' \in 1 .. MaxMain
<1>1. Valid(Tip, a) /\ main' = Append(main, Apply(Tip, a)) /\ Len(main) < MaxMain
  BY DEF PushToMain
<1>2. Tip \in Trees /\ a \in Acts /\ Accepts(Tip.registry, a)
  BY <1>1, MainIs, FirstAssumption DEF Valid
<1>3. PICK t \in Trees : t = Apply(Tip, a) /\ KeepsEntries(Tip, t)
  BY <1>2, ApplyIs
<1>4. Tip' = t /\ MainKept /\ main' \in Seq(Trees) /\ Len(main)' \in 1 .. MaxMain
  BY <1>1, <1>3, MainAppended
<1> QED BY <1>1, <1>3, <1>4

LEMMA PushKeeps ==
  ASSUME GitopsInv, NEW a \in Pushed, PushToMain(a)
  PROVE  GitopsInv'
<1>1. /\ TypeOK /\ MainKept /\ main' \in Seq(Trees) /\ Len(main)' \in 1 .. MaxMain
      /\ UNCHANGED <<branch, pr, cut, faults, step, act, readVars>>
  BY PushIs DEF GitopsInv, PushToMain
<1>2. TypeOK'
  BY <1>1 DEF TypeOK, readVars
<1>3. \A s \in Requests : Reads(s)'
  BY <1>1, ReadsStay DEF GitopsInv, Keeps, readVars
<1>4. \A d \in Branches, s \in Requests :
        Writes(s, d)' => Writes(s, d) /\ step'[s] = step[s] /\ act'[s] = act[s]
  BY <1>1 DEF Writes, Target
<1>5. \A d \in Branches : Built(d)'
  BY <1>1, <1>4, BuiltStays DEF GitopsInv
<1> QED BY <1>2, <1>3, <1>5 DEF GitopsInv

(***************************************************************************)
(* The invariant holds.                                                    *)
(***************************************************************************)
LEMMA InitKeeps ==
  ASSUME Init
  PROVE  GitopsInv
<1>1. PICK t \in FirstTrees : main = <<t>>
  BY DEF Init
<1>2. main \in Seq(Trees) /\ Len(main) = 1
  BY <1>1, FirstAssumption
<1>3. NoRegistry \in Registries /\ NoRoster \in Rosters /\ 1 \in 1 .. MaxMain
  BY BoundAssumption DEF NoRegistry, NoRoster, Registries, Rosters
<1>4. TypeOK
  BY <1>2, <1>3 DEF Init, TypeOK, StepNames
<1>5. \A r \in Requests : Reads(r)
  BY DEF Init, Reads, Rested, Based
<1>6. \A b \in Branches : Built(b)
  BY DEF Init, Built, OneWriter, Writes
<1> QED BY <1>4, <1>5, <1>6 DEF GitopsInv

LEMMA StepKeeps ==
  ASSUME GitopsInv, [Next]_vars
  PROVE  GitopsInv'
<1>1. CASE UNCHANGED vars
  <2>1. TypeOK /\ MainKept /\ UNCHANGED <<main, branch, pr, cut, faults, step, act, readVars>>
    BY <1>1, MainSame DEF GitopsInv, vars, hubVars
  <2>2. TypeOK'
    BY <2>1 DEF TypeOK, readVars
  <2>3. \A r \in Requests : Reads(r)'
    BY <2>1, ReadsStay DEF GitopsInv, Keeps, readVars
  <2>4. \A b \in Branches, r \in Requests :
          Writes(r, b)' => Writes(r, b) /\ step'[r] = step[r] /\ act'[r] = act[r]
    BY <2>1 DEF Writes, Target
  <2>5. \A b \in Branches : Built(b)'
    BY <2>1, <2>4, BuiltStays DEF GitopsInv
  <2> QED BY <2>2, <2>3, <2>5 DEF GitopsInv
<1>2. ASSUME NEW r \in Requests, NEW a \in Asked, StartRequest(r, a) PROVE GitopsInv'
  BY <1>2, StartKeeps
<1>3. ASSUME NEW r \in Requests, Compose(r) PROVE GitopsInv'
  BY <1>3, FindKeeps, RegistryKeeps, HarnessesKeeps, TipKeeps, ExistsKeeps, CreateKeeps,
     CommitKeeps, OpenKeeps DEF Compose
<1>4. ASSUME NEW r \in Requests, StopHalfWay(r) PROVE GitopsInv'
  <2>1. Forget(r) /\ faults' \in Nat /\ UNCHANGED hubVars
    BY <1>4 DEF StopHalfWay, GitopsInv, TypeOK
  <2> QED BY <2>1, ForgetKeeps
<1>5. ASSUME NEW b \in Branches, MergePR(b) \/ ClosePR(b) \/ DeleteStaleBranch(b)
      PROVE  GitopsInv'
  BY <1>5, MergeKeeps, CloseKeeps, DeleteKeeps
<1>6. ASSUME NEW a \in Pushed, PushToMain(a) PROVE GitopsInv'
  BY <1>6, PushKeeps
<1> QED BY <1>1, <1>2, <1>3, <1>4, <1>5, <1>6 DEF Next, Hub

\* Whatever people do to the hub meanwhile (portalapi/gitops/compose*.go): what a request
\* has read was on main, in order, a branch with a commit is an action that somebody asked
\* for, and one that was not deleted under a request has at most one request that writes.
THEOREM GitopsHolds == Spec => []GitopsInv
<1>1. Init => GitopsInv
  BY InitKeeps
<1>2. GitopsInv /\ [Next]_vars => GitopsInv'
  BY StepKeeps
<1> QED BY <1>1, <1>2, PTL DEF Spec

\* An open pull request is one action, the one of its title unless its branch was deleted
\* under the request (gitops/compose.go), for any number of requests and of stops and any
\* history of the hub, pushes between the reads of a request included.
THEOREM ProposalsAreActions == Spec => []ProposalIsAction
<1>1. GitopsInv => ProposalIsAction
  <2> SUFFICES ASSUME GitopsInv PROVE ProposalIsAction
    OBVIOUS
  <2>1. TypeOK /\ Asked \subseteq Acts
    BY FirstAssumption DEF GitopsInv
  <2>2. ASSUME NEW b \in Branches, pr[b] # Nothing
        PROVE  /\ branch[b] # Nothing
               /\ \E a \in Acts : /\ BranchOf(a) = b /\ (a = pr[b] \/ b \in cut)
                                  /\ AdditionsKnown(a) /\ Holds(b, a)
    BY <2>1, <2>2 DEF GitopsInv, Built, IsAction
  <2> QED BY <2>1, <2>2 DEF ProposalIsAction
<1> QED BY <1>1, GitopsHolds, PTL

(***************************************************************************)
(* Merges and pushes.                                                      *)
(***************************************************************************)
\* Only people move main.
LEMMA PeopleMoveMain ==
  ASSUME [Next]_vars, main' # main
  PROVE  (\E b \in Branches : MergePR(b)) \/ (\E a \in Pushed : PushToMain(a))
<1>1. CASE UNCHANGED vars
  BY <1>1 DEF vars, hubVars
<1>2. ASSUME NEW r \in Requests, NEW a \in Asked, StartRequest(r, a) PROVE main' = main
  BY <1>2 DEF StartRequest, hubVars
<1>3. ASSUME NEW r \in Requests, Compose(r) PROVE main' = main
  BY <1>3 DEF Compose, FindOpenPR, GetRegistry, GetHarnesses, DefaultBranchSHA, BranchExists,
              CreateBranch, CommitFiles, OpenPR, hubVars
<1>4. ASSUME NEW r \in Requests, StopHalfWay(r) PROVE main' = main
  BY <1>4 DEF StopHalfWay, hubVars
<1>5. ASSUME NEW b \in Branches, ClosePR(b) \/ DeleteStaleBranch(b) PROVE main' = main
  BY <1>5 DEF ClosePR, DeleteStaleBranch
<1> QED BY <1>1, <1>2, <1>3, <1>4, <1>5 DEF Next, Hub

\* The merge of what was composed while main stood still is the merge of its action.
LEMMA StillMerges ==
  ASSUME GitopsInv, NEW b \in Branches, MergePR(b), Still(b)
  PROVE  \E a \in Acts, old \in Trees :
           /\ pr[b] = a /\ BranchOf(a) = b /\ old = main[branch[b].base]
           /\ Accepts(old.registry, a) /\ Clean(Tip, old, Apply(old, a))
           /\ Tip' = MergeOf(Tip, old, Apply(old, a))
<1>1. TypeOK /\ pr[b] # Nothing /\ branch[b] # Nothing /\ branch[b].ahead
      /\ branch[b].base \in 1 .. Len(main) /\ branch[b].since = branch[b].base /\ b \notin cut
  BY DEF GitopsInv, Built, MergePR, Still
<1>2. PICK a \in Asked : IsAction(b, a) /\ pr[b] = a
  BY <1>1 DEF GitopsInv, Built
<1> DEFINE k == branch[b].base
<1>3. a \in Acts /\ BranchOf(a) = b /\ Holds(b, a) /\ Len(main) \in Nat
  BY <1>1, <1>2, FirstAssumption, MainIs DEF IsAction
<1>4. \A i \in branch[b].since .. k : i = k /\ \A j \in i .. k : j = k
  BY <1>1, <1>3
<1>5. Accepts(main[k].registry, a) /\ branch[b].tree = Edited(main, a, k, k, k)
  BY <1>3, <1>4 DEF Holds
<1>6. branch[b].tree = Apply(main[k], a)
  BY <1>1, <1>3, <1>5, EditedIs
<1>7. PICK old \in Trees, new \in Trees :
        /\ old = main[k] /\ new = branch[b].tree /\ Clean(Tip, old, new)
        /\ Tip' = MergeOf(Tip, old, new)
  BY MergeIs
<1> QED BY <1>2, <1>3, <1>5, <1>6, <1>7

\* What takes a status back, or an entry away, is the merge of what was composed while
\* main moved: no other merge, however stale, does and no push (setVersionStatus in
\* gitops/registry_edit.go), for every history of the hub.
THEOREM LifecycleMovesForward == Spec => LifecycleForwardOnMain
<1> DEFINE Forward ==
      (\A b \in Branches : pr[b] # Nothing /\ pr'[b] = Nothing => Still(b)) =>
      \A c \in Comps : Tip.registry[c] # Nothing =>
        /\ Tip'.registry[c] # Nothing
        /\ Rank(Tip'.registry[c].status) >= Rank(Tip.registry[c].status)
<1>1. GitopsInv /\ [Next]_vars => [Forward]_vars
  <2> SUFFICES ASSUME GitopsInv, [Next]_vars,
                      \A b \in Branches : pr[b] # Nothing /\ pr'[b] = Nothing => Still(b)
               PROVE  KeepsEntries(Tip, Tip')
    BY DEF KeepsEntries
  <2>1. TypeOK /\ Tip \in Trees
    BY MainIs DEF GitopsInv
  <2>2. CASE main' = main
    <3>1. Tip' = Tip
      BY <2>2 DEF Tip
    <3>2. \A c \in Comps : Tip.registry[c] # Nothing => Rank(Tip.registry[c].status) \in Nat
      BY <2>1, TreeIs
    <3> QED BY <3>1, <3>2 DEF KeepsEntries
  <2>3. ASSUME NEW b \in Branches, MergePR(b) PROVE KeepsEntries(Tip, Tip')
    <3>1. pr[b] # Nothing /\ pr'[b] = Nothing
      BY <2>1, <2>3 DEF MergePR, EndPR, TypeOK
    <3>2. Still(b)
      BY <3>1
    <3>3. PICK a \in Acts, old \in Trees :
            /\ Accepts(old.registry, a) /\ Clean(Tip, old, Apply(old, a))
            /\ Tip' = MergeOf(Tip, old, Apply(old, a))
      BY <2>3, <3>2, StillMerges
    <3>4. KeepsEntries(Tip, MergeOf(Tip, old, Apply(old, a)))
      BY <2>1, <3>3, MergeKeepsEntries
    <3> QED BY <3>3, <3>4
  <2>4. ASSUME NEW a \in Pushed, PushToMain(a) PROVE KeepsEntries(Tip, Tip')
    BY <2>1, <2>4, PushIs
  <2> QED BY <2>2, <2>3, <2>4, PeopleMoveMain
<1> QED BY <1>1, GitopsHolds, PTL DEF Spec, LifecycleForwardOnMain

\* Merging a pull request that was composed while main stood still keeps the default
\* harness equal to the default flags (ComposeCurate, syncDefaultHarness), whatever was
\* merged or pushed since, for every first tree and every history of the hub.
THEOREM MergesKeepMirror == Spec => MergeKeepsMirror
<1> DEFINE Keep == \A b \in Branches :
                     /\ main' # main /\ pr[b] # Nothing /\ pr'[b] = Nothing /\ Still(b)
                     /\ b # <<"harness", Default>>
                     /\ pr[b].type = "import" => pr[b].comp \notin Tip.harnesses[Default]
                     /\ Mirror(Tip) /\ Mirror(main[branch[b].base])
                     => Mirror(Tip')
<1>1. GitopsInv /\ [Next]_vars => [Keep]_vars
  <2> SUFFICES ASSUME GitopsInv, [Next]_vars, NEW b \in Branches,
                      main' # main, pr[b] # Nothing, pr'[b] = Nothing, Still(b),
                      b # <<"harness", Default>>,
                      pr[b].type = "import" => pr[b].comp \notin Tip.harnesses[Default],
                      Mirror(Tip), Mirror(main[branch[b].base])
               PROVE  Mirror(Tip')
    OBVIOUS
  <2>1. TypeOK /\ Tip \in Trees
    BY MainIs DEF GitopsInv
  <2>2. MergePR(b)
    <3>1. \A a \in Pushed : ~PushToMain(a)
      BY DEF PushToMain
    <3>2. \A d \in Branches : MergePR(d) => d = b
      BY <2>1 DEF MergePR, EndPR, TypeOK
    <3> QED BY <3>1, <3>2, PeopleMoveMain
  <2>3. PICK a \in Acts, old \in Trees :
          /\ pr[b] = a /\ BranchOf(a) = b /\ old = main[branch[b].base]
          /\ Accepts(old.registry, a) /\ Clean(Tip, old, Apply(old, a))
          /\ Tip' = MergeOf(Tip, old, Apply(old, a))
    BY <2>2, StillMerges
  <2>4. PICK t \in Trees : t = Tip
    BY <2>1
  <2>5. Mirror(MergeOf(t, old, Apply(old, a)))
    BY <2>3, <2>4, MergeKeepsMirrorOf
  <2> QED BY <2>3, <2>4, <2>5
<1> QED BY <1>1, GitopsHolds, PTL DEF Spec, MergeKeepsMirror

(***************************************************************************)
(* Owners of branches.                                                     *)
(***************************************************************************)
\* The request that writes to branch b can go on: its next call takes the branch as it is.
GoesOn(r, b) ==
  /\ Writes(r, b)
  /\ IF branch[b].ahead THEN step[r] = "open" ELSE step[r] = "commit" /\ branch[b].base = base[r]

Owned(b) == branch[b] # Nothing => pr[b] # Nothing \/ \E r \in Requests : GoesOn(r, b)

OwnersInv == faults = 0 /\ ~KeepsHeads => \A b \in Branches : Owned(b)

LEMMA OwnedStays ==
  ASSUME NEW b \in Branches, Owned(b), branch'[b] = branch[b], pr'[b] = pr[b],
         \A r \in Requests : Writes(r, b) =>
           step'[r] = step[r] /\ act'[r] = act[r] /\ base'[r] = base[r]
  PROVE  Owned(b)'
  BY DEF Owned, GoesOn, Writes, Target

\* Only request r moves, and it writes to no branch but, perhaps, b.
LEMMA OthersOwned ==
  ASSUME OwnersInv, faults = 0, ~KeepsHeads, NEW r \in Requests, NEW d \in Branches,
         \A s \in Requests \ {r} : Keeps(s), branch'[d] = branch[d], pr'[d] = pr[d],
         ~Writes(r, d)
  PROVE  Owned(d)'
<1>1. \A s \in Requests : Writes(s, d) =>
        step'[s] = step[s] /\ act'[s] = act[s] /\ base'[s] = base[s]
  BY DEF Keeps
<1> QED BY <1>1, OwnedStays DEF OwnersInv

\* The variables of the other requests stay.
MovesOne(r) ==
  /\ \E x : step' = [step EXCEPT ![r] = x]
  /\ act' = act \/ \E x : act' = [act EXCEPT ![r] = x]
  /\ registry' = registry \/ \E x : registry' = [registry EXCEPT ![r] = x]
  /\ roster' = roster \/ \E x : roster' = [roster EXCEPT ![r] = x]
  /\ base' = base \/ \E x : base' = [base EXCEPT ![r] = x]
  /\ since' = since \/ \E x : since' = [since EXCEPT ![r] = x]

LEMMA OneMoves ==
  ASSUME TypeOK, NEW r \in Requests,
         Compose(r) \/ \E a \in Asked : StartRequest(r, a)
  PROVE  \A s \in Requests \ {r} : Keeps(s)
<1>1. MovesOne(r)
  <2>1. Forget(r) => MovesOne(r)
    BY DEF MovesOne, Forget, ForgetFiles, Goto
  <2>2. CASE \E a \in Asked : StartRequest(r, a)
    BY <2>2 DEF MovesOne, StartRequest, Goto, readVars
  <2>3. CASE FindOpenPR(r) \/ BranchExists(r) \/ CreateBranch(r)
    BY <2>1, <2>3 DEF MovesOne, FindOpenPR, BranchExists, CreateBranch, Goto, readVars
  <2>4. CASE GetRegistry(r) \/ GetHarnesses(r) \/ DefaultBranchSHA(r)
    BY <2>1, <2>4 DEF MovesOne, GetRegistry, GetHarnesses, DefaultBranchSHA, Goto
  <2>5. CASE CommitFiles(r) \/ OpenPR(r)
    BY <2>1, <2>5 DEF MovesOne, CommitFiles, OpenPR, ForgetFiles, Goto
  <2> QED BY <2>2, <2>3, <2>4, <2>5 DEF Compose
<1>2. \A s \in Requests \ {r} : step'[s] = step[s] /\ act'[s] = act[s]
  BY <1>1 DEF MovesOne, TypeOK
<1>3. \A s \in Requests \ {r} : registry'[s] = registry[s] /\ roster'[s] = roster[s]
  BY <1>1 DEF MovesOne, TypeOK
<1>4. \A s \in Requests \ {r} : base'[s] = base[s] /\ since'[s] = since[s]
  BY <1>1 DEF MovesOne, TypeOK
<1> QED BY <1>2, <1>3, <1>4 DEF Keeps

LEMMA CreateOwns ==
  ASSUME GitopsInv, OwnersInv, faults = 0, ~KeepsHeads, NEW r \in Requests, CreateBranch(r)
  PROVE  \A b \in Branches : Owned(b)'
<1>1. /\ TypeOK /\ step[r] = "create" /\ pr' = pr /\ act[r] \in Acts
      /\ \A s \in Requests \ {r} : Keeps(s)
  BY FirstAssumption, OneMoves DEF GitopsInv, CreateBranch, Reads, Compose
<1>2. \A d \in Branches : ~Writes(r, d)
  BY <1>1 DEF Writes
<1> PICK b \in Branches : b = Target(r)
  BY <1>1, ActIs DEF Target
<1>3. branch' = branch \/ branch[b] = Nothing
  BY DEF CreateBranch
<1>4. CASE branch' = branch
  BY <1>1, <1>2, <1>4, OthersOwned
<1>5. CASE branch' # branch
  <2> DEFINE new == [since |-> base[r], base |-> base[r], tree |-> main[base[r]], ahead |-> FALSE]
  <2>1. branch' = [branch EXCEPT ![b] = new] /\ step' = [step EXCEPT ![r] = "commit"]
        /\ UNCHANGED <<act, base>>
    BY <1>5 DEF CreateBranch, Goto, readVars
  <2>2. new.base = base[r] /\ ~new.ahead
    OBVIOUS
  <2> HIDE DEF new
  <2>3. branch'[b] = new /\ \A d \in Branches \ {b} : branch'[d] = branch[d]
    BY <1>1, <2>1 DEF TypeOK
  <2>4. GoesOn(r, b)'
    BY <1>1, <2>1, <2>2, <2>3 DEF GoesOn, Writes, Target, TypeOK
  <2>5. Owned(b)'
    BY <2>4 DEF Owned
  <2>6. \A d \in Branches \ {b} : Owned(d)'
    BY <1>1, <1>2, <2>3, OthersOwned
  <2> QED BY <2>5, <2>6
<1> QED BY <1>4, <1>5

LEMMA CommitOwns ==
  ASSUME GitopsInv, OwnersInv, faults = 0, ~KeepsHeads, NEW r \in Requests, CommitFiles(r)
  PROVE  \A b \in Branches : Owned(b)'
<1>1. /\ TypeOK /\ step[r] = "commit" /\ pr' = pr /\ act[r] \in Acts
      /\ \A s \in Requests \ {r} : Keeps(s)
  BY FirstAssumption, OneMoves DEF GitopsInv, CommitFiles, Reads, Compose
<1> PICK b \in Branches : b = Target(r)
  BY <1>1, ActIs DEF Target
<1>2. \A d \in Branches \ {b} : ~Writes(r, d)
  BY DEF Writes
<1>3. CASE branch' # branch
  <2> DEFINE new == [since |-> since[r], base |-> base[r], tree |-> CommitTree(r), ahead |-> TRUE]
  <2>1. branch' = [branch EXCEPT ![b] = new] /\ step' = [step EXCEPT ![r] = "open"] /\ act' = act
    BY <1>3 DEF CommitFiles, Goto
  <2>2. new.ahead
    OBVIOUS
  <2> HIDE DEF new
  <2>3. branch'[b] = new /\ \A d \in Branches \ {b} : branch'[d] = branch[d]
    BY <1>1, <2>1 DEF TypeOK
  <2>4. GoesOn(r, b)'
    BY <1>1, <2>1, <2>2, <2>3 DEF GoesOn, Writes, Target, TypeOK
  <2>5. \A d \in Branches \ {b} : Owned(d)'
    BY <1>1, <1>2, <2>3, OthersOwned
  <2> QED BY <2>4, <2>5 DEF Owned
<1>4. CASE branch' = branch
  <2>1. \A d \in Branches \ {b} : Owned(d)'
    BY <1>1, <1>2, <1>4, OthersOwned
  <2>2. Owned(b)'
    <3> SUFFICES ASSUME branch[b] # Nothing, pr[b] = Nothing PROVE Owned(b)'
      BY <1>1, <1>4 DEF Owned
    <3>1. PICK s \in Requests : GoesOn(s, b)
      BY DEF OwnersInv, Owned
    <3>2. s # r
      <4>1. ~FastForwards(b, base[r])
        <5>1. FastForwards(b, base[r]) => step'[r] = "open" /\ branch'[b] # branch[b]
          <6> SUFFICES ASSUME FastForwards(b, base[r])
                       PROVE  step'[r] = "open" /\ branch'[b] # branch[b]
            OBVIOUS
          <6> DEFINE new == [since |-> since[r], base |-> base[r], tree |-> CommitTree(r),
                             ahead |-> TRUE]
          <6>1. branch' = [branch EXCEPT ![b] = new] /\ step' = [step EXCEPT ![r] = "open"]
                /\ new.ahead
            BY DEF CommitFiles, Goto
          <6> HIDE DEF new
          <6>2. branch'[b] = new /\ step'[r] = "open"
            BY <1>1, <6>1 DEF TypeOK
          <6>3. ~branch[b].ahead
            BY DEF FastForwards
          <6> QED BY <6>1, <6>2, <6>3
        <5> QED BY <1>4, <5>1
      <4>2. branch[b].ahead \/ branch[b].base # base[r]
        <5>1. base[r] \in Nat
          BY <1>1, BoundAssumption DEF TypeOK
        <5> QED BY <4>1, <5>1 DEF FastForwards
      <4> QED BY <1>1, <3>1, <4>2 DEF GoesOn
    <3>3. GoesOn(s, b)'
      BY <1>4, <3>1, <3>2, <1>1 DEF GoesOn, Writes, Target, Keeps
    <3> QED BY <3>3 DEF Owned
  <2> QED BY <2>1, <2>2
<1> QED BY <1>3, <1>4

LEMMA OpenOwns ==
  ASSUME GitopsInv, OwnersInv, faults = 0, ~KeepsHeads, NEW r \in Requests, OpenPR(r)
  PROVE  \A b \in Branches : Owned(b)'
<1>1. /\ TypeOK /\ step[r] = "open" /\ branch' = branch /\ act[r] \in Acts
      /\ act[r] # Nothing /\ \A s \in Requests \ {r} : Keeps(s)
  <2>1. act[r] \in Acts
    BY FirstAssumption DEF GitopsInv, OpenPR, Reads
  <2> QED BY <2>1, OneMoves, ActIs DEF GitopsInv, OpenPR, Compose
<1> PICK b \in Branches : b = Target(r)
  BY <1>1, ActIs DEF Target
<1>2. \A d \in Branches \ {b} : ~Writes(r, d)
  BY DEF Writes
<1>3. pr' = pr \/ pr' = [pr EXCEPT ![b] = act[r]]
  BY DEF OpenPR
<1>4. \A d \in Branches \ {b} : Owned(d)'
  <2>1. \A d \in Branches \ {b} : pr'[d] = pr[d]
    BY <1>1, <1>3 DEF TypeOK
  <2> QED BY <1>1, <1>2, <2>1, OthersOwned
<1>5. Owned(b)'
  <2> SUFFICES ASSUME branch[b] # Nothing, pr'[b] = Nothing PROVE Owned(b)'
    BY <1>1 DEF Owned
  <2>1. pr[b] = Nothing /\ ~branch[b].ahead
    <3>1. pr' # [pr EXCEPT ![b] = act[r]]
      BY <1>1 DEF TypeOK
    <3>2. pr' = pr
      BY <1>3, <3>1
    <3> QED BY <3>1, <3>2 DEF OpenPR
  <2>2. PICK s \in Requests : GoesOn(s, b)
    BY <2>1 DEF OwnersInv, Owned
  <2>3. s # r
    BY <1>1, <2>1, <2>2 DEF GoesOn
  <2>4. GoesOn(s, b)'
    BY <1>1, <2>2, <2>3 DEF GoesOn, Writes, Target, Keeps
  <2> QED BY <2>4 DEF Owned
<1> QED BY <1>4, <1>5

\* A request that only reads.
LEMMA ReaderOwns ==
  ASSUME GitopsInv, OwnersInv, faults = 0, ~KeepsHeads, NEW r \in Requests,
         \A s \in Requests \ {r} : Keeps(s), UNCHANGED <<branch, pr>>,
         step[r] \notin {"commit", "open"}
  PROVE  \A b \in Branches : Owned(b)'
<1>1. \A d \in Branches : ~Writes(r, d)
  BY DEF Writes
<1> QED BY <1>1, OthersOwned

\* People take no branch's owner away: a pull request ends with its branch, unless they
\* keep the heads.
LEMMA PeopleOwn ==
  ASSUME GitopsInv, OwnersInv, faults = 0, ~KeepsHeads, NEW b \in Branches,
         MergePR(b) \/ ClosePR(b) \/ DeleteStaleBranch(b)
  PROVE  \A d \in Branches : Owned(d)'
<1>1. TypeOK /\ UNCHANGED <<step, act, base>>
  BY DEF GitopsInv, MergePR, ClosePR, DeleteStaleBranch, readVars
<1>2. branch' = [branch EXCEPT ![b] = Nothing] /\ (pr' = pr \/ pr' = [pr EXCEPT ![b] = Nothing])
  BY DEF MergePR, ClosePR, DeleteStaleBranch, EndPR
<1>3. branch'[b] = Nothing /\ \A d \in Branches \ {b} : branch'[d] = branch[d] /\ pr'[d] = pr[d]
  BY <1>1, <1>2 DEF TypeOK
<1>4. Owned(b)'
  BY <1>3 DEF Owned
<1>5. \A d \in Branches \ {b} : Owned(d)'
  BY <1>1, <1>3, OwnedStays DEF OwnersInv
<1> QED BY <1>4, <1>5

\* No branch is left behind without its pull request or the request that can open it
\* (prepareBranch in gitops/compose.go), unless a request stopped half-way, whoever
\* deletes branches and closes or merges pull requests while a request composes.
THEOREM BranchesHaveOwners == Spec => []BranchHasOwner
<1>1. Init => OwnersInv
  BY DEF Init, OwnersInv, Owned
<1>2. GitopsInv /\ OwnersInv /\ [Next]_vars => OwnersInv'
  <2> SUFFICES ASSUME GitopsInv, OwnersInv, [Next]_vars, faults' = 0, ~KeepsHeads
               PROVE  \A b \in Branches : Owned(b)'
    BY DEF OwnersInv
  <2>1. TypeOK
    BY DEF GitopsInv
  <2>2. CASE UNCHANGED vars
    BY <2>2, OwnedStays DEF vars, hubVars, readVars, OwnersInv
  <2>3. ASSUME NEW r \in Requests, NEW a \in Asked, StartRequest(r, a)
        PROVE  \A b \in Branches : Owned(b)'
    <3>1. faults = 0 /\ UNCHANGED <<branch, pr>> /\ step[r] \notin {"commit", "open"}
      BY <2>3 DEF StartRequest, hubVars
    <3> QED BY <2>1, <2>3, <3>1, OneMoves, ReaderOwns
  <2>4. ASSUME NEW r \in Requests, Compose(r) PROVE \A b \in Branches : Owned(b)'
    <3>1. faults = 0
      BY <2>4 DEF Compose, FindOpenPR, GetRegistry, GetHarnesses, DefaultBranchSHA, BranchExists,
                  CreateBranch, CommitFiles, OpenPR
    <3>2. CASE CreateBranch(r) \/ CommitFiles(r) \/ OpenPR(r)
      BY <3>1, <3>2, CreateOwns, CommitOwns, OpenOwns
    <3>3. CASE ~(CreateBranch(r) \/ CommitFiles(r) \/ OpenPR(r))
      <4>1. UNCHANGED <<branch, pr>> /\ step[r] \notin {"commit", "open"}
        BY <2>4, <3>3 DEF Compose, FindOpenPR, GetRegistry, GetHarnesses, DefaultBranchSHA,
                          BranchExists, hubVars
      <4> QED BY <2>1, <2>4, <3>1, <4>1, OneMoves, ReaderOwns
    <3> QED BY <3>2, <3>3
  <2>5. ASSUME NEW r \in Requests, StopHalfWay(r) PROVE FALSE
    BY <2>1, <2>5 DEF StopHalfWay, TypeOK
  <2>6. ASSUME NEW b \in Branches, MergePR(b) \/ ClosePR(b) \/ DeleteStaleBranch(b)
        PROVE  \A d \in Branches : Owned(d)'
    <3>1. faults = 0
      BY <2>6 DEF MergePR, ClosePR, DeleteStaleBranch
    <3> QED BY <2>6, <3>1, PeopleOwn
  <2>7. ASSUME NEW a \in Pushed, PushToMain(a) PROVE \A d \in Branches : Owned(d)'
    BY <2>7, OwnedStays DEF PushToMain, readVars, OwnersInv
  <2> QED BY <2>2, <2>3, <2>4, <2>5, <2>6, <2>7 DEF Next, Hub
<1>3. OwnersInv => BranchHasOwner
  BY DEF OwnersInv, Owned, GoesOn, BranchHasOwner
<1> QED BY <1>1, <1>2, <1>3, GitopsHolds, PTL DEF Spec

(***************************************************************************)
(* The refinement of Proposals.                                            *)
(***************************************************************************)
LEMMA SameEdits ==
  ASSUME NEW t, NEW a, NEW h, NEW i, NEW j, NEW k
  PROVE  /\ Promise!BranchOf(a) = BranchOf(a)
         /\ Promise!Apply(t, a) = Apply(t, a)
         /\ Promise!Valid(t, a) <=> Valid(t, a)
         /\ Promise!Listed(t) = Listed(t)
         /\ Promise!Accepts(h[i].registry, a) <=> Accepts(h[i].registry, a)
         /\ Promise!Edited(h, a, i, j, k) = Edited(h, a, i, j, k)
<1>1. Promise!BranchOf(a) = BranchOf(a)
  BY DEF Promise!BranchOf, BranchOf
<1>2. \A f, x : /\ Promise!Rank(x) = Rank(x)
                /\ Promise!LifecycleAllowed(f, x) <=> LifecycleAllowed(f, x)
  BY DEF Promise!Rank, Rank, Promise!LifecycleAllowed, LifecycleAllowed
<1>3. \A g : Promise!EditRegistry(g, a) = EditRegistry(g, a)
  BY DEF Promise!EditRegistry, EditRegistry, Promise!SetVersionStatus, SetVersionStatus
<1>4. \A m : /\ Promise!EditsRoster(m, a) <=> EditsRoster(m, a)
             /\ Promise!EditRoster(m, a) = EditRoster(m, a)
  BY DEF Promise!EditsRoster, EditsRoster, Promise!EditRoster, EditRoster,
         Promise!SyncDefaultHarness, SyncDefaultHarness, Promise!ApplyHarnessEdit, ApplyHarnessEdit
<1>5. \A g : Promise!Accepts(g, a) <=> Accepts(g, a)
  BY <1>2 DEF Promise!Accepts, Accepts
<1>6. Promise!Apply(t, a) = Apply(t, a)
  BY <1>3, <1>4 DEF Promise!Apply, Apply
<1>7. Promise!Listed(t) = Listed(t)
  BY DEF Promise!Listed, Listed
<1>8. Promise!Valid(t, a) <=> Valid(t, a)
  BY <1>5, <1>7 DEF Promise!Valid, Valid
<1>9. Promise!Edited(h, a, i, j, k) = Edited(h, a, i, j, k)
  BY <1>3, <1>4 DEF Promise!Edited, Edited
<1> QED BY <1>1, <1>5, <1>6, <1>7, <1>8, <1>9

LEMMA SameMerge ==
  ASSUME NEW f, NEW old, NEW new
  PROVE  /\ Promise!Merged(f, old, new) = Merged(f, old, new)
         /\ Promise!Conflict(f, old, new) <=> Conflict(f, old, new)
  BY DEF Promise!Merged, Merged, Promise!Conflict, Conflict

LEMMA SameBranches == Promise!Branches = Branches
  BY DEF Promise!Branches, Branches, Promise!Acts, Acts, Promise!BranchOf, BranchOf

\* The proposal of branch b.
Proposal(b) == [act |-> pr[b], from |-> main[branch[b].base], tree |-> branch[b].tree]

LEMMA ShownIs ==
  /\ \A b \in Branches : pr[b] # Nothing => Proposal(b) \in Shown
  /\ \A p \in Shown : \E b \in Branches : pr[b] # Nothing /\ p = Proposal(b)
  BY DEF Shown, Proposal

LEMMA ProposalStays ==
  ASSUME GitopsInv, MainKept, NEW b \in Branches, pr[b] # Nothing,
         branch'[b] = branch[b], pr'[b] = pr[b]
  PROVE  Proposal(b)' = Proposal(b)
<1>1. branch[b].base \in 1 .. Len(main)
  BY DEF GitopsInv, Built
<1>2. main'[branch[b].base] = main[branch[b].base]
  BY <1>1 DEF MainKept
<1> QED BY <1>2 DEF Proposal

\* While each open pull request keeps its branch, the same proposals show.
LEMMA ShownStays ==
  ASSUME GitopsInv, MainKept, pr' = pr,
         \A b \in Branches : pr[b] # Nothing => branch'[b] = branch[b]
  PROVE  Shown' = Shown
<1>1. \A b \in Branches : pr[b] # Nothing => Proposal(b)' = Proposal(b)
  BY ProposalStays
<1>2. ASSUME NEW p, p \in Shown PROVE p \in Shown'
  <2>1. PICK b \in Branches : pr[b] # Nothing /\ p = Proposal(b)
    BY <1>2, ShownIs
  <2> QED BY <1>1, <2>1 DEF Shown, Proposal
<1>3. ASSUME NEW p, p \in Shown' PROVE p \in Shown
  <2>1. PICK b \in Branches : pr'[b] # Nothing /\ p = Proposal(b)'
    BY <1>3 DEF Shown, Proposal
  <2> QED BY <1>1, <2>1, ShownIs
<1> QED BY <1>2, <1>3

\* A pull request that ends takes its proposal along, and no other.
LEMMA ShownEnds ==
  ASSUME GitopsInv, MainKept, NEW b \in Branches, pr[b] # Nothing, pr'[b] = Nothing,
         \A d \in Branches \ {b} : branch'[d] = branch[d] /\ pr'[d] = pr[d]
  PROVE  Shown' = Shown \ {Proposal(b)}
<1>1. \A d \in Branches \ {b} : pr[d] # Nothing => Proposal(d)' = Proposal(d)
  BY ProposalStays
<1>2. ASSUME NEW p, p \in Shown, p # Proposal(b) PROVE p \in Shown'
  <2>1. PICK d \in Branches : pr[d] # Nothing /\ p = Proposal(d)
    BY <1>2, ShownIs
  <2>2. d # b
    BY <1>2, <2>1
  <2> QED BY <1>1, <2>1, <2>2 DEF Shown, Proposal
<1>3. ASSUME NEW p, p \in Shown' PROVE p \in Shown /\ p # Proposal(b)
  <2>1. PICK d \in Branches : pr'[d] # Nothing /\ p = Proposal(d)'
    BY <1>3 DEF Shown, Proposal
  <2>2. d # b /\ pr[d] # Nothing /\ p = Proposal(d)
    BY <1>1, <2>1
  <2>3. BranchOf(pr[d]) = d /\ BranchOf(pr[b]) = b
    BY <2>2 DEF GitopsInv, Built
  <2>4. p.act = pr[d] /\ Proposal(b).act = pr[b]
    BY <2>2 DEF Proposal
  <2> QED BY <2>2, <2>3, <2>4, ShownIs
<1> QED BY <1>2, <1>3

\* A call that opens no pull request shows nothing.
LEMMA CallRests ==
  ASSUME GitopsInv, UNCHANGED <<main, pr, cut>>,
         \A b \in Branches : pr[b] # Nothing => branch'[b] = branch[b]
  PROVE  Promise!Rest
<1>1. MainKept
  BY MainSame DEF GitopsInv
<1> QED BY <1>1, ShownStays DEF Promise!Rest

LEMMA WriterRests ==
  ASSUME GitopsInv, NEW r \in Requests, CreateBranch(r) \/ CommitFiles(r)
  PROVE  Promise!Rest
<1>1. /\ TypeOK /\ step[r] \in {"create", "commit"} /\ UNCHANGED <<main, pr, cut>>
      /\ act[r] \in Acts
  BY FirstAssumption DEF GitopsInv, CreateBranch, CommitFiles, Reads
<1> PICK b \in Branches : b = Target(r)
  BY <1>1, ActIs DEF Target
<1>2. branch' = branch \/ \E new : branch' = [branch EXCEPT ![b] = new]
  BY DEF CreateBranch, CommitFiles
<1>3. \A d \in Branches \ {b} : branch'[d] = branch[d]
  BY <1>1, <1>2 DEF TypeOK
<1>4. pr[b] # Nothing => branch' = branch
  <2>1. pr[b] # Nothing => branch[b] # Nothing /\ branch[b].ahead
    BY DEF GitopsInv, Built
  <2>2. branch' = branch \/ branch[b] = Nothing \/ ~branch[b].ahead
    BY DEF CreateBranch, CommitFiles, FastForwards
  <2> QED BY <2>1, <2>2
<1> QED BY <1>1, <1>3, <1>4, CallRests

\* The last call opens what was composed, of an action and of commits that fit.
LEMMA OpenProposes ==
  ASSUME GitopsInv, NEW r \in Requests, OpenPR(r), pr' # pr
  PROVE  Promise!Next
<1>1. /\ TypeOK /\ step[r] = "open" /\ UNCHANGED <<main, branch, cut>> /\ act[r] \in Asked
      /\ act[r] \in Acts
  BY FirstAssumption DEF GitopsInv, OpenPR, Reads
<1>2. MainKept
  BY <1>1, MainSame
<1> PICK title \in Asked : title = act[r]
  BY <1>1
<1> PICK b \in Branches : b = BranchOf(title)
  BY <1>1, ActIs
<1>3. /\ pr[b] = Nothing /\ branch[b] # Nothing /\ branch[b].ahead
      /\ pr' = [pr EXCEPT ![b] = title] /\ Writes(r, b) /\ title # Nothing
  BY <1>1, ActIs DEF OpenPR, Target, Writes
<1>4. pr'[b] = title /\ \A d \in Branches \ {b} : pr'[d] = pr[d]
  BY <1>1, <1>3 DEF TypeOK
<1>5. PICK a \in Asked : IsAction(b, a) /\ (b \notin cut => title = a)
  BY <1>3 DEF GitopsInv, Built
<1>6. PICK k \in 1 .. Len(main), i \in branch[b].since .. branch[b].base :
        /\ k = branch[b].base /\ Accepts(main[i].registry, a)
        /\ \E j \in i .. k : branch[b].tree = Edited(main, a, i, j, k)
  BY <1>3, <1>5 DEF IsAction, Holds, GitopsInv, Built
<1>7. PICK j \in i .. k : branch[b].tree = Edited(main, a, i, j, k)
  BY <1>6
<1>8. i \in 1 .. k
  <2>1. branch[b] \in Heads
    BY <1>1, <1>3 DEF TypeOK
  <2> QED BY <1>6, <2>1, BoundAssumption DEF Heads
<1>9. PICK tree \in Trees : tree = branch[b].tree
  <2>1. branch[b] \in Heads
    BY <1>1, <1>3 DEF TypeOK
  <2> QED BY <2>1 DEF Heads
<1>10. PICK from \in Trees : from = main[k]
  BY <1>1, MainIs
<1> DEFINE new == [act |-> title, from |-> from, tree |-> tree]
<1>11. Proposal(b)' = new
  BY <1>1, <1>4, <1>6, <1>9, <1>10 DEF Proposal
<1>12. \A d \in Branches \ {b} : pr[d] # Nothing => Proposal(d)' = Proposal(d)
  BY <1>1, <1>2, <1>4, ProposalStays
<1>13. Shown' = Shown \union {new}
  <2> HIDE DEF new
  <2>1. ASSUME NEW p, p \in Shown PROVE p \in Shown'
    <3>1. PICK d \in Branches : pr[d] # Nothing /\ p = Proposal(d)
      BY <2>1, ShownIs
    <3>2. d # b
      BY <1>3, <3>1
    <3>3. pr'[d] # Nothing /\ p = Proposal(d)'
      BY <1>4, <1>12, <3>1, <3>2
    <3> QED BY <3>3 DEF Shown, Proposal
  <2>2. new \in Shown'
    <3>1. pr'[b] # Nothing /\ new = Proposal(b)'
      BY <1>3, <1>4, <1>11
    <3> QED BY <3>1 DEF Shown, Proposal
  <2>3. ASSUME NEW p, p \in Shown' PROVE p \in Shown \/ p = new
    <3>1. PICK d \in Branches : pr'[d] # Nothing /\ p = Proposal(d)'
      BY <2>3 DEF Shown, Proposal
    <3>2. CASE d = b
      BY <1>11, <3>1, <3>2
    <3>3. CASE d # b
      <4>1. pr[d] # Nothing /\ p = Proposal(d)
        BY <1>4, <1>12, <3>1, <3>3
      <4> QED BY <4>1, ShownIs
    <3> QED BY <3>2, <3>3
  <2> QED BY <2>1, <2>2, <2>3
<1>14. \A p \in Shown : BranchOf(p.act) # BranchOf(title)
  <2> SUFFICES ASSUME NEW p \in Shown PROVE BranchOf(p.act) # BranchOf(title)
    OBVIOUS
  <2>1. PICK d \in Branches : pr[d] # Nothing /\ p = Proposal(d)
    BY ShownIs
  <2>2. p.act = pr[d] /\ BranchOf(pr[d]) = d
    BY <2>1 DEF Proposal, GitopsInv, Built
  <2> QED BY <1>3, <2>1, <2>2
<1>15. new = [act |-> title, from |-> main[k], tree |-> Edited(main, a, i, j, k)]
  BY <1>7, <1>9, <1>10
<1>16. BranchOf(a) = b /\ AdditionsKnown(a) /\ (a = title \/ b \in cut)
  BY <1>5 DEF IsAction
<1> HIDE DEF new
<1>17. /\ Promise!BranchOf(a) = Promise!BranchOf(title)
       /\ a = title \/ Promise!BranchOf(a) \in cut
       /\ a.type = "harness" => \E n \in 1 .. Len(main) : a.add \subseteq Promise!Listed(main[n])
       /\ \A p \in Shown : Promise!BranchOf(p.act) # Promise!BranchOf(title)
  BY <1>14, <1>16, SameEdits DEF AdditionsKnown
<1>18. /\ Promise!Accepts(main[i].registry, a)
       /\ Shown' = Shown \union {[act |-> title, from |-> main[k],
                                  tree |-> Promise!Edited(main, a, i, j, k)]}
  BY <1>6, <1>13, <1>15, SameEdits
<1>19. Promise!Propose(title, a)
  BY <1>1, <1>8, <1>17, <1>18 DEF Promise!Propose
<1> QED BY <1>19 DEF Promise!Next

\* A merge brings in what the commit changed, for every state of main.
LEMMA MergeMerges ==
  ASSUME GitopsInv, NEW b \in Branches, MergePR(b)
  PROVE  Promise!Next
<1>1. TypeOK /\ pr[b] # Nothing /\ EndPR(b) /\ UNCHANGED <<cut, step, act>>
  BY DEF GitopsInv, MergePR
<1>2. PICK old \in Trees, new \in Trees :
        /\ old = main[branch[b].base] /\ new = branch[b].tree
        /\ Clean(Tip, old, new) /\ main' = Append(main, MergeOf(Tip, old, new)) /\ MainKept
  BY MergeIs
<1>3. pr'[b] = Nothing /\ \A d \in Branches \ {b} : branch'[d] = branch[d] /\ pr'[d] = pr[d]
  BY <1>1, <1>2, EndIs
<1>4. Shown' = Shown \ {Proposal(b)} /\ Proposal(b) \in Shown
  BY <1>1, <1>2, <1>3, ShownEnds, ShownIs
<1>5. Proposal(b).from = old /\ Proposal(b).tree = new
  BY <1>2 DEF Proposal
<1>6. Promise!Now = Tip
  BY DEF Promise!Now, Tip
<1>7. /\ ~Conflict(Tip.registry, old.registry, new.registry)
      /\ ~Conflict(Tip.harnesses, old.harnesses, new.harnesses)
      /\ main' = Append(main, [registry  |-> Merged(Tip.registry, old.registry, new.registry),
                               harnesses |-> Merged(Tip.harnesses, old.harnesses, new.harnesses)])
  BY <1>2 DEF Clean, MergeOf
<1>8. Promise!Merge(Proposal(b))
  BY <1>1, <1>4, <1>5, <1>6, <1>7, SameMerge DEF Promise!Merge
<1> QED BY <1>4, <1>8 DEF Promise!Next

LEMMA CloseCloses ==
  ASSUME GitopsInv, NEW b \in Branches, ClosePR(b)
  PROVE  Promise!Next
<1>1. TypeOK /\ pr[b] # Nothing /\ EndPR(b) /\ UNCHANGED <<main, cut, step, act>> /\ MainKept
  BY MainSame DEF GitopsInv, ClosePR
<1>2. pr'[b] = Nothing /\ \A d \in Branches \ {b} : branch'[d] = branch[d] /\ pr'[d] = pr[d]
  BY <1>1, EndIs
<1>3. Shown' = Shown \ {Proposal(b)} /\ Proposal(b) \in Shown
  BY <1>1, <1>2, ShownEnds, ShownIs
<1>4. Promise!Close(Proposal(b))
  BY <1>1, <1>3 DEF Promise!Close
<1> QED BY <1>3, <1>4 DEF Promise!Next

LEMMA DeleteCuts ==
  ASSUME GitopsInv, NEW b \in Branches, DeleteStaleBranch(b)
  PROVE  Promise!Next
<1>1. TypeOK /\ pr[b] = Nothing /\ UNCHANGED <<main, pr>> /\ MainKept
  BY MainSame DEF GitopsInv, DeleteStaleBranch
<1>2. \A d \in Branches : pr[d] # Nothing => branch'[d] = branch[d]
  BY <1>1 DEF DeleteStaleBranch, TypeOK
<1>3. Shown' = Shown
  BY <1>1, <1>2, ShownStays
<1>4. cut' = cut \/ cut' = cut \union {b}
  BY DEF DeleteStaleBranch
<1>5. Promise!Rest \/ Promise!Cut(b)
  BY <1>1, <1>3, <1>4 DEF Promise!Rest, Promise!Cut
<1> QED BY <1>5, SameBranches DEF Promise!Next

LEMMA PushPushes ==
  ASSUME GitopsInv, NEW a \in Pushed, PushToMain(a)
  PROVE  Promise!Next
<1>1. TypeOK /\ UNCHANGED <<branch, pr, cut>>
  BY DEF GitopsInv, PushToMain
<1>2. Valid(Tip, a) /\ main' = Append(main, Apply(Tip, a)) /\ MainKept
  BY <1>1, PushIs
<1>3. Shown' = Shown
  BY <1>1, <1>2, ShownStays
<1>4. Promise!Now = Tip
  BY DEF Promise!Now, Tip
<1>5. Promise!Push(a)
  BY <1>1, <1>2, <1>3, <1>4, SameEdits DEF Promise!Push
<1> QED BY <1>5 DEF Promise!Next

\* The portal refines Proposals: for any number of requests, whose calls interleave with
\* each other and with people and stop anywhere, a pull request opens in one step, as an
\* action whose files were edited from two moments of main, in order and not after its
\* base (Compose... in gitops/compose*.go), and a merge brings in what differs from that
\* base, whatever main has become.
THEOREM PortalKeepsProposals == Spec => KeepsProposals
<1>1. Init => Promise!Init
  BY DEF Init, Shown, Promise!Init
<1>2. GitopsInv /\ [Next]_vars => [Promise!Next]_<<main, Shown, cut>>
  <2> SUFFICES ASSUME GitopsInv, [Next]_vars PROVE Promise!Next
    OBVIOUS
  <2>1. CASE UNCHANGED vars
    BY <2>1, CallRests DEF vars, hubVars, Promise!Next
  <2>2. ASSUME NEW r \in Requests, NEW a \in Asked, StartRequest(r, a) PROVE Promise!Next
    BY <2>2, CallRests DEF StartRequest, hubVars, Promise!Next
  <2>3. ASSUME NEW r \in Requests, Compose(r) PROVE Promise!Next
    <3>1. CASE OpenPR(r)
      <4>1. CASE pr' = pr
        BY <3>1, <4>1, CallRests DEF OpenPR, Promise!Next
      <4> QED BY <3>1, <4>1, OpenProposes
    <3>2. CASE CreateBranch(r) \/ CommitFiles(r)
      BY <3>2, WriterRests DEF Promise!Next
    <3>3. CASE UNCHANGED hubVars
      BY <3>3, CallRests DEF hubVars, Promise!Next
    <3>4. OpenPR(r) \/ CreateBranch(r) \/ CommitFiles(r) \/ UNCHANGED hubVars
      BY <2>3 DEF Compose, FindOpenPR, GetRegistry, GetHarnesses, DefaultBranchSHA, BranchExists
    <3> QED BY <3>1, <3>2, <3>3, <3>4
  <2>4. ASSUME NEW r \in Requests, StopHalfWay(r) PROVE Promise!Next
    BY <2>4, CallRests DEF StopHalfWay, hubVars, Promise!Next
  <2>5. ASSUME NEW b \in Branches, MergePR(b) \/ ClosePR(b) \/ DeleteStaleBranch(b)
        PROVE  Promise!Next
    BY <2>5, MergeMerges, CloseCloses, DeleteCuts
  <2>6. ASSUME NEW a \in Pushed, PushToMain(a) PROVE Promise!Next
    BY <2>6, PushPushes
  <2> QED BY <2>1, <2>2, <2>3, <2>4, <2>5, <2>6 DEF Next, Hub
<1> QED BY <1>1, <1>2, GitopsHolds, PTL DEF Spec, KeepsProposals, Promise!Spec
=============================================================================
