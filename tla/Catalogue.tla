----------------------------- MODULE Catalogue -----------------------------
(***************************************************************************)
(* The catalogue that the hub keeps in hub/registry.yaml, the check that   *)
(* its CI runs before a merge (fdh validate-registry), and what fdh init   *)
(* makes of a catalogue that was let through.                              *)
(*                                                                         *)
(* A catalogue is the sequence of its entries as the file declares them;   *)
(* the hub's directories are pairs of a kind and the name of a directory   *)
(* under that kind's.                                                      *)
(***************************************************************************)
EXTENDS Naturals, Sequences, SequencesExt, FiniteSets

CONSTANTS
  Kinds,        \* the known kinds
  SkillKind,    \* the one kind of a legacy catalogue
  Kebab,        \* the names in kebab case
  Canonical,    \* the known agents
  Adapters,     \* Adapters[k]: the agents with an adapter for components of kind k
  Entries,      \* entries that a catalogue may hold
  Leaves        \* names of directories

ASSUME KindAssumption    == SkillKind \in Kinds
ASSUME AdapterAssumption == Adapters \in [Kinds -> SUBSET Canonical]

Ref(e)  == [name |-> e.name, kind |-> e.kind]
AllDirs == Kinds \X Leaves

\* parse: the entries of a legacy catalogue are skills.
Parse(file) ==
  IF file.schema = 1 THEN [i \in DOMAIN file.components |->
                             [file.components[i] EXCEPT !.kind = SkillKind]]
  ELSE file.components
Parses(file) == file.schema \in {1, 2}

\* ComponentByName: the first entry that has the name and the kind.
Known(catalog, ref) == \E i \in DOMAIN catalog : Ref(catalog[i]) = ref
ComponentByName(catalog, ref) ==
  catalog[SelectInSeq(catalog, LAMBDA e : Ref(e) = ref)]

-----------------------------------------------------------------------------
(* Validate. *)

\* An entry on its own; a path is a directory under a kind's.
EntryOK(e, dirs) ==
  /\ e.kind \in Kinds
  /\ e.name \in Kebab
  /\ e.path[1] = e.kind /\ e.path \in dirs
  /\ e.agents # {} /\ e.agents \subseteq Canonical
  /\ e.floorOK  \* min_fdh_version is absent or a version

\* Mutant: names are unique among the entries of one path.
NamesUniqueByPath(catalog) ==
  \A i, j \in DOMAIN catalog :
    Ref(catalog[i]) = Ref(catalog[j]) /\ catalog[i].path = catalog[j].path => i = j

NamesUnique(catalog) ==
  \A i, j \in DOMAIN catalog : Ref(catalog[i]) = Ref(catalog[j]) => i = j

\* findOrphansByKind: directories that no entry of their kind registers.
Orphans(catalog, dirs) ==
  {d \in dirs : \A i \in DOMAIN catalog : catalog[i].kind = d[1] => catalog[i].path # d}

Validate(catalog, dirs) ==
  /\ \A i \in DOMAIN catalog : EntryOK(catalog[i], dirs)
  /\ NamesUnique(catalog)
  /\ Orphans(catalog, dirs) = {}

\* fdh validate-registry lets a hub through.
Accepts(file, dirs) == Parses(file) /\ Validate(Parse(file), dirs)

-----------------------------------------------------------------------------
(* fdh init. *)

\* buildComponentChoices: what one of the agents supports, and what is checked first.
Offered(catalog, agents) ==
  {Ref(catalog[i]) : i \in {k \in DOMAIN catalog : catalog[k].agents \cap agents # {}}}
PreSelected(catalog, agents, members, noDefaults) ==
  {Ref(catalog[i]) : i \in {k \in DOMAIN catalog :
     /\ catalog[k].agents \cap agents # {}
     /\ Ref(catalog[k]) \in members \/ (catalog[k].default /\ ~noDefaults)}}

\* resolveComponentSelection: an unknown one ends the command.
Unknown(catalog, picked) == {r \in picked : ~Known(catalog, r)}

\* buildWizardManifest, written and loaded again: a block for each known kind.
Blocks(picked) == [k \in Kinds |-> {r.name : r \in {p \in picked : p.kind = k}}]
ManifestValid(blocks) == \A k \in Kinds : blocks[k] \subseteq Kebab
HasAnyEntries(blocks) == \E k \in Kinds : blocks[k] # {}

\* Expand of the explicit entries.
Asked(blocks) == {[name |-> n, kind |-> k] : n \in UNION {blocks[k] : k \in Kinds}, k \in Kinds}
Explicit(blocks) == {r \in Asked(blocks) : r.name \in blocks[r.kind]}

\* installResolvedRefs: the agents that a component goes to; those without an
\* adapter for its kind are passed over in silence.
Targets(catalog, ref, agents) ==
  ComponentByName(catalog, ref).agents \cap agents \cap Adapters[ref.kind]

-----------------------------------------------------------------------------
CatalogueFiles(n) == [schema : 1 .. 3, components : BoundedSeq(Entries, n)]

(* When validate-registry accepts a hub, whatever fdh init offers or checks first for
   some agents can be chosen: it is known, the manifest written for it is a valid one
   that asks for exactly what was chosen, and each entry of a component chosen has a
   directory to be fetched from and goes to exactly the agents it names that were
   asked for and have an adapter for its kind: perhaps to none, which neither the check
   nor the wizard says (validate.go, Validate; init_wizard_harness.go,
   buildComponentChoices to installResolvedRefs). *)
AcceptedCatalogueInstalls(n) ==
  \A file \in CatalogueFiles(n), dirs \in SUBSET AllDirs : Accepts(file, dirs) =>
    LET catalog == Parse(file) IN
    \A agents \in (SUBSET Canonical) \ {{}}, noDefaults \in BOOLEAN,
       members \in SUBSET {Ref(catalog[i]) : i \in DOMAIN catalog} :
      LET offered == Offered(catalog, agents) IN
      /\ PreSelected(catalog, agents, members, noDefaults) \subseteq offered
      /\ \A picked \in (SUBSET offered) \ {{}} :
           /\ Unknown(catalog, picked) = {}
           /\ ManifestValid(Blocks(picked)) /\ HasAnyEntries(Blocks(picked))
           /\ Explicit(Blocks(picked)) = picked
           /\ \A i \in DOMAIN catalog : Ref(catalog[i]) \in picked =>
                LET e == catalog[i] IN
                /\ ComponentByName(catalog, Ref(e)).path \in dirs
                /\ Targets(catalog, Ref(e), agents) = e.agents \cap agents \cap Adapters[e.kind]
=============================================================================
