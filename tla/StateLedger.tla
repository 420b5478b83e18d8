---------------------------- MODULE StateLedger ----------------------------
(***************************************************************************)
(* ~/.fdh: the state ledger (state.json) and the instincts beside it.      *)
(* Install, init, switch and repair decode the ledger strictly             *)
(* (pkg/state); the instinct commands read it as a map, change the key     *)
(* `instincts` and keep the rest (pkg/instincts).  Both replace it by a    *)
(* rename of one temporary file of a fixed name, and nobody locks it.      *)
(***************************************************************************)
EXTENDS Integers, Sequences, FiniteSets

CONSTANTS
    Procs,          \* commands that may run at the same time
    Projects,       \* project directories of the machine
    NoSection,      \* a ledger without the key `instincts`
    CaptureIds,     \* identifiers NewULID may draw
    Bodies,         \* bodies of instincts, equal when their BodyHash is
    Bundle,         \* the file to import: a sequence of identifier and body
    NoBody,         \* a body Validate refuses
    Absent,         \* no such file
    Torn,           \* a file truncated and not yet, or never, written
    Broken,         \* an instinct file that does not decode
    MinCluster,     \* least number of instincts evolve makes a draft of
    MaxCommands,    \* bound on the commands started
    MaxFaults       \* bound on crashes and edits

BundleIds == {Bundle[i].id : i \in DOMAIN Bundle}
Ids == CaptureIds \cup BundleIds

ASSUME BoundsAssumption ==
    MaxCommands \in Nat /\ MaxFaults \in Nat /\ MinCluster \in Nat
ASSUME BundleAssumption ==
    Bundle \in Seq([id : BundleIds, body : Bodies \cup {NoBody}])
\* NewULID draws an identifier that no bundle has.
ASSUME FreshAssumption == CaptureIds \cap BundleIds = {}
ASSUME BodiesAssumption == Absent # Broken /\ {NoBody, Absent, Broken} \cap Bodies = {}

VARIABLES
    turns,          \* whether the commands of this machine take turns
    ledger, tmp,    \* state.json and state.json.tmp
    file,           \* file[i]: the body in <i>.yaml, Broken or Absent
    part,           \* identifiers with a <i>.yaml.tmp
    alive,          \* project directories that exist
    started, faults,
    cmd,            \* cmd[p]: where p is, what it was asked to do, what it read
    handle          \* the file p's open descriptor names: "tmp", "ledger", "none"

files == <<file, part>>
world == <<turns, alive, started, faults>>
vars == <<world, ledger, tmp, files, cmd, handle>>

Counters == [count : Nat, runs : Nat]
Zero == [count |-> 0, runs |-> 0]
Books == [entry : [Projects -> Nat], hub : Nat, section : Counters \cup {NoSection}]
Contents == [book : Books, tail : BOOLEAN]     \* tail: bytes after the JSON value
ASSUME ContentsAssumption ==
    Absent # Torn /\ {Absent, Torn} \cap Contents = {} /\ NoSection \notin Counters
NoBook == [entry |-> [q \in Projects |-> 0], hub |-> 0, section |-> NoSection]

Jobs ==
    [kind : {"register"}, project : Projects, stamp : Nat] \cup
    [kind : {"repair", "import", "evolve", "export", "none"}] \cup
    [kind : {"capture"}, id : Ids, body : Bodies] \cup
    [kind : {"delete"}, id : Ids]

Phases == {"idle", "load", "mutate", "open", "write", "rename",
           "draft", "publish", "ask", "list", "items", "keep"}

\* view: the ledger to write; seen: the local instincts an import found; item and
\* imported: how far it is and how many it has written.
Commands == [at : Phases, job : Jobs, view : Books, seen : [Ids -> Bodies \cup {Absent}],
             item : Nat, imported : Nat]
NothingSeen == [i \in Ids |-> Absent]
Idle == [at |-> "idle", job |-> [kind |-> "none"], view |-> NoBook,
         seen |-> NothingSeen, item |-> 1, imported |-> 0]

Init ==
    /\ turns \in BOOLEAN
    /\ ledger = Absent /\ tmp = Absent
    /\ file = [i \in Ids |-> Absent] /\ part = {}
    /\ alive = Projects
    /\ started = 0 /\ faults = 0
    /\ cmd = [p \in Procs |-> Idle]
    /\ handle = [p \in Procs |-> "none"]

At(p, phase) == cmd[p].at = phase
Job(p) == cmd[p].job
Quiet == \A p \in Procs : At(p, "idle")
Readable == {i \in Ids : file[i] \in Bodies}

Goto(p, phase) == cmd' = [cmd EXCEPT ![p].at = phase]
Ends(p) == cmd' = [cmd EXCEPT ![p] = Idle]

Start(p, job, phase) ==
    /\ At(p, "idle")
    /\ turns => Quiet
    /\ started < MaxCommands /\ started' = started + 1
    /\ cmd' = [cmd EXCEPT ![p] = [Idle EXCEPT !.job = job, !.at = phase]]

(***************************************************************************)
(* The ledger                                                              *)
(***************************************************************************)
\* The strict decoder refuses unknown keys and does not look past the first value.
Loadable(f) == IF f = Absent THEN TRUE ELSE f # Torn /\ f.book.section = NoSection
Loaded(f) == IF f = Absent THEN NoBook ELSE f.book

\* json.Unmarshal refuses what follows the value: then everything is dropped.
Salvaged(f) == IF f \in {Absent, Torn} THEN NoBook ELSE IF f.tail THEN NoBook ELSE f.book

\* Install, switch and init reach the ledger as their last step.
StartRegister(p) ==
    /\ \E q \in alive : Start(p, [kind |-> "register", project |-> q, stamp |-> started + 1], "load")
    /\ UNCHANGED <<turns, alive, faults, ledger, tmp, files, handle>>

StartRepair(p) ==
    /\ Start(p, [kind |-> "repair"], "load")
    /\ UNCHANGED <<turns, alive, faults, ledger, tmp, files, handle>>

Registered(b, job) == [b EXCEPT !.entry[job.project] = job.stamp, !.hub = job.stamp]
Without(b, gone) == [b EXCEPT !.entry = [q \in Projects |-> IF q \in gone THEN 0 ELSE @[q]]]
Orphans(b) == {q \in Projects \ alive : b.entry[q] # 0}

Writes(p, b) == cmd' = [cmd EXCEPT ![p].view = b, ![p].at = "open"]

\* A ledger that does not load is left alone, by an install without a word.
Load(p) ==
    LET b == Loaded(ledger) IN
    /\ At(p, "load")
    /\ \/ ~Loadable(ledger) /\ Ends(p)
       \/ /\ Loadable(ledger) /\ Job(p).kind = "register"
          /\ Writes(p, Registered(b, Job(p)))
       \/ /\ Loadable(ledger) /\ Job(p).kind = "repair"
          /\ IF Orphans(b) = {} THEN Ends(p) ELSE Writes(p, Without(b, Orphans(b)))
    /\ UNCHANGED <<world, ledger, tmp, files, handle>>

\* Mutants: a deletion takes one away, whatever the count; it takes nothing away.
TalliedBelow(s, c) ==
    CASE c.job.kind = "capture" -> [s EXCEPT !.count = @ + 1]
      [] c.job.kind = "delete"  -> [s EXCEPT !.count = @ - 1]
      [] c.job.kind = "import"  -> [s EXCEPT !.count = @ + c.imported]
      [] c.job.kind = "evolve"  -> [s EXCEPT !.runs = @ + 1]
      [] OTHER                  -> s
TalliedUp(s, c) == IF c.job.kind = "delete" THEN s ELSE TalliedBelow(s, c)

\* MutateState: what each instinct command does to the key `instincts`.
Tallied(s, c) ==
    CASE c.job.kind = "capture" -> [s EXCEPT !.count = @ + 1]
      [] c.job.kind = "delete"  -> [s EXCEPT !.count = IF @ > 0 THEN @ - 1 ELSE 0]
      [] c.job.kind = "import"  -> [s EXCEPT !.count = @ + c.imported]
      [] c.job.kind = "evolve"  -> [s EXCEPT !.runs = @ + 1]
      [] OTHER                  -> s
\* Mutant: the other keys of the document are dropped.
MutatedAlone(b, c) ==
    [NoBook EXCEPT !.section = Tallied(IF b.section = NoSection THEN Zero ELSE b.section, c)]

Mutated(b, c) ==
    [b EXCEPT !.section = Tallied(IF @ = NoSection THEN Zero ELSE @, c)]

Mutate(p) ==
    /\ At(p, "mutate")
    /\ Writes(p, Mutated(Salvaged(ledger), cmd[p]))
    /\ UNCHANGED <<world, ledger, tmp, files, handle>>

\* Mutant: the ledger itself is opened.
OpenLedger(p) ==
    /\ At(p, "open")
    /\ ledger' = Torn
    /\ handle' = [handle EXCEPT ![p] = "ledger"]
    /\ Goto(p, "write")
    /\ UNCHANGED <<world, tmp, files>>

\* os.WriteFile opens and truncates, then writes to whatever that file is by now.
OpenTmp(p) ==
    /\ At(p, "open")
    /\ tmp' = Torn
    /\ handle' = [handle EXCEPT ![p] = "tmp"]
    /\ Goto(p, "write")
    /\ UNCHANGED <<world, ledger, files>>

\* A shorter text over a longer one leaves the end of the longer one behind.
Overwritten(f, b) == [book : {b}, tail : IF f = Torn THEN {FALSE} ELSE BOOLEAN]

WriteTmp(p) ==
    /\ At(p, "write")
    /\ \/ handle[p] = "tmp" /\ tmp' \in Overwritten(tmp, cmd[p].view) /\ UNCHANGED ledger
       \/ handle[p] = "ledger" /\ ledger' \in Overwritten(ledger, cmd[p].view) /\ UNCHANGED tmp
       \/ handle[p] = "none" /\ UNCHANGED <<ledger, tmp>>
    /\ handle' = [handle EXCEPT ![p] = "none"]
    /\ Goto(p, "rename")
    /\ UNCHANGED <<world, files>>

\* Descriptors follow their file.  A rename that fails ends the command too.
Rename(p) ==
    /\ At(p, "rename")
    /\ IF tmp = Absent
         THEN UNCHANGED <<ledger, tmp, handle>>
         ELSE /\ ledger' = tmp
              /\ tmp' = Absent
              /\ handle' = [r \in Procs |-> IF handle[r] = "tmp" THEN "ledger" ELSE "none"]
    /\ Ends(p)
    /\ UNCHANGED <<world, files>>

(***************************************************************************)
(* The instincts                                                           *)
(***************************************************************************)
\* List removes every temporary file it meets, another command's too.
Cleanup == part' = {} /\ UNCHANGED file

Drafted == {Job(p).id : p \in {r \in Procs : Job(r).kind = "capture"}}

StartCapture(p) ==
    /\ \E i \in CaptureIds \ Drafted, b \in Bodies :
          file[i] = Absent /\ Start(p, [kind |-> "capture", id |-> i, body |-> b], "draft")
    /\ UNCHANGED <<turns, alive, faults, ledger, tmp, files, handle>>

StartDelete(p) ==
    /\ \E i \in Readable : Start(p, [kind |-> "delete", id |-> i], "ask")
    /\ Cleanup
    /\ UNCHANGED <<turns, alive, faults, ledger, tmp, handle>>

StartImport(p) ==
    /\ Start(p, [kind |-> "import"], "list")
    /\ UNCHANGED <<turns, alive, faults, ledger, tmp, files, handle>>

StartExport(p) ==
    /\ Readable # {}
    /\ Start(p, [kind |-> "export"], "mutate")
    /\ Cleanup
    /\ UNCHANGED <<turns, alive, faults, ledger, tmp, handle>>

\* Evolve counts a run only when some cluster is large enough for a draft, of the
\* local instincts or, without listing those, of a bundle nobody validates.
StartEvolve(p) ==
    /\ Start(p, [kind |-> "evolve"], "mutate")
    /\ \/ Cardinality(Readable) >= MinCluster /\ Cleanup
       \/ Len(Bundle) >= MinCluster /\ UNCHANGED files
    /\ UNCHANGED <<turns, alive, faults, ledger, tmp, handle>>

\* WriteAtomic: a temporary file, and a rename that fails once it was cleaned up.
DraftCapture(p) ==
    /\ At(p, "draft")
    /\ part' = part \cup {Job(p).id}
    /\ Goto(p, "publish")
    /\ UNCHANGED <<world, ledger, tmp, file, handle>>

Publish(i, body) == file' = [file EXCEPT ![i] = body] /\ part' = part \ {i}

PublishCapture(p) ==
    /\ At(p, "publish")
    /\ IF Job(p).id \in part
         THEN Publish(Job(p).id, Job(p).body) /\ Goto(p, "mutate")
         ELSE UNCHANGED files /\ Ends(p)
    /\ UNCHANGED <<world, ledger, tmp, handle>>

\* The developer says yes or no; a file that is gone by now counts as deleted.
Delete(p) ==
    /\ At(p, "ask")
    /\ \/ file' = [file EXCEPT ![Job(p).id] = Absent] /\ Goto(p, "mutate")
       \/ UNCHANGED file /\ Ends(p)
    /\ UNCHANGED <<world, ledger, tmp, part, handle>>

ListLocal(p) ==
    /\ At(p, "list")
    /\ Cleanup
    /\ cmd' = [cmd EXCEPT ![p].at = "items",
                          ![p].seen = [i \in Ids |-> IF i \in Readable THEN file[i] ELSE Absent]]
    /\ UNCHANGED <<world, ledger, tmp, handle>>

Item(p) == Bundle[cmd[p].item]
Malformed(p) == Item(p).body = NoBody
\* Mutant: the local instincts are not compared by identifier.
NoClash(p) == FALSE
Clash(p) == cmd[p].seen[Item(p).id] \notin {Absent, Item(p).body}
Duplicate(p) == \E i \in Ids : cmd[p].seen[i] = Item(p).body

\* The index of local instincts is the one made before the first item.
ImportItem(p) ==
    /\ At(p, "items") /\ cmd[p].item <= Len(Bundle)
    /\ \/ ~Malformed(p) /\ Clash(p) /\ Ends(p) /\ UNCHANGED part
       \/ /\ Malformed(p) \/ (~Clash(p) /\ Duplicate(p))
          /\ cmd' = [cmd EXCEPT ![p].item = @ + 1]
          /\ UNCHANGED part
       \/ /\ ~Malformed(p) /\ ~Clash(p) /\ ~Duplicate(p)
          /\ part' = part \cup {Item(p).id}
          /\ Goto(p, "keep")
    /\ UNCHANGED <<world, ledger, tmp, file, handle>>

KeepItem(p) ==
    /\ At(p, "keep")
    /\ IF Item(p).id \in part
         THEN /\ Publish(Item(p).id, Item(p).body)
              /\ cmd' = [cmd EXCEPT ![p].at = "items", ![p].item = @ + 1, ![p].imported = @ + 1]
         ELSE UNCHANGED files /\ Ends(p)
    /\ UNCHANGED <<world, ledger, tmp, handle>>

ImportDone(p) ==
    /\ At(p, "items") /\ cmd[p].item > Len(Bundle)
    /\ Goto(p, "mutate")
    /\ UNCHANGED <<world, ledger, tmp, files, handle>>

(***************************************************************************)
(* The developer and the machine                                           *)
(***************************************************************************)
\* `fdh instinct edit`: the editor writes the file itself, validation comes after.
EditInstinct(i) ==
    /\ i \in Readable
    /\ faults < MaxFaults /\ faults' = faults + 1
    /\ \E c \in (Bodies \cup {Broken}) \ {file[i]} : file' = [file EXCEPT ![i] = c]
    /\ UNCHANGED <<turns, alive, started, ledger, tmp, part, cmd, handle>>

RemoveProjectDir(q) ==
    /\ q \in alive
    /\ alive' = alive \ {q}
    /\ UNCHANGED <<turns, started, faults, ledger, tmp, files, cmd, handle>>

Crash(p) ==
    /\ ~At(p, "idle")
    /\ faults < MaxFaults /\ faults' = faults + 1
    /\ Ends(p)
    /\ handle' = [handle EXCEPT ![p] = "none"]
    /\ UNCHANGED <<turns, alive, started, ledger, tmp, files>>

OnLedger(p) == Load(p) \/ Mutate(p) \/ OpenTmp(p) \/ WriteTmp(p) \/ Rename(p)
Starts(p) ==
    \/ StartRegister(p) \/ StartRepair(p) \/ StartCapture(p) \/ StartDelete(p)
    \/ StartImport(p) \/ StartExport(p) \/ StartEvolve(p)
OnInstincts(p) ==
    \/ DraftCapture(p) \/ PublishCapture(p) \/ Delete(p)
    \/ ListLocal(p) \/ ImportItem(p) \/ KeepItem(p) \/ ImportDone(p)

Next ==
    \/ \E p \in Procs : Starts(p) \/ OnLedger(p) \/ OnInstincts(p) \/ Crash(p)
    \/ \E i \in Ids : EditInstinct(i)
    \/ \E q \in Projects : RemoveProjectDir(q)

Spec == Init /\ [][Next]_vars

(***************************************************************************)
(* Properties                                                              *)
(***************************************************************************)
TypeOK ==
    /\ turns \in BOOLEAN
    /\ {ledger, tmp} \subseteq Contents \cup {Absent, Torn}
    /\ file \in [Ids -> Bodies \cup {Absent, Broken}] /\ part \subseteq Ids
    /\ alive \subseteq Projects /\ started \in Nat /\ faults \in Nat
    /\ cmd \in [Procs -> Commands]
    /\ handle \in [Procs -> {"tmp", "ledger", "none"}]

\* While commands take turns, state.json is whole, whatever crash came before:
\* what Save (state.go) and MutateState (storage.go) mean by "atomically".
LedgerWhole == TypeOK /\ (turns /\ ledger # Absent => ledger # Torn /\ ~ledger.tail)

\* While commands take turns, every change of state.json is one operation of one
\* command, applied to what the last one left: nothing lost, nothing mixed.
Shown == IF turns /\ ledger \notin {Absent, Torn} THEN ledger.book ELSE NoBook
Promise == INSTANCE Ledger WITH entry <- Shown.entry, hub <- Shown.hub, section <- Shown.section
KeepsPromise == Promise!Spec

\* Whether an item of the bundle has the identifier of an earlier one.
Repeats(k) == \E j \in 1 .. k - 1 : Bundle[j].id = Bundle[k].id

\* While commands take turns, the counter `fdh instinct` keeps is between two commands
\* not ahead of the number of instinct files, cut ones included, but for one per fault
\* (MutateState runs after the file work), and unless a bundle names an instinct twice.
\* Two deletes that overlap put it ahead without a fault.
CountNotAhead ==
    turns /\ Quiet /\ Salvaged(ledger).section # NoSection
      => \/ Salvaged(ledger).section.count <= Cardinality({i \in Ids : file[i] # Absent}) + faults
         \/ \E k \in DOMAIN Bundle : Repeats(k)

\* No command replaces an instinct by another, or removes one it was not asked to
\* remove: import refuses a clash instead.  Only an import that overlaps other
\* commands, or whose bundle names an instinct twice, may overwrite an instinct, and
\* then one of its own bundle.
InstinctsKept ==
    [][\A i \in Readable :
         \/ file'[i] = file[i]
         \/ EditInstinct(i)
         \/ \E p \in Procs : Job(p).kind = "delete" /\ Job(p).id = i
         \/ \E p \in Procs : /\ At(p, "keep") /\ Item(p).id = i
                             /\ ~turns \/ Repeats(cmd[p].item)]_vars
=============================================================================
