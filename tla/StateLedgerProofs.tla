------------------------ MODULE StateLedgerProofs --------------------------
(***************************************************************************)
(* Proofs about StateLedger, for any commands, projects, bundle and        *)
(* bounds: the types, that state.json is whole and keeps the promise of    *)
(* Ledger while commands take turns, that instincts are not overwritten,   *)
(* and that the counter is not ahead of the files; and, for any instincts, *)
(* that `fdh evolve` groups what is connected and keeps its drafts apart.  *)
(***************************************************************************)
EXTENDS InstinctDrafts, DataLemmas, FiniteSetTheorems, TLAPS

(***************************************************************************)
(* The inductive invariant                                                 *)
(***************************************************************************)
\* What the phase of a command says of its job, and of the item it is to write.
PhaseOfJob(c) ==
    /\ c.at \in {"draft", "publish"} => c.job.kind = "capture" /\ c.job.id \in CaptureIds
    /\ c.at = "ask" => c.job.kind = "delete"
    /\ c.at \in {"list", "items", "keep"} => c.job.kind = "import" /\ c.item >= 1
    /\ c.at = "keep" => /\ c.item <= Len(Bundle)
                        /\ Bundle[c.item].body \in Bodies
                        /\ c.seen[Bundle[c.item].id] \in {Absent, Bundle[c.item].body}
                        /\ \A i \in Ids : c.seen[i] # Bundle[c.item].body
JobsFit == \A p \in Procs : PhaseOfJob(cmd[p])

OneActs == turns => \A p, r \in Procs : At(p, "idle") \/ At(r, "idle") \/ p = r

Writing(c) == c.at \in {"open", "write", "rename"}

\* The ledger v is what one operation of Ledger makes of b.
Tallies(s, t) ==
    \/ t.count >= s.count /\ t.runs = s.runs
    \/ t.count = (IF s.count > 0 THEN s.count - 1 ELSE 0) /\ t.runs = s.runs
    \/ t.count = s.count /\ t.runs = s.runs + 1
Counted(b) == IF b.section = NoSection THEN Zero ELSE b.section
Follows(b, v) ==
    \/ \E q \in Projects :
          /\ v.entry = [b.entry EXCEPT ![q] = v.hub]
          /\ v.section = b.section
    \/ \E gone \in SUBSET Projects :
          /\ v.entry = [q \in Projects |-> IF q \in gone THEN 0 ELSE b.entry[q]]
          /\ v.hub = b.hub /\ v.section = b.section
    \/ /\ v.entry = b.entry /\ v.hub = b.hub
       /\ v.section \in Counters /\ Tallies(Counted(b), v.section)

\* What a command has done to the temporary file, and what it is about to publish.
Written(c, h, t, b) ==
    /\ c.at = "write" => h = "tmp" /\ t = Torn
    /\ c.at # "write" => h = "none"
    /\ c.at = "rename" => t \in [book : {c.view}, tail : {FALSE}]
    /\ Writing(c) => Follows(b, c.view)
WholeLedger == turns /\ ledger # Absent => ledger # Torn /\ ledger.tail = FALSE
WritesInTurn == turns => \A p \in Procs : Written(cmd[p], handle[p], tmp, Shown)

LedgerInv == TypeOK /\ JobsFit /\ OneActs /\ WholeLedger /\ WritesInTurn

\* A capture draws an identifier of its own, of no file.
CapturesApart ==
    \A p, r \in Procs :
      Job(p).kind = "capture" /\ Job(r).kind = "capture" /\ Job(p).id = Job(r).id => p = r
NotYetThere ==
    \A p \in Procs : cmd[p].at \in {"draft", "publish"} => file[Job(p).id] = Absent

\* An import in turn finds every readable instinct in its index or among its own.
Indexed(c, f) ==
    c.at \in {"items", "keep"} =>
      \A i \in Ids : c.seen[i] = Absent /\ f[i] \in Bodies
        => \E k \in 1 .. c.item - 1 : Bundle[k].id = i
IndexInTurn == turns => \A p \in Procs : Indexed(cmd[p], file)

InstinctInv == CapturesApart /\ NotYetThere /\ IndexInTurn

\* The counter, the one a command is to write, and the readable instincts: n, with
\* the faults.  Only a deletion under way owes the ledger its own.
Owed(c, b, n) ==
    /\ Writing(c) => Counted(c.view).count <= n
    /\ c.at = "mutate" => Tallied(Counted(b), c).count <= n
    /\ c.at \in {"list", "items", "keep"} => Counted(b).count + c.imported <= n
Deleting(c) == c.job.kind = "delete" /\ (c.at = "mutate" \/ Writing(c))
NeverTwice == \A k \in DOMAIN Bundle : ~Repeats(k)
Present == {i \in Ids : file[i] # Absent}
Limit == Cardinality(Readable) + faults
CountFits ==
    /\ \A p \in Procs : Owed(cmd[p], Shown, Limit)
    /\ Counted(Shown).count <= Limit + 1
    /\ Counted(Shown).count <= Limit \/ \E p \in Procs : Deleting(cmd[p])
CountInTurn ==
    /\ IsFiniteSet(Present)
    /\ turns /\ NeverTwice => CountFits

(***************************************************************************)
(* Types                                                                   *)
(***************************************************************************)
\* What a job of each kind holds.
LEMMA JobHolds ==
    ASSUME NEW j \in Jobs
    PROVE  /\ j.kind = "register" => j.project \in Projects /\ j.stamp \in Nat
           /\ j.kind = "capture" => j.id \in Ids /\ j.body \in Bodies
           /\ j.kind = "delete" => j.id \in Ids
BY DEF Jobs

LEMMA BundleItem ==
    ASSUME NEW k \in Nat, k >= 1, k <= Len(Bundle)
    PROVE  /\ k \in DOMAIN Bundle
           /\ Bundle[k].id \in BundleIds /\ Bundle[k].id \in Ids
           /\ Bundle[k].body \in Bodies \cup {NoBody}
<1>1. k \in DOMAIN Bundle
  BY BundleAssumption
<1>2. Bundle[k] \in [id : BundleIds, body : Bodies \cup {NoBody}]
  <2> DEFINE S == [id : BundleIds, body : Bodies \cup {NoBody}]
  <2>1. Bundle \in Seq(S)
    BY BundleAssumption
  <2> HIDE DEF S
  <2>2. Bundle[k] \in S
    BY <1>1, <2>1
  <2> QED BY <2>2 DEF S
<1> QED BY <1>1, <1>2 DEF Ids

LEMMA BooksTyped ==
    /\ NoBook \in Books /\ Zero \in Counters /\ NoSection \notin Counters
    /\ NoBook.section = NoSection
    /\ Counted(NoBook) = Zero
BY ContentsAssumption DEF NoBook, Books, Zero, Counters, Counted

LEMMA IdleTyped ==
    /\ Idle \in Commands /\ PhaseOfJob(Idle)
    /\ Idle.at = "idle" /\ Idle.job.kind = "none" /\ Idle.imported = 0
BY BooksTyped DEF Idle, Commands, Phases, Jobs, NothingSeen, PhaseOfJob

LEMMA ContentsTyped ==
    ASSUME NEW f \in Contents \cup {Absent, Torn}
    PROVE  /\ Loaded(f) \in Books \/ ~Loadable(f)
           /\ Salvaged(f) \in Books
           /\ f \notin {Absent, Torn} => f.book \in Books /\ f.tail \in BOOLEAN
BY BooksTyped DEF Loaded, Loadable, Salvaged, Contents

LEMMA RegisteredTyped ==
    ASSUME NEW b \in Books, NEW j \in Jobs, j.kind = "register"
    PROVE  /\ Registered(b, j) \in Books
           /\ Registered(b, j).entry = [b.entry EXCEPT ![j.project] = j.stamp]
           /\ Registered(b, j).hub = j.stamp
           /\ Registered(b, j).section = b.section
BY JobHolds DEF Registered, Books

LEMMA WithoutTyped ==
    ASSUME NEW b \in Books, NEW gone \in SUBSET Projects
    PROVE  /\ Without(b, gone) \in Books
           /\ Without(b, gone).entry = [q \in Projects |-> IF q \in gone THEN 0 ELSE b.entry[q]]
           /\ Without(b, gone).hub = b.hub
           /\ Without(b, gone).section = b.section
BY DEF Without, Books

LEMMA TalliedTyped ==
    ASSUME NEW s \in Counters, NEW c \in Commands
    PROVE  /\ Tallied(s, c) \in Counters
           /\ Tallies(s, Tallied(s, c))
           /\ c.job.kind = "capture" => Tallied(s, c).count = s.count + 1
           /\ c.job.kind = "delete" =>
                Tallied(s, c).count = (IF s.count > 0 THEN s.count - 1 ELSE 0)
           /\ c.job.kind = "import" => Tallied(s, c).count = s.count + c.imported
           /\ c.job.kind \notin {"capture", "delete", "import"} => Tallied(s, c).count = s.count
<1>1. s.count \in Nat /\ s.runs \in Nat /\ c.imported \in Nat
  BY DEF Counters, Commands
<1>2. CASE c.job.kind = "capture"
  BY <1>1, <1>2 DEF Tallied, Tallies, Counters
<1>3. CASE c.job.kind = "delete"
  BY <1>1, <1>3 DEF Tallied, Tallies, Counters
<1>4. CASE c.job.kind = "import"
  BY <1>1, <1>4 DEF Tallied, Tallies, Counters
<1>5. CASE c.job.kind = "evolve"
  BY <1>1, <1>5 DEF Tallied, Tallies, Counters
<1>6. CASE c.job.kind \notin {"capture", "delete", "import", "evolve"}
  BY <1>1, <1>6 DEF Tallied, Tallies, Counters
<1> QED BY <1>2, <1>3, <1>4, <1>5, <1>6

LEMMA MutatedTyped ==
    ASSUME NEW b \in Books, NEW c \in Commands
    PROVE  /\ Mutated(b, c) \in Books
           /\ Mutated(b, c).entry = b.entry /\ Mutated(b, c).hub = b.hub
           /\ Mutated(b, c).section = Tallied(Counted(b), c)
           /\ Mutated(b, c).section \in Counters
           /\ Counted(b) \in Counters
           /\ Counted(Mutated(b, c)) = Tallied(Counted(b), c)
<1>1. Counted(b) \in Counters
  BY BooksTyped DEF Counted, Books
<1>2. Tallied(Counted(b), c) \in Counters
  BY <1>1, TalliedTyped
<1>3. Mutated(b, c).section = Tallied(Counted(b), c)
  BY DEF Mutated, Counted, Books
<1>4. Mutated(b, c).entry = b.entry /\ Mutated(b, c).hub = b.hub
  BY DEF Mutated, Books
<1>5. Mutated(b, c) \in Books
  BY <1>2 DEF Mutated, Counted, Books
<1> QED BY <1>1, <1>2, <1>3, <1>4, <1>5, BooksTyped DEF Counted

(***************************************************************************)
(* What the steps do to a command                                          *)
(***************************************************************************)
\* Only p moves.
Moves(p) == cmd' \in [Procs -> Commands] /\ \A r \in Procs : r # p => cmd'[r] = cmd[r]

LEMMA Became ==
    ASSUME TypeOK, NEW p \in Procs, NEW c \in Commands, cmd' = [cmd EXCEPT ![p] = c]
    PROVE  Moves(p) /\ cmd'[p] = c
BY DEF TypeOK, Moves

LEMMA Went ==
    ASSUME TypeOK, NEW p \in Procs, NEW x \in Phases, Goto(p, x)
    PROVE  /\ Moves(p) /\ cmd'[p] \in Commands
           /\ cmd'[p].at = x /\ cmd'[p].job = cmd[p].job /\ cmd'[p].view = cmd[p].view
           /\ cmd'[p].seen = cmd[p].seen /\ cmd'[p].item = cmd[p].item
           /\ cmd'[p].imported = cmd[p].imported
<1> DEFINE c == [cmd[p] EXCEPT !.at = x]
<1>1. cmd[p] \in Commands
  BY DEF TypeOK
<1>2. c \in Commands
  BY <1>1 DEF Commands
<1>3. /\ c.at = x /\ c.job = cmd[p].job /\ c.view = cmd[p].view /\ c.seen = cmd[p].seen
      /\ c.item = cmd[p].item /\ c.imported = cmd[p].imported
  BY <1>1 DEF Commands
<1>4. cmd' = [cmd EXCEPT ![p] = c]
  BY DEF Goto
<1> HIDE DEF c
<1>5. Moves(p) /\ cmd'[p] = c
  BY <1>2, <1>4, Became
<1> QED BY <1>2, <1>3, <1>5

LEMMA Ended ==
    ASSUME TypeOK, NEW p \in Procs, Ends(p)
    PROVE  Moves(p) /\ cmd'[p] = Idle /\ cmd'[p] \in Commands /\ cmd'[p].at = "idle"
BY Became, IdleTyped DEF Ends

LEMMA Wrote ==
    ASSUME TypeOK, NEW p \in Procs, NEW b \in Books, Writes(p, b)
    PROVE  /\ Moves(p) /\ cmd'[p] \in Commands
           /\ cmd'[p].at = "open" /\ cmd'[p].job = cmd[p].job /\ cmd'[p].view = b
<1> DEFINE c == [cmd[p] EXCEPT !.view = b, !.at = "open"]
<1>1. cmd[p] \in Commands
  BY DEF TypeOK
<1>2. c \in Commands
  BY <1>1 DEF Commands, Phases
<1>3. c.at = "open" /\ c.job = cmd[p].job /\ c.view = b
  BY <1>1 DEF Commands
<1>4. cmd' = [cmd EXCEPT ![p] = c]
  BY DEF Writes
<1> HIDE DEF c
<1>5. Moves(p) /\ cmd'[p] = c
  BY <1>2, <1>4, Became
<1> QED BY <1>2, <1>3, <1>5

LEMMA Started ==
    ASSUME TypeOK, NEW p \in Procs, NEW j \in Jobs, NEW x \in Phases, Start(p, j, x)
    PROVE  /\ Moves(p) /\ cmd'[p] \in Commands
           /\ cmd'[p].at = x /\ cmd'[p].job = j
           /\ cmd'[p].imported = 0 /\ cmd'[p].item = 1
           /\ started' \in Nat
           /\ cmd[p].at = "idle" /\ (turns => \A r \in Procs : cmd[r].at = "idle")
<1> DEFINE c == [Idle EXCEPT !.job = j, !.at = x]
<1>2. c \in Commands
  BY IdleTyped DEF Commands
<1>3. c.at = x /\ c.job = j /\ c.imported = 0 /\ c.item = 1
  BY DEF Idle
<1>4. cmd' = [cmd EXCEPT ![p] = c]
  BY DEF Start
<1>6. started' \in Nat
  BY DEF Start, TypeOK
<1>7. cmd[p].at = "idle" /\ (turns => \A r \in Procs : cmd[r].at = "idle")
  BY DEF Start, At, Quiet
<1> HIDE DEF c
<1>5. Moves(p) /\ cmd'[p] = c
  BY <1>2, <1>4, Became
<1> QED BY <1>2, <1>3, <1>5, <1>6, <1>7

\* The next item of an import, after one was skipped or kept.
LEMMA Skipped ==
    ASSUME TypeOK, NEW p \in Procs, cmd' = [cmd EXCEPT ![p].item = @ + 1]
    PROVE  /\ Moves(p) /\ cmd'[p] \in Commands
           /\ cmd'[p].at = cmd[p].at /\ cmd'[p].job = cmd[p].job
           /\ cmd'[p].seen = cmd[p].seen /\ cmd'[p].item = cmd[p].item + 1
           /\ cmd'[p].imported = cmd[p].imported
<1> DEFINE c == [cmd[p] EXCEPT !.item = @ + 1]
<1>1. cmd[p] \in Commands
  BY DEF TypeOK
<1>2. c \in Commands
  BY <1>1 DEF Commands
<1>3. /\ c.at = cmd[p].at /\ c.job = cmd[p].job /\ c.seen = cmd[p].seen
      /\ c.item = cmd[p].item + 1 /\ c.imported = cmd[p].imported
  BY <1>1 DEF Commands
<1>4. cmd' = [cmd EXCEPT ![p] = c]
  OBVIOUS
<1> HIDE DEF c
<1>5. Moves(p) /\ cmd'[p] = c
  BY <1>2, <1>4, Became
<1> QED BY <1>2, <1>3, <1>5

LEMMA Kept ==
    ASSUME TypeOK, NEW p \in Procs,
           cmd' = [cmd EXCEPT ![p].at = "items", ![p].item = @ + 1, ![p].imported = @ + 1]
    PROVE  /\ Moves(p) /\ cmd'[p] \in Commands
           /\ cmd'[p].at = "items" /\ cmd'[p].job = cmd[p].job
           /\ cmd'[p].seen = cmd[p].seen /\ cmd'[p].item = cmd[p].item + 1
           /\ cmd'[p].imported = cmd[p].imported + 1
<1> DEFINE n == cmd[p].item + 1
           m == cmd[p].imported + 1
           c == [cmd[p] EXCEPT !.at = "items", !.item = n, !.imported = m]
<1>1. cmd[p] \in Commands
  BY DEF TypeOK
<1>2. n \in Nat /\ m \in Nat
  BY <1>1 DEF Commands
<1>3. cmd' = [cmd EXCEPT ![p] = c]
  OBVIOUS
<1> HIDE DEF n, m
<1>4. c \in Commands
  BY <1>1, <1>2 DEF Commands, Phases
<1>5. /\ c.at = "items" /\ c.job = cmd[p].job /\ c.seen = cmd[p].seen
      /\ c.item = n /\ c.imported = m
  BY <1>1 DEF Commands
<1> HIDE DEF c
<1>6. Moves(p) /\ cmd'[p] = c
  BY <1>3, <1>4, Became
<1> QED BY <1>4, <1>5, <1>6 DEF n, m

LEMMA FilesTyped ==
    ASSUME TypeOK
    PROVE  \A i \in Readable : i \in Ids /\ file[i] \in Bodies
BY DEF Readable

LEMMA Listed ==
    ASSUME TypeOK, NEW p \in Procs, ListLocal(p)
    PROVE  /\ Moves(p) /\ cmd'[p] \in Commands
           /\ cmd'[p].at = "items" /\ cmd'[p].job = cmd[p].job
           /\ cmd'[p].item = cmd[p].item /\ cmd'[p].imported = cmd[p].imported
           /\ cmd'[p].seen = [i \in Ids |-> IF i \in Readable THEN file[i] ELSE Absent]
<1> DEFINE s == [i \in Ids |-> IF i \in Readable THEN file[i] ELSE Absent]
           c == [cmd[p] EXCEPT !.at = "items", !.seen = s]
<1>1. cmd[p] \in Commands
  BY DEF TypeOK
<1>2. s \in [Ids -> Bodies \cup {Absent}]
  BY FilesTyped
<1>3. cmd' = [cmd EXCEPT ![p] = c]
  BY DEF ListLocal
<1> HIDE DEF s
<1>4. c \in Commands
  BY <1>1, <1>2 DEF Commands, Phases
<1>5. /\ c.at = "items" /\ c.job = cmd[p].job /\ c.item = cmd[p].item
      /\ c.imported = cmd[p].imported /\ c.seen = s
  BY <1>1 DEF Commands
<1> HIDE DEF c
<1>6. Moves(p) /\ cmd'[p] = c
  BY <1>3, <1>4, Became
<1> QED BY <1>4, <1>5, <1>6 DEF s

(***************************************************************************)
(* Types are kept                                                          *)
(***************************************************************************)
LEMMA StartsType ==
    ASSUME TypeOK, JobsFit, NEW p \in Procs, Starts(p)
    PROVE  TypeOK' /\ JobsFit'
<1>1. ASSUME NEW j \in Jobs, NEW x \in Phases, Start(p, j, x), UNCHANGED <<turns, alive, faults, ledger, tmp, handle>>,
             UNCHANGED file, part' = part \/ part' = {},
             x \in {"load", "mutate", "draft", "ask", "list"},
             x = "draft" => j.kind = "capture" /\ j.id \in CaptureIds,
             x = "ask" => j.kind = "delete", x = "list" => j.kind = "import"
      PROVE  TypeOK' /\ JobsFit'
  <2>1. Moves(p) /\ cmd'[p] \in Commands /\ cmd'[p].at = x /\ cmd'[p].job = j /\ cmd'[p].item = 1 /\ started' \in Nat
    BY <1>1, Started
  <2>2. PhaseOfJob(cmd'[p])
    BY <1>1, <2>1 DEF PhaseOfJob
  <2>3. JobsFit'
    BY <2>1, <2>2 DEF JobsFit, Moves
  <2>4. TypeOK'
    BY <1>1, <2>1 DEF TypeOK, Moves
  <2> QED BY <2>3, <2>4
<1>2. CASE StartRegister(p)
  <2> PICK q \in alive : Start(p, [kind |-> "register", project |-> q, stamp |-> started + 1], "load")
    BY <1>2 DEF StartRegister
  <2>1. [kind |-> "register", project |-> q, stamp |-> started + 1] \in Jobs
    BY DEF Jobs, TypeOK
  <2> QED BY <1>1, <1>2, <2>1 DEF StartRegister, Phases, files
<1>3. CASE StartRepair(p)
  BY <1>1, <1>3 DEF StartRepair, Phases, files, Jobs
<1>4. CASE StartCapture(p)
  <2> PICK i \in CaptureIds \ Drafted, b \in Bodies :
         Start(p, [kind |-> "capture", id |-> i, body |-> b], "draft")
    BY <1>4 DEF StartCapture
  <2>1. [kind |-> "capture", id |-> i, body |-> b] \in Jobs
    BY DEF Jobs, Ids
  <2> QED BY <1>1, <1>4, <2>1 DEF StartCapture, Phases, files
<1>5. CASE StartDelete(p)
  <2> PICK i \in Readable : Start(p, [kind |-> "delete", id |-> i], "ask")
    BY <1>5 DEF StartDelete
  <2>1. [kind |-> "delete", id |-> i] \in Jobs
    BY FilesTyped DEF Jobs
  <2> QED BY <1>1, <1>5, <2>1 DEF StartDelete, Phases, Cleanup
<1>6. CASE StartImport(p)
  BY <1>1, <1>6 DEF StartImport, Phases, files, Jobs
<1>7. CASE StartExport(p)
  BY <1>1, <1>7 DEF StartExport, Phases, Cleanup, Jobs
<1>8. CASE StartEvolve(p)
  BY <1>1, <1>8 DEF StartEvolve, Phases, Cleanup, Jobs, files
<1> QED BY <1>2, <1>3, <1>4, <1>5, <1>6, <1>7, <1>8 DEF Starts

LEMMA LedgerStepsType ==
    ASSUME TypeOK, JobsFit, NEW p \in Procs, OnLedger(p)
    PROVE  TypeOK' /\ JobsFit'
<1>1. cmd[p] \in Commands /\ cmd[p].job \in Jobs /\ cmd[p].view \in Books
  BY DEF TypeOK, Commands
<1>2. ledger \in Contents \cup {Absent, Torn} /\ tmp \in Contents \cup {Absent, Torn}
  BY DEF TypeOK
<1>3. ASSUME Moves(p), cmd'[p] \in Commands, cmd'[p].at \in {"idle", "open", "write", "rename"},
             UNCHANGED world, UNCHANGED files,
             ledger' \in Contents \cup {Absent, Torn}, tmp' \in Contents \cup {Absent, Torn},
             handle' \in [Procs -> {"tmp", "ledger", "none"}]
      PROVE  TypeOK' /\ JobsFit'
  <2>1. PhaseOfJob(cmd'[p])
    BY <1>3 DEF PhaseOfJob
  <2>2. JobsFit'
    BY <1>3, <2>1 DEF JobsFit, Moves
  <2>3. TypeOK'
    BY <1>3 DEF TypeOK, Moves, world, files
  <2> QED BY <2>2, <2>3
<1>4. handle \in [Procs -> {"tmp", "ledger", "none"}]
  BY DEF TypeOK
<1>5. CASE Load(p)
  <2>1. UNCHANGED <<world, ledger, tmp, files, handle>>
    BY <1>5 DEF Load
  <2>2. CASE Ends(p)
    BY <1>2, <1>3, <1>4, <2>1, <2>2, Ended
  <2>3. CASE Loadable(ledger) /\ Job(p).kind = "register" /\ Writes(p, Registered(Loaded(ledger), Job(p)))
    <3>1. Registered(Loaded(ledger), Job(p)) \in Books
      BY <1>1, <1>2, <2>3, ContentsTyped, RegisteredTyped DEF Job
    <3> QED BY <1>2, <1>3, <1>4, <2>1, <2>3, <3>1, Wrote
  <2>4. CASE Loadable(ledger) /\ Writes(p, Without(Loaded(ledger), Orphans(Loaded(ledger))))
    <3>1. Orphans(Loaded(ledger)) \in SUBSET Projects
      BY DEF Orphans
    <3>2. Without(Loaded(ledger), Orphans(Loaded(ledger))) \in Books
      BY <1>2, <2>4, <3>1, ContentsTyped, WithoutTyped
    <3> QED BY <1>2, <1>3, <1>4, <2>1, <2>4, <3>2, Wrote
  <2> QED BY <1>5, <2>2, <2>3, <2>4 DEF Load
<1>6. CASE Mutate(p)
  <2>1. Mutated(Salvaged(ledger), cmd[p]) \in Books
    BY <1>1, <1>2, ContentsTyped, MutatedTyped
  <2> QED BY <1>2, <1>3, <1>4, <1>6, <2>1, Wrote DEF Mutate
<1>7. CASE OpenTmp(p)
  BY <1>2, <1>3, <1>4, <1>7, Went DEF OpenTmp, Phases, files
<1>8. CASE WriteTmp(p)
  <2>1. \A f : Overwritten(f, cmd[p].view) \subseteq Contents
    BY <1>1 DEF Overwritten, Contents
  <2>2. ledger' \in Contents \cup {Absent, Torn} /\ tmp' \in Contents \cup {Absent, Torn}
    BY <1>2, <1>8, <2>1 DEF WriteTmp
  <2>3. handle' \in [Procs -> {"tmp", "ledger", "none"}]
    BY <1>4, <1>8 DEF WriteTmp
  <2> QED BY <1>3, <1>8, <2>2, <2>3, Went DEF WriteTmp, Phases
<1>9. CASE Rename(p)
  <2>1. handle' \in [Procs -> {"tmp", "ledger", "none"}]
    BY <1>4, <1>9 DEF Rename
  <2>2. ledger' \in Contents \cup {Absent, Torn} /\ tmp' \in Contents \cup {Absent, Torn}
    BY <1>2, <1>9 DEF Rename
  <2> QED BY <1>3, <1>9, <2>1, <2>2, Ended DEF Rename
<1> QED BY <1>5, <1>6, <1>7, <1>8, <1>9 DEF OnLedger

LEMMA InstinctStepsType ==
    ASSUME TypeOK, JobsFit, NEW p \in Procs, OnInstincts(p)
    PROVE  TypeOK' /\ JobsFit'
<1>1. cmd[p] \in Commands /\ cmd[p].job \in Jobs /\ PhaseOfJob(cmd[p]) /\ cmd[p].item \in Nat
  BY DEF TypeOK, Commands, JobsFit
<1>2. ASSUME Moves(p), cmd'[p] \in Commands, PhaseOfJob(cmd'[p]),
             UNCHANGED <<world, ledger, tmp, handle>>,
             file' \in [Ids -> Bodies \cup {Absent, Broken}], part' \subseteq Ids
      PROVE  TypeOK' /\ JobsFit'
  <2>2. JobsFit'
    BY <1>2 DEF JobsFit, Moves
  <2>3. TypeOK'
    BY <1>2 DEF TypeOK, Moves, world
  <2> QED BY <2>2, <2>3
<1>3. file \in [Ids -> Bodies \cup {Absent, Broken}] /\ part \subseteq Ids
  BY DEF TypeOK
<1>4. CASE DraftCapture(p)
  <2>1. Job(p).id \in Ids
    BY <1>1, <1>4, JobHolds DEF DraftCapture, At, PhaseOfJob, Job
  <2>2. /\ Moves(p) /\ cmd'[p] \in Commands /\ cmd'[p].at = "publish" /\ cmd'[p].job = cmd[p].job
    BY <1>4, Went DEF DraftCapture, Phases
  <2>3. PhaseOfJob(cmd'[p])
    BY <1>1, <1>4, <2>2 DEF DraftCapture, At, PhaseOfJob
  <2> QED BY <1>2, <1>3, <1>4, <2>1, <2>2, <2>3 DEF DraftCapture
<1>5. CASE PublishCapture(p)
  <2>1. Job(p).id \in Ids /\ Job(p).body \in Bodies
    BY <1>1, <1>5, JobHolds DEF PublishCapture, At, PhaseOfJob, Job
  <2>2. UNCHANGED <<world, ledger, tmp, handle>>
    BY <1>5 DEF PublishCapture
  <2>3. CASE Publish(Job(p).id, Job(p).body) /\ Goto(p, "mutate")
    <3>1. /\ Moves(p) /\ cmd'[p] \in Commands /\ cmd'[p].at = "mutate"
      BY <2>3, Went DEF Phases
    <3>2. PhaseOfJob(cmd'[p])
      BY <3>1 DEF PhaseOfJob
    <3>3. file' \in [Ids -> Bodies \cup {Absent, Broken}] /\ part' \subseteq Ids
      BY <1>3, <2>1, <2>3 DEF Publish
    <3> QED BY <1>2, <2>2, <3>1, <3>2, <3>3
  <2>4. CASE UNCHANGED files /\ Ends(p)
    BY <1>2, <1>3, <2>2, <2>4, Ended, IdleTyped DEF files
  <2> QED BY <1>5, <2>3, <2>4 DEF PublishCapture
<1>6. CASE Delete(p)
  <2>1. UNCHANGED <<world, ledger, tmp, part, handle>>
    BY <1>6 DEF Delete
  <2>2. CASE file' = [file EXCEPT ![Job(p).id] = Absent] /\ Goto(p, "mutate")
    <3>1. /\ Moves(p) /\ cmd'[p] \in Commands /\ cmd'[p].at = "mutate"
      BY <2>2, Went DEF Phases
    <3>2. PhaseOfJob(cmd'[p])
      BY <3>1 DEF PhaseOfJob
    <3>3. file' \in [Ids -> Bodies \cup {Absent, Broken}]
      BY <1>3, <2>2
    <3> QED BY <1>2, <1>3, <2>1, <3>1, <3>2, <3>3
  <2>3. CASE UNCHANGED file /\ Ends(p)
    BY <1>2, <1>3, <2>1, <2>3, Ended, IdleTyped
  <2> QED BY <1>6, <2>2, <2>3 DEF Delete
<1>7. CASE ListLocal(p)
  <2>1. /\ Moves(p) /\ cmd'[p] \in Commands /\ cmd'[p].at = "items" /\ cmd'[p].job = cmd[p].job
        /\ cmd'[p].item = cmd[p].item
    BY <1>7, Listed
  <2>2. PhaseOfJob(cmd'[p])
    BY <1>1, <1>7, <2>1 DEF ListLocal, At, PhaseOfJob
  <2> QED BY <1>2, <1>3, <1>7, <2>1, <2>2 DEF ListLocal, Cleanup
<1>8. CASE ImportItem(p)
  <2>1. UNCHANGED <<world, ledger, tmp, file, handle>>
    BY <1>8 DEF ImportItem
  <2>2. cmd[p].item \in Nat /\ cmd[p].item >= 1 /\ cmd[p].item <= Len(Bundle)
        /\ cmd[p].at = "items" /\ cmd[p].job.kind = "import"
    BY <1>1, <1>8 DEF ImportItem, At, PhaseOfJob
  <2>3. CASE Ends(p) /\ UNCHANGED part
    BY <1>2, <1>3, <2>1, <2>3, Ended, IdleTyped
  <2>4. CASE cmd' = [cmd EXCEPT ![p].item = @ + 1] /\ UNCHANGED part
    <3>1. /\ Moves(p) /\ cmd'[p] \in Commands
          /\ cmd'[p].at = cmd[p].at /\ cmd'[p].job = cmd[p].job /\ cmd'[p].item = cmd[p].item + 1
      BY <2>4, Skipped
    <3>2. PhaseOfJob(cmd'[p])
      BY <2>2, <3>1 DEF PhaseOfJob
    <3> QED BY <1>2, <1>3, <2>1, <2>4, <3>1, <3>2
  <2>5. CASE /\ ~Malformed(p) /\ ~Clash(p) /\ ~Duplicate(p)
             /\ part' = part \cup {Item(p).id} /\ Goto(p, "keep")
    <3>1. /\ Moves(p) /\ cmd'[p] \in Commands
          /\ cmd'[p].at = "keep" /\ cmd'[p].job = cmd[p].job /\ cmd'[p].item = cmd[p].item
          /\ cmd'[p].seen = cmd[p].seen
      BY <2>5, Went DEF Phases
    <3>2. Item(p) = Bundle[cmd[p].item] /\ Item(p).id \in Ids /\ Item(p).body \in Bodies
      BY <2>2, <2>5, BundleItem DEF Item, Malformed
    <3>3. /\ cmd[p].seen[Item(p).id] \in {Absent, Item(p).body}
          /\ \A i \in Ids : cmd[p].seen[i] # Item(p).body
      BY <2>5 DEF Clash, Duplicate
    <3>4. cmd'[p].item \in Nat /\ cmd'[p].item >= 1 /\ cmd'[p].item <= Len(Bundle)
      BY <2>2, <3>1
    <3>5. PhaseOfJob(cmd'[p])
      <4>1. Bundle[cmd'[p].item] = Item(p)
        BY <3>1, <3>2
      <4>2. /\ Bundle[cmd'[p].item].body \in Bodies
            /\ cmd'[p].seen[Bundle[cmd'[p].item].id] \in {Absent, Bundle[cmd'[p].item].body}
            /\ \A i \in Ids : cmd'[p].seen[i] # Bundle[cmd'[p].item].body
        BY <3>1, <3>2, <3>3, <4>1
      <4>3. cmd'[p].at = "keep" /\ cmd'[p].job.kind = "import"
        BY <2>2, <3>1
      <4> QED BY <3>4, <4>2, <4>3 DEF PhaseOfJob
    <3> QED BY <1>2, <1>3, <2>1, <2>5, <3>1, <3>2, <3>5
  <2> QED BY <1>8, <2>3, <2>4, <2>5 DEF ImportItem
<1>9. CASE KeepItem(p)
  <2>1. UNCHANGED <<world, ledger, tmp, handle>>
    BY <1>9 DEF KeepItem
  <2>2. /\ cmd[p].item \in Nat /\ cmd[p].item >= 1 /\ cmd[p].item <= Len(Bundle)
        /\ cmd[p].at = "keep" /\ cmd[p].job.kind = "import" /\ Bundle[cmd[p].item].body \in Bodies
    BY <1>1, <1>9 DEF KeepItem, At, PhaseOfJob
  <2>3. Item(p).id \in Ids /\ Item(p).body \in Bodies
    BY <2>2, BundleItem DEF Item
  <2>4. CASE UNCHANGED files /\ Ends(p)
    BY <1>2, <1>3, <2>1, <2>4, Ended, IdleTyped DEF files
  <2>5. CASE /\ Publish(Item(p).id, Item(p).body)
             /\ cmd' = [cmd EXCEPT ![p].at = "items", ![p].item = @ + 1, ![p].imported = @ + 1]
    <3>1. /\ Moves(p) /\ cmd'[p] \in Commands
          /\ cmd'[p].at = "items" /\ cmd'[p].job = cmd[p].job /\ cmd'[p].item = cmd[p].item + 1
      BY <2>5, Kept
    <3>2. PhaseOfJob(cmd'[p])
      BY <2>2, <3>1 DEF PhaseOfJob
    <3>3. file' \in [Ids -> Bodies \cup {Absent, Broken}] /\ part' \subseteq Ids
      BY <1>3, <2>3, <2>5 DEF Publish
    <3> QED BY <1>2, <2>1, <3>1, <3>2, <3>3
  <2> QED BY <1>9, <2>4, <2>5 DEF KeepItem
<1>10. CASE ImportDone(p)
  <2>1. /\ Moves(p) /\ cmd'[p] \in Commands /\ cmd'[p].at = "mutate"
    BY <1>10, Went DEF ImportDone, Phases
  <2>2. PhaseOfJob(cmd'[p])
    BY <2>1 DEF PhaseOfJob
  <2> QED BY <1>2, <1>3, <1>10, <2>1, <2>2 DEF ImportDone, files
<1> QED BY <1>4, <1>5, <1>6, <1>7, <1>8, <1>9, <1>10 DEF OnInstincts

LEMMA MachineStepsType ==
    ASSUME TypeOK, JobsFit,
           \/ \E p \in Procs : Crash(p)
           \/ \E i \in Ids : EditInstinct(i)
           \/ \E q \in Projects : RemoveProjectDir(q)
    PROVE  TypeOK' /\ JobsFit'
<1>1. ASSUME NEW p \in Procs, Crash(p) PROVE TypeOK' /\ JobsFit'
  <2>1. Moves(p) /\ cmd'[p] = Idle /\ cmd'[p] \in Commands
    BY <1>1, Ended DEF Crash
  <2>2. JobsFit'
    BY <2>1, IdleTyped DEF JobsFit, Moves
  <2>4. handle' \in [Procs -> {"tmp", "ledger", "none"}] /\ faults' \in Nat
    BY <1>1 DEF TypeOK, Crash
  <2>3. TypeOK'
    BY <1>1, <2>1, <2>4 DEF TypeOK, Moves, Crash, files
  <2> QED BY <2>2, <2>3
<1>2. ASSUME NEW i \in Ids, EditInstinct(i) PROVE TypeOK' /\ JobsFit'
  BY <1>2 DEF EditInstinct, TypeOK, JobsFit
<1>3. ASSUME NEW q \in Projects, RemoveProjectDir(q) PROVE TypeOK' /\ JobsFit'
  BY <1>3 DEF RemoveProjectDir, TypeOK, JobsFit, files
<1> QED BY <1>1, <1>2, <1>3

LEMMA InitTypes == Init => TypeOK /\ JobsFit
<1> SUFFICES ASSUME Init PROVE TypeOK /\ JobsFit
  OBVIOUS
<1>1. cmd \in [Procs -> Commands]
  BY IdleTyped DEF Init
<1>4. file \in [Ids -> Bodies \cup {Absent, Broken}] /\ part \subseteq Ids
  BY DEF Init
<1>5. handle \in [Procs -> {"tmp", "ledger", "none"}]
  BY DEF Init
<1>6. turns \in BOOLEAN /\ {ledger, tmp} \subseteq Contents \cup {Absent, Torn}
  BY DEF Init
<1>7. alive \subseteq Projects /\ started \in Nat /\ faults \in Nat
  BY DEF Init
<1>3. TypeOK
  BY <1>1, <1>4, <1>5, <1>6, <1>7 DEF TypeOK
<1>2. JobsFit
  BY IdleTyped DEF Init, JobsFit
<1> QED BY <1>2, <1>3

LEMMA StepsType == TypeOK /\ JobsFit /\ [Next]_vars => TypeOK' /\ JobsFit'
<1> SUFFICES ASSUME TypeOK, JobsFit, [Next]_vars PROVE TypeOK' /\ JobsFit'
  OBVIOUS
<1>1. CASE UNCHANGED vars
  BY <1>1 DEF vars, world, files, TypeOK, JobsFit
<1>2. CASE Next
  BY <1>2, StartsType, LedgerStepsType, InstinctStepsType, MachineStepsType DEF Next
<1> QED BY <1>1, <1>2

(***************************************************************************)
(* Who moves                                                               *)
(***************************************************************************)
LEMMA StartMoves ==
    ASSUME TypeOK, NEW p \in Procs, Starts(p)
    PROVE  /\ Moves(p) /\ cmd[p].at = "idle"
           /\ turns => \A r \in Procs : cmd[r].at = "idle"
           /\ cmd'[p].at \in {"load", "mutate", "draft", "ask", "list"}
           /\ cmd'[p].at = "mutate" => cmd'[p].job.kind \in {"export", "evolve"}
           /\ cmd'[p].imported = 0
           /\ cmd'[p].job.kind = "capture" =>
                /\ cmd'[p].job.id \notin Drafted /\ file[cmd'[p].job.id] = Absent
           /\ cmd'[p].at = "draft" => cmd'[p].job.kind = "capture"
           /\ UNCHANGED <<turns, alive, faults, ledger, tmp, file, handle>>
<1>1. CASE StartRegister(p)
  <2> PICK q \in alive : Start(p, [kind |-> "register", project |-> q, stamp |-> started + 1], "load")
    BY <1>1 DEF StartRegister
  <2>1. [kind |-> "register", project |-> q, stamp |-> started + 1] \in Jobs
    BY DEF Jobs, TypeOK
  <2>2. cmd'[p].job.kind = "register"
    BY <2>1, Started DEF Phases
  <2> QED BY <1>1, <2>1, <2>2, Started DEF StartRegister, Phases, files
<1>2. CASE StartRepair(p)
  BY <1>2, Started DEF StartRepair, Phases, files, Jobs
<1>3. CASE StartCapture(p)
  <2> PICK i \in CaptureIds \ Drafted, b \in Bodies :
         file[i] = Absent /\ Start(p, [kind |-> "capture", id |-> i, body |-> b], "draft")
    BY <1>3 DEF StartCapture
  <2>1. [kind |-> "capture", id |-> i, body |-> b] \in Jobs
    BY DEF Jobs, Ids
  <2>2. cmd'[p].job.kind = "capture" /\ cmd'[p].job.id = i
    BY <2>1, Started DEF Phases
  <2> QED BY <1>3, <2>1, <2>2, Started DEF StartCapture, Phases, files
<1>4. CASE StartDelete(p)
  <2> PICK i \in Readable : Start(p, [kind |-> "delete", id |-> i], "ask")
    BY <1>4 DEF StartDelete
  <2>1. [kind |-> "delete", id |-> i] \in Jobs
    BY FilesTyped DEF Jobs
  <2>2. cmd'[p].job.kind = "delete"
    BY <2>1, Started DEF Phases
  <2> QED BY <1>4, <2>1, <2>2, Started DEF StartDelete, Phases, Cleanup
<1>5. CASE StartImport(p)
  BY <1>5, Started DEF StartImport, Phases, files, Jobs
<1>6. CASE StartExport(p)
  BY <1>6, Started DEF StartExport, Phases, Cleanup, Jobs
<1>7. CASE StartEvolve(p)
  BY <1>7, Started DEF StartEvolve, Phases, Cleanup, Jobs, files
<1> QED BY <1>1, <1>2, <1>3, <1>4, <1>5, <1>6, <1>7 DEF Starts

LEMMA LedgerMoves ==
    ASSUME TypeOK, NEW p \in Procs, OnLedger(p)
    PROVE  /\ Moves(p) /\ cmd[p].at \in {"load", "mutate", "open", "write", "rename"}
           /\ cmd'[p].at \in {"idle", "open", "write", "rename"}
           /\ cmd'[p].job \in {cmd[p].job, Idle.job}
           /\ UNCHANGED <<world, files>>
<1>1. cmd[p] \in Commands /\ cmd[p].job \in Jobs
  BY DEF TypeOK, Commands
<1>2. ledger \in Contents \cup {Absent, Torn}
  BY DEF TypeOK
<1>3. CASE Load(p)
  <2>1. CASE Ends(p)
    BY <1>3, <2>1, Ended DEF Load, At
  <2>2. CASE Loadable(ledger) /\ Job(p).kind = "register" /\ Writes(p, Registered(Loaded(ledger), Job(p)))
    <3>1. Registered(Loaded(ledger), Job(p)) \in Books
      BY <1>1, <1>2, <2>2, ContentsTyped, RegisteredTyped DEF Job
    <3> QED BY <1>3, <2>2, <3>1, Wrote DEF Load, At
  <2>3. CASE Loadable(ledger) /\ Writes(p, Without(Loaded(ledger), Orphans(Loaded(ledger))))
    <3>1. Without(Loaded(ledger), Orphans(Loaded(ledger))) \in Books
      BY <1>2, <2>3, ContentsTyped, WithoutTyped DEF Orphans
    <3> QED BY <1>3, <2>3, <3>1, Wrote DEF Load, At
  <2> QED BY <1>3, <2>1, <2>2, <2>3 DEF Load
<1>4. CASE Mutate(p)
  <2>1. Mutated(Salvaged(ledger), cmd[p]) \in Books
    BY <1>1, <1>2, ContentsTyped, MutatedTyped
  <2> QED BY <1>4, <2>1, Wrote DEF Mutate, At
<1>5. CASE OpenTmp(p)
  BY <1>5, Went DEF OpenTmp, Phases, files, At
<1>6. CASE WriteTmp(p)
  BY <1>6, Went DEF WriteTmp, Phases, At
<1>7. CASE Rename(p)
  BY <1>7, Ended DEF Rename, At
<1> QED BY <1>3, <1>4, <1>5, <1>6, <1>7 DEF OnLedger

LEMMA InstinctMoves ==
    ASSUME TypeOK, NEW p \in Procs, OnInstincts(p)
    PROVE  /\ Moves(p) /\ cmd[p].at \in {"draft", "publish", "ask", "list", "items", "keep"}
           /\ cmd'[p].at \in {"idle", "publish", "mutate", "items", "keep"}
           /\ cmd'[p].at = "publish" => cmd[p].at = "draft" /\ UNCHANGED file
           /\ cmd'[p].job \in {cmd[p].job, Idle.job}
           /\ UNCHANGED <<world, ledger, tmp, handle>>
<1>1. CASE DraftCapture(p)
  BY <1>1, Went DEF DraftCapture, Phases, At
<1>2. CASE PublishCapture(p)
  BY <1>2, Went, Ended DEF PublishCapture, Phases, At
<1>3. CASE Delete(p)
  BY <1>3, Went, Ended DEF Delete, Phases, At
<1>4. CASE ListLocal(p)
  BY <1>4, Listed DEF ListLocal, At
<1>5. CASE ImportItem(p)
  BY <1>5, Went, Ended, Skipped DEF ImportItem, Phases, At
<1>6. CASE KeepItem(p)
  BY <1>6, Ended, Kept DEF KeepItem, At
<1>7. CASE ImportDone(p)
  BY <1>7, Went DEF ImportDone, Phases, At
<1> QED BY <1>1, <1>2, <1>3, <1>4, <1>5, <1>6, <1>7 DEF OnInstincts

LEMMA CrashMoves ==
    ASSUME TypeOK, NEW p \in Procs, Crash(p)
    PROVE  /\ Moves(p) /\ cmd[p].at # "idle" /\ cmd'[p] = Idle
           /\ handle' = [handle EXCEPT ![p] = "none"] /\ faults' = faults + 1
           /\ UNCHANGED <<turns, alive, started, ledger, tmp, files>>
BY Ended DEF Crash, At

(***************************************************************************)
(* One command acts at a time                                              *)
(***************************************************************************)
LEMMA OneActsKept ==
    ASSUME TypeOK, OneActs, [Next]_vars
    PROVE  OneActs'
<1>1. ASSUME NEW p \in Procs, Moves(p), turns' = turns,
             turns => \A r \in Procs : r # p => cmd[r].at = "idle"
      PROVE  OneActs'
  BY <1>1 DEF OneActs, Moves, At
<1>2. ASSUME NEW p \in Procs, cmd[p].at # "idle"
      PROVE  turns => \A r \in Procs : r # p => cmd[r].at = "idle"
  BY <1>2 DEF OneActs, At
<1>3. ASSUME NEW p \in Procs, Starts(p) PROVE OneActs'
  BY <1>1, <1>3, StartMoves
<1>4. ASSUME NEW p \in Procs, OnLedger(p) PROVE OneActs'
  BY <1>1, <1>2, <1>4, LedgerMoves DEF world
<1>5. ASSUME NEW p \in Procs, OnInstincts(p) PROVE OneActs'
  BY <1>1, <1>2, <1>5, InstinctMoves DEF world
<1>6. ASSUME NEW p \in Procs, Crash(p) PROVE OneActs'
  BY <1>1, <1>2, <1>6, CrashMoves
<1>7. ASSUME UNCHANGED <<turns, cmd>> PROVE OneActs'
  BY <1>7 DEF OneActs, At
<1>8. ASSUME NEW i \in Ids, EditInstinct(i) PROVE OneActs'
  BY <1>7, <1>8 DEF EditInstinct
<1>9. ASSUME NEW q \in Projects, RemoveProjectDir(q) PROVE OneActs'
  BY <1>7, <1>9 DEF RemoveProjectDir
<1>10. CASE UNCHANGED vars
  BY <1>7, <1>10 DEF vars, world
<1> QED BY <1>3, <1>4, <1>5, <1>6, <1>8, <1>9, <1>10 DEF Next

(***************************************************************************)
(* The ledger of commands in turn                                          *)
(***************************************************************************)
\* What a command in turn reads is the ledger the last one left.
LEMMA ReadsShown ==
    ASSUME TypeOK, WholeLedger
    PROVE  /\ Shown \in Books
           /\ turns => Loaded(ledger) = Shown /\ Salvaged(ledger) = Shown
<1>1. ledger \in Contents \cup {Absent, Torn} /\ turns \in BOOLEAN
  BY DEF TypeOK
<1>2. Shown \in Books
  BY <1>1, ContentsTyped, BooksTyped DEF Shown
<1>3. ASSUME turns PROVE Loaded(ledger) = Shown /\ Salvaged(ledger) = Shown
  BY <1>1, <1>3, ContentsTyped, ContentsAssumption DEF WholeLedger, Shown, Loaded, Salvaged
<1> QED BY <1>2, <1>3

LEMMA ShownKept == UNCHANGED <<turns, ledger>> => Shown' = Shown
BY DEF Shown

LEMMA RestWritten ==
    ASSUME NEW c, NEW h, NEW t, NEW b, c.at \notin {"open", "write", "rename"}, h = "none"
    PROVE  Written(c, h, t, b)
BY DEF Written, Writing

LEMMA RegisteredFollows ==
    ASSUME NEW b \in Books, NEW j \in Jobs, j.kind = "register"
    PROVE  Follows(b, Registered(b, j))
<1>1. /\ Registered(b, j).entry = [b.entry EXCEPT ![j.project] = j.stamp]
      /\ Registered(b, j).hub = j.stamp /\ Registered(b, j).section = b.section
  BY RegisteredTyped
<1>2. j.project \in Projects
  BY JobHolds
<1> HIDE DEF Registered
<1>3. Registered(b, j).entry = [b.entry EXCEPT ![j.project] = Registered(b, j).hub]
  BY <1>1
<1> QED BY <1>1, <1>2, <1>3 DEF Follows

LEMMA WithoutFollows ==
    ASSUME NEW b \in Books, NEW gone \in SUBSET Projects
    PROVE  Follows(b, Without(b, gone))
BY WithoutTyped DEF Follows

LEMMA MutatedFollows ==
    ASSUME NEW b \in Books, NEW c \in Commands
    PROVE  Follows(b, Mutated(b, c))
<1>1. Tallies(Counted(b), Mutated(b, c).section)
  BY MutatedTyped, TalliedTyped
<1> QED BY <1>1, MutatedTyped DEF Follows

\* A step of a command on the ledger, in turn: what it writes follows from what is
\* shown, and what it publishes is what it has written.
LEMMA LedgerStepInTurn ==
    ASSUME TypeOK, JobsFit, OneActs, WholeLedger, WritesInTurn, turns,
           NEW p \in Procs, OnLedger(p)
    PROVE  /\ WholeLedger' /\ WritesInTurn'
           /\ Shown' = Shown \/ (Follows(Shown, Shown') /\ Shown' = cmd[p].view /\ At(p, "rename"))
<1>1. cmd[p] \in Commands /\ cmd[p].job \in Jobs /\ cmd[p].view \in Books
  BY DEF TypeOK, Commands
<1>2. Shown \in Books /\ Loaded(ledger) = Shown /\ Salvaged(ledger) = Shown
  BY ReadsShown
<1>3. Moves(p) /\ cmd[p].at # "idle" /\ UNCHANGED <<world, files>>
  BY LedgerMoves
<1>4. \A r \in Procs : r # p => cmd[r].at = "idle" /\ cmd'[r].at = "idle" /\ handle[r] = "none"
  <2>1. \A r \in Procs : r # p => cmd[r].at = "idle"
    BY <1>3 DEF OneActs, At
  <2>2. \A r \in Procs : r # p => cmd'[r].at = "idle"
    BY <1>3, <2>1 DEF Moves
  <2>3. \A r \in Procs : r # p => handle[r] = "none"
    BY <2>1 DEF WritesInTurn, Written
  <2> QED BY <2>1, <2>2, <2>3
<1>5. Written(cmd[p], handle[p], tmp, Shown)
  BY DEF WritesInTurn
<1>6. ASSUME Written(cmd'[p], handle'[p], tmp', Shown'),
             \A r \in Procs : r # p => handle'[r] = "none"
      PROVE  WritesInTurn'
  BY <1>4, <1>6, RestWritten DEF WritesInTurn
<1>7. turns' = turns /\ handle \in [Procs -> {"tmp", "ledger", "none"}]
  BY <1>3 DEF world, TypeOK
<1>8. CASE Load(p)
  <2>1. UNCHANGED <<ledger, tmp, handle>> /\ handle[p] = "none" /\ Shown' = Shown
    BY <1>5, <1>7, <1>8, ShownKept DEF Load, At, Written
  <2>2. WholeLedger'
    BY <1>7, <2>1 DEF WholeLedger
  <2>3. CASE Ends(p)
    <3>1. cmd'[p].at = "idle"
      BY <2>3, Ended
    <3> QED BY <1>4, <1>6, <2>1, <2>2, <3>1, RestWritten
  <2>4. ASSUME NEW b \in Books, Follows(Shown, b), Writes(p, b) PROVE Written(cmd'[p], handle'[p], tmp', Shown')
    BY <2>1, <2>4, Wrote DEF Written
  <2>5. CASE Job(p).kind = "register" /\ Writes(p, Registered(Shown, Job(p)))
    <3>1. Registered(Shown, Job(p)) \in Books /\ Follows(Shown, Registered(Shown, Job(p)))
      BY <1>1, <1>2, <2>5, RegisteredTyped, RegisteredFollows DEF Job
    <3> QED BY <1>4, <1>6, <2>1, <2>2, <2>4, <2>5, <3>1
  <2>6. CASE Writes(p, Without(Shown, Orphans(Shown)))
    <3>1. Without(Shown, Orphans(Shown)) \in Books /\ Follows(Shown, Without(Shown, Orphans(Shown)))
      BY <1>2, WithoutTyped, WithoutFollows DEF Orphans
    <3> QED BY <1>4, <1>6, <2>1, <2>2, <2>4, <2>6, <3>1
  <2> QED BY <1>2, <1>8, <2>3, <2>5, <2>6 DEF Load
<1>9. CASE Mutate(p)
  <2>1. UNCHANGED <<ledger, tmp, handle>> /\ handle[p] = "none" /\ Shown' = Shown
    BY <1>5, <1>7, <1>9, ShownKept DEF Mutate, At, Written
  <2>2. WholeLedger'
    BY <1>7, <2>1 DEF WholeLedger
  <2>3. Mutated(Shown, cmd[p]) \in Books /\ Follows(Shown, Mutated(Shown, cmd[p]))
    BY <1>1, <1>2, MutatedTyped, MutatedFollows
  <2>4. Writes(p, Mutated(Shown, cmd[p]))
    BY <1>2, <1>9 DEF Mutate
  <2>5. Written(cmd'[p], handle'[p], tmp', Shown')
    BY <2>1, <2>3, <2>4, Wrote DEF Written
  <2> QED BY <1>4, <1>6, <2>1, <2>2, <2>5
<1>10. CASE OpenTmp(p)
  <2>1. /\ ledger' = ledger /\ tmp' = Torn /\ handle' = [handle EXCEPT ![p] = "tmp"]
        /\ cmd[p].at = "open" /\ Shown' = Shown
    BY <1>7, <1>10, ShownKept DEF OpenTmp, At
  <2>2. WholeLedger'
    BY <1>7, <2>1 DEF WholeLedger
  <2>3. cmd'[p].at = "write" /\ cmd'[p].view = cmd[p].view
    BY <1>10, Went DEF OpenTmp, Phases
  <2>4. Written(cmd'[p], handle'[p], tmp', Shown')
    BY <1>5, <1>7, <2>1, <2>3 DEF Written, Writing
  <2>5. \A r \in Procs : r # p => handle'[r] = "none"
    BY <1>4, <1>7, <2>1
  <2> QED BY <1>6, <2>1, <2>2, <2>4, <2>5
<1>11. CASE WriteTmp(p)
  <2>1. cmd[p].at = "write" /\ handle[p] = "tmp" /\ tmp = Torn
    BY <1>5, <1>11 DEF WriteTmp, At, Written
  <2>2. /\ ledger' = ledger /\ tmp' \in [book : {cmd[p].view}, tail : {FALSE}]
        /\ handle' = [handle EXCEPT ![p] = "none"]
    BY <1>11, <2>1 DEF WriteTmp, Overwritten
  <2>3. Shown' = Shown /\ WholeLedger'
    BY <1>7, <2>2, ShownKept DEF WholeLedger
  <2>4. cmd'[p].at = "rename" /\ cmd'[p].view = cmd[p].view
    BY <1>11, Went DEF WriteTmp, Phases
  <2>5. Written(cmd'[p], handle'[p], tmp', Shown')
    BY <1>5, <1>7, <2>1, <2>2, <2>3, <2>4 DEF Written, Writing
  <2>6. \A r \in Procs : r # p => handle'[r] = "none"
    BY <1>4, <1>7, <2>2
  <2> QED BY <1>6, <2>3, <2>5, <2>6
<1>12. CASE Rename(p)
  <2>1. /\ cmd[p].at = "rename" /\ handle[p] = "none" /\ Follows(Shown, cmd[p].view)
        /\ tmp \in [book : {cmd[p].view}, tail : {FALSE}]
    BY <1>5, <1>12 DEF Rename, At, Written, Writing
  <2>2. tmp \in Contents /\ tmp.book = cmd[p].view /\ tmp.tail = FALSE
    BY <1>1, <2>1 DEF Contents
  <2>3. tmp \notin {Absent, Torn}
    BY <2>2, ContentsAssumption
  <2>4. ledger' = tmp /\ \A r \in Procs : handle'[r] = "none"
    BY <1>4, <1>12, <2>1, <2>3 DEF Rename
  <2>5. Shown' = cmd[p].view
    BY <1>7, <2>2, <2>3, <2>4 DEF Shown
  <2>6. WholeLedger'
    BY <2>2, <2>3, <2>4 DEF WholeLedger
  <2>7. cmd'[p].at = "idle"
    BY <1>12, Ended DEF Rename
  <2>8. Written(cmd'[p], handle'[p], tmp', Shown')
    BY <2>4, <2>7, RestWritten
  <2>9. WritesInTurn'
    BY <1>6, <2>4, <2>8
  <2> QED BY <2>1, <2>5, <2>6, <2>9 DEF At
<1> QED BY <1>8, <1>9, <1>10, <1>11, <1>12 DEF OnLedger

\* Every other step leaves the ledger and the temporary file alone.
LEMMA OtherStepInTurn ==
    ASSUME TypeOK, OneActs, WholeLedger, WritesInTurn, turns, NEW p \in Procs,
           Starts(p) \/ OnInstincts(p) \/ Crash(p)
    PROVE  WholeLedger' /\ WritesInTurn' /\ Shown' = Shown
<1>1. UNCHANGED <<turns, ledger, tmp>> /\ Moves(p)
  BY StartMoves, InstinctMoves, CrashMoves DEF world
<1>2. Shown' = Shown /\ WholeLedger'
  BY <1>1, ShownKept DEF WholeLedger
<1>3. \A r \in Procs : r # p => cmd[r].at = "idle"
  BY StartMoves, InstinctMoves, CrashMoves DEF OneActs, At
<1>4. \A r \in Procs : r # p => handle[r] = "none"
  BY <1>3 DEF WritesInTurn, Written
<1>5. cmd'[p].at \notin {"open", "write", "rename"}
  BY StartMoves, InstinctMoves, CrashMoves, IdleTyped
<1>6. handle \in [Procs -> {"tmp", "ledger", "none"}]
  BY DEF TypeOK
<1>7. handle'[p] = "none" /\ \A r \in Procs : r # p => handle'[r] = handle[r]
  <2>1. CASE Crash(p)
    BY <1>6, <2>1, CrashMoves
  <2>2. CASE Starts(p) \/ OnInstincts(p)
    <3>1. handle' = handle /\ cmd[p].at # "write"
      BY <2>2, StartMoves, InstinctMoves
    <3> QED BY <3>1 DEF WritesInTurn, Written
  <2> QED BY <2>1, <2>2
<1>8. ASSUME NEW r \in Procs PROVE Written(cmd'[r], handle'[r], tmp', Shown')
  <2>1. CASE r = p
    BY <1>5, <1>7, <2>1, RestWritten
  <2>2. CASE r # p
    BY <1>1, <1>3, <1>4, <1>7, <2>2, RestWritten DEF Moves
  <2> QED BY <2>1, <2>2
<1>9. WritesInTurn'
  BY <1>8 DEF WritesInTurn
<1> QED BY <1>2, <1>9

LEMMA StepInTurn ==
    ASSUME LedgerInv, [Next]_vars
    PROVE  /\ WholeLedger' /\ WritesInTurn'
           /\ Shown' = Shown \/ (turns /\ Follows(Shown, Shown'))
<1>0. TypeOK /\ JobsFit /\ OneActs /\ WholeLedger /\ WritesInTurn
  BY DEF LedgerInv
<1>1. turns' = turns
  BY <1>0, StartMoves, LedgerMoves, InstinctMoves, CrashMoves
     DEF Next, vars, world, EditInstinct, RemoveProjectDir
<1>2. CASE ~turns
  BY <1>1, <1>2 DEF WholeLedger, WritesInTurn, Shown
<1>3. CASE turns
  <2>1. ASSUME UNCHANGED <<ledger, tmp, handle, cmd>> PROVE WholeLedger' /\ WritesInTurn' /\ Shown' = Shown
    <3>1. Shown' = Shown
      BY <1>1, <2>1, ShownKept
    <3> QED BY <1>0, <1>1, <2>1, <3>1 DEF WholeLedger, WritesInTurn
  <2>2. ASSUME NEW i \in Ids, EditInstinct(i) PROVE WholeLedger' /\ WritesInTurn' /\ Shown' = Shown
    BY <2>1, <2>2 DEF EditInstinct
  <2>3. ASSUME NEW q \in Projects, RemoveProjectDir(q) PROVE WholeLedger' /\ WritesInTurn' /\ Shown' = Shown
    BY <2>1, <2>3 DEF RemoveProjectDir
  <2>4. CASE UNCHANGED vars
    BY <2>1, <2>4 DEF vars
  <2> QED BY <1>0, <1>3, <2>2, <2>3, <2>4, LedgerStepInTurn, OtherStepInTurn DEF Next
<1> QED BY <1>2, <1>3

LEMMA LedgerInvHolds == Spec => []LedgerInv
<1>1. Init => LedgerInv
  <2> SUFFICES ASSUME Init PROVE LedgerInv
    OBVIOUS
  <2>1. TypeOK /\ JobsFit
    BY InitTypes
  <2>2. \A p \in Procs : cmd[p] = Idle /\ handle[p] = "none"
    BY DEF Init
  <2>3. OneActs /\ WholeLedger /\ WritesInTurn
    BY <2>2, IdleTyped, RestWritten DEF OneActs, WholeLedger, WritesInTurn, Init, At
  <2> QED BY <2>1, <2>3 DEF LedgerInv
<1>2. LedgerInv /\ [Next]_vars => LedgerInv'
  BY StepsType, OneActsKept, StepInTurn DEF LedgerInv
<1> QED BY <1>1, <1>2, PTL DEF Spec

\* Whatever the commands, the crashes and the edits before: while commands take turns,
\* state.json is one JSON document (Save and MutateState write a temporary file and
\* rename it).
THEOREM LedgerIsWhole == Spec => []LedgerWhole
<1>1. LedgerInv => LedgerWhole
  BY DEF LedgerInv, LedgerWhole, WholeLedger
<1> QED BY <1>1, LedgerInvHolds, PTL

\* One operation of a command is one step of the abstract ledger.
LEMMA FollowsIsNext ==
    ASSUME Shown \in Books, Shown' \in Books, Follows(Shown, Shown')
    PROVE  Promise!Next
<1>1. Shown.section \in Counters \cup {NoSection} /\ Shown'.section \in Counters \cup {NoSection}
  BY DEF Books
<1>2. Promise!Kept = Counted(Shown)
  BY DEF Promise!Kept, Promise!Zero, Zero, Counted
<1>3. CASE \E q \in Projects :
             /\ Shown'.entry = [Shown.entry EXCEPT ![q] = Shown'.hub]
             /\ Shown'.section = Shown.section
  <2>1. Shown'.hub \in Nat
    BY DEF Books
  <2> QED BY <1>3, <2>1 DEF Promise!Next, Promise!Register
<1>4. CASE \E gone \in SUBSET Projects :
             /\ Shown'.entry = [q \in Projects |-> IF q \in gone THEN 0 ELSE Shown.entry[q]]
             /\ Shown'.hub = Shown.hub /\ Shown'.section = Shown.section
  BY <1>4 DEF Promise!Next, Promise!Forget
<1>5. CASE /\ Shown'.entry = Shown.entry /\ Shown'.hub = Shown.hub
           /\ Shown'.section \in Counters /\ Tallies(Counted(Shown), Shown'.section)
  <2> DEFINE s == Counted(Shown)
             t == Shown'.section
  <2>1. s \in Counters /\ t \in Counters
    BY <1>1, <1>5, BooksTyped DEF Counted
  <2>2. Promise!Counters = Counters
    BY DEF Promise!Counters, Counters
  <2>3. \/ t.count >= s.count /\ t.runs = s.runs
        \/ t = [s EXCEPT !.count = IF @ > 0 THEN @ - 1 ELSE 0]
        \/ t = [s EXCEPT !.runs = @ + 1]
    <3> HIDE DEF s, t
    <3>1. Tallies(s, t)
      BY <1>5 DEF s, t
    <3> QED BY <2>1, <3>1 DEF Tallies, Counters
  <2>4. Promise!Tally
    BY <1>2, <1>5, <2>1, <2>2, <2>3 DEF Promise!Tally
  <2> QED BY <2>4 DEF Promise!Next
<1> QED BY <1>3, <1>4, <1>5 DEF Follows

\* While commands take turns, state.json refines Ledger: every change of it is one whole
\* operation of one install, repair or instinct command on what the last one left.
THEOREM LedgerKeepsPromise == Spec => KeepsPromise
<1>1. Init => Promise!Init
  <2> SUFFICES ASSUME Init PROVE Promise!Init
    OBVIOUS
  <2>1. Shown = NoBook
    BY DEF Init, Shown
  <2> QED BY <2>1 DEF Promise!Init, NoBook
<1>2. LedgerInv /\ LedgerInv' /\ [Next]_vars => [Promise!Next]_(Promise!book)
  <2> SUFFICES ASSUME LedgerInv, LedgerInv', [Next]_vars
               PROVE  [Promise!Next]_(Promise!book)
    OBVIOUS
  <2>1. Shown \in Books
    BY ReadsShown DEF LedgerInv
  <2>2. Shown' \in Books
    <3>1. ledger' \in Contents \cup {Absent, Torn} /\ turns' \in BOOLEAN
      BY DEF LedgerInv, TypeOK
    <3> QED BY <3>1, ContentsTyped, BooksTyped DEF Shown
  <2>3. CASE Shown' = Shown
    BY <2>3 DEF Promise!book
  <2>4. CASE Follows(Shown, Shown')
    BY <2>1, <2>2, <2>4, FollowsIsNext
  <2> QED BY <2>3, <2>4, StepInTurn
<1> QED BY <1>1, <1>2, LedgerInvHolds, PTL DEF Spec, KeepsPromise, Promise!Spec

(***************************************************************************)
(* The instincts                                                           *)
(***************************************************************************)
\* What a step of a command does to the files of the instincts.
Published(p, i) ==
    /\ cmd[p].at = "publish" /\ cmd'[p].at = "mutate" /\ i = Job(p).id
    /\ file' = [file EXCEPT ![i] = Job(p).body]
Deleted(p, i) ==
    /\ cmd[p].at = "ask" /\ cmd'[p].at = "mutate" /\ i = Job(p).id
    /\ file' = [file EXCEPT ![i] = Absent]
KeptItem(p, i) ==
    /\ cmd[p].at = "keep" /\ cmd'[p].at = "items" /\ i = Item(p).id
    /\ cmd'[p].item = cmd[p].item + 1 /\ cmd'[p].seen = cmd[p].seen
    /\ cmd'[p].imported = cmd[p].imported + 1
    /\ file' = [file EXCEPT ![i] = Item(p).body]

LEMMA ItemAtHand ==
    ASSUME TypeOK, JobsFit, NEW p \in Procs, cmd[p].at = "keep"
    PROVE  /\ Item(p) = Bundle[cmd[p].item] /\ Item(p).id \in BundleIds /\ Item(p).id \in Ids
           /\ Item(p).body \in Bodies /\ cmd[p].seen[Item(p).id] = Absent
           /\ cmd[p].item \in DOMAIN Bundle
<1>1. cmd[p] \in Commands /\ PhaseOfJob(cmd[p]) /\ cmd[p].item \in Nat
  BY DEF TypeOK, Commands, JobsFit
<1>2. /\ cmd[p].item >= 1 /\ cmd[p].item <= Len(Bundle)
      /\ Bundle[cmd[p].item].body \in Bodies
      /\ cmd[p].seen[Bundle[cmd[p].item].id] \in {Absent, Bundle[cmd[p].item].body}
      /\ \A i \in Ids : cmd[p].seen[i] # Bundle[cmd[p].item].body
  BY <1>1 DEF PhaseOfJob
<1>3. Bundle[cmd[p].item].id \in BundleIds /\ Bundle[cmd[p].item].id \in Ids
      /\ cmd[p].item \in DOMAIN Bundle
  BY <1>1, <1>2, BundleItem
<1> QED BY <1>2, <1>3 DEF Item

LEMMA CapturedId ==
    ASSUME TypeOK, JobsFit, NEW p \in Procs, cmd[p].at \in {"draft", "publish"}
    PROVE  /\ Job(p).kind = "capture" /\ Job(p).id \in CaptureIds /\ Job(p).id \in Ids
           /\ Job(p).body \in Bodies
<1>1. PhaseOfJob(cmd[p]) /\ cmd[p].job \in Jobs
  BY DEF JobsFit, TypeOK, Commands
<1> QED BY <1>1, JobHolds DEF PhaseOfJob, Job

LEMMA DeletedId ==
    ASSUME TypeOK, JobsFit, NEW p \in Procs, cmd[p].at = "ask"
    PROVE  Job(p).kind = "delete" /\ Job(p).id \in Ids
<1>1. PhaseOfJob(cmd[p]) /\ cmd[p].job \in Jobs
  BY DEF JobsFit, TypeOK, Commands
<1> QED BY <1>1, JobHolds DEF PhaseOfJob, Job

LEMMA FileSteps ==
    ASSUME TypeOK, JobsFit, NEW p \in Procs, OnInstincts(p)
    PROVE  \/ UNCHANGED file
           \/ \E i \in Ids : Published(p, i)
           \/ \E i \in Ids : Deleted(p, i)
           \/ KeepItem(p) /\ \E i \in Ids : KeptItem(p, i)
<1>1. CASE DraftCapture(p)
  BY <1>1 DEF DraftCapture
<1>2. CASE PublishCapture(p)
  <2>1. Job(p).id \in Ids /\ cmd[p].at = "publish"
    BY <1>2, CapturedId DEF PublishCapture, At
  <2>2. CASE Publish(Job(p).id, Job(p).body) /\ Goto(p, "mutate")
    <3>1. Published(p, Job(p).id)
      BY <2>1, <2>2, Went DEF Publish, Published, Phases
    <3> QED BY <2>1, <3>1
  <2> QED BY <1>2, <2>2 DEF PublishCapture, files
<1>3. CASE Delete(p)
  <2>1. Job(p).id \in Ids /\ cmd[p].at = "ask"
    BY <1>3, DeletedId DEF Delete, At
  <2>2. CASE file' = [file EXCEPT ![Job(p).id] = Absent] /\ Goto(p, "mutate")
    <3>1. Deleted(p, Job(p).id)
      BY <2>1, <2>2, Went DEF Deleted, Phases
    <3> QED BY <2>1, <3>1
  <2> QED BY <1>3, <2>2 DEF Delete
<1>4. CASE ListLocal(p)
  BY <1>4 DEF ListLocal, Cleanup
<1>5. CASE ImportItem(p)
  BY <1>5 DEF ImportItem
<1>6. CASE KeepItem(p)
  <2>1. Item(p).id \in Ids /\ cmd[p].at = "keep"
    BY <1>6, ItemAtHand DEF KeepItem, At
  <2>2. CASE /\ Publish(Item(p).id, Item(p).body)
             /\ cmd' = [cmd EXCEPT ![p].at = "items", ![p].item = @ + 1, ![p].imported = @ + 1]
    <3>1. KeptItem(p, Item(p).id)
      BY <2>1, <2>2, Kept DEF Publish, KeptItem
    <3> QED BY <1>6, <2>1, <3>1
  <2> QED BY <1>6, <2>2 DEF KeepItem, files
<1>7. CASE ImportDone(p)
  BY <1>7 DEF ImportDone, files
<1> QED BY <1>1, <1>2, <1>3, <1>4, <1>5, <1>6, <1>7 DEF OnInstincts

\* An identifier is drawn once among the commands that run.
LEMMA CapturesApartKept ==
    ASSUME TypeOK, CapturesApart, [Next]_vars
    PROVE  CapturesApart'
<1>1. ASSUME NEW p \in Procs, Moves(p), cmd'[p].job \in {cmd[p].job, Idle.job}
      PROVE  CapturesApart'
  BY <1>1, IdleTyped DEF CapturesApart, Moves, Job
<1>2. ASSUME NEW p \in Procs, Starts(p) PROVE CapturesApart'
  <2>1. /\ Moves(p)
        /\ cmd'[p].job.kind = "capture" => cmd'[p].job.id \notin Drafted
    BY <1>2, StartMoves
  <2>2. \A r \in Procs : cmd[r].job.kind = "capture" => cmd[r].job.id \in Drafted
    BY DEF Drafted, Job
  <2> QED BY <2>1, <2>2 DEF CapturesApart, Moves, Job
<1>3. ASSUME NEW p \in Procs, OnLedger(p) PROVE CapturesApart'
  BY <1>1, <1>3, LedgerMoves
<1>4. ASSUME NEW p \in Procs, OnInstincts(p) PROVE CapturesApart'
  BY <1>1, <1>4, InstinctMoves
<1>5. ASSUME NEW p \in Procs, Crash(p) PROVE CapturesApart'
  BY <1>1, <1>5, CrashMoves
<1>6. ASSUME UNCHANGED cmd PROVE CapturesApart'
  BY <1>6 DEF CapturesApart, Job
<1>7. ASSUME NEW i \in Ids, EditInstinct(i) PROVE CapturesApart'
  BY <1>6, <1>7 DEF EditInstinct
<1>8. ASSUME NEW q \in Projects, RemoveProjectDir(q) PROVE CapturesApart'
  BY <1>6, <1>8 DEF RemoveProjectDir
<1>9. CASE UNCHANGED vars
  BY <1>6, <1>9 DEF vars
<1> QED BY <1>2, <1>3, <1>4, <1>5, <1>7, <1>8, <1>9 DEF Next

\* An instinct about to be captured has no file before it is published.
LEMMA NotYetThereKept ==
    ASSUME TypeOK, JobsFit, CapturesApart, NotYetThere, [Next]_vars
    PROVE  NotYetThere'
<1>0. file \in [Ids -> Bodies \cup {Absent, Broken}] /\ Absent \notin Bodies /\ Absent # Broken
  BY BodiesAssumption DEF TypeOK
<1>1. ASSUME NEW p \in Procs, Moves(p), UNCHANGED file, cmd'[p].at \notin {"draft", "publish"}
      PROVE  NotYetThere'
  BY <1>1 DEF NotYetThere, Moves, Job
<1>2. ASSUME NEW p \in Procs, Starts(p) PROVE NotYetThere'
  <2>1. /\ Moves(p) /\ file' = file /\ cmd'[p].at # "publish"
        /\ cmd'[p].at = "draft" => file[cmd'[p].job.id] = Absent
    BY <1>2, StartMoves
  <2> QED BY <2>1 DEF NotYetThere, Moves, Job
<1>3. ASSUME NEW p \in Procs, OnLedger(p) PROVE NotYetThere'
  BY <1>1, <1>3, LedgerMoves DEF files
<1>4. ASSUME NEW p \in Procs, OnInstincts(p) PROVE NotYetThere'
  <2>1. Moves(p) /\ cmd'[p].at # "draft" /\ cmd'[p].job \in {cmd[p].job, Idle.job}
        /\ (cmd'[p].at = "publish" => cmd[p].at = "draft" /\ UNCHANGED file)
    BY <1>4, InstinctMoves
  <2>2. CASE UNCHANGED file
    <3>1. CASE cmd'[p].at # "publish"
      BY <1>1, <2>1, <2>2, <3>1
    <3>2. CASE cmd'[p].at = "publish"
      <4>1. cmd'[p].job = cmd[p].job
        <5>1. cmd[p].at = "draft"
          BY <2>1, <3>2
        <5>2. DraftCapture(p)
          BY <1>4, <5>1 DEF OnInstincts, DraftCapture, PublishCapture, Delete, ListLocal,
             ImportItem, KeepItem, ImportDone, At
        <5> QED BY <5>2, Went DEF DraftCapture, Phases
      <4> QED BY <2>1, <2>2, <3>2, <4>1 DEF NotYetThere, Moves, Job
    <3> QED BY <3>1, <3>2
  <2>3. ASSUME NEW i \in Ids, NEW b, file' = [file EXCEPT ![i] = b],
               cmd'[p].at \notin {"draft", "publish"},
               \A r \in Procs : r # p /\ cmd[r].at \in {"draft", "publish"} => Job(r).id # i \/ b = Absent
        PROVE  NotYetThere'
    <3> SUFFICES ASSUME NEW r \in Procs, cmd'[r].at \in {"draft", "publish"}
                 PROVE  file'[cmd'[r].job.id] = Absent
      BY DEF NotYetThere, Job
    <3>1. r # p /\ cmd'[r] = cmd[r]
      BY <2>1, <2>3 DEF Moves
    <3>2. file[Job(r).id] = Absent /\ Job(r).id \in Ids
      BY <3>1, CapturedId DEF NotYetThere
    <3> QED BY <1>0, <2>3, <3>1, <3>2 DEF Job
  <2>4. ASSUME NEW i \in Ids, Published(p, i) PROVE NotYetThere'
    <3>1. \A r \in Procs : r # p /\ cmd[r].at \in {"draft", "publish"} => Job(r).id # i
      BY <2>4, CapturedId DEF Published, CapturesApart
    <3> QED BY <2>3, <2>4, <3>1 DEF Published
  <2>5. ASSUME NEW i \in Ids, Deleted(p, i) PROVE NotYetThere'
    BY <2>3, <2>5 DEF Deleted
  <2>6. ASSUME NEW i \in Ids, KeptItem(p, i) PROVE NotYetThere'
    <3>1. i \in BundleIds
      BY <2>6, ItemAtHand DEF KeptItem
    <3>2. \A r \in Procs : r # p /\ cmd[r].at \in {"draft", "publish"} => Job(r).id # i
      BY <3>1, CapturedId, FreshAssumption
    <3> QED BY <2>3, <2>6, <3>2 DEF KeptItem
  <2> QED BY <1>4, <2>2, <2>4, <2>5, <2>6, FileSteps
<1>5. ASSUME NEW p \in Procs, Crash(p) PROVE NotYetThere'
  BY <1>1, <1>5, CrashMoves, IdleTyped DEF files
<1>6. ASSUME NEW i \in Ids, EditInstinct(i) PROVE NotYetThere'
  <2>1. cmd' = cmd /\ file[i] # Absent /\ \A k \in Ids : k # i => file'[k] = file[k]
    BY <1>0, <1>6 DEF EditInstinct, Readable
  <2>2. \A p \in Procs : cmd[p].at \in {"draft", "publish"} => Job(p).id \in Ids
    BY CapturedId
  <2> QED BY <2>1, <2>2 DEF NotYetThere, Job
<1>7. ASSUME UNCHANGED <<cmd, file>> PROVE NotYetThere'
  BY <1>7 DEF NotYetThere, Job
<1>8. ASSUME NEW q \in Projects, RemoveProjectDir(q) PROVE NotYetThere'
  BY <1>7, <1>8 DEF RemoveProjectDir, files
<1>9. CASE UNCHANGED vars
  BY <1>7, <1>9 DEF vars, files
<1> QED BY <1>2, <1>3, <1>4, <1>5, <1>6, <1>8, <1>9 DEF Next

\* What an import in turn has not listed, and is there, came from its own bundle.
LEMMA IndexKept ==
    ASSUME TypeOK, JobsFit, OneActs, IndexInTurn, [Next]_vars
    PROVE  IndexInTurn'
<1>0. file \in [Ids -> Bodies \cup {Absent, Broken}] /\ Absent \notin Bodies
  BY BodiesAssumption DEF TypeOK
<1>1. ASSUME NEW c, NEW f, c.at \notin {"items", "keep"} PROVE Indexed(c, f)
  BY <1>1 DEF Indexed
<1>2. ASSUME NEW p \in Procs, Moves(p), UNCHANGED turns,
             turns => \A r \in Procs : r # p => cmd[r].at = "idle",
             turns => Indexed(cmd'[p], file')
      PROVE  IndexInTurn'
  BY <1>1, <1>2 DEF IndexInTurn, Moves
<1>3. ASSUME NEW p \in Procs, cmd[p].at # "idle"
      PROVE  turns => \A r \in Procs : r # p => cmd[r].at = "idle"
  BY <1>3 DEF OneActs, At
<1>4. ASSUME NEW p \in Procs, Starts(p) PROVE IndexInTurn'
  <2>1. cmd'[p].at \notin {"items", "keep"} /\ Moves(p) /\ turns' = turns
        /\ (turns => \A r \in Procs : cmd[r].at = "idle")
    BY <1>4, StartMoves
  <2> QED BY <1>1, <1>2, <2>1
<1>5. ASSUME NEW p \in Procs, OnLedger(p) PROVE IndexInTurn'
  <2>1. cmd'[p].at \notin {"items", "keep"} /\ Moves(p) /\ turns' = turns /\ cmd[p].at # "idle"
    BY <1>5, LedgerMoves DEF world
  <2> QED BY <1>1, <1>2, <1>3, <2>1
<1>6. ASSUME NEW p \in Procs, OnInstincts(p) PROVE IndexInTurn'
  <2>1. Moves(p) /\ turns' = turns /\ cmd[p].at # "idle"
    BY <1>6, InstinctMoves DEF world
  <2>2. SUFFICES ASSUME turns, cmd'[p].at \in {"items", "keep"}
                 PROVE  Indexed(cmd'[p], file')
    BY <1>1, <1>2, <1>3, <2>1
  <2>3. cmd[p] \in Commands /\ cmd[p].item \in Nat /\ Indexed(cmd[p], file)
    BY <2>2 DEF TypeOK, Commands, IndexInTurn
  <2>4. CASE ListLocal(p)
    <3>1. /\ cmd'[p].seen = [i \in Ids |-> IF i \in Readable THEN file[i] ELSE Absent]
          /\ file' = file
      BY <2>4, Listed DEF ListLocal, Cleanup
    <3> QED BY <1>0, <3>1 DEF Indexed, Readable
  <2>5. CASE ImportItem(p)
    <3>1. file' = file /\ cmd[p].at = "items"
      BY <2>5 DEF ImportItem, At
    <3>2. cmd'[p].seen = cmd[p].seen /\ cmd'[p].item \in {cmd[p].item, cmd[p].item + 1}
      BY <2>2, <2>5, Went, Ended, Skipped DEF ImportItem, Phases
    <3>3. 1 .. (cmd[p].item - 1) \subseteq 1 .. (cmd'[p].item - 1)
      BY <2>3, <3>2
    <3>4. ASSUME NEW i \in Ids, cmd'[p].seen[i] = Absent, file'[i] \in Bodies
          PROVE  \E k \in 1 .. (cmd'[p].item - 1) : Bundle[k].id = i
      <4>1. \E k \in 1 .. (cmd[p].item - 1) : Bundle[k].id = i
        BY <2>3, <3>1, <3>2, <3>4 DEF Indexed
      <4> QED BY <3>3, <4>1
    <3> QED BY <3>4 DEF Indexed
  <2>6. CASE KeepItem(p)
    <3>1. cmd[p].at = "keep"
      BY <2>6 DEF KeepItem, At
    <3>2. /\ cmd'[p].seen = cmd[p].seen /\ cmd'[p].item = cmd[p].item + 1
          /\ file' = [file EXCEPT ![Item(p).id] = Item(p).body]
      BY <2>2, <2>6, Kept, Ended DEF KeepItem, Publish
    <3>3. Item(p) = Bundle[cmd[p].item] /\ cmd[p].item >= 1
      BY <3>1, ItemAtHand, BundleAssumption
    <3> SUFFICES ASSUME NEW i \in Ids, cmd'[p].seen[i] = Absent, file'[i] \in Bodies
                 PROVE  \E k \in 1 .. (cmd'[p].item - 1) : Bundle[k].id = i
      BY DEF Indexed
    <3>6. cmd[p].item \in 1 .. (cmd'[p].item - 1)
          /\ 1 .. (cmd[p].item - 1) \subseteq 1 .. (cmd'[p].item - 1)
      BY <2>3, <3>2, <3>3
    <3>4. CASE i = Item(p).id
      BY <3>3, <3>4, <3>6
    <3>5. CASE i # Item(p).id
      <4>1. file[i] \in Bodies
        BY <1>0, <3>2, <3>5
      <4>2. \E k \in 1 .. (cmd[p].item - 1) : Bundle[k].id = i
        BY <2>3, <3>1, <3>2, <4>1 DEF Indexed
      <4> QED BY <3>6, <4>2
    <3> QED BY <3>4, <3>5
  <2>7. CASE DraftCapture(p) \/ PublishCapture(p) \/ Delete(p) \/ ImportDone(p)
    <3>1. cmd'[p].at \notin {"items", "keep"}
      BY <2>7, Went, Ended DEF DraftCapture, PublishCapture, Delete, ImportDone, Phases
    <3> QED BY <2>2, <3>1
  <2> QED BY <1>6, <2>4, <2>5, <2>6, <2>7 DEF OnInstincts
<1>7. ASSUME NEW p \in Procs, Crash(p) PROVE IndexInTurn'
  <2>1. cmd'[p].at \notin {"items", "keep"} /\ Moves(p) /\ turns' = turns /\ cmd[p].at # "idle"
    BY <1>7, CrashMoves, IdleTyped
  <2> QED BY <1>1, <1>2, <1>3, <2>1
<1>8. ASSUME NEW i \in Ids, EditInstinct(i) PROVE IndexInTurn'
  <2>1. /\ UNCHANGED <<turns, cmd>> /\ file[i] \in Bodies
        /\ \A k \in Ids : k # i => file'[k] = file[k]
    BY <1>0, <1>8 DEF EditInstinct, Readable
  <2> QED BY <2>1 DEF IndexInTurn, Indexed
<1>9. ASSUME UNCHANGED <<turns, cmd, file>> PROVE IndexInTurn'
  BY <1>9 DEF IndexInTurn
<1>10. ASSUME NEW q \in Projects, RemoveProjectDir(q) PROVE IndexInTurn'
  BY <1>9, <1>10 DEF RemoveProjectDir, files
<1>11. CASE UNCHANGED vars
  BY <1>9, <1>11 DEF vars, files, world
<1> QED BY <1>4, <1>5, <1>6, <1>7, <1>8, <1>10, <1>11 DEF Next

InstinctsInv == LedgerInv /\ InstinctInv

LEMMA InstinctsInvHolds == Spec => []InstinctsInv
<1>1. Init => InstinctInv
  <2> SUFFICES ASSUME Init PROVE InstinctInv
    OBVIOUS
  <2>1. \A p \in Procs : cmd[p] = Idle
    BY DEF Init
  <2> QED BY <2>1, IdleTyped
          DEF InstinctInv, CapturesApart, NotYetThere, IndexInTurn, Indexed, Job
<1>2. LedgerInv /\ InstinctInv /\ [Next]_vars => InstinctInv'
  BY CapturesApartKept, NotYetThereKept, IndexKept DEF LedgerInv, InstinctInv
<1> QED BY <1>1, <1>2, LedgerInvHolds, PTL DEF Spec, InstinctsInv

\* An import in turn, of a bundle that does not name the instinct before, keeps an item
\* only where no readable instinct is.
LEMMA KeepsNew ==
    ASSUME InstinctsInv, turns, NEW p \in Procs, cmd[p].at = "keep", ~Repeats(cmd[p].item)
    PROVE  file[Item(p).id] \notin Bodies
<1>1. /\ Item(p) = Bundle[cmd[p].item] /\ Item(p).id \in Ids /\ cmd[p].seen[Item(p).id] = Absent
  BY ItemAtHand DEF InstinctsInv, LedgerInv
<1>2. file[Item(p).id] \in Bodies => \E k \in 1 .. cmd[p].item - 1 : Bundle[k].id = Item(p).id
  BY <1>1 DEF InstinctsInv, InstinctInv, IndexInTurn, Indexed
<1> QED BY <1>1, <1>2 DEF Repeats

\* No command overwrites a readable instinct: not a capture, whose identifier is new
\* (NewULID), nor an import, which refuses a clash; but an import that overlaps other
\* commands or whose bundle names the instinct twice.  And only its deletion removes it.
THEOREM InstinctsAreKept == Spec => InstinctsKept
<1> DEFINE Kept1(i) == \/ file'[i] = file[i]
                       \/ EditInstinct(i)
                       \/ \E p \in Procs : Job(p).kind = "delete" /\ Job(p).id = i
                       \/ \E p \in Procs : /\ At(p, "keep") /\ Item(p).id = i
                                           /\ ~turns \/ Repeats(cmd[p].item)
<1>1. InstinctsInv /\ [Next]_vars => [\A i \in Readable : Kept1(i)]_vars
  <2> SUFFICES ASSUME InstinctsInv, [Next]_vars, NEW i \in Readable PROVE Kept1(i)
    OBVIOUS
  <2>0. TypeOK /\ JobsFit /\ file \in [Ids -> Bodies \cup {Absent, Broken}]
        /\ i \in Ids /\ file[i] \in Bodies /\ Absent \notin Bodies
    BY BodiesAssumption DEF InstinctsInv, LedgerInv, TypeOK, Readable
  <2>1. CASE UNCHANGED file
    BY <2>1
  <2>2. ASSUME NEW p \in Procs, OnInstincts(p) PROVE Kept1(i)
    <3>1. ASSUME NEW k \in Ids, Published(p, k) PROVE Kept1(i)
      <4>1. file[k] = Absent
        BY <2>0, <3>1 DEF InstinctsInv, InstinctInv, NotYetThere, Published
      <4> QED BY <2>0, <3>1, <4>1 DEF Published
    <3>2. ASSUME NEW k \in Ids, Deleted(p, k) PROVE Kept1(i)
      <4>1. Job(p).kind = "delete" /\ Job(p).id = k
        BY <2>0, <3>2, DeletedId DEF Deleted
      <4> QED BY <2>0, <3>2, <4>1 DEF Deleted
    <3>3. ASSUME NEW k \in Ids, KeptItem(p, k) PROVE Kept1(i)
      <4>1. CASE k # i
        BY <2>0, <3>3, <4>1 DEF KeptItem
      <4>2. CASE k = i
        <5>1. cmd[p].at = "keep" /\ Item(p).id = i
          BY <3>3, <4>2 DEF KeptItem
        <5>2. ~turns \/ Repeats(cmd[p].item)
          BY <2>0, <5>1, KeepsNew
        <5> QED BY <5>1, <5>2 DEF At
      <4> QED BY <4>1, <4>2
    <3> QED BY <2>0, <2>1, <2>2, <3>1, <3>2, <3>3, FileSteps
  <2>3. ASSUME NEW p \in Procs, Starts(p) \/ OnLedger(p) \/ Crash(p) PROVE Kept1(i)
    <3>1. UNCHANGED file
      BY <2>0, <2>3, StartMoves, LedgerMoves, CrashMoves DEF files
    <3> QED BY <2>1, <3>1
  <2>4. ASSUME NEW k \in Ids, EditInstinct(k) PROVE Kept1(i)
    BY <2>0, <2>4 DEF EditInstinct
  <2>5. ASSUME NEW q \in Projects, RemoveProjectDir(q) PROVE Kept1(i)
    BY <2>1, <2>5 DEF RemoveProjectDir, files
  <2>6. CASE UNCHANGED vars
    BY <2>1, <2>6 DEF vars, files
  <2> QED BY <2>2, <2>3, <2>4, <2>5, <2>6 DEF Next
<1> QED BY <1>1, InstinctsInvHolds, PTL DEF Spec, InstinctsKept

(***************************************************************************)
(* The counter                                                             *)
(***************************************************************************)
LEMMA ReadablesArePresent ==
    ASSUME TypeOK, IsFiniteSet(Present)
    PROVE  /\ IsFiniteSet(Readable) /\ Cardinality(Readable) \in Nat
           /\ Cardinality(Present) \in Nat /\ Cardinality(Readable) <= Cardinality(Present)
<1>1. Readable \subseteq Present
  BY BodiesAssumption DEF Readable, Present
<1> QED BY <1>1, FS_Subset, FS_CardinalityType

\* One file more or less changes the number of readable instincts by one at most.
LEMMA OneFile ==
    ASSUME TypeOK, IsFiniteSet(Present), NEW i \in Ids, NEW b \in Bodies \cup {Absent, Broken},
           file' = [file EXCEPT ![i] = b]
    PROVE  /\ IsFiniteSet(Present') /\ Cardinality(Readable') \in Nat
           /\ Cardinality(Readable') + 1 >= Cardinality(Readable)
           /\ b \in Bodies => Cardinality(Readable') >= Cardinality(Readable)
           /\ b \in Bodies /\ file[i] \notin Bodies
                => Cardinality(Readable') = Cardinality(Readable) + 1
<1>0. file \in [Ids -> Bodies \cup {Absent, Broken}]
  BY DEF TypeOK
<1>1. IsFiniteSet(Readable) /\ Cardinality(Readable) \in Nat
  BY ReadablesArePresent
<1>2. IsFiniteSet(Present')
  <2>1. Present' \subseteq Present \cup {i}
    BY <1>0 DEF Present
  <2>2. IsFiniteSet(Present \cup {i})
    BY FS_AddElement
  <2> QED BY <2>1, <2>2, FS_Subset
<1>3. CASE b \in Bodies
  <2>1. Readable' = Readable \cup {i}
    BY <1>0, <1>3 DEF Readable
  <2>2. IsFiniteSet(Readable') /\ Cardinality(Readable') =
           (IF i \in Readable THEN Cardinality(Readable) ELSE Cardinality(Readable) + 1)
    BY <1>1, <2>1, FS_AddElement
  <2>3. i \in Readable <=> file[i] \in Bodies
    BY DEF Readable
  <2> QED BY <1>1, <1>2, <1>3, <2>2, <2>3
<1>4. CASE b \notin Bodies
  <2>1. Readable' = Readable \ {i}
    BY <1>0, <1>4 DEF Readable
  <2>2. Cardinality(Readable') =
           (IF i \in Readable THEN Cardinality(Readable) - 1 ELSE Cardinality(Readable))
        /\ IsFiniteSet(Readable')
    BY <1>1, <2>1, FS_RemoveElement
  <2>3. Cardinality(Readable') \in Nat
    BY <2>2, FS_CardinalityType
  <2> QED BY <1>1, <1>2, <1>4, <2>2, <2>3
<1> QED BY <1>3, <1>4

LEMMA OwedMore ==
    ASSUME NEW c \in Commands, NEW b \in Books, NEW n \in Nat, NEW m \in Nat, n <= m,
           Owed(c, b, n)
    PROVE  Owed(c, b, m)
<1>1. Counted(b) \in Counters /\ Counted(c.view) \in Counters /\ c.imported \in Nat
  BY MutatedTyped DEF Commands
<1>2. Tallied(Counted(b), c) \in Counters
  BY <1>1, TalliedTyped
<1>3. /\ Counted(b).count \in Nat /\ Counted(c.view).count \in Nat
      /\ Tallied(Counted(b), c).count \in Nat
  BY <1>1, <1>2 DEF Counters
<1> QED BY <1>1, <1>3 DEF Owed

LEMMA IdleOwes ==
    ASSUME NEW c, NEW b, NEW n,
           c.at \notin {"open", "write", "rename", "mutate", "list", "items", "keep"}
    PROVE  Owed(c, b, n) /\ ~Deleting(c)
BY DEF Owed, Deleting, Writing

LEMMA PresentKept ==
    ASSUME TypeOK, JobsFit, IsFiniteSet(Present), [Next]_vars
    PROVE  IsFiniteSet(Present')
<1>1. CASE UNCHANGED file
  BY <1>1 DEF Present
<1>2. ASSUME NEW p \in Procs, OnInstincts(p) PROVE IsFiniteSet(Present')
  <2>1. ASSUME NEW i \in Ids, Published(p, i) PROVE IsFiniteSet(Present')
    BY <2>1, CapturedId, OneFile DEF Published
  <2>2. ASSUME NEW i \in Ids, Deleted(p, i) PROVE IsFiniteSet(Present')
    BY <2>2, OneFile DEF Deleted
  <2>3. ASSUME NEW i \in Ids, KeptItem(p, i) PROVE IsFiniteSet(Present')
    BY <2>3, ItemAtHand, OneFile DEF KeptItem
  <2> QED BY <1>1, <1>2, <2>1, <2>2, <2>3, FileSteps
<1>3. ASSUME NEW p \in Procs, Starts(p) \/ OnLedger(p) \/ Crash(p) PROVE IsFiniteSet(Present')
  BY <1>1, <1>3, StartMoves, LedgerMoves, CrashMoves DEF files
<1>4. ASSUME NEW i \in Ids, EditInstinct(i) PROVE IsFiniteSet(Present')
  BY <1>4, OneFile DEF EditInstinct
<1>5. ASSUME NEW q \in Projects, RemoveProjectDir(q) PROVE IsFiniteSet(Present')
  BY <1>1, <1>5 DEF RemoveProjectDir, files
<1>6. CASE UNCHANGED vars
  BY <1>1, <1>6 DEF vars, files
<1> QED BY <1>2, <1>3, <1>4, <1>5, <1>6 DEF Next

\* What is left to show of a step of p, in turn.
LEMMA CountByOne ==
    ASSUME NEW p \in Procs, Moves(p), \A r \in Procs : r # p => cmd[r].at = "idle",
           Owed(cmd'[p], Shown', Limit'),
           \/ Counted(Shown').count <= Limit'
           \/ Counted(Shown').count <= Limit' + 1 /\ Deleting(cmd'[p]),
           Limit' \in Nat, Counted(Shown') \in Counters
    PROVE  CountFits'
<1>1. \A r \in Procs : Owed(cmd'[r], Shown', Limit')
  BY IdleOwes DEF Moves
<1>2. Counted(Shown').count <= Limit' + 1
  BY DEF Counters
<1> QED BY <1>1, <1>2 DEF CountFits

LEMMA CountNow ==
    ASSUME TypeOK, WholeLedger, CountFits, IsFiniteSet(Present)
    PROVE  /\ Limit \in Nat /\ Counted(Shown) \in Counters /\ Counted(Shown).count \in Nat
           /\ Shown \in Books
           /\ \A p \in Procs : /\ cmd[p] \in Commands
                               /\ \A r \in Procs : r # p => cmd[r].at = "idle"
                               /\ ~Deleting(cmd[p])
                               => Counted(Shown).count <= Limit
<1>1. Limit \in Nat
  BY ReadablesArePresent DEF Limit, TypeOK
<1>2. Shown \in Books
  BY ReadsShown
<1>3. Counted(Shown) \in Counters
  BY <1>2, BooksTyped DEF Counted, Books
<1>4. ASSUME NEW p \in Procs, \A r \in Procs : r # p => cmd[r].at = "idle", ~Deleting(cmd[p])
      PROVE  Counted(Shown).count <= Limit
  BY <1>4, IdleOwes DEF CountFits
<1> QED BY <1>1, <1>2, <1>3, <1>4 DEF Counters

LEMMA StartCounts ==
    ASSUME InstinctsInv, CountFits, IsFiniteSet(Present), turns, NEW p \in Procs, Starts(p)
    PROVE  CountFits'
<1>0. TypeOK /\ WholeLedger
  BY DEF InstinctsInv, LedgerInv
<1>1. /\ Moves(p) /\ \A r \in Procs : cmd[r].at = "idle"
      /\ cmd'[p].at \in {"load", "mutate", "draft", "ask", "list"}
      /\ cmd'[p].at = "mutate" => cmd'[p].job.kind \in {"export", "evolve"}
      /\ cmd'[p].imported = 0 /\ UNCHANGED <<turns, faults, ledger, file>>
  BY <1>0, StartMoves
<1>2. Shown' = Shown /\ Limit' = Limit
  BY <1>1 DEF Shown, Limit, Readable
<1>3. /\ Limit \in Nat /\ Counted(Shown) \in Counters /\ Counted(Shown).count \in Nat
  BY <1>0, CountNow
<1>4. Counted(Shown).count <= Limit
  BY <1>1, IdleOwes DEF CountFits
<1>5. cmd'[p].at = "mutate" => Tallied(Counted(Shown), cmd'[p]).count = Counted(Shown).count
  BY <1>0, <1>1, <1>3, TalliedTyped DEF Moves
<1>6. Owed(cmd'[p], Shown, Limit)
  BY <1>1, <1>3, <1>4, <1>5 DEF Owed, Writing
<1> QED BY <1>1, <1>2, <1>3, <1>4, <1>6, CountByOne

LEMMA LedgerStepCounts ==
    ASSUME InstinctsInv, CountFits, IsFiniteSet(Present), turns, NEW p \in Procs, OnLedger(p)
    PROVE  CountFits'
<1>0. TypeOK /\ WholeLedger /\ JobsFit /\ OneActs /\ WritesInTurn
  BY DEF InstinctsInv, LedgerInv
<1>1. Moves(p) /\ cmd[p].at # "idle" /\ UNCHANGED <<world, files>>
  BY <1>0, LedgerMoves
<1>2. \A r \in Procs : r # p => cmd[r].at = "idle"
  BY <1>0, <1>1 DEF OneActs, At
<1>3. /\ Limit \in Nat /\ Counted(Shown) \in Counters /\ Counted(Shown).count \in Nat
      /\ Shown \in Books
  BY <1>0, CountNow
<1>4. Limit' = Limit
  BY <1>1 DEF Limit, Readable, world, files
<1>5. cmd[p] \in Commands /\ cmd[p].job \in Jobs /\ Owed(cmd[p], Shown, Limit)
  BY <1>0 DEF TypeOK, Commands, CountFits
<1>6. ~Deleting(cmd[p]) => Counted(Shown).count <= Limit
  BY <1>0, <1>2, <1>5, CountNow
<1>7. Counted(Shown).count <= Limit + 1
  BY DEF CountFits
<1>8. Loaded(ledger) = Shown /\ Salvaged(ledger) = Shown
  BY <1>0, ReadsShown
<1>9. ASSUME Shown' = Shown, Owed(cmd'[p], Shown, Limit),
             Deleting(cmd[p]) => Deleting(cmd'[p])
      PROVE  CountFits'
  BY <1>1, <1>2, <1>3, <1>4, <1>6, <1>7, <1>9, CountByOne
<1>10. ASSUME UNCHANGED ledger PROVE Shown' = Shown
  BY <1>1, <1>10 DEF Shown, world
<1>11. CASE Load(p)
  <2>1. Shown' = Shown /\ ~Deleting(cmd[p]) /\ Counted(Shown).count <= Limit
    BY <1>6, <1>10, <1>11 DEF Load, At, Deleting, Writing
  <2>2. CASE Ends(p)
    <3>1. cmd'[p].at = "idle"
      BY <1>0, <2>2, Ended
    <3> QED BY <1>9, <2>1, <3>1, IdleOwes
  <2>3. ASSUME NEW b \in Books, b.section = Shown.section, Writes(p, b) PROVE CountFits'
    <3>1. cmd'[p].at = "open" /\ Counted(cmd'[p].view) = Counted(Shown)
      BY <1>0, <2>3, Wrote DEF Counted
    <3>2. Owed(cmd'[p], Shown, Limit)
      BY <2>1, <3>1 DEF Owed, Writing
    <3> QED BY <1>9, <2>1, <3>2
  <2>4. CASE Job(p).kind = "register" /\ Writes(p, Registered(Shown, Job(p)))
    BY <1>3, <1>5, <2>3, <2>4, RegisteredTyped DEF Job
  <2>5. CASE Writes(p, Without(Shown, Orphans(Shown)))
    <3>1. Orphans(Shown) \in SUBSET Projects
      BY DEF Orphans
    <3> QED BY <1>3, <2>3, <2>5, <3>1, WithoutTyped
  <2> QED BY <1>8, <1>11, <2>2, <2>4, <2>5 DEF Load
<1>12. CASE Mutate(p)
  <2>1. Shown' = Shown /\ Writes(p, Mutated(Shown, cmd[p])) /\ cmd[p].at = "mutate"
    BY <1>8, <1>10, <1>12 DEF Mutate, At
  <2>2. /\ cmd'[p].at = "open" /\ cmd'[p].job = cmd[p].job
        /\ cmd'[p].view = Mutated(Shown, cmd[p])
    BY <1>0, <1>3, <1>5, <2>1, MutatedTyped, Wrote
  <2>3. Counted(cmd'[p].view).count <= Limit
    BY <1>3, <1>5, <2>1, <2>2, MutatedTyped DEF Owed
  <2>4. Owed(cmd'[p], Shown, Limit)
    BY <2>2, <2>3 DEF Owed, Writing
  <2>5. Deleting(cmd[p]) => Deleting(cmd'[p])
    BY <2>2 DEF Deleting, Writing
  <2> QED BY <1>9, <2>1, <2>4, <2>5
<1>13. CASE OpenTmp(p)
  <2>1. /\ Shown' = Shown /\ cmd[p].at = "open" /\ cmd'[p].at = "write"
        /\ cmd'[p].view = cmd[p].view /\ cmd'[p].job = cmd[p].job
    BY <1>0, <1>10, <1>13, Went DEF OpenTmp, At, Phases
  <2>2. Owed(cmd'[p], Shown, Limit) /\ (Deleting(cmd[p]) => Deleting(cmd'[p]))
    BY <1>5, <2>1 DEF Owed, Writing, Deleting
  <2> QED BY <1>9, <2>1, <2>2
<1>14. CASE WriteTmp(p)
  <2>1. /\ cmd[p].at = "write" /\ cmd'[p].at = "rename"
        /\ cmd'[p].view = cmd[p].view /\ cmd'[p].job = cmd[p].job
    BY <1>0, <1>14, Went DEF WriteTmp, At, Phases
  <2>2. Shown' = Shown
    BY <1>0, <2>1, LedgerStepInTurn DEF At
  <2>3. Owed(cmd'[p], Shown, Limit) /\ (Deleting(cmd[p]) => Deleting(cmd'[p]))
    BY <1>5, <2>1 DEF Owed, Writing, Deleting
  <2> QED BY <1>9, <2>2, <2>3
<1>15. CASE Rename(p)
  <2>1. cmd'[p].at = "idle" /\ cmd[p].at = "rename"
    BY <1>0, <1>15, Ended DEF Rename, At
  <2>2. tmp \in [book : {cmd[p].view}, tail : {FALSE}]
    BY <1>0, <2>1 DEF WritesInTurn, Written
  <2>3. tmp \in Contents /\ tmp.book = cmd[p].view
    BY <1>5, <2>2 DEF Contents, Commands
  <2>4. ledger' = tmp /\ ledger' \notin {Absent, Torn}
    BY <1>15, <2>3, ContentsAssumption DEF Rename
  <2>5. Shown' = cmd[p].view
    BY <1>1, <2>3, <2>4 DEF Shown, world
  <2>6. Counted(Shown') \in Counters /\ Counted(Shown').count <= Limit
    BY <1>5, <2>1, <2>5, MutatedTyped DEF Owed, Writing, Commands
  <2>7. Owed(cmd'[p], Shown', Limit')
    BY <2>1, IdleOwes
  <2> QED BY <1>1, <1>2, <1>3, <1>4, <2>6, <2>7, CountByOne
<1> QED BY <1>11, <1>12, <1>13, <1>14, <1>15 DEF OnLedger

LEMMA OneBelow ==
    \A a, n, m \in Nat : a <= n /\ n <= m + 1
      => a <= m + 1 /\ (IF a > 0 THEN a - 1 ELSE 0) <= m
OBVIOUS

LEMMA InstinctStepCounts ==
    ASSUME InstinctsInv, CountFits, IsFiniteSet(Present), turns, NeverTwice,
           NEW p \in Procs, OnInstincts(p)
    PROVE  CountFits'
<1>0. TypeOK /\ WholeLedger /\ JobsFit /\ OneActs
  BY DEF InstinctsInv, LedgerInv
<1>1. /\ Moves(p) /\ cmd[p].at \in {"draft", "publish", "ask", "list", "items", "keep"}
      /\ cmd'[p].at \in {"idle", "publish", "mutate", "items", "keep"}
      /\ UNCHANGED <<world, ledger, tmp, handle>>
  BY <1>0, InstinctMoves
<1>2. \A r \in Procs : r # p => cmd[r].at = "idle"
  BY <1>0, <1>1 DEF OneActs, At
<1>3. /\ Limit \in Nat /\ Counted(Shown) \in Counters /\ Counted(Shown).count \in Nat
      /\ Shown \in Books /\ faults \in Nat /\ Cardinality(Readable) \in Nat
  BY <1>0, CountNow, ReadablesArePresent DEF TypeOK
<1>4. Shown' = Shown /\ faults' = faults
  BY <1>1 DEF Shown, world
<1>5. cmd[p] \in Commands /\ Owed(cmd[p], Shown, Limit) /\ cmd[p].imported \in Nat
      /\ cmd'[p] \in Commands /\ PhaseOfJob(cmd[p])
  BY <1>0, <1>1 DEF TypeOK, Commands, CountFits, Moves, JobsFit
<1>6. Counted(Shown).count <= Limit
  <2>1. ~Deleting(cmd[p])
    BY <1>1 DEF Deleting, Writing
  <2> QED BY <1>0, <1>2, <1>5, <2>1, CountNow
<1>7. ASSUME Limit' \in Nat, Owed(cmd'[p], Shown, Limit'),
             \/ Counted(Shown).count <= Limit'
             \/ Counted(Shown).count <= Limit' + 1 /\ Deleting(cmd'[p])
      PROVE  CountFits'
  BY <1>1, <1>2, <1>3, <1>4, <1>7, CountByOne
<1>8. UNCHANGED file => Limit' = Limit
  BY <1>4 DEF Limit, Readable
<1>9. ASSUME Ends(p) PROVE Owed(cmd'[p], Shown, Limit')
  BY <1>0, <1>9, Ended, IdleOwes
<1>10. CASE DraftCapture(p)
  <2>1. cmd'[p].at = "publish" /\ UNCHANGED file
    BY <1>0, <1>10, Went DEF DraftCapture, Phases
  <2> QED BY <1>3, <1>6, <1>7, <1>8, <2>1, IdleOwes
<1>11. CASE PublishCapture(p)
  <2>1. cmd[p].at = "publish"
    BY <1>11 DEF PublishCapture, At
  <2>2. /\ Job(p).kind = "capture" /\ Job(p).id \in Ids /\ Job(p).body \in Bodies
        /\ file[Job(p).id] = Absent
    BY <1>0, <2>1, CapturedId DEF InstinctsInv, InstinctInv, NotYetThere
  <2>3. CASE UNCHANGED files /\ Ends(p)
    BY <1>3, <1>6, <1>7, <1>8, <1>9, <2>3 DEF files
  <2>4. CASE Publish(Job(p).id, Job(p).body) /\ Goto(p, "mutate")
    <3>1. cmd'[p].at = "mutate" /\ cmd'[p].job = cmd[p].job
      BY <1>0, <2>4, Went DEF Phases
    <3>2. Cardinality(Readable') = Cardinality(Readable) + 1
      BY <1>0, <2>2, <2>4, OneFile, BodiesAssumption DEF Publish
    <3>3. Limit' = Limit + 1
      BY <1>3, <1>4, <3>2 DEF Limit
    <3>4. Tallied(Counted(Shown), cmd'[p]).count = Counted(Shown).count + 1
      BY <1>3, <1>5, <2>2, <3>1, TalliedTyped DEF Job
    <3>5. Owed(cmd'[p], Shown, Limit')
      BY <1>3, <1>6, <3>1, <3>3, <3>4 DEF Owed, Writing
    <3> QED BY <1>3, <1>6, <1>7, <3>3, <3>5
  <2> QED BY <1>11, <2>3, <2>4 DEF PublishCapture
<1>12. CASE Delete(p)
  <2>1. Job(p).kind = "delete" /\ Job(p).id \in Ids
    BY <1>0, <1>12, DeletedId DEF Delete, At
  <2>2. CASE UNCHANGED file /\ Ends(p)
    BY <1>3, <1>6, <1>7, <1>8, <1>9, <2>2
  <2>3. CASE file' = [file EXCEPT ![Job(p).id] = Absent] /\ Goto(p, "mutate")
    <3>1. cmd'[p].at = "mutate" /\ cmd'[p].job = cmd[p].job
      BY <1>0, <2>3, Went DEF Phases
    <3>2. Cardinality(Readable') \in Nat /\ Cardinality(Readable') + 1 >= Cardinality(Readable)
      BY <1>0, <2>1, <2>3, OneFile
    <3>3. Limit' \in Nat /\ Limit <= Limit' + 1
      BY <1>3, <1>4, <3>2 DEF Limit
    <3>4. Tallied(Counted(Shown), cmd'[p]).count =
            (IF Counted(Shown).count > 0 THEN Counted(Shown).count - 1 ELSE 0)
      BY <1>3, <1>5, <2>1, <3>1, TalliedTyped DEF Job
    <3>5. Tallied(Counted(Shown), cmd'[p]).count <= Limit'
      <4>1. Counted(Shown).count \in Nat /\ Limit \in Nat
        BY <1>3
      <4>2. (IF Counted(Shown).count > 0 THEN Counted(Shown).count - 1 ELSE 0) <= Limit'
        BY <1>6, <3>3, <4>1, OneBelow
      <4> QED BY <3>4, <4>2
    <3>6. Owed(cmd'[p], Shown, Limit')
      BY <3>1, <3>5 DEF Owed, Writing
    <3>7. Deleting(cmd'[p])
      BY <2>1, <3>1 DEF Deleting, Job
    <3>8. Counted(Shown).count <= Limit' + 1
      <4>1. Counted(Shown).count \in Nat /\ Limit \in Nat
        BY <1>3
      <4> QED BY <1>6, <3>3, <4>1, OneBelow
    <3> QED BY <1>7, <3>3, <3>6, <3>7, <3>8
  <2> QED BY <1>12, <2>2, <2>3 DEF Delete
<1>13. CASE ListLocal(p)
  <2>1. cmd[p].at = "list" /\ cmd'[p].at = "items" /\ cmd'[p].imported = cmd[p].imported
        /\ UNCHANGED file
    BY <1>0, <1>13, Listed DEF ListLocal, At, Cleanup
  <2>2. Owed(cmd'[p], Shown, Limit)
    BY <1>5, <2>1 DEF Owed, Writing
  <2> QED BY <1>3, <1>6, <1>7, <1>8, <2>1, <2>2
<1>14. CASE ImportItem(p)
  <2>1. cmd[p].at = "items" /\ UNCHANGED file
    BY <1>14 DEF ImportItem, At
  <2>2. CASE Ends(p)
    BY <1>3, <1>6, <1>7, <1>8, <1>9, <2>1, <2>2
  <2>3. CASE ~Ends(p)
    <3>1. cmd'[p].at \in {"items", "keep"} /\ cmd'[p].imported = cmd[p].imported
      BY <1>0, <1>14, <2>1, <2>3, Went, Skipped DEF ImportItem, Phases
    <3>2. Owed(cmd'[p], Shown, Limit)
      BY <1>5, <2>1, <3>1 DEF Owed, Writing
    <3> QED BY <1>3, <1>6, <1>7, <1>8, <2>1, <3>2
  <2> QED BY <2>2, <2>3
<1>15. CASE KeepItem(p)
  <2>1. cmd[p].at = "keep"
    BY <1>15 DEF KeepItem, At
  <2>2. /\ Item(p).id \in Ids /\ Item(p).body \in Bodies /\ cmd[p].item \in DOMAIN Bundle
    BY <1>0, <2>1, ItemAtHand
  <2>3. file[Item(p).id] \notin Bodies
    BY <2>1, <2>2, KeepsNew DEF NeverTwice
  <2>4. CASE UNCHANGED files /\ Ends(p)
    BY <1>3, <1>6, <1>7, <1>8, <1>9, <2>4 DEF files
  <2>5. CASE /\ Publish(Item(p).id, Item(p).body)
             /\ cmd' = [cmd EXCEPT ![p].at = "items", ![p].item = @ + 1, ![p].imported = @ + 1]
    <3>1. cmd'[p].at = "items" /\ cmd'[p].imported = cmd[p].imported + 1
      BY <1>0, <2>5, Kept
    <3>2. Cardinality(Readable') = Cardinality(Readable) + 1
      BY <1>0, <2>2, <2>3, <2>5, OneFile DEF Publish
    <3>3. Limit' = Limit + 1
      BY <1>3, <1>4, <3>2 DEF Limit
    <3>4. Counted(Shown).count + cmd[p].imported <= Limit
      BY <1>5, <2>1 DEF Owed
    <3>5. Owed(cmd'[p], Shown, Limit')
      BY <1>3, <1>5, <3>1, <3>3, <3>4 DEF Owed, Writing
    <3> QED BY <1>3, <1>6, <1>7, <3>3, <3>5
  <2> QED BY <1>15, <2>4, <2>5 DEF KeepItem
<1>16. CASE ImportDone(p)
  <2>1. cmd[p].at = "items" /\ cmd'[p].at = "mutate" /\ cmd'[p].job = cmd[p].job
        /\ cmd'[p].imported = cmd[p].imported /\ UNCHANGED file
    BY <1>0, <1>16, Went DEF ImportDone, At, Phases, files
  <2>2. cmd'[p].job.kind = "import"
    BY <1>5, <2>1 DEF PhaseOfJob
  <2>3. Tallied(Counted(Shown), cmd'[p]).count = Counted(Shown).count + cmd[p].imported
    BY <1>3, <1>5, <2>1, <2>2, TalliedTyped
  <2>4. Counted(Shown).count + cmd[p].imported <= Limit
    BY <1>5, <2>1 DEF Owed
  <2>5. Owed(cmd'[p], Shown, Limit)
    BY <2>1, <2>3, <2>4 DEF Owed, Writing
  <2> QED BY <1>3, <1>6, <1>7, <1>8, <2>1, <2>5
<1> QED BY <1>10, <1>11, <1>12, <1>13, <1>14, <1>15, <1>16 DEF OnInstincts

\* A crash and an edit cost one fault each, and so pay for what they leave uncounted.
LEMMA FaultCounts ==
    ASSUME InstinctsInv, CountFits, IsFiniteSet(Present), turns,
           \/ \E p \in Procs : Crash(p)
           \/ \E i \in Ids : EditInstinct(i)
    PROVE  CountFits'
<1>0. TypeOK /\ WholeLedger /\ OneActs /\ faults \in Nat
  BY DEF InstinctsInv, LedgerInv, TypeOK
<1>1. /\ Limit \in Nat /\ Counted(Shown) \in Counters /\ Counted(Shown).count \in Nat
      /\ Shown \in Books /\ Cardinality(Readable) \in Nat
  BY <1>0, CountNow, ReadablesArePresent
<1>2. ASSUME NEW p \in Procs, Crash(p) PROVE CountFits'
  <2>1. /\ Moves(p) /\ cmd[p].at # "idle" /\ cmd'[p].at = "idle"
        /\ faults' = faults + 1 /\ UNCHANGED <<turns, ledger, files>>
    BY <1>0, <1>2, CrashMoves, IdleTyped
  <2>2. \A r \in Procs : r # p => cmd[r].at = "idle"
    BY <1>0, <2>1 DEF OneActs, At
  <2>3. Shown' = Shown /\ Limit' = Limit + 1
    BY <1>0, <1>1, <2>1 DEF Shown, Limit, Readable, files
  <2>4. Counted(Shown').count <= Limit'
    BY <2>3 DEF CountFits
  <2> QED BY <1>1, <2>1, <2>2, <2>3, <2>4, IdleOwes, CountByOne
<1>3. ASSUME NEW i \in Ids, EditInstinct(i) PROVE CountFits'
  <2>1. UNCHANGED <<turns, ledger, cmd>> /\ faults' = faults + 1
    BY <1>3 DEF EditInstinct
  <2>2. Cardinality(Readable') \in Nat /\ Cardinality(Readable') + 1 >= Cardinality(Readable)
    BY <1>0, <1>3, OneFile DEF EditInstinct
  <2>3. Shown' = Shown /\ Limit' \in Nat /\ Limit <= Limit'
    BY <1>0, <1>1, <2>1, <2>2 DEF Shown, Limit
  <2>4. \A p \in Procs : Owed(cmd[p], Shown, Limit')
    BY <1>0, <1>1, <2>3, OwedMore DEF CountFits, TypeOK
  <2>5. \/ Counted(Shown).count <= Limit'
        \/ \E p \in Procs : Deleting(cmd[p])
    BY <1>1, <2>3 DEF CountFits
  <2>6. Counted(Shown).count <= Limit' + 1
    BY <1>1, <2>3 DEF CountFits
  <2>7. /\ \A p \in Procs : Owed(cmd'[p], Shown', Limit')
        /\ Counted(Shown').count <= Limit' + 1
        /\ Counted(Shown').count <= Limit' \/ \E p \in Procs : Deleting(cmd'[p])
    BY <2>1, <2>3, <2>4, <2>5, <2>6
  <2> QED BY <2>7 DEF CountFits
<1> QED BY <1>2, <1>3

LEMMA CountKept ==
    ASSUME InstinctsInv, CountInTurn, [Next]_vars
    PROVE  CountInTurn'
<1>0. TypeOK /\ JobsFit /\ IsFiniteSet(Present)
  BY DEF InstinctsInv, LedgerInv, CountInTurn
<1>1. IsFiniteSet(Present')
  BY <1>0, PresentKept
<1>2. turns' = turns
  BY <1>0, StartMoves, LedgerMoves, InstinctMoves, CrashMoves
     DEF Next, vars, world, EditInstinct, RemoveProjectDir
<1>3. SUFFICES ASSUME turns, NeverTwice, CountFits PROVE CountFits'
  BY <1>1, <1>2 DEF CountInTurn, NeverTwice, Repeats
<1>4. ASSUME UNCHANGED <<turns, faults, ledger, file, cmd>> PROVE CountFits'
  <2>1. Shown' = Shown /\ Limit' = Limit
    BY <1>4 DEF Shown, Limit, Readable
  <2> QED BY <1>3, <1>4, <2>1 DEF CountFits
<1>5. ASSUME NEW q \in Projects, RemoveProjectDir(q) PROVE CountFits'
  BY <1>4, <1>5 DEF RemoveProjectDir, files
<1>6. CASE UNCHANGED vars
  BY <1>4, <1>6 DEF vars, world, files
<1> QED BY <1>0, <1>3, <1>5, <1>6, StartCounts, LedgerStepCounts, InstinctStepCounts, FaultCounts
        DEF Next

\* While commands take turns and no bundle names an instinct twice, the counter of the
\* ledger is between two commands not ahead of the number of instinct files, cut ones
\* included, but for one per crash or edit: capture and import count what they wrote,
\* after they wrote it.
THEOREM CounterIsNotAhead == Spec => []CountNotAhead
<1>1. Init => CountInTurn
  <2> SUFFICES ASSUME Init PROVE CountInTurn
    OBVIOUS
  <2>1. Present = {} /\ Readable = {} /\ Shown = NoBook /\ faults = 0
    BY BodiesAssumption DEF Init, Present, Readable, Shown
  <2>2. IsFiniteSet(Present) /\ Limit = 0
    BY <2>1, FS_EmptySet DEF Limit
  <2>3. Counted(Shown).count = 0
    BY <2>1, BooksTyped DEF Zero
  <2>4. \A p \in Procs : Owed(cmd[p], Shown, Limit)
    BY IdleTyped, IdleOwes DEF Init
  <2> QED BY <2>2, <2>3, <2>4 DEF CountInTurn, CountFits
<1>2. InstinctsInv /\ CountInTurn /\ [Next]_vars => CountInTurn'
  BY CountKept
<1>3. InstinctsInv /\ CountInTurn => CountNotAhead
  <2> SUFFICES ASSUME InstinctsInv, CountInTurn, turns, Quiet, NeverTwice,
                      Salvaged(ledger).section # NoSection
               PROVE  Salvaged(ledger).section.count <= Cardinality(Present) + faults
    BY DEF CountNotAhead, NeverTwice, Present
  <2>1. TypeOK /\ WholeLedger /\ IsFiniteSet(Present) /\ faults \in Nat /\ CountFits
    BY DEF InstinctsInv, LedgerInv, CountInTurn, TypeOK
  <2>2. Salvaged(ledger) = Shown
    BY <2>1, ReadsShown
  <2>3. Counted(Shown).count <= Limit
    BY <2>1 DEF CountFits, Quiet, At, Deleting, Writing
  <2>4. Counted(Shown) = Salvaged(ledger).section
    BY <2>2 DEF Counted
  <2>5. Cardinality(Readable) \in Nat /\ Cardinality(Present) \in Nat
        /\ Cardinality(Readable) <= Cardinality(Present)
    BY <2>1, ReadablesArePresent
  <2>6. Counted(Shown).count \in Nat
    BY <2>1, CountNow
  <2> QED BY <2>1, <2>3, <2>4, <2>5, <2>6 DEF Limit
<1> QED BY <1>1, <1>2, <1>3, InstinctsInvHolds, PTL DEF Spec

(***************************************************************************)
(* Groups of instincts: parent pointers and connected components           *)
(***************************************************************************)
NonRoots(parent, n) == {x \in 1 .. n : parent[x] # x}

\* The pointers are trees: high is how far an element is from its root, top the root.
Forest(parent, high, top, n) ==
  /\ parent \in [1 .. n -> 1 .. n] /\ high \in [1 .. n -> Nat] /\ top \in [1 .. n -> 1 .. n]
  /\ \A x \in 1 .. n : /\ parent[x] = x => high[x] = 0 /\ top[x] = x
                       /\ parent[x] # x => high[x] = high[parent[x]] + 1
                       /\ top[parent[x]] = top[x]
                       /\ parent[top[x]] = top[x]
                       /\ high[x] <= Cardinality(NonRoots(parent, n))

LEMMA NonRootsFinite ==
  ASSUME NEW n \in Nat, NEW parent
  PROVE  /\ IsFiniteSet(NonRoots(parent, n)) /\ Cardinality(NonRoots(parent, n)) \in Nat
         /\ Cardinality(NonRoots(parent, n)) <= n
<1>1. IsFiniteSet(1 .. n) /\ Cardinality(1 .. n) = n
  BY FS_Interval
<1>2. NonRoots(parent, n) \in SUBSET (1 .. n)
  BY DEF NonRoots
<1> QED BY <1>1, <1>2, FS_Subset, FS_CardinalityType

(* Following the pointers n times ends at the root. *)
LEMMA RootIsTop ==
  ASSUME NEW n \in Nat, NEW parent, NEW high, NEW top, Forest(parent, high, top, n),
         NEW i \in 1 .. n
  PROVE  Root(parent, i) = top[i]
<1> DEFINE B == 1 .. n
           H == [k \in 1 .. n |-> parent]
           Up(f) == f = [k \in 0 .. n |-> IF k = 0 THEN i ELSE parent[f[k - 1]]]
           up == CHOOSE f : Up(f)
<1>1. DOMAIN parent = 1 .. n /\ parent \in [B -> B]
  BY DEF Forest
<1>2. Cardinality(DOMAIN parent) = n
  BY <1>1, FS_Interval
<1>3. Root(parent, i) = up[n]
  BY <1>2 DEF Root
<1>4. \E f : Up(f)
  <2> DEFINE start == i
             f == Stepping(B, start, n, H)
  <2>1. H \in [1 .. n -> [B -> B]]
    BY <1>1
  <2>2. start \in B
    OBVIOUS
  <2> HIDE DEF B, H, Up, start
  <2>3. f \in [0 .. n -> B] /\ f[0] = start /\ \A k \in 1 .. n : f[k] = H[k][f[k - 1]]
    BY <2>1, <2>2, Stepwise
  <2> HIDE DEF f
  <2>4. f = [k \in 0 .. n |-> IF k = 0 THEN i ELSE parent[f[k - 1]]]
    <3>1. \A k \in 0 .. n : f[k] = IF k = 0 THEN i ELSE parent[f[k - 1]]
      BY <2>3 DEF H, start
    <3> QED BY <2>3, <3>1
  <2> QED BY <2>4 DEF Up
<1>5. Up(up)
  BY <1>4
<1> HIDE DEF up
<1>6. up[0] = i /\ \A k \in 1 .. n : up[k] = parent[up[k - 1]]
  BY <1>5
<1> DEFINE S == {k \in Nat : k <= n => /\ up[k] \in B /\ top[up[k]] = top[i]
                                       /\ high[up[k]] = IF high[i] > k THEN high[i] - k ELSE 0}
<1>7. 0 \in S
  <2>1. high[i] \in Nat
    BY DEF Forest
  <2> QED BY <1>6, <2>1
<1>8. ASSUME NEW k \in Nat, k \in S PROVE k + 1 \in S
  <2> SUFFICES ASSUME k + 1 <= n
               PROVE  /\ up[k + 1] \in B /\ top[up[k + 1]] = top[i]
                      /\ high[up[k + 1]] = IF high[i] > k + 1 THEN high[i] - (k + 1) ELSE 0
    OBVIOUS
  <2>1. k \in S /\ k <= n
    BY <1>8
  <2>2. /\ up[k] \in 1 .. n /\ top[up[k]] = top[i]
        /\ high[up[k]] = IF high[i] > k THEN high[i] - k ELSE 0
    BY <2>1
  <2>3. up[k + 1] = parent[up[k]]
    <3>1. k + 1 \in 1 .. n /\ (k + 1) - 1 = k
      OBVIOUS
    <3> QED BY <1>6, <3>1
  <2>4. up[k + 1] \in 1 .. n /\ top[up[k + 1]] = top[i]
    BY <2>2, <2>3 DEF Forest
  <2>5. high[i] \in Nat /\ high[up[k]] \in Nat /\ high[up[k + 1]] \in Nat
    BY <2>2, <2>4 DEF Forest
  <2>6. CASE parent[up[k]] = up[k]
    <3>1. high[up[k]] = 0 /\ up[k + 1] = up[k]
      BY <2>2, <2>3, <2>6 DEF Forest
    <3> QED BY <2>2, <2>4, <2>5, <3>1
  <2>7. CASE parent[up[k]] # up[k]
    <3>1. high[up[k]] = high[up[k + 1]] + 1
      BY <2>2, <2>3, <2>7 DEF Forest
    <3> QED BY <2>2, <2>4, <2>5, <3>1
  <2> QED BY <2>6, <2>7
<1>9. n \in S
  <2> HIDE DEF S
  <2> QED BY <1>7, <1>8, InductionOn
<1>10. up[n] \in 1 .. n /\ top[up[n]] = top[i]
       /\ high[up[n]] = IF high[i] > n THEN high[i] - n ELSE 0
  BY <1>9
<1>11. high[i] <= n
  BY NonRootsFinite DEF Forest
<1>12. high[up[n]] = 0
  BY <1>10, <1>11 DEF Forest
<1>13. parent[up[n]] = up[n]
  <2>1. up[n] \in 1 .. n /\ parent[up[n]] \in 1 .. n /\ high[parent[up[n]]] \in Nat
    BY <1>10 DEF Forest
  <2>2. parent[up[n]] # up[n] => high[up[n]] = high[parent[up[n]]] + 1
    BY <2>1 DEF Forest
  <2> QED BY <1>12, <2>1, <2>2
<1> QED BY <1>3, <1>10, <1>13 DEF Forest

(* Joining hangs one tree below the root of the other. *)
LEMMA JoinForest ==
  ASSUME NEW n \in Nat, NEW parent, NEW high, NEW top, Forest(parent, high, top, n),
         NEW i \in 1 .. n, NEW j \in 1 .. n
  PROVE  \E h : Forest(Join(parent, i, j), h,
                       [x \in 1 .. n |-> IF top[x] = top[i] THEN top[j] ELSE top[x]], n)
<1> DEFINE ri == top[i]
           rj == top[j]
           p == [parent EXCEPT ![ri] = rj]
           t == [x \in 1 .. n |-> IF top[x] = ri THEN rj ELSE top[x]]
<1>1. Join(parent, i, j) = p
  <2>1. Root(parent, i) = ri /\ Root(parent, j) = rj
    BY RootIsTop
  <2> QED BY <2>1 DEF Join
<1>2. /\ ri \in 1 .. n /\ rj \in 1 .. n /\ parent[ri] = ri /\ parent[rj] = rj
      /\ top[ri] = ri /\ top[rj] = rj /\ high[rj] = 0 /\ high[ri] = 0
      /\ parent \in [1 .. n -> 1 .. n] /\ high \in [1 .. n -> Nat]
      /\ top \in [1 .. n -> 1 .. n]
  BY DEF Forest
<1>3. p \in [1 .. n -> 1 .. n] /\ \A x \in 1 .. n : p[x] = IF x = ri THEN rj ELSE parent[x]
  BY <1>2
<1>4. t \in [1 .. n -> 1 .. n] /\ \A x \in 1 .. n : t[x] = IF top[x] = ri THEN rj ELSE top[x]
  BY <1>2
<1> HIDE DEF p, t, ri, rj
<1>5. CASE ri = rj
  <2>1. p = parent
    BY <1>2, <1>3, <1>5
  <2>2. t = top
    BY <1>2, <1>4, <1>5
  <2>3. Forest(p, high, t, n)
    BY <2>1, <2>2
  <2> QED BY <1>1, <2>3 DEF t, ri, rj
<1>6. CASE ri # rj
  <2> DEFINE h == [x \in 1 .. n |-> IF top[x] = ri THEN high[x] + 1 ELSE high[x]]
  <2>1. h \in [1 .. n -> Nat] /\ \A x \in 1 .. n : h[x] = IF top[x] = ri THEN high[x] + 1 ELSE high[x]
    <3>1. \A x \in 1 .. n : high[x] \in Nat /\ high[x] + 1 \in Nat
      BY DEF Forest
    <3> QED BY <3>1
  <2> HIDE DEF h
  <2>2. NonRoots(p, n) = NonRoots(parent, n) \union {ri} /\ ri \notin NonRoots(parent, n)
    BY <1>2, <1>3, <1>6 DEF NonRoots
  <2>3. /\ Cardinality(NonRoots(p, n)) = Cardinality(NonRoots(parent, n)) + 1
        /\ Cardinality(NonRoots(parent, n)) \in Nat
    BY <2>2, NonRootsFinite, FS_AddElement
  <2>4. ASSUME NEW x \in 1 .. n
        PROVE  /\ p[x] = x => h[x] = 0 /\ t[x] = x
               /\ p[x] # x => h[x] = h[p[x]] + 1
               /\ t[p[x]] = t[x]
               /\ p[t[x]] = t[x]
               /\ h[x] <= Cardinality(NonRoots(p, n))
    <3>1. /\ parent[x] \in 1 .. n /\ top[x] \in 1 .. n /\ high[x] \in Nat /\ high[parent[x]] \in Nat
          /\ parent[x] = x => high[x] = 0 /\ top[x] = x
          /\ parent[x] # x => high[x] = high[parent[x]] + 1
          /\ top[parent[x]] = top[x]
          /\ parent[top[x]] = top[x]
          /\ high[x] <= Cardinality(NonRoots(parent, n))
      BY DEF Forest
    <3>2. CASE x = ri
      <4>1. p[x] = rj /\ t[x] = rj /\ t[rj] = rj /\ p[rj] = rj
        BY <1>2, <1>3, <1>4, <1>6, <3>2
      <4>2. h[x] = 1 /\ h[rj] = 0
        BY <1>2, <1>6, <2>1, <3>2
      <4> QED BY <2>3, <4>1, <4>2, <3>2, <1>6
    <3>3. CASE x # ri
      <4>1. p[x] = parent[x]
        BY <1>3, <3>3
      <4>2. p[x] = x => h[x] = 0 /\ t[x] = x
        BY <1>4, <2>1, <3>1, <3>3, <4>1
      <4>3. p[x] # x => h[x] = h[p[x]] + 1
        BY <2>1, <3>1, <4>1
      <4>4. t[p[x]] = t[x]
        BY <1>4, <3>1, <4>1
      <4>5. p[t[x]] = t[x]
        BY <1>2, <1>3, <1>4, <1>6, <3>1
      <4>6. h[x] <= Cardinality(NonRoots(p, n))
        BY <2>1, <2>3, <3>1
      <4> QED BY <4>2, <4>3, <4>4, <4>5, <4>6
    <3> QED BY <3>2, <3>3
  <2>5. Forest(p, h, t, n)
    BY <1>3, <1>4, <2>1, <2>4 DEF Forest
  <2> QED BY <1>1, <2>5 DEF t, ri, rj
<1> QED BY <1>5, <1>6

Trees(n) == {p \in [1 .. n -> 1 .. n] : \E high, top : Forest(p, high, top, n)}

LEMMA JoinTrees ==
  ASSUME NEW n \in Nat, NEW p \in Trees(n), NEW i \in 1 .. n, NEW j \in 1 .. n
  PROVE  Join(p, i, j) \in Trees(n)
<1>1. PICK high, top : Forest(p, high, top, n)
  BY DEF Trees
<1> DEFINE t == [x \in 1 .. n |-> IF top[x] = top[i] THEN top[j] ELSE top[x]]
<1>2. PICK h : Forest(Join(p, i, j), h, t, n)
  BY <1>1, JoinForest
<1> HIDE DEF t
<1>3. Join(p, i, j) \in [1 .. n -> 1 .. n]
  BY <1>2 DEF Forest
<1> QED BY <1>2, <1>3 DEF Trees

(* The inner loop, step by step. *)
RowStep(i, j, alike, p) == IF i < j /\ <<i, j>> \in alike THEN Join(p, i, j) ELSE p

RowRuns(f, parent, i, n, alike) ==
  /\ f \in [0 .. n -> Trees(n)]
  /\ f[0] = parent /\ f[n] = JoinRow(parent, i, n, alike)
  /\ \A j \in 1 .. n : f[j] = RowStep(i, j, alike, f[j - 1])

LEMMA RowSteps ==
  ASSUME NEW n \in Nat, NEW parent \in Trees(n), NEW i \in 1 .. n, NEW alike
  PROVE  \E f : RowRuns(f, parent, i, n, alike)
<1> DEFINE B == Trees(n)
           H == [j \in 1 .. n |-> [p \in B |-> RowStep(i, j, alike, p)]]
           Up(f) == f = [j \in 0 .. n |->
                           IF j = 0 THEN parent
                           ELSE IF i < j /\ <<i, j>> \in alike THEN Join(f[j - 1], i, j) ELSE f[j - 1]]
           upTo == CHOOSE f : Up(f)
<1>1. JoinRow(parent, i, n, alike) = upTo[n]
  BY DEF JoinRow
<1>2. ASSUME NEW j \in 1 .. n, NEW p \in B PROVE RowStep(i, j, alike, p) \in B
  BY JoinTrees DEF RowStep
<1> DEFINE f == Stepping(B, parent, n, H)
<1>3. H \in [1 .. n -> [B -> B]]
  BY <1>2
<1>4. parent \in B
  OBVIOUS
<1> HIDE DEF B, H, Up, upTo
<1>5. f \in [0 .. n -> B] /\ f[0] = parent /\ \A j \in 1 .. n : f[j] = H[j][f[j - 1]]
  BY <1>3, <1>4, Stepwise
<1> HIDE DEF f
<1>6. ASSUME NEW j \in 1 .. n PROVE f[j] = RowStep(i, j, alike, f[j - 1]) /\ f[j - 1] \in B
  <2>1. f[j - 1] \in B
    BY <1>5
  <2> QED BY <1>5, <2>1 DEF H
<1>7. Up(f)
  <2>1. \A j \in 0 .. n : f[j] = IF j = 0 THEN parent
          ELSE IF i < j /\ <<i, j>> \in alike THEN Join(f[j - 1], i, j) ELSE f[j - 1]
    BY <1>5, <1>6 DEF RowStep
  <2> QED BY <1>5, <2>1 DEF Up
<1>8. Up(upTo)
  BY <1>7 DEF upTo
<1>9. upTo[0] = parent /\ \A j \in 1 .. n : upTo[j] = RowStep(i, j, alike, upTo[j - 1])
  BY <1>8 DEF Up, RowStep
<1> DEFINE S == {j \in Nat : j <= n => upTo[j] = f[j]}
<1>10. 0 \in S
  BY <1>5, <1>9
<1>11. ASSUME NEW j \in Nat, j \in S PROVE j + 1 \in S
  <2> SUFFICES ASSUME j + 1 <= n PROVE upTo[j + 1] = f[j + 1]
    OBVIOUS
  <2>1. j + 1 \in 1 .. n /\ (j + 1) - 1 = j /\ upTo[j] = f[j]
    BY <1>11
  <2> QED BY <1>6, <1>9, <2>1
<1>12. upTo[n] = f[n]
  <2> HIDE DEF S
  <2>1. n \in S
    BY <1>10, <1>11, InductionOn
  <2> QED BY <2>1 DEF S
<1>13. RowRuns(f, parent, i, n, alike)
  BY <1>1, <1>5, <1>6, <1>12 DEF B, RowRuns
<1> QED BY <1>13

(* The outer loop, step by step. *)
RowsRun(f, n, alike) ==
  /\ f \in [0 .. n -> Trees(n)]
  /\ f[0] = [k \in 1 .. n |-> k] /\ f[n] = Parents(n, alike)
  /\ \A i \in 1 .. n : f[i] = JoinRow(f[i - 1], i, n, alike)

LEMMA ParentsSteps ==
  ASSUME NEW n \in Nat, NEW alike
  PROVE  \E f : RowsRun(f, n, alike)
<1> DEFINE B == Trees(n)
           own == [k \in 1 .. n |-> k]
           H == [i \in 1 .. n |-> [p \in B |-> JoinRow(p, i, n, alike)]]
           Up(f) == f = [i \in 0 .. n |-> IF i = 0 THEN [k \in 1 .. n |-> k]
                                          ELSE JoinRow(f[i - 1], i, n, alike)]
           rows == CHOOSE f : Up(f)
<1>1. Parents(n, alike) = rows[n]
  BY DEF Parents
<1>2. ASSUME NEW i \in 1 .. n, NEW p \in B PROVE JoinRow(p, i, n, alike) \in B
  <2>1. PICK f : RowRuns(f, p, i, n, alike)
    BY RowSteps
  <2> QED BY <2>1 DEF RowRuns
<1> DEFINE f == Stepping(B, own, n, H)
<1>3. H \in [1 .. n -> [B -> B]]
  BY <1>2
<1>4. own \in B
  <2>1. own \in [1 .. n -> 1 .. n] /\ [k \in 1 .. n |-> 0] \in [1 .. n -> Nat]
    OBVIOUS
  <2>2. NonRoots(own, n) = {}
    BY DEF NonRoots
  <2>3. Cardinality(NonRoots(own, n)) = 0
    BY <2>2, FS_EmptySet
  <2>4. Forest(own, [k \in 1 .. n |-> 0], own, n)
    BY <2>1, <2>3 DEF Forest
  <2> QED BY <2>1, <2>4 DEF Trees
<1> HIDE DEF B, H, Up, rows, own
<1>5. f \in [0 .. n -> B] /\ f[0] = own /\ \A i \in 1 .. n : f[i] = H[i][f[i - 1]]
  BY <1>3, <1>4, Stepwise
<1> HIDE DEF f
<1>6. ASSUME NEW i \in 1 .. n PROVE f[i] = JoinRow(f[i - 1], i, n, alike) /\ f[i - 1] \in B
  <2>1. f[i - 1] \in B
    BY <1>5
  <2> QED BY <1>5, <2>1 DEF H
<1>7. Up(f)
  <2>1. \A i \in 0 .. n : f[i] = IF i = 0 THEN own ELSE JoinRow(f[i - 1], i, n, alike)
    BY <1>5, <1>6
  <2> QED BY <1>5, <2>1 DEF Up, own
<1>8. Up(rows)
  BY <1>7 DEF rows
<1>9. rows[0] = own /\ \A i \in 1 .. n : rows[i] = JoinRow(rows[i - 1], i, n, alike)
  BY <1>8 DEF Up, own
<1> DEFINE S == {i \in Nat : i <= n => rows[i] = f[i]}
<1>10. 0 \in S
  BY <1>5, <1>9
<1>11. ASSUME NEW i \in Nat, i \in S PROVE i + 1 \in S
  <2> SUFFICES ASSUME i + 1 <= n PROVE rows[i + 1] = f[i + 1]
    OBVIOUS
  <2>1. i + 1 \in 1 .. n /\ (i + 1) - 1 = i /\ rows[i] = f[i]
    BY <1>11
  <2> QED BY <1>6, <1>9, <2>1
<1>12. rows[n] = f[n]
  <2> HIDE DEF S
  <2>1. n \in S
    BY <1>10, <1>11, InductionOn
  <2> QED BY <2>1 DEF S
<1>13. RowsRun(f, n, alike)
  BY <1>1, <1>5, <1>6, <1>12 DEF B, own, RowsRun
<1> QED BY <1>13

(* What the loops keep: the pairs of D that are alike have one root, and no set that
   keeps alike pairs together separates an element from its root. *)
Sound(top, alike, n) ==
  \A S \in SUBSET (1 .. n) : KeepsPairs(alike, S) => \A x \in 1 .. n : x \in S <=> top[x] \in S
Together(p, D, alike, n) ==
  \E high, top : /\ Forest(p, high, top, n) /\ Sound(top, alike, n)
                 /\ \A ij \in D \cap alike : top[ij[1]] = top[ij[2]]

LEMMA JoinTogether ==
  ASSUME NEW n \in Nat, NEW alike, NEW D \in SUBSET ((1 .. n) \X (1 .. n)), NEW p,
         Together(p, D, alike, n), NEW i \in 1 .. n, NEW j \in 1 .. n, <<i, j>> \in alike
  PROVE  Together(Join(p, i, j), D \union {<<i, j>>}, alike, n)
<1>1. PICK high, top : /\ Forest(p, high, top, n) /\ Sound(top, alike, n)
                       /\ \A ij \in D \cap alike : top[ij[1]] = top[ij[2]]
  BY DEF Together
<1> DEFINE t == [x \in 1 .. n |-> IF top[x] = top[i] THEN top[j] ELSE top[x]]
<1>2. PICK h : Forest(Join(p, i, j), h, t, n)
  BY <1>1, JoinForest
<1>3. top \in [1 .. n -> 1 .. n]
  BY <1>1 DEF Forest
<1>4. \A ij \in (D \union {<<i, j>>}) \cap alike : t[ij[1]] = t[ij[2]]
  <2>1. ASSUME NEW ij \in D \cap alike PROVE t[ij[1]] = t[ij[2]]
    <3>1. ij[1] \in 1 .. n /\ ij[2] \in 1 .. n /\ top[ij[1]] = top[ij[2]]
      BY <1>1
    <3> QED BY <3>1
  <2>2. t[i] = t[j]
    BY <1>3
  <2> QED BY <2>1, <2>2
<1>5. Sound(t, alike, n)
  <2> SUFFICES ASSUME NEW S \in SUBSET (1 .. n), KeepsPairs(alike, S), NEW x \in 1 .. n
               PROVE  x \in S <=> t[x] \in S
    BY DEF Sound
  <2>1. \A y \in 1 .. n : y \in S <=> top[y] \in S
    BY <1>1 DEF Sound
  <2>2. i \in S <=> j \in S
    BY DEF KeepsPairs
  <2> QED BY <2>1, <2>2
<1> HIDE DEF t
<1> QED BY <1>2, <1>4, <1>5 DEF Together

LEMMA RowStepTogether ==
  ASSUME NEW n \in Nat, NEW alike, NEW D \in SUBSET ((1 .. n) \X (1 .. n)), NEW p,
         Together(p, D, alike, n), NEW i \in 1 .. n, NEW j \in 1 .. n
  PROVE  Together(RowStep(i, j, alike, p), D \union {ij \in {<<i, j>>} : i < j}, alike, n)
<1>1. CASE i < j /\ <<i, j>> \in alike
  <2>1. D \union {ij \in {<<i, j>>} : i < j} = D \union {<<i, j>>}
    BY <1>1
  <2> QED BY <1>1, <2>1, JoinTogether DEF RowStep
<1>2. CASE ~(i < j /\ <<i, j>> \in alike)
  <2>1. (D \union {ij \in {<<i, j>>} : i < j}) \cap alike = D \cap alike
    BY <1>2
  <2>2. RowStep(i, j, alike, p) = p
    BY <1>2 DEF RowStep
  <2> QED BY <2>1, <2>2 DEF Together
<1> QED BY <1>1, <1>2

\* The pairs of the first rows, and of the first columns of a row.
RowsTo(i, n) == {ij \in (1 .. n) \X (1 .. n) : ij[1] <= i /\ ij[1] < ij[2]}
RowTo(i, j, n) == {ij \in (1 .. n) \X (1 .. n) : ij[1] = i /\ ij[2] <= j /\ ij[1] < ij[2]}

LEMMA RowTogether ==
  ASSUME NEW n \in Nat, NEW alike, NEW D \in SUBSET ((1 .. n) \X (1 .. n)), NEW p \in Trees(n),
         Together(p, D, alike, n), NEW i \in 1 .. n
  PROVE  Together(JoinRow(p, i, n, alike), D \union RowTo(i, n, n), alike, n)
<1>1. PICK f : RowRuns(f, p, i, n, alike)
  BY RowSteps
<1> USE DEF RowRuns
<1> DEFINE S == {j \in Nat : j <= n => Together(f[j], D \union RowTo(i, j, n), alike, n)}
<1>2. 0 \in S
  <2>1. RowTo(i, 0, n) = {}
    BY DEF RowTo
  <2>2. D \union RowTo(i, 0, n) = D
    BY <2>1
  <2> QED BY <1>1, <2>2
<1>3. ASSUME NEW j \in Nat, j \in S PROVE j + 1 \in S
  <2> SUFFICES ASSUME j + 1 <= n
               PROVE  Together(f[j + 1], D \union RowTo(i, j + 1, n), alike, n)
    OBVIOUS
  <2>1. j + 1 \in 1 .. n /\ (j + 1) - 1 = j /\ Together(f[j], D \union RowTo(i, j, n), alike, n)
    BY <1>3
  <2>2. f[j + 1] = RowStep(i, j + 1, alike, f[j])
    BY <1>1, <2>1
  <2> DEFINE E == D \union RowTo(i, j, n)
             F == {ij \in {<<i, j + 1>>} : i < j + 1}
  <2>3. E \in SUBSET ((1 .. n) \X (1 .. n))
    BY DEF RowTo
  <2>4. RowTo(i, j + 1, n) = RowTo(i, j, n) \union F
    BY <2>1 DEF RowTo
  <2>5. E \union F = D \union RowTo(i, j + 1, n)
    BY <2>4
  <2>6. Together(RowStep(i, j + 1, alike, f[j]), E \union F, alike, n)
    <3>1. Together(f[j], E, alike, n)
      BY <2>1
    <3> HIDE DEF E
    <3> QED BY <2>1, <2>3, <3>1, RowStepTogether
  <2> QED BY <2>2, <2>5, <2>6
<1>4. n \in S
  <2> HIDE DEF S
  <2> QED BY <1>2, <1>3, InductionOn
<1> QED BY <1>1, <1>4

LEMMA ParentsTogether ==
  ASSUME NEW n \in Nat, NEW alike
  PROVE  Together(Parents(n, alike), RowsTo(n, n), alike, n)
<1>1. PICK f : RowsRun(f, n, alike)
  BY ParentsSteps
<1> DEFINE S == {i \in Nat : i <= n => Together(f[i], RowsTo(i, n), alike, n)}
           own == [k \in 1 .. n |-> k]
           none == [k \in 1 .. n |-> 0]
<1>2. 0 \in S
  <2>1. f[0] = own
    BY <1>1 DEF RowsRun
  <2>2. own \in [1 .. n -> 1 .. n] /\ none \in [1 .. n -> Nat]
    OBVIOUS
  <2>3. NonRoots(own, n) = {}
    BY DEF NonRoots
  <2>4. Cardinality(NonRoots(own, n)) = 0
    BY <2>3, FS_EmptySet
  <2>5. Forest(own, none, own, n)
    BY <2>2, <2>4 DEF Forest
  <2>6. Sound(own, alike, n)
    BY DEF Sound
  <2>7. RowsTo(0, n) = {}
    BY DEF RowsTo
  <2>8. \A ij \in RowsTo(0, n) \cap alike : own[ij[1]] = own[ij[2]]
    BY <2>7
  <2> HIDE DEF own, none
  <2>9. Together(own, RowsTo(0, n), alike, n)
    BY <2>5, <2>6, <2>8 DEF Together
  <2> QED BY <2>1, <2>9
<1> HIDE DEF own, none
<1>3. ASSUME NEW i \in Nat, i \in S PROVE i + 1 \in S
  <2> SUFFICES ASSUME i + 1 <= n PROVE Together(f[i + 1], RowsTo(i + 1, n), alike, n)
    OBVIOUS
  <2>1. i + 1 \in 1 .. n /\ (i + 1) - 1 = i /\ i \in 0 .. n /\ Together(f[i], RowsTo(i, n), alike, n)
    BY <1>3
  <2>2. f[i + 1] = JoinRow(f[i], i + 1, n, alike) /\ f[i] \in Trees(n)
    BY <1>1, <2>1 DEF RowsRun
  <2>3. RowsTo(i, n) \in SUBSET ((1 .. n) \X (1 .. n))
    BY DEF RowsTo
  <2>4. RowsTo(i + 1, n) = RowsTo(i, n) \union RowTo(i + 1, n, n)
    BY <2>1 DEF RowsTo, RowTo
  <2>5. Together(JoinRow(f[i], i + 1, n, alike), RowsTo(i, n) \union RowTo(i + 1, n, n), alike, n)
    BY <2>1, <2>2, <2>3, RowTogether
  <2> QED BY <2>2, <2>4, <2>5
<1>4. n \in S
  <2> HIDE DEF S
  <2> QED BY <1>2, <1>3, InductionOn
<1> QED BY <1>1, <1>4 DEF RowsRun

\* A map of the elements to their groups: alike ones share theirs, and no set that keeps
\* alike pairs together separates an element from it.
Groups(top, alike, n) ==
  /\ top \in [1 .. n -> 1 .. n]
  /\ \A x \in 1 .. n : top[top[x]] = top[x]
  /\ \A i, j \in 1 .. n : i < j /\ <<i, j>> \in alike => top[i] = top[j]
  /\ Sound(top, alike, n)

LEMMA ClustersAreGroups ==
  ASSUME NEW n \in Nat, NEW alike
  PROVE  \E top : /\ Groups(top, alike, n)
                  /\ TransitiveClusters(n, alike)
                       = {{x \in 1 .. n : top[x] = top[i]} : i \in 1 .. n}
<1> DEFINE parent == Parents(n, alike)
<1>1. PICK high, top : /\ Forest(parent, high, top, n) /\ Sound(top, alike, n)
                       /\ \A ij \in RowsTo(n, n) \cap alike : top[ij[1]] = top[ij[2]]
  BY ParentsTogether DEF Together
<1> HIDE DEF parent
<1>2. \A x \in 1 .. n : Root(parent, x) = top[x]
  BY <1>1, RootIsTop
<1>3. TransitiveClusters(n, alike)
        = {{x \in 1 .. n : Root(parent, x) = r} : r \in {Root(parent, i) : i \in 1 .. n}}
  BY DEF TransitiveClusters, parent
<1>4. TransitiveClusters(n, alike) = {{x \in 1 .. n : top[x] = top[i]} : i \in 1 .. n}
  <2> DEFINE G(r) == {x \in 1 .. n : Root(parent, x) = r}
             T(r) == {x \in 1 .. n : top[x] = r}
  <2>1. \A r : G(r) = T(r)
    BY <1>2
  <2>2. TransitiveClusters(n, alike) = {G(r) : r \in {Root(parent, i) : i \in 1 .. n}}
    BY <1>3
  <2> HIDE DEF G, T
  <2>3. {G(r) : r \in {Root(parent, i) : i \in 1 .. n}} = {T(top[i]) : i \in 1 .. n}
    BY <1>2, <2>1
  <2> QED BY <2>2, <2>3 DEF T
<1>5. top \in [1 .. n -> 1 .. n] /\ \A x \in 1 .. n : top[top[x]] = top[x]
  BY <1>1 DEF Forest
<1>6. ASSUME NEW i \in 1 .. n, NEW j \in 1 .. n, i < j, <<i, j>> \in alike
      PROVE  top[i] = top[j]
  <2>1. <<i, j>> \in RowsTo(n, n)
    BY <1>6 DEF RowsTo
  <2> QED BY <1>1, <1>6, <2>1
<1>7. Groups(top, alike, n)
  BY <1>1, <1>5, <1>6 DEF Groups
<1> QED BY <1>4, <1>7

(* For any number of instincts and any similarity, the groups are the connected
   components (cluster.go, transitiveClusters). *)
THEOREM ClustersAreAlwaysComponents == \A Size \in Nat : ClustersAreComponents(Size)
<1> SUFFICES ASSUME NEW n \in Nat,
                    NEW alike \in SUBSET {ij \in (1 .. n) \X (1 .. n) : ij[1] < ij[2]}
             PROVE  TransitiveClusters(n, alike) = {Linked(n, alike, i) : i \in 1 .. n}
  BY DEF ClustersAreComponents
<1>1. PICK top : /\ Groups(top, alike, n)
                 /\ TransitiveClusters(n, alike)
                      = {{x \in 1 .. n : top[x] = top[i]} : i \in 1 .. n}
  BY ClustersAreGroups
<1>2. ASSUME NEW i \in 1 .. n PROVE Linked(n, alike, i) = {x \in 1 .. n : top[x] = top[i]}
  <2> DEFINE C == {x \in 1 .. n : top[x] = top[i]}
  <2>1. KeepsPairs(alike, C) /\ i \in C /\ C \in SUBSET (1 .. n)
    BY <1>1 DEF KeepsPairs, Groups
  <2>2. Linked(n, alike, i) \subseteq C
    <3> HIDE DEF C
    <3> QED BY <2>1 DEF Linked
  <2>3. C \subseteq Linked(n, alike, i)
    <3> SUFFICES ASSUME NEW x \in C, NEW S \in SUBSET (1 .. n), KeepsPairs(alike, S), i \in S
                 PROVE  x \in S
      BY DEF Linked
    <3>1. (x \in S <=> top[x] \in S) /\ (i \in S <=> top[i] \in S)
      BY <1>1 DEF Groups, Sound
    <3> QED BY <3>1
  <2> QED BY <2>2, <2>3
<1>3. {Linked(n, alike, i) : i \in 1 .. n} = {{x \in 1 .. n : top[x] = top[i]} : i \in 1 .. n}
  BY <1>2, Zenon
<1> QED BY <1>1, <1>3

LEMMA AlikeSymmetric ==
  ASSUME NEW a, NEW b, NEW tenths PROVE Alike(a, b, tenths) <=> Alike(b, a, tenths)
<1>1. /\ Shared(a.tags, b.tags) = Shared(b.tags, a.tags)
      /\ Shared(a.words, b.words) = Shared(b.words, a.words)
  <2>1. a.tags \cap b.tags = b.tags \cap a.tags /\ a.words \cap b.words = b.words \cap a.words
    OBVIOUS
  <2> QED BY <2>1 DEF Shared
<1>2. /\ United(a.tags, b.tags) = United(b.tags, a.tags)
      /\ United(a.words, b.words) = United(b.words, a.words)
  <2>1. a.tags \cup b.tags = b.tags \cup a.tags /\ a.words \cup b.words = b.words \cup a.words
    OBVIOUS
  <2> QED BY <2>1 DEF United
<1> QED BY <1>1, <1>2 DEF Alike

(* For any instincts, however many: no instinct is in two drafts, and no draft mixes
   domains or leaves out an instinct of its domain that is like one of its own
   (cluster.go, ClusterAll). *)
THEOREM DraftsAlwaysPartition == \A Size \in Nat : DraftsPartition(Sample, Size)
<1> SUFFICES ASSUME NEW n \in Nat, NEW items \in [1 .. n -> Sample]
             PROVE  LET drafts == Candidates(items, 5, 2, 6) IN
                    /\ \A g, h \in drafts : g = h \/ g \cap h = {}
                    /\ \A g \in drafts :
                         /\ Cardinality({items[i].domain : i \in g}) = 1
                         /\ \A i \in DOMAIN items \ g : \A j \in g :
                              items[i].domain = items[j].domain => ~Alike(items[i], items[j], 5)
  BY DEF DraftsPartition
<1> DEFINE D(d) == {ij \in (DOMAIN items) \X (DOMAIN items) :
                      /\ items[ij[1]].domain = d /\ items[ij[2]].domain = d
                      /\ Alike(items[ij[1]], items[ij[2]], 5)}
           Of(g, d) == g \in TransitiveClusters(n, D(d)) /\ \A i \in g : items[i].domain = d
<1>1. DOMAIN items = 1 .. n /\ Len(items) = n
  OBVIOUS
<1>2. ASSUME NEW g \in Candidates(items, 5, 2, 6) PROVE \E d : Of(g, d)
  <2>1. g \in ClustersOf(items, 5)
    BY DEF Candidates
  <2> QED BY <1>1, <2>1 DEF ClustersOf
<1> HIDE DEF D
<1>3. ASSUME NEW g, NEW h, NEW d, NEW e, Of(g, d), Of(h, e), g \cap h # {} PROVE g = h
  <2>1. PICK x \in g : x \in h
    BY <1>3
  <2>2. d = e
    BY <1>3, <2>1
  <2>3. PICK top : /\ Groups(top, D(d), n)
                   /\ TransitiveClusters(n, D(d))
                        = {{y \in 1 .. n : top[y] = top[i]} : i \in 1 .. n}
    BY ClustersAreGroups
  <2>4. PICK i \in 1 .. n : g = {y \in 1 .. n : top[y] = top[i]}
    BY <1>3, <2>3
  <2>5. PICK j \in 1 .. n : h = {y \in 1 .. n : top[y] = top[j]}
    BY <1>3, <2>2, <2>3
  <2> QED BY <2>1, <2>4, <2>5
<1>4. ASSUME NEW g, NEW d, Of(g, d)
      PROVE  /\ {items[i].domain : i \in g} = {d}
             /\ \A i \in DOMAIN items \ g : \A j \in g :
                  items[i].domain = items[j].domain => ~Alike(items[i], items[j], 5)
  <2>1. PICK top : /\ Groups(top, D(d), n)
                   /\ TransitiveClusters(n, D(d))
                        = {{y \in 1 .. n : top[y] = top[i]} : i \in 1 .. n}
    BY ClustersAreGroups
  <2>2. PICK k \in 1 .. n : g = {y \in 1 .. n : top[y] = top[k]}
    BY <1>4, <2>1
  <2>3. k \in g /\ \A i \in g : items[i].domain = d
    BY <1>4, <2>2
  <2>4. ASSUME NEW i \in DOMAIN items \ g, NEW j \in g, items[i].domain = items[j].domain,
               Alike(items[i], items[j], 5)
        PROVE  FALSE
    <3>1. i \in 1 .. n /\ j \in 1 .. n /\ i # j /\ items[i].domain = d /\ items[j].domain = d
      BY <1>1, <2>2, <2>3, <2>4
    <3>2. Alike(items[j], items[i], 5)
      BY <2>4, AlikeSymmetric
    <3>3. <<i, j>> \in D(d) /\ <<j, i>> \in D(d)
      BY <1>1, <2>4, <3>1, <3>2 DEF D
    <3>4. top[i] = top[j]
      <4>1. i < j \/ j < i
        BY <3>1
      <4> QED BY <2>1, <3>1, <3>3, <4>1 DEF Groups
    <3>5. top[j] = top[k] /\ i \notin g
      BY <2>2
    <3> QED BY <2>2, <3>1, <3>4, <3>5
  <2>5. {items[i].domain : i \in g} = {d}
    BY <2>3
  <2> QED BY <2>4, <2>5
<1>5. ASSUME NEW g \in Candidates(items, 5, 2, 6)
      PROVE  /\ Cardinality({items[i].domain : i \in g}) = 1
             /\ \A i \in DOMAIN items \ g : \A j \in g :
                  items[i].domain = items[j].domain => ~Alike(items[i], items[j], 5)
  <2>1. PICK d : Of(g, d)
    BY <1>2
  <2> HIDE DEF Of
  <2>2. {items[i].domain : i \in g} = {d}
    BY <1>4, <2>1
  <2>3. Cardinality({items[i].domain : i \in g}) = 1
    BY <2>2, FS_Singleton
  <2> QED BY <1>4, <2>1, <2>3
<1>6. ASSUME NEW g \in Candidates(items, 5, 2, 6), NEW h \in Candidates(items, 5, 2, 6)
      PROVE  g = h \/ g \cap h = {}
  <2> HIDE DEF Of
  <2> QED BY <1>2, <1>3
<1> QED BY <1>5, <1>6

(***************************************************************************)
(* Directories of drafts                                                   *)
(***************************************************************************)
\* How many of the first k drafts have a slug.
Uses(slugs, k, slug) == Cardinality({m \in 1 .. k : slugs[m] = slug})

LEMMA UsesGrow ==
  ASSUME NEW slugs, NEW j \in Nat, NEW k \in Nat, 1 <= j, j < k, slugs[j] = slugs[k]
  PROVE  /\ Uses(slugs, j, slugs[j]) \in Nat /\ Uses(slugs, k, slugs[k]) \in Nat
         /\ 1 <= Uses(slugs, j, slugs[j]) /\ Uses(slugs, j, slugs[j]) < Uses(slugs, k, slugs[k])
<1> DEFINE J == {m \in 1 .. j : slugs[m] = slugs[j]}
           K == {m \in 1 .. k : slugs[m] = slugs[k]}
<1>1. IsFiniteSet(J) /\ IsFiniteSet(K) /\ Cardinality(J) \in Nat /\ Cardinality(K) \in Nat
  <2>1. IsFiniteSet(1 .. j) /\ IsFiniteSet(1 .. k)
    BY FS_Interval
  <2>2. J \in SUBSET (1 .. j) /\ K \in SUBSET (1 .. k)
    OBVIOUS
  <2> QED BY <2>1, <2>2, FS_Subset, FS_CardinalityType
<1>2. J \union {k} \in SUBSET K /\ k \notin J /\ j \in J
  OBVIOUS
<1> HIDE DEF J, K
<1>3. Cardinality(J \union {k}) = Cardinality(J) + 1
  BY <1>1, <1>2, FS_AddElement
<1>4. Cardinality(J) + 1 <= Cardinality(K)
  <2>1. Cardinality(J \union {k}) <= Cardinality(K)
    BY <1>1, <1>2, FS_Subset
  <2> QED BY <1>3, <2>1
<1>5. Cardinality(J) # 0
  BY <1>1, <1>2, FS_EmptySet
<1> QED BY <1>1, <1>4, <1>5 DEF Uses, J, K

(* For any slugs of which none ends in a number by itself, and however many drafts one
   run writes: each has a directory of its own (evolve.go). *)
THEOREM DraftsAlwaysKept == \A Size \in Nat : DraftsKept(Slugs, Size)
<1> SUFFICES ASSUME NEW n \in Nat, NEW slugs \in [1 .. n -> Slugs]
             PROVE  IsInjective(Directories(slugs))
  BY DEF DraftsKept
<1> DEFINE U(k) == Uses(slugs, k, slugs[k])
           dir == Directories(slugs)
<1>1. DOMAIN dir = 1 .. n
  BY DEF Directories
<1>2. ASSUME NEW k \in 1 .. n
      PROVE  dir[k] = IF U(k) = 1 THEN slugs[k] ELSE Append(slugs[k], U(k))
  BY DEF Directories, Uses
<1>3. ASSUME NEW k \in 1 .. n PROVE slugs[k] \in Seq(SlugWords) /\ U(k) \in Nat
  <2>1. IsFiniteSet(1 .. k) /\ {m \in 1 .. k : slugs[m] = slugs[k]} \in SUBSET (1 .. k)
    BY FS_Interval
  <2> QED BY <2>1, SlugAssumption, FS_Subset, FS_CardinalityType DEF Uses
<1> HIDE DEF dir
<1>4. ASSUME NEW j \in 1 .. n, NEW k \in 1 .. n, dir[j] = dir[k], j < k PROVE FALSE
  <2>1. CASE U(j) = 1 /\ U(k) = 1
    <3>1. slugs[j] = slugs[k]
      BY <1>2, <1>4, <2>1
    <3> QED BY <1>4, <2>1, <3>1, UsesGrow
  <2>2. CASE U(j) = 1 /\ U(k) # 1
    <3>1. slugs[j] = Append(slugs[k], U(k))
      BY <1>2, <1>4, <2>2
    <3> QED BY <1>3, <3>1, SlugAssumption
  <2>3. CASE U(j) # 1 /\ U(k) = 1
    <3>1. slugs[k] = Append(slugs[j], U(j))
      BY <1>2, <1>4, <2>3
    <3> QED BY <1>3, <3>1, SlugAssumption
  <2>4. CASE U(j) # 1 /\ U(k) # 1
    <3>1. Append(slugs[j], U(j)) = Append(slugs[k], U(k))
      BY <1>2, <1>4, <2>4
    <3>2. slugs[j] = slugs[k] /\ U(j) = U(k)
      <4>1. SameParts(slugs[j], U(j), slugs[k], U(k))
        BY <1>3, AppendTellsParts
      <4> QED BY <3>1, <4>1 DEF SameParts
    <3> QED BY <1>4, <3>2, UsesGrow
  <2> QED BY <2>1, <2>2, <2>3, <2>4
<1>5. ASSUME NEW j \in 1 .. n, NEW k \in 1 .. n, dir[j] = dir[k] PROVE j = k
  <2>1. ~(j < k) /\ ~(k < j)
    BY <1>4, <1>5
  <2> QED BY <2>1
<1> QED BY <1>1, <1>5 DEF IsInjective, dir

(* DraftsAreGroups and DraftsAreKept, for instincts and slugs without a bound
   (cluster.go, evolve.go). *)
THEOREM DraftsStayGroups == Spec => []DraftsAreGroups
<1>1. DraftsAreGroups
  BY ClustersAreAlwaysComponents, DraftsAlwaysPartition, DraftAssumption DEF DraftsAreGroups
<1> QED BY <1>1, PTL

THEOREM DraftsStayKept == Spec => []DraftsAreKept
<1>1. DraftsAreKept
  BY DraftsAlwaysKept, DraftAssumption DEF DraftsAreKept
<1> QED BY <1>1, PTL
=============================================================================
