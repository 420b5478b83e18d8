----------------------------- MODULE FdhProject -----------------------------
(***************************************************************************)
(* One project on a developer's machine and the fdh commands that run in   *)
(* it: install, init, switch, update and uninstall, each a process that    *)
(* moves through its steps one file-system operation at a time, beside the *)
(* developer, the hub and the fdh runs of other projects that share the    *)
(* machine's hub cache.                                                    *)
(*                                                                         *)
(* A command may stop at any step (a crash, Ctrl-C, or an error return),   *)
(* leaving what it has done so far.  No command takes a lock.              *)
(* The ledger of the machine, by which no step decides, is left out.       *)
(***************************************************************************)
EXTENDS FdhHub, FiniteSets

CONSTANTS
  Procs,             \* fdh processes that may run in the project
  NoLoc,             \* no location
  Nothing,           \* no manifest, no lock, no marker
  SharedCache,       \* other projects of the machine run fdh too
  EditWhileRunning,  \* the developer edits while a command runs
  MaxEdits,          \* bound: edits of the developer
  MaxFaults          \* bound: crashes and failed steps

Locks == [commit : Commits, entries : SUBSET Comps]

ASSUME NoLocAssumption   == NoLoc \notin Comps \X Agents
ASSUME NothingAssumption ==
  Nothing \notin Markers \union Manifests \union Locks
ASSUME FlagsAssumption ==
  /\ SharedCache \in BOOLEAN /\ EditWhileRunning \in BOOLEAN
  /\ MaxEdits \in Nat /\ MaxFaults \in Nat

VARIABLES
  hubHead,    \* the commit main points to
  cacheHead,  \* the commit checked out in the machine's hub cache
  cache,      \* cache[c]: the files of component c in its working tree
  disk,       \* disk[l]: the files at location l
  marker,     \* marker[l]: the .fdh-managed.yaml of location l, or Nothing
  manifest,   \* .fdh/manifest.yaml
  lock,       \* .fdh/lock.yaml
  gitignore,  \* the locations listed in the managed block of .gitignore
  edits,      \* number of edits so far
  faults,     \* number of faults so far
  pc,         \* pc[p]: the step process p is at
  job,        \* job[p]: the command p runs and its flags
  reg,        \* reg[p]: Registry.HubCommit, and the catalogue in p's memory
  man,        \* man[p]: the manifest p works with
  old,        \* old[p]: switch: the resolution of the manifest it replaces
  want,       \* want[p]: the resolution p materializes
  todo,       \* todo[p]: locations p has still to install
  del,        \* del[p]: locations p has still to remove
  at,         \* at[p]: the location p works on
  idx,        \* idx[p]: the file of that location p works on
  src,        \* src[p]: the source tree p has hashed
  scan        \* scan[p]: the managed locations p saw on disk

hubVars  == <<hubHead, cacheHead, cache>>
fileVars == <<disk, marker>>
declVars == <<manifest, lock, gitignore>>
envVars  == <<edits, faults>>
goalVars == <<job, reg, man, old, want>>
workVars == <<todo, del, at, idx, src>>
vars == <<hubVars, fileVars, declVars, envVars, pc, goalVars, workVars, scan>>

Cmds == {"none", "install", "init", "switch", "update", "uninstall"}
Steps == {"idle", "load", "plan", "confirm", "remove", "removing", "apply",
          "hash", "check", "copy", "mark", "manifest", "lock", "scan",
          "ignore", "done"}
Jobs == [cmd : Cmds, frozen : BOOLEAN, force : BOOLEAN,
         from : Harnesses \union {NoHarness}, to : Harnesses \union {NoHarness}]
NoJob == [cmd |-> "none", frozen |-> FALSE, force |-> FALSE,
          from |-> NoHarness, to |-> NoHarness]
EmptyManifest == [harness |-> NoHarness, remove |-> {}, add |-> {}]

FilesOK ==
  /\ hubHead \in Commits /\ cacheHead \in Commits
  /\ cache \in [Comps -> HubTrees]
  /\ disk \in [Locs -> Trees]
  /\ marker \in [Locs -> Markers \union {Nothing}]
  /\ manifest \in Manifests \union {Nothing}
  /\ lock \in Locks \union {Nothing}
  /\ gitignore \in SUBSET Locs
  /\ edits \in Nat /\ faults \in Nat

ProcsOK ==
  /\ pc \in [Procs -> Steps]
  /\ job \in [Procs -> Jobs]
  /\ reg \in [Procs -> Commits]
  /\ man \in [Procs -> Manifests]
  /\ old \in [Procs -> SUBSET Comps]
  /\ want \in [Procs -> SUBSET Comps]
  /\ todo \in [Procs -> SUBSET Locs]
  /\ del \in [Procs -> SUBSET Locs]
  /\ at \in [Procs -> Locs \union {NoLoc}]
  /\ idx \in [Procs -> Files]
  /\ src \in [Procs -> HubTrees]
  /\ scan \in [Procs -> SUBSET Locs]

TypeOK == FilesOK /\ ProcsOK

\* The project starts without components, perhaps with a manifest the developer
\* wrote; components the developer authors by hand come with the edits.
Init ==
  /\ hubHead = 1 /\ cacheHead = 1
  /\ cache = [c \in Comps |-> NoFiles]
  /\ disk = [l \in Locs |-> NoFiles]
  /\ marker = [l \in Locs |-> Nothing]
  /\ manifest \in {Nothing} \union
       {[harness |-> h, remove |-> {}, add |-> {}] : h \in Harnesses}
  /\ lock = Nothing
  /\ gitignore = {}
  /\ edits = 0 /\ faults = 0
  /\ pc = [p \in Procs |-> "idle"]
  /\ job = [p \in Procs |-> NoJob]
  /\ reg = [p \in Procs |-> 1]
  /\ man = [p \in Procs |-> EmptyManifest]
  /\ old = [p \in Procs |-> {}]
  /\ want = [p \in Procs |-> {}]
  /\ todo = [p \in Procs |-> {}]
  /\ del = [p \in Procs |-> {}]
  /\ at = [p \in Procs |-> NoLoc]
  /\ idx = [p \in Procs |-> 1]
  /\ src = [p \in Procs |-> NoFiles]
  /\ scan = [p \in Procs |-> {}]

(***************************************************************************)
(* What a command sees.                                                    *)
(***************************************************************************)
\* Locations with a marker, whatever is in it: fdh owns them.
Managed == {l \in Locs : marker[l] # Nothing}

\* FetchComponent: `git sparse-checkout add` puts the files that the cache's
\* commit has for each component of C in the working tree.
Fetched(C) == [c \in Comps |-> IF c \in C THEN HubTree[cacheHead][c] ELSE cache[c]]
Fetchable(c) == HubTree[cacheHead][c] # NoFiles

\* The directory that p copies from.
Source(p) == cache[Comp(at[p])]

\* Mutant: no command overwrites.
NeverOverwrite(p) == FALSE

\* Only `fdh update` passes Overwrite to the adapters.
Overwrite(p) == job[p].cmd = "update"

\* planUpdates hashes the install directory of the marker.  For a flat layout
\* that is the whole prompts directory, where no file is named SKILL.md, so the
\* hash never equals the marker's.
Drifted(l) == IsDir(l) /\ HasHash(marker[l]) => disk[l] # marker[l].hash

UpdateAction(p, l) ==
  IF Comp(l) \notin Catalog(reg[p]) THEN "vanished"
  ELSE IF Drifted(l) /\ ~job[p].force THEN "drift"
  ELSE IF HasCommit(marker[l]) /\ marker[l].commit = reg[p] THEN "up-to-date"
  ELSE "refresh"

\* Update, switch and uninstall scan the skill install roots only, and know an
\* install by the name in its marker; update and uninstall want its agent too.
Installed == {l \in Managed : Comp(l) \in Skills /\ HasName(marker[l])}
Attributed == {l \in Installed : HasAgent(marker[l])}
Refreshed(p) == {l \in Attributed : UpdateAction(p, l) = "refresh"}

\* Installed locations of the components named like one of C.
SameName(C) == {l \in Installed : NameOf[Comp(l)] \in {NameOf[c] : c \in C}}
Candidates(C) == SameName(C) \cap Attributed

(***************************************************************************)
(* Commands start.                                                         *)
(***************************************************************************)
Goto(p, step) == pc' = [pc EXCEPT ![p] = step]

\* A process that ends forgets everything.
Stop(p) ==
  /\ Goto(p, "idle")
  /\ job'  = [job  EXCEPT ![p] = NoJob]
  /\ reg'  = [reg  EXCEPT ![p] = 1]
  /\ man'  = [man  EXCEPT ![p] = EmptyManifest]
  /\ old'  = [old  EXCEPT ![p] = {}]
  /\ want' = [want EXCEPT ![p] = {}]
  /\ todo' = [todo EXCEPT ![p] = {}]
  /\ del'  = [del  EXCEPT ![p] = {}]
  /\ at'   = [at   EXCEPT ![p] = NoLoc]
  /\ idx'  = [idx  EXCEPT ![p] = 1]
  /\ src'  = [src  EXCEPT ![p] = NoFiles]
  /\ scan' = [scan EXCEPT ![p] = {}]

\* The command returns an error or has nothing to do.
Return(p) == Stop(p) /\ UNCHANGED <<hubVars, fileVars, declVars, envVars>>

Launch(p, j, m) ==
  /\ job' = [job EXCEPT ![p] = j]
  /\ man' = [man EXCEPT ![p] = m]
  /\ Goto(p, "load")
  /\ UNCHANGED <<hubVars, fileVars, declVars, envVars, reg, old, want, workVars, scan>>

\* `fdh install [--frozen]` without a reference, in a project with a manifest.
StartInstall(p, frozen) ==
  /\ pc[p] = "idle" /\ manifest # Nothing
  /\ Launch(p, [NoJob EXCEPT !.cmd = "install", !.frozen = frozen], manifest)

\* The manifest that the markers on disk amount to.
LegacyManifest ==
  [EmptyManifest EXCEPT !.add = {Comp(l) : l \in {k \in Managed : HasName(marker[k])}}]

\* Without a manifest, the command writes that one and asks to be run again; in a
\* directory whose markers name nothing it does nothing.
GenerateFromLegacy(p) ==
  /\ pc[p] = "idle" /\ manifest = Nothing /\ LegacyManifest # EmptyManifest
  /\ manifest' = LegacyManifest
  /\ UNCHANGED <<hubVars, fileVars, lock, gitignore, envVars, pc, goalVars, workVars, scan>>

StartInit(p, h) ==
  /\ pc[p] = "idle"
  /\ Launch(p, [NoJob EXCEPT !.cmd = "init", !.to = h], EmptyManifest)

StartSwitch(p, h) ==
  /\ pc[p] = "idle" /\ manifest # Nothing
  /\ Launch(p, [NoJob EXCEPT !.cmd = "switch", !.from = manifest.harness, !.to = h],
            manifest)

StartUpdate(p, force) ==
  /\ pc[p] = "idle"
  /\ Launch(p, [NoJob EXCEPT !.cmd = "update", !.force = force], EmptyManifest)

\* `fdh uninstall <name>` needs no hub: it finds its candidates on disk.
StartUninstall(p, c) ==
  /\ pc[p] = "idle"
  /\ Candidates({c}) # {}
  /\ job' = [job EXCEPT ![p] = [NoJob EXCEPT !.cmd = "uninstall"]]
  /\ old' = [old EXCEPT ![p] = {Comp(l) : l \in Candidates({c})}]
  /\ del' = [del EXCEPT ![p] = Candidates({c})]
  /\ Goto(p, "remove")
  /\ UNCHANGED <<hubVars, fileVars, declVars, envVars, reg, man, want, todo,
                 at, idx, src, scan>>

\* hubregistry.Load: fetch and check out the hub's head, with the sparse checkout
\* set back to the catalogue files; when the fetch fails the cache is used as is.
Load(p) ==
  /\ pc[p] = "load"
  /\ \/ cacheHead' = hubHead /\ cache' = [c \in Comps |-> NoFiles]
     \/ UNCHANGED <<cacheHead, cache>>
  /\ reg' = [reg EXCEPT ![p] = cacheHead']
  /\ Goto(p, "plan")
  /\ UNCHANGED <<hubHead, fileVars, declVars, envVars, job, man, old, want, workVars, scan>>

(***************************************************************************)
(* Planning: resolve the manifest, compare, decide what to touch.          *)
(***************************************************************************)
Resolved(p, m) == Resolvable(m, cacheHead, reg[p])

\* consumerlock.Diff finds nothing missing and nothing extra: it compares names
\* only, the frozen install passes no integrity provider.
LockAgrees(C) == IF lock = Nothing THEN FALSE ELSE lock.entries = C

PlanInstall(p) ==
  LET C == Expand(man[p], cacheHead) IN
  /\ pc[p] = "plan" /\ job[p].cmd = "install"
  /\ Resolved(p, man[p])
  /\ job[p].frozen => LockAgrees(C)
  /\ want' = [want EXCEPT ![p] = C]
  /\ todo' = [todo EXCEPT ![p] = LocsOf(C)]
  /\ Goto(p, "apply")
  /\ UNCHANGED <<hubVars, fileVars, declVars, envVars, job, reg, man, old,
                 del, at, idx, src, scan>>

\* The wizard writes the manifest first; then it may be told not to install.
PlanInit(p) ==
  /\ pc[p] = "plan" /\ job[p].cmd = "init"
  /\ \E refs \in SUBSET Catalog(reg[p]) :
       /\ refs # {}
       /\ manifest' = WizardManifest(job[p].to, refs)
       /\ \/ /\ man'  = [man EXCEPT ![p] = WizardManifest(job[p].to, refs)]
             /\ want' = [want EXCEPT ![p] = refs]
             /\ todo' = [todo EXCEPT ![p] = LocsOf(refs)]
             /\ Goto(p, "apply")
             /\ UNCHANGED <<job, reg, old, del, at, idx, src, scan>>
          \/ Stop(p)
  /\ UNCHANGED <<hubVars, fileVars, lock, gitignore, envVars>>

\* Mutant: everything of the old harness is uninstalled first.
UninstallsAll(O, N) == O

\* diffComponentSets.
Installs(O, N) == N \ O
Uninstalls(O, N) == O \ N

\* Installs new \ old and uninstalls old \ new.  The removal looks for marked
\* directories by name, so files of a flat layout are never candidates.
PlanSwitch(p) ==
  LET target == Retarget(man[p], job[p].to)
      O == Expand(man[p], cacheHead)
      N == Expand(target, cacheHead)
  IN
  /\ pc[p] = "plan" /\ job[p].cmd = "switch"
  /\ Resolved(p, man[p]) /\ Resolved(p, target)
  /\ man'  = [man  EXCEPT ![p] = target]
  /\ old'  = [old  EXCEPT ![p] = O]
  /\ want' = [want EXCEPT ![p] = N]
  /\ del'  = [del  EXCEPT ![p] = {l \in SameName(Uninstalls(O, N)) : IsDir(l)}]
  /\ todo' = [todo EXCEPT ![p] = LocsOf(Installs(O, N))]
  /\ Goto(p, "remove")
  /\ UNCHANGED <<hubVars, fileVars, declVars, envVars, job, reg, at, idx, src, scan>>

PlanUpdate(p) ==
  /\ pc[p] = "plan" /\ job[p].cmd = "update"
  /\ \A l \in Refreshed(p) : Fetchable(Comp(l))
  /\ Refreshed(p) # {}
  /\ cache' = Fetched({Comp(l) : l \in Refreshed(p)})
  /\ todo' = [todo EXCEPT ![p] = Refreshed(p)]
  /\ Goto(p, "confirm")
  /\ UNCHANGED <<hubHead, cacheHead, fileVars, declVars, envVars, goalVars, del, at, idx, src, scan>>

\* The plan cannot be made, or there is nothing to refresh.
PlanReturns(p) ==
  /\ pc[p] = "plan"
  /\ CASE job[p].cmd = "install" ->
            \/ ~Resolved(p, man[p])
            \/ job[p].frozen /\ ~LockAgrees(Expand(man[p], cacheHead))
       [] job[p].cmd = "switch" ->
            ~Resolved(p, man[p]) \/ ~Resolved(p, Retarget(man[p], job[p].to))
       [] job[p].cmd = "update" ->
            \/ Refreshed(p) = {}
            \/ \E l \in Refreshed(p) : ~Fetchable(Comp(l))
       [] job[p].cmd = "init" -> Catalog(reg[p]) = {}
       [] OTHER -> FALSE
  /\ Return(p)

\* "Apply these updates? (y/N)"; with --yes there is no wait.
Confirm(p) ==
  /\ pc[p] = "confirm"
  /\ \/ Goto(p, "apply") /\ UNCHANGED <<hubVars, fileVars, declVars, envVars,
                                        goalVars, workVars, scan>>
     \/ Return(p)

(***************************************************************************)
(* Removal: os.RemoveAll deletes the entries of a directory, the marker    *)
(* among them, in the order the file system lists them.                    *)
(***************************************************************************)
BeginRemove(p) ==
  /\ pc[p] = "remove"
  /\ \E l \in del[p] :
       /\ at'  = [at  EXCEPT ![p] = l]
       /\ del' = [del EXCEPT ![p] = @ \ {l}]
  /\ Goto(p, "removing")
  /\ UNCHANGED <<hubVars, fileVars, declVars, envVars, goalVars, todo, idx, src, scan>>

RemoveFile(p) ==
  /\ pc[p] = "removing"
  /\ \E i \in Files :
       /\ disk[at[p]][i] # Absent
       /\ disk' = [disk EXCEPT ![at[p]][i] = Absent]
  /\ UNCHANGED <<hubVars, marker, declVars, envVars, pc, goalVars, workVars, scan>>

\* A flat layout keeps its marker beside the file: the file goes first.
RemoveMarker(p) ==
  /\ pc[p] = "removing"
  /\ marker[at[p]] # Nothing
  /\ IsDir(at[p]) \/ disk[at[p]] = NoFiles
  /\ marker' = [marker EXCEPT ![at[p]] = Nothing]
  /\ UNCHANGED <<hubVars, disk, declVars, envVars, pc, goalVars, workVars, scan>>

\* Mutant: the marker beside a removed file is forgotten.
RemovedContent(p) ==
  /\ pc[p] = "removing"
  /\ disk[at[p]] = NoFiles
  /\ Goto(p, "remove")
  /\ at' = [at EXCEPT ![p] = NoLoc]
  /\ UNCHANGED <<hubVars, fileVars, declVars, envVars, goalVars, todo, del, idx, src, scan>>

Removed(p) ==
  /\ pc[p] = "removing"
  /\ disk[at[p]] = NoFiles /\ marker[at[p]] = Nothing
  /\ Goto(p, "remove")
  /\ at' = [at EXCEPT ![p] = NoLoc]
  /\ UNCHANGED <<hubVars, fileVars, declVars, envVars, goalVars, todo, del, idx, src, scan>>

EndRemove(p) ==
  /\ pc[p] = "remove" /\ del[p] = {}
  /\ Goto(p, IF job[p].cmd = "switch" THEN "apply" ELSE "scan")
  /\ UNCHANGED <<hubVars, fileVars, declVars, envVars, goalVars, workVars, scan>>

(***************************************************************************)
(* Installation of one location: fetch the component, hash its source,     *)
(* compare with the marker, copy, write the marker.                        *)
(***************************************************************************)
\* A component is fetched once and then installed for one agent after the other;
\* update fetches for each of its refreshes.
Started(p) == {l \in todo[p] : ~(LocsOf({Comp(l)}) \subseteq todo[p])}
Refetches(p) == job[p].cmd = "update" \/ Started(p) = {}
Due(p) == IF Refetches(p) THEN todo[p] ELSE Started(p)

BeginInstall(p) ==
  /\ pc[p] = "apply"
  /\ \E l \in Due(p) :
       /\ Refetches(p) => Fetchable(Comp(l))
       /\ cache' = IF Refetches(p) THEN Fetched({Comp(l)}) ELSE cache
       /\ at'   = [at   EXCEPT ![p] = l]
       /\ todo' = [todo EXCEPT ![p] = @ \ {l}]
  /\ idx' = [idx EXCEPT ![p] = 1]
  /\ src' = [src EXCEPT ![p] = NoFiles]
  /\ Goto(p, "hash")
  /\ UNCHANGED <<hubHead, cacheHead, fileVars, declVars, envVars, goalVars, del, scan>>

\* Mutant: the walk never advances.
NextFileStuck(p, step) ==
  IF idx[p] = NumFiles THEN Goto(p, step) /\ idx' = [idx EXCEPT ![p] = 1]
                       ELSE UNCHANGED <<pc, idx>>

\* Advance the walk over the source directory; at its end go to step.
NextFile(p, step) ==
  IF idx[p] = NumFiles
  THEN Goto(p, step) /\ idx' = [idx EXCEPT ![p] = 1]
  ELSE pc' = pc /\ idx' = [idx EXCEPT ![p] = @ + 1]

\* Mutant: every file is hashed with the content of the first.
HashFirstFile(p) ==
  /\ pc[p] = "hash" /\ Source(p) # NoFiles
  /\ src' = [src EXCEPT ![p][idx[p]] = Source(p)[1]]
  /\ NextFile(p, "check")
  /\ UNCHANGED <<hubVars, fileVars, declVars, envVars, goalVars, todo, del, at, scan>>

HashFile(p) ==
  /\ pc[p] = "hash" /\ Source(p) # NoFiles
  /\ src' = [src EXCEPT ![p][idx[p]] = Source(p)[idx[p]]]
  /\ NextFile(p, "check")
  /\ UNCHANGED <<hubVars, fileVars, declVars, envVars, goalVars, todo, del, at, scan>>

\* Mutant: a marker is enough, whatever its hash.
HasMarker(p) == marker[at[p]] # Nothing /\ ~Overwrite(p)

UpToDate(p) ==
  /\ marker[at[p]] # Nothing
  /\ HasHash(marker[at[p]]) /\ marker[at[p]].hash = src[p]
  /\ ~Overwrite(p)

CheckMarker(p) ==
  /\ pc[p] = "check"
  /\ Goto(p, IF UpToDate(p) THEN "apply" ELSE "copy")
  /\ UNCHANGED <<hubVars, fileVars, declVars, envVars, goalVars, workVars, scan>>

\* Mutant: existing files are always overwritten.
CopiesAlways(p, i) == Source(p)[i] # Absent

\* Whether copyTree writes file i of the source: existing files are kept unless
\* Overwrite, and files the source does not have are never removed.
Copies(p, i) ==
  /\ Source(p)[i] # Absent
  /\ Overwrite(p) \/ disk[at[p]][i] = Absent

CopyFile(p) ==
  /\ pc[p] = "copy" /\ IsDir(at[p]) /\ Source(p) # NoFiles
  /\ disk' = IF Copies(p, idx[p])
             THEN [disk EXCEPT ![at[p]][idx[p]] = Source(p)[idx[p]]]
             ELSE disk
  /\ NextFile(p, "mark")
  /\ UNCHANGED <<hubVars, marker, declVars, envVars, goalVars, todo, del, at, src, scan>>

\* The flat adapters rename a temporary file over the target, whatever is there.
\* The body is read with the hash, before the check.
CopyFlat(p) ==
  /\ pc[p] = "copy" /\ ~IsDir(at[p])
  /\ src[p][SkillMD] # Absent
  /\ disk' = [disk EXCEPT ![at[p]][SkillMD] = src[p][SkillMD]]
  /\ Goto(p, "mark")
  /\ UNCHANGED <<hubVars, marker, declVars, envVars, goalVars, workVars, scan>>

\* Mutants: the marker names the hub's head of now; it keeps an old commit.
WriteMarkerHead(p) ==
  /\ pc[p] = "mark"
  /\ marker' = [marker EXCEPT ![at[p]] = [hash |-> src[p], commit |-> hubHead, kept |-> "all"]]
  /\ Goto(p, "apply")
  /\ UNCHANGED <<hubVars, disk, declVars, envVars, goalVars, workVars, scan>>
WriteMarkerHash(p) ==
  /\ pc[p] = "mark"
  /\ marker' = [marker EXCEPT ![at[p]] =
                  [hash |-> src[p], commit |-> IF @ = Nothing THEN reg[p] ELSE @.commit,
                   kept |-> "all"]]
  /\ Goto(p, "apply")
  /\ UNCHANGED <<hubVars, disk, declVars, envVars, goalVars, workVars, scan>>

\* What p writes of its marker.
Marks(p, kept) ==
  [marker EXCEPT ![at[p]] = [hash |-> src[p], commit |-> reg[p], kept |-> kept]]

WriteMarker(p) ==
  /\ pc[p] = "mark"
  /\ marker' = Marks(p, "all")
  /\ Goto(p, "apply")
  /\ UNCHANGED <<hubVars, disk, declVars, envVars, goalVars, workVars, scan>>

EndApply(p) ==
  /\ pc[p] = "apply" /\ todo[p] = {}
  /\ Goto(p, CASE job[p].cmd = "switch" -> "manifest"
               [] job[p].cmd = "update" -> "done"
               [] OTHER -> IF job[p].frozen THEN "scan" ELSE "lock")
  /\ UNCHANGED <<hubVars, fileVars, declVars, envVars, goalVars, workVars, scan>>

(***************************************************************************)
(* The declarative files, in the order the commands write them.            *)
(***************************************************************************)
WriteManifest(p) ==
  /\ pc[p] = "manifest"
  /\ manifest' = man[p]
  /\ Goto(p, "lock")
  /\ UNCHANGED <<hubVars, fileVars, lock, gitignore, envVars, goalVars, workVars, scan>>

\* `fdh install` locks what it resolved; init and switch resolve once more,
\* reading the harness from the cache again.
LockEntries(p) ==
  IF job[p].cmd = "install" THEN want[p] ELSE Expand(man[p], cacheHead)

WriteLock(p) ==
  /\ pc[p] = "lock"
  /\ job[p].cmd = "install" \/ Resolved(p, man[p])
  /\ lock' = [commit |-> reg[p], entries |-> LockEntries(p)]
  /\ Goto(p, "scan")
  /\ UNCHANGED <<hubVars, fileVars, manifest, gitignore, envVars, goalVars, workVars, scan>>

\* switch fails; init ignores the error and reports success, with the lock and
\* the .gitignore of before.
LockReturns(p) ==
  /\ pc[p] = "lock"
  /\ job[p].cmd # "install" /\ ~Resolved(p, man[p])
  /\ IF job[p].cmd = "init"
     THEN /\ Goto(p, "done")
          /\ UNCHANGED <<hubVars, fileVars, declVars, envVars, goalVars, workVars, scan>>
     ELSE Return(p)

\* Mutant: only what the command resolved is listed.
ScanWanted(p) ==
  /\ pc[p] = "scan"
  /\ scan' = [scan EXCEPT ![p] = LocsOf(want[p])]
  /\ Goto(p, "ignore")
  /\ UNCHANGED <<hubVars, fileVars, declVars, envVars, goalVars, workVars>>

ScanMarkers(p) ==
  /\ pc[p] = "scan"
  /\ scan' = [scan EXCEPT ![p] = Managed]
  /\ Goto(p, "ignore")
  /\ UNCHANGED <<hubVars, fileVars, declVars, envVars, goalVars, workVars>>

ApplyGitignore(p) ==
  /\ pc[p] = "ignore"
  /\ gitignore' = scan[p]
  /\ Goto(p, "done")
  /\ UNCHANGED <<hubVars, fileVars, manifest, lock, envVars, goalVars, workVars, scan>>

\* "done" is the moment the command reports success.
Finish(p) == pc[p] = "done" /\ Return(p)

(***************************************************************************)
(* Faults.  os.WriteFile truncates before it writes, so a copy or a marker *)
(* that is not finished may leave a torn file.                             *)
(***************************************************************************)
Interrupted(p) ==
  \/ UNCHANGED fileVars
  \/ /\ pc[p] = "copy" /\ IsDir(at[p]) /\ Copies(p, idx[p])
     /\ disk' = [disk EXCEPT ![at[p]][idx[p]] = Torn]
     /\ marker' = marker
  \/ /\ pc[p] = "mark"
     /\ \E kept \in Extents \ {"all"} : marker' = Marks(p, kept)
     /\ disk' = disk

\* A crash at any step, or an error that ends the command.
Crash(p) ==
  /\ pc[p] # "idle" /\ faults < MaxFaults
  /\ faults' = faults + 1
  /\ Interrupted(p)
  /\ Stop(p)
  /\ UNCHANGED <<hubVars, declVars, edits>>

\* update records the failure of one refresh and goes on with the next one.
RefreshFails(p) ==
  /\ job[p].cmd = "update" /\ pc[p] \in {"hash", "check", "copy", "mark"}
  /\ faults < MaxFaults
  /\ faults' = faults + 1
  /\ Interrupted(p)
  /\ Goto(p, "apply")
  /\ UNCHANGED <<hubVars, declVars, edits, goalVars, workVars, scan>>

\* init ignores what goes wrong with the lock and with .gitignore, both renamed
\* into place, and reports success.
FinalizeFails(p) ==
  /\ job[p].cmd = "init" /\ pc[p] \in {"lock", "ignore"}
  /\ faults < MaxFaults
  /\ faults' = faults + 1
  /\ Goto(p, "done")
  /\ UNCHANGED <<hubVars, fileVars, declVars, edits, goalVars, workVars, scan>>

\* The component has left the cache's checkout: update skips it, others return.
FetchFails(p) ==
  /\ pc[p] = "apply"
  /\ Refetches(p)
  /\ \E l \in todo[p] :
       /\ ~Fetchable(Comp(l))
       /\ IF job[p].cmd = "update"
          THEN /\ todo' = [todo EXCEPT ![p] = @ \ {l}]
               /\ UNCHANGED <<pc, goalVars, del, at, idx, src, scan>>
          ELSE Stop(p)
  /\ UNCHANGED <<hubVars, fileVars, declVars, envVars>>

\* The source directory, a file the walk has listed, or the SKILL.md of a flat
\* install is gone when the adapter reads it.
SourceGone(p) ==
  \/ /\ pc[p] = "hash" \/ (pc[p] = "copy" /\ IsDir(at[p]))
     /\ \/ Source(p) = NoFiles
        \/ Source(p)[idx[p]] = Absent /\ HubTree[cacheHead][Comp(at[p])][idx[p]] # Absent
  \/ pc[p] = "copy" /\ ~IsDir(at[p]) /\ src[p][SkillMD] = Absent

InstallFails(p) ==
  /\ SourceGone(p)
  /\ IF job[p].cmd = "update"
     THEN Goto(p, "apply") /\ UNCHANGED <<goalVars, workVars, scan>>
     ELSE Stop(p)
  /\ UNCHANGED <<hubVars, fileVars, declVars, envVars>>

(***************************************************************************)
(* The environment.                                                        *)
(***************************************************************************)
MayEdit ==
  /\ edits < MaxEdits
  /\ EditWhileRunning \/ \A p \in Procs : pc[p] = "idle"
  /\ edits' = edits + 1

UserWritesFile(l, i) ==
  /\ MayEdit
  /\ IsDir(l) \/ i = SkillMD
  /\ disk' = [disk EXCEPT ![l][i] = Edited]
  /\ UNCHANGED <<hubVars, marker, declVars, faults, pc, goalVars, workVars, scan>>

UserDeletesFile(l, i) ==
  /\ MayEdit
  /\ disk[l][i] # Absent
  /\ disk' = [disk EXCEPT ![l][i] = Absent]
  /\ UNCHANGED <<hubVars, marker, declVars, faults, pc, goalVars, workVars, scan>>

\* The developer deletes an installed component, marker and all.
UserRemovesInstall(l) ==
  /\ MayEdit
  /\ marker[l] # Nothing
  /\ disk' = [disk EXCEPT ![l] = NoFiles]
  /\ marker' = [marker EXCEPT ![l] = Nothing]
  /\ UNCHANGED <<hubVars, declVars, faults, pc, goalVars, workVars, scan>>

\* The developer adds a component to the manifest, or excludes one.
UserEditsManifest(c) ==
  /\ MayEdit
  /\ manifest # Nothing
  /\ \/ manifest' = [manifest EXCEPT !.add = @ \union {c}]
     \/ manifest' = [manifest EXCEPT !.remove = @ \union {c}]
  /\ UNCHANGED <<hubVars, fileVars, lock, gitignore, faults, pc, goalVars, workVars, scan>>

\* The developer deletes the manifest, or checks out a branch without one.
UserRemovesManifest ==
  /\ MayEdit
  /\ manifest # Nothing
  /\ manifest' = Nothing
  /\ UNCHANGED <<hubVars, fileVars, lock, gitignore, faults, pc, goalVars, workVars, scan>>

HubPublishes ==
  /\ hubHead < MaxCommit
  /\ hubHead' = hubHead + 1
  /\ UNCHANGED <<cacheHead, cache, fileVars, declVars, envVars, pc, goalVars, workVars, scan>>

\* An fdh run of another project refreshes the cache of the machine: git moves
\* its head, and writes and removes the files of the working tree one by one.
OtherProjectLoads ==
  /\ SharedCache
  /\ cacheHead # hubHead
  /\ cacheHead' = hubHead
  /\ UNCHANGED <<hubHead, cache, fileVars, declVars, envVars, pc, goalVars, workVars, scan>>

OtherProjectWrites(c, i) ==
  /\ SharedCache
  /\ \E f \in {Absent, HubTree[cacheHead][c][i], HubTree[hubHead][c][i]} :
       /\ cache[c][i] # f
       /\ cache' = [cache EXCEPT ![c][i] = f]
  /\ UNCHANGED <<hubHead, cacheHead, fileVars, declVars, envVars, pc, goalVars, workVars, scan>>

(***************************************************************************)
(* The specification.                                                      *)
(***************************************************************************)
Start(p) ==
  \/ \E frozen \in BOOLEAN : StartInstall(p, frozen)
  \/ GenerateFromLegacy(p)
  \/ \E h \in Harnesses : StartInit(p, h) \/ StartSwitch(p, h)
  \/ \E force \in BOOLEAN : StartUpdate(p, force)
  \/ \E c \in Comps : StartUninstall(p, c)

Plan(p) == PlanInstall(p) \/ PlanInit(p) \/ PlanSwitch(p) \/ PlanUpdate(p) \/ PlanReturns(p)

Uninstalling(p) == BeginRemove(p) \/ RemoveFile(p) \/ RemoveMarker(p) \/ Removed(p) \/ EndRemove(p)

Install(p) ==
  \/ BeginInstall(p) \/ FetchFails(p) \/ HashFile(p) \/ CheckMarker(p)
  \/ CopyFile(p) \/ CopyFlat(p) \/ InstallFails(p) \/ WriteMarker(p) \/ EndApply(p)

Declare(p) ==
  WriteManifest(p) \/ WriteLock(p) \/ LockReturns(p) \/ ScanMarkers(p) \/ ApplyGitignore(p)

\* The steps a running command takes by itself.
Run(p) == Load(p) \/ Plan(p) \/ Uninstalling(p) \/ Install(p) \/ Declare(p) \/ Finish(p)

Fault(p) == Crash(p) \/ RefreshFails(p) \/ FinalizeFails(p)

Environment ==
  \/ \E l \in Locs, i \in Files : UserWritesFile(l, i) \/ UserDeletesFile(l, i)
  \/ \E l \in Locs : UserRemovesInstall(l)
  \/ \E c \in Comps : UserEditsManifest(c)
  \/ UserRemovesManifest
  \/ HubPublishes
  \/ OtherProjectLoads
  \/ \E c \in Comps, i \in Files : OtherProjectWrites(c, i)

Next ==
  \/ \E p \in Procs : Start(p) \/ Run(p) \/ Confirm(p) \/ Fault(p)
  \/ Environment

Spec == Init /\ [][Next]_vars

\* A running process is scheduled; nothing makes the developer answer.
FairSpec == Spec /\ \A p \in Procs : WF_vars(Run(p))
(***************************************************************************)
(* Properties.                                                             *)
(***************************************************************************)
Succeeded(p, c) == pc[p] = "done" /\ job[p].cmd = c

\* A marker that has a hash, and so a hub_commit in front of it, tells the truth:
\* the hash is that of the component at that commit.  The marker is written after
\* the copy, from a hash taken before it and a commit read when the registry was
\* loaded, and a write that is cut leaves one without a hash or with both; for
\* one command at a time on a cache nobody else moves.
MarkerTruthful ==
  \A l \in Managed : HasHash(marker[l]) =>
    HasCommit(marker[l]) /\ marker[l].hash = HubTree[marker[l].commit][Comp(l)]

\* No file, or content that the hub has published for file i of component c.
WasPublished(c, i, f) ==
  f = Absent \/ \E k \in 1..hubHead : f = HubTree[k][c][i]

\* Whatever runs beside it, a marker never names a commit that the hub has not
\* published, or content of a file that it has not published for the component.
MarkerPublished ==
  \A l \in Managed :
    /\ marker[l].commit <= hubHead
    /\ \A i \in Files : WasPublished(Comp(l), i, marker[l].hash[i])

\* When `fdh install` reports success, lock and disk tell the same story: the
\* lock lists what was resolved, and each of its locations is marked with the
\* hash of the hub's tree, whatever crashes, edits and commands came before.
InstallMatchesLock ==
  \A p \in Procs : Succeeded(p, "install") =>
    /\ lock # Nothing /\ lock.entries = want[p]
    /\ job[p].frozen \/ lock.commit = reg[p]
    /\ \A l \in LocsOf(lock.entries) :
         /\ marker[l] # Nothing
         /\ HasHash(marker[l]) /\ marker[l].hash = HubTree[reg[p]][Comp(l)]

\* When install, switch or uninstall reports success, the managed block lists
\* exactly the marked locations, those of crashed commands and torn markers
\* included; and every variable keeps its type on the way.  update leaves the
\* block alone, and init promises nothing: it ignores the errors of its last steps.
IgnoreExact ==
  TypeOK /\ \A p \in Procs :
    pc[p] = "done" /\ job[p].cmd \in {"install", "switch", "uninstall"} =>
      gitignore = Managed

\* When uninstall or switch reports success, nothing that the command recognises
\* as the removed components is left: nowhere for uninstall, in no directory for
\* switch.
RemovedIsGone ==
  \A p \in Procs :
    /\ Succeeded(p, "uninstall") => Candidates(old[p]) = {}
    /\ Succeeded(p, "switch") => \A l \in SameName(old[p] \ want[p]) : ~IsDir(l)

\* A refresh that gets as far as its marker has put every file of the source in
\* place, over whatever was there.
RefreshComplete ==
  \A p \in Procs : pc[p] = "mark" /\ job[p].cmd = "update" =>
    \A i \in Files : src[p][i] # Absent /\ (IsDir(at[p]) \/ i = SkillMD) =>
                       disk[at[p]][i] = src[p][i]

\* An update without failures leaves nothing it would refresh.
UpdateConverges ==
  \A p \in Procs : Succeeded(p, "update") /\ faults = 0 => Refreshed(p) = {}

\* A file the developer wrote is lost only to the developer, to a removal, to
\* `fdh update --force`, or to an install into a flat layout.
LocalEditsKept ==
  [][\A l \in Locs, i \in Files :
       disk[l][i] = Edited /\ disk'[l][i] # Edited =>
         \/ edits' # edits
         \/ \E p \in Procs : at[p] = l /\ ( \/ pc[p] = "removing"
                                            \/ job[p].force
                                            \/ ~IsDir(l) /\ job[p].cmd # "update" )]_vars

\* A switch takes no marker of a component that its new resolution wants.
SwitchSparesWanted ==
  [][\A l \in Locs : \A p \in Procs :
       job[p].cmd = "switch" /\ pc[p] = "removing" /\ at[p] = l /\ marker'[l] # marker[l]
         => Comp(l) \notin want[p]]_vars

\* A command that has started ends, or waits for the developer's answer.
CommandEnds == \A p \in Procs : pc[p] = "load" ~> pc[p] \in {"idle", "confirm"}
=============================================================================
