-------------------------- MODULE FdhProjectProofs --------------------------
(***************************************************************************)
(* Theorems about FdhProject and FdhReports, for every hub history, set of  *)
(* agents and layout: types, what a marker says, what doctor says, which    *)
(* edits survive, what the managed block names, and what a successful       *)
(* install, refresh, update, switch or uninstall leaves; and, for any       *)
(* catalogue and list of versions, what FdhDocuments says of them.          *)
(***************************************************************************)
EXTENDS FdhDocuments, DataLemmas, TLAPS

(***************************************************************************)
(* Types                                                                   *)
(***************************************************************************)
LEMMA HubTyping ==
  /\ NoFiles \in HubTrees /\ HubTrees \subseteq Trees
  /\ \A k \in Commits, c \in Comps : HubTree[k][c] \in HubTrees
  /\ \A k \in Commits, h \in Harnesses : HubHarness[k][h] \in SUBSET Comps
  /\ 1 \in Files /\ 1 \in Commits
<1>1. NoFiles \in HubTrees /\ HubTrees \subseteq Trees
  BY DEF NoFiles, HubTrees, Trees, Content
<1>2. \A k \in Commits, c \in Comps : HubTree[k][c] \in HubTrees
  BY HubTreeAssumption
<1>3. \A k \in Commits, h \in Harnesses : HubHarness[k][h] \in SUBSET Comps
  BY HubHarnessAssumption
<1>4. 1 \in Files /\ 1 \in Commits
  BY NumFilesAssumption, MaxCommitAssumption DEF Files, Commits
<1> QED BY <1>1, <1>2, <1>3, <1>4

LEMMA ManifestTyping ==
  /\ EmptyManifest \in Manifests /\ NoJob \in Jobs
  /\ \A m \in Manifests, k \in Commits : Expand(m, k) \in SUBSET Comps
  /\ \A m \in Manifests, h \in Harnesses \union {NoHarness} : Retarget(m, h) \in Manifests
  /\ \A h \in Harnesses, C \in SUBSET Comps : WizardManifest(h, C) \in Manifests
<1>1. EmptyManifest \in Manifests /\ NoJob \in Jobs
  BY DEF EmptyManifest, Manifests, NoJob, Jobs, Cmds
<1>2. \A m \in Manifests, k \in Commits : Expand(m, k) \in SUBSET Comps
  BY HubTyping DEF Expand, Members, Manifests
<1>3. \A m \in Manifests, h \in Harnesses \union {NoHarness} : Retarget(m, h) \in Manifests
  BY DEF Retarget, Manifests
<1>4. \A h \in Harnesses, C \in SUBSET Comps : WizardManifest(h, C) \in Manifests
  BY DEF WizardManifest, Manifests
<1> QED BY <1>1, <1>2, <1>3, <1>4

\* A process that works on a location has one.
AtOK == \A p \in Procs :
  pc[p] \in {"removing", "hash", "check", "copy", "mark"} => at[p] \in Locs

Typed == TypeOK /\ AtOK

LEMMA InitTyping == Init => Typed
<1> SUFFICES ASSUME Init PROVE Typed
  OBVIOUS
<1>1. manifest \in Manifests \union {Nothing}
  BY DEF Init, Manifests
<1>2. TypeOK
  BY <1>1, HubTyping, ManifestTyping DEF Init, TypeOK, FilesOK, ProcsOK, Steps, Locs
<1>3. AtOK
  BY DEF Init, AtOK
<1> QED BY <1>2, <1>3 DEF Typed

\* A process that stops forgets its location and keeps its type.
LEMMA StopTyping ==
  ASSUME Typed, NEW p \in Procs, Stop(p)
  PROVE  ProcsOK' /\ AtOK'
<1>1. ProcsOK'
  BY HubTyping, ManifestTyping DEF Typed, TypeOK, ProcsOK, Stop, Goto, Steps
<1>2. AtOK'
  BY DEF Typed, TypeOK, ProcsOK, AtOK, Stop, Goto
<1> QED BY <1>1, <1>2

LEMMA TreeTyping ==
  /\ \A T \in Trees, i \in Files, b \in Content : [T EXCEPT ![i] = b] \in Trees
  /\ \A T \in HubTrees, i \in Files, b \in Blobs \union {Absent} :
       [T EXCEPT ![i] = b] \in HubTrees
  /\ Blobs \union {Absent} \subseteq Content
BY DEF Trees, HubTrees, Content

\* Fetching components keeps the type of the cache.
LEMMA FetchTyping ==
  ASSUME Typed, NEW C
  PROVE  Fetched(C) \in [Comps -> HubTrees]
BY HubTyping DEF Fetched, Typed, TypeOK, FilesOK

\* A process that works on a location copies from a directory of files.
LEMMA SourceTyping ==
  ASSUME Typed, NEW p \in Procs, at[p] \in Locs
  PROVE  /\ Comp(at[p]) \in Comps /\ Source(p) \in HubTrees
         /\ Source(p)[idx[p]] \in Blobs \union {Absent}
<1>1. Comp(at[p]) \in Comps /\ idx[p] \in Files
  BY DEF Comp, Locs, Typed, TypeOK, ProcsOK
<1>2. Source(p) \in HubTrees
  BY <1>1 DEF Source, Typed, TypeOK, FilesOK
<1> QED BY <1>1, <1>2 DEF HubTrees

\* Writing one file, whole or torn, keeps the type of the disk.
LEMMA DiskTyping ==
  ASSUME disk \in [Locs -> Trees], NEW l \in Locs, NEW i \in Files, NEW b \in Content
  PROVE  [disk EXCEPT ![l][i] = b] \in [Locs -> Trees]
BY TreeTyping

LEMMA JobTyping ==
  /\ \A f \in BOOLEAN : [NoJob EXCEPT !.cmd = "install", !.frozen = f] \in Jobs
  /\ \A f \in BOOLEAN : [NoJob EXCEPT !.cmd = "update", !.force = f] \in Jobs
  /\ \A h \in Harnesses : [NoJob EXCEPT !.cmd = "init", !.to = h] \in Jobs
  /\ \A g \in Harnesses \union {NoHarness}, h \in Harnesses :
       [NoJob EXCEPT !.cmd = "switch", !.from = g, !.to = h] \in Jobs
  /\ [NoJob EXCEPT !.cmd = "uninstall"] \in Jobs
<1> USE DEF NoJob, Jobs, Cmds
<1>1. \A f \in BOOLEAN : [NoJob EXCEPT !.cmd = "install", !.frozen = f] \in Jobs
  BY Zenon
<1>2. \A f \in BOOLEAN : [NoJob EXCEPT !.cmd = "update", !.force = f] \in Jobs
  BY Zenon
<1>3. \A h \in Harnesses : [NoJob EXCEPT !.cmd = "init", !.to = h] \in Jobs
  OBVIOUS
<1>4. \A g \in Harnesses \union {NoHarness}, h \in Harnesses :
        [NoJob EXCEPT !.cmd = "switch", !.from = g, !.to = h] \in Jobs
  OBVIOUS
<1>5. [NoJob EXCEPT !.cmd = "uninstall"] \in Jobs
  OBVIOUS
<1> QED BY <1>1, <1>2, <1>3, <1>4, <1>5

\* A walk stays among the files and moves one process, to step or not at all.
LEMMA NextFileTyping ==
  ASSUME Typed, NEW p \in Procs, NEW step \in Steps, NextFile(p, step)
  PROVE  /\ pc' \in [Procs -> Steps] /\ idx' \in [Procs -> Files]
         /\ \A q \in Procs : pc'[q] = pc[q] \/ (q = p /\ pc'[q] = step)
<1>1. CASE idx[p] = NumFiles
  BY <1>1, HubTyping DEF NextFile, Goto, Typed, TypeOK, ProcsOK
<1>2. CASE idx[p] # NumFiles
  <2>1. idx[p] + 1 \in Files
    BY <1>2, NumFilesAssumption DEF Typed, TypeOK, ProcsOK, Files
  <2> QED BY <1>2, <2>1 DEF NextFile, Typed, TypeOK, ProcsOK
<1> QED BY <1>1, <1>2

\* So does a marker that is written, or a part of it.
LEMMA MarksTyping ==
  ASSUME Typed, NEW p \in Procs, pc[p] = "mark", NEW kept \in Extents
  PROVE  Marks(p, kept) \in [Locs -> Markers \union {Nothing}]
<1>1. at[p] \in Locs /\ src[p] \in Trees /\ reg[p] \in Commits
  BY HubTyping DEF Typed, AtOK, TypeOK, ProcsOK
<1>2. [hash |-> src[p], commit |-> reg[p], kept |-> kept] \in Markers
  BY <1>1 DEF Markers
<1> QED BY <1>1, <1>2 DEF Marks, Typed, TypeOK, FilesOK

\* Process p writes its marker, as far as it gets.
Marking(p) == pc[p] = "mark" /\ \E kept \in Extents : marker' = Marks(p, kept)

\* A write that does not finish leaves a file or a marker of the right type.
LEMMA InterruptedTyping ==
  ASSUME Typed, NEW p \in Procs, Interrupted(p)
  PROVE  /\ disk' \in [Locs -> Trees]
         /\ marker' \in [Locs -> Markers \union {Nothing}]
         /\ marker' = marker \/ Marking(p)
<1>0. marker' = marker \/ Marking(p)
  BY DEF Interrupted, Marking, fileVars
<1>00. marker' \in [Locs -> Markers \union {Nothing}]
  BY <1>0, MarksTyping DEF Marking, Typed, TypeOK, FilesOK
<1>1. CASE disk' = disk
  BY <1>0, <1>00, <1>1 DEF Typed, TypeOK, FilesOK
<1>2. CASE disk' # disk
  <2>1. /\ pc[p] = "copy"
        /\ disk' = [disk EXCEPT ![at[p]][idx[p]] = Torn]
    BY <1>2 DEF Interrupted, fileVars
  <2>2. at[p] \in Locs /\ idx[p] \in Files /\ Torn \in Content
    BY <2>1 DEF Typed, AtOK, TypeOK, ProcsOK, Content
  <2> QED BY <1>0, <1>00, <2>1, <2>2, DiskTyping DEF Typed, TypeOK, FilesOK
<1> QED BY <1>1, <1>2

\* Starting a command keeps the types.
LEMMA StartTyping ==
  ASSUME Typed, NEW p \in Procs, Start(p)
  PROVE  Typed'
<1>1. ASSUME NEW frozen \in BOOLEAN, StartInstall(p, frozen) PROVE Typed'
  <2>1. [NoJob EXCEPT !.cmd = "install", !.frozen = frozen] \in Jobs
    BY JobTyping
  <2> QED BY <1>1, <2>1 DEF StartInstall, Launch, Typed, TypeOK, FilesOK, ProcsOK, AtOK, Goto, Steps,
       hubVars, fileVars, declVars, envVars, goalVars, workVars
<1>2. ASSUME GenerateFromLegacy(p) PROVE Typed'
  <2>1. manifest' \in Manifests
    BY <1>2 DEF GenerateFromLegacy, LegacyManifest, Managed, EmptyManifest, Manifests, Comp, Locs
  <2> QED BY <1>2, <2>1 DEF GenerateFromLegacy, Typed, TypeOK, FilesOK, ProcsOK, AtOK, Goto, Steps,
       hubVars, fileVars, declVars, envVars, goalVars, workVars
<1>3. ASSUME NEW h \in Harnesses, StartInit(p, h) PROVE Typed'
  BY <1>3, JobTyping, ManifestTyping
  DEF StartInit, Launch, Typed, TypeOK, FilesOK, ProcsOK, AtOK, Goto, Steps,
     hubVars, fileVars, declVars, envVars, goalVars, workVars
<1>4. ASSUME NEW h \in Harnesses, StartSwitch(p, h) PROVE Typed'
  BY <1>4, JobTyping
  DEF StartSwitch, Launch, Manifests, Typed, TypeOK, FilesOK, ProcsOK, AtOK, Goto, Steps,
     hubVars, fileVars, declVars, envVars, goalVars, workVars
<1>5. ASSUME NEW force \in BOOLEAN, StartUpdate(p, force) PROVE Typed'
  BY <1>5, JobTyping, ManifestTyping
  DEF StartUpdate, Launch, Typed, TypeOK, FilesOK, ProcsOK, AtOK, Goto, Steps,
     hubVars, fileVars, declVars, envVars, goalVars, workVars
<1>6. ASSUME NEW c \in Comps, StartUninstall(p, c) PROVE Typed'
  <2>1. /\ Candidates({c}) \in SUBSET Locs
        /\ {Comp(l) : l \in Candidates({c})} \in SUBSET Comps
    BY DEF Candidates, SameName, Installed, Managed, Locs, Comp
  <2>2. [NoJob EXCEPT !.cmd = "uninstall"] \in Jobs
    BY JobTyping
  <2> QED BY <1>6, <2>1, <2>2 DEF StartUninstall, Typed, TypeOK, FilesOK, ProcsOK, AtOK, Goto, Steps,
       hubVars, fileVars, declVars, envVars, goalVars, workVars
<1> QED BY <1>1, <1>2, <1>3, <1>4, <1>5, <1>6 DEF Start

\* So does planning,
LEMMA PlanTyping ==
  ASSUME Typed, NEW p \in Procs, Plan(p)
  PROVE  Typed'
<1>1. ASSUME PlanInstall(p) PROVE Typed'
  BY <1>1, ManifestTyping
  DEF PlanInstall, LocsOf, Typed, TypeOK, FilesOK, ProcsOK, AtOK, Goto, Steps,
     hubVars, fileVars, declVars, envVars, goalVars, workVars
<1>2. ASSUME PlanInit(p) PROVE Typed'
  <2> PICK refs \in SUBSET Catalog(reg[p]) :
        /\ manifest' = WizardManifest(job[p].to, refs)
        /\ \/ /\ man'  = [man EXCEPT ![p] = WizardManifest(job[p].to, refs)]
              /\ want' = [want EXCEPT ![p] = refs]
              /\ todo' = [todo EXCEPT ![p] = LocsOf(refs)]
              /\ Goto(p, "apply")
              /\ UNCHANGED <<job, reg, old, del, at, idx, src, scan>>
           \/ Stop(p)
    BY <1>2 DEF PlanInit
  <2>1. WizardManifest(job[p].to, refs) \in Manifests
    BY DEF Catalog, Typed, TypeOK, ProcsOK, Jobs, WizardManifest, Manifests
  <2>2. FilesOK'
    BY <1>2, <2>1 DEF PlanInit, Typed, TypeOK, FilesOK, hubVars, fileVars, envVars
  <2>3. refs \in SUBSET Comps /\ LocsOf(refs) \in SUBSET Locs
    BY DEF Catalog, LocsOf
  <2>4. ProcsOK' /\ AtOK'
    BY <1>2, <2>1, <2>3, StopTyping DEF PlanInit, Typed, TypeOK, FilesOK, ProcsOK, AtOK, Goto, Steps,
       hubVars, fileVars, declVars, envVars, goalVars, workVars
  <2> QED BY <2>2, <2>4 DEF Typed, TypeOK
<1>3. ASSUME PlanSwitch(p) PROVE Typed'
  <2> DEFINE target == Retarget(man[p], job[p].to)
             O == Expand(man[p], cacheHead)
             N == Expand(target, cacheHead)
             D == {l \in SameName(Uninstalls(O, N)) : IsDir(l)}
  <2>1. target \in Manifests
    BY ManifestTyping DEF Typed, TypeOK, ProcsOK, Jobs
  <2>2. O \in SUBSET Comps /\ N \in SUBSET Comps
    BY <2>1, ManifestTyping DEF Typed, TypeOK, FilesOK, ProcsOK
  <2>3. D \in SUBSET Locs /\ LocsOf(Installs(O, N)) \in SUBSET Locs
    BY DEF SameName, Installed, Managed, LocsOf
  <2>4. /\ man'  = [man  EXCEPT ![p] = target]
        /\ old'  = [old  EXCEPT ![p] = O]
        /\ want' = [want EXCEPT ![p] = N]
        /\ del'  = [del  EXCEPT ![p] = D]
        /\ todo' = [todo EXCEPT ![p] = LocsOf(Installs(O, N))]
        /\ Goto(p, "remove")
        /\ UNCHANGED <<hubVars, fileVars, declVars, envVars, job, reg, at, idx, src, scan>>
    BY <1>3 DEF PlanSwitch
  <2> HIDE DEF target, O, N, D
  <2> QED BY <2>1, <2>2, <2>3, <2>4 DEF Typed, TypeOK, FilesOK, ProcsOK, AtOK, Goto, Steps,
       hubVars, fileVars, declVars, envVars, goalVars, workVars
<1>4. ASSUME PlanUpdate(p) PROVE Typed'
  BY <1>4, FetchTyping
  DEF PlanUpdate, Refreshed, Attributed, Installed, Managed, Typed, TypeOK, FilesOK, ProcsOK, AtOK, Goto, Steps,
     hubVars, fileVars, declVars, envVars, goalVars, workVars
<1>5. ASSUME PlanReturns(p) PROVE Typed'
  BY <1>5, StopTyping
  DEF PlanReturns, Return, Typed, TypeOK, FilesOK, ProcsOK, AtOK, Goto, Steps,
     hubVars, fileVars, declVars, envVars, goalVars, workVars
<1> QED BY <1>1, <1>2, <1>3, <1>4, <1>5 DEF Plan

\* removing,
LEMMA RemoveTyping ==
  ASSUME Typed, NEW p \in Procs, Uninstalling(p)
  PROVE  Typed'
<1>1. ASSUME BeginRemove(p) PROVE Typed'
  BY <1>1
  DEF BeginRemove, Typed, TypeOK, FilesOK, ProcsOK, AtOK, Goto, Steps,
     hubVars, fileVars, declVars, envVars, goalVars, workVars
<1>2. ASSUME RemoveFile(p) PROVE Typed'
  <2>1. at[p] \in Locs /\ Absent \in Content
    BY <1>2 DEF RemoveFile, Typed, AtOK, Content
  <2>2. PICK i \in Files : disk' = [disk EXCEPT ![at[p]][i] = Absent]
    BY <1>2 DEF RemoveFile
  <2>3. disk' \in [Locs -> Trees]
    BY <2>1, <2>2, DiskTyping DEF Typed, TypeOK, FilesOK
  <2> QED BY <1>2, <2>3 DEF RemoveFile, Typed, TypeOK, FilesOK, ProcsOK, AtOK, Goto, Steps,
       hubVars, fileVars, declVars, envVars, goalVars, workVars
<1>3. ASSUME RemoveMarker(p) PROVE Typed'
  BY <1>3
  DEF RemoveMarker, Typed, TypeOK, FilesOK, ProcsOK, AtOK, Goto, Steps,
     hubVars, fileVars, declVars, envVars, goalVars, workVars
<1>4. ASSUME Removed(p) PROVE Typed'
  BY <1>4
  DEF Removed, Typed, TypeOK, FilesOK, ProcsOK, AtOK, Goto, Steps,
     hubVars, fileVars, declVars, envVars, goalVars, workVars
<1>5. ASSUME EndRemove(p) PROVE Typed'
  BY <1>5
  DEF EndRemove, Typed, TypeOK, FilesOK, ProcsOK, AtOK, Goto, Steps,
     hubVars, fileVars, declVars, envVars, goalVars, workVars
<1> QED BY <1>1, <1>2, <1>3, <1>4, <1>5 DEF Uninstalling

\* installing,
LEMMA InstallTyping ==
  ASSUME Typed, NEW p \in Procs, Install(p)
  PROVE  Typed'
<1>1. ASSUME BeginInstall(p) PROVE Typed'
  BY <1>1, HubTyping, FetchTyping
  DEF BeginInstall, Due, Started, Typed, TypeOK, FilesOK, ProcsOK, AtOK, Goto, Steps,
     hubVars, fileVars, declVars, envVars, goalVars, workVars
<1>2. ASSUME FetchFails(p) PROVE Typed'
  BY <1>2, StopTyping
  DEF FetchFails, Typed, TypeOK, FilesOK, ProcsOK, AtOK, Goto, Steps,
     hubVars, fileVars, declVars, envVars, goalVars, workVars
<1>3. ASSUME HashFile(p) PROVE Typed'
  <2>1. at[p] \in Locs /\ Comp(at[p]) \in Comps
    BY <1>3 DEF HashFile, Typed, AtOK, Locs, Comp
  <2>3. Source(p)[idx[p]] \in Blobs \union {Absent}
    BY <2>1, SourceTyping
  <2>4. src' \in [Procs -> HubTrees]
    BY <1>3, <2>3, TreeTyping DEF HashFile, Typed, TypeOK, ProcsOK
  <2>5. pc' \in [Procs -> Steps] /\ idx' \in [Procs -> Files] /\ AtOK'
    <3>1. NextFile(p, "check") /\ UNCHANGED at
      BY <1>3 DEF HashFile, workVars
    <3>2. "check" \in Steps
      BY DEF Steps
    <3> QED BY <2>1, <3>1, <3>2, NextFileTyping DEF Typed, AtOK
  <2> QED BY <1>3, <2>4, <2>5 DEF HashFile, Typed, TypeOK, FilesOK, ProcsOK, AtOK, Goto, Steps,
       hubVars, fileVars, declVars, envVars, goalVars, workVars
<1>4. ASSUME CheckMarker(p) PROVE Typed'
  BY <1>4
  DEF CheckMarker, Typed, TypeOK, FilesOK, ProcsOK, AtOK, Goto, Steps,
     hubVars, fileVars, declVars, envVars, goalVars, workVars
<1>5. ASSUME CopyFile(p) PROVE Typed'
  <2>1. at[p] \in Locs /\ Comp(at[p]) \in Comps
    BY <1>5 DEF CopyFile, Typed, AtOK, Locs, Comp
  <2>3. Source(p)[idx[p]] \in Content
    BY <2>1, SourceTyping DEF Content
  <2>4. disk' \in [Locs -> Trees]
    BY <1>5, <2>1, <2>3, DiskTyping DEF CopyFile, Typed, TypeOK, FilesOK, ProcsOK
  <2>5. pc' \in [Procs -> Steps] /\ idx' \in [Procs -> Files] /\ AtOK'
    <3>1. NextFile(p, "mark") /\ UNCHANGED at
      BY <1>5 DEF CopyFile, workVars
    <3>2. "mark" \in Steps
      BY DEF Steps
    <3> QED BY <2>1, <3>1, <3>2, NextFileTyping DEF Typed, AtOK
  <2> QED BY <1>5, <2>4, <2>5 DEF CopyFile, Typed, TypeOK, FilesOK, ProcsOK, AtOK, Goto, Steps,
       hubVars, fileVars, declVars, envVars, goalVars, workVars
<1>6. ASSUME CopyFlat(p) PROVE Typed'
  <2>1. at[p] \in Locs /\ SkillMD \in Files
    BY <1>6, HubTyping DEF CopyFlat, Typed, AtOK, SkillMD
  <2>2. src[p][SkillMD] \in Content
    BY <2>1 DEF HubTrees, Content, Typed, TypeOK, ProcsOK
  <2>3. disk' \in [Locs -> Trees]
    BY <1>6, <2>1, <2>2, DiskTyping DEF CopyFlat, Typed, TypeOK, FilesOK
  <2> QED BY <1>6, <2>3 DEF CopyFlat, Typed, TypeOK, FilesOK, ProcsOK, AtOK, Goto, Steps,
       hubVars, fileVars, declVars, envVars, goalVars, workVars
<1>7. ASSUME InstallFails(p) PROVE Typed'
  BY <1>7, StopTyping
  DEF InstallFails, Typed, TypeOK, FilesOK, ProcsOK, AtOK, Goto, Steps,
     hubVars, fileVars, declVars, envVars, goalVars, workVars
<1>8. ASSUME WriteMarker(p) PROVE Typed'
  <2>1. marker' \in [Locs -> Markers \union {Nothing}]
    BY <1>8, MarksTyping DEF WriteMarker, Extents
  <2> QED BY <1>8, <2>1
  DEF WriteMarker, Typed, TypeOK, FilesOK, ProcsOK, AtOK, Goto, Steps,
     hubVars, fileVars, declVars, envVars, goalVars, workVars
<1>9. ASSUME EndApply(p) PROVE Typed'
  BY <1>9
  DEF EndApply, Typed, TypeOK, FilesOK, ProcsOK, AtOK, Goto, Steps,
     hubVars, fileVars, declVars, envVars, goalVars, workVars
<1> QED BY <1>1, <1>2, <1>3, <1>4, <1>5, <1>6, <1>7, <1>8, <1>9 DEF Install

\* writing the declarative files,
LEMMA DeclareTyping ==
  ASSUME Typed, NEW p \in Procs, Declare(p)
  PROVE  Typed'
<1>1. ASSUME WriteManifest(p) PROVE Typed'
  BY <1>1
  DEF WriteManifest, Typed, TypeOK, FilesOK, ProcsOK, AtOK, Goto, Steps,
     hubVars, fileVars, declVars, envVars, goalVars, workVars
<1>2. ASSUME WriteLock(p) PROVE Typed'
  BY <1>2, ManifestTyping
  DEF WriteLock, Locks, LockEntries, Typed, TypeOK, FilesOK, ProcsOK, AtOK, Goto, Steps,
     hubVars, fileVars, declVars, envVars, goalVars, workVars
<1>3. ASSUME LockReturns(p) PROVE Typed'
  BY <1>3, StopTyping
  DEF LockReturns, Return, Typed, TypeOK, FilesOK, ProcsOK, AtOK, Goto, Steps,
     hubVars, fileVars, declVars, envVars, goalVars, workVars
<1>4. ASSUME ScanMarkers(p) PROVE Typed'
  BY <1>4
  DEF ScanMarkers, Managed, Typed, TypeOK, FilesOK, ProcsOK, AtOK, Goto, Steps,
     hubVars, fileVars, declVars, envVars, goalVars, workVars
<1>5. ASSUME ApplyGitignore(p) PROVE Typed'
  BY <1>5
  DEF ApplyGitignore, Typed, TypeOK, FilesOK, ProcsOK, AtOK, Goto, Steps,
     hubVars, fileVars, declVars, envVars, goalVars, workVars
<1> QED BY <1>1, <1>2, <1>3, <1>4, <1>5 DEF Declare

\* and what the environment does.
LEMMA EnvironmentTyping ==
  ASSUME Typed, Environment
  PROVE  Typed'
<1>1. ASSUME NEW l \in Locs, NEW i \in Files, UserWritesFile(l, i) PROVE Typed'
  <2>1. Edited \in Content
    BY DEF Content
  <2>2. disk' = [disk EXCEPT ![l][i] = Edited]
    BY <1>1 DEF UserWritesFile
  <2>3. disk' \in [Locs -> Trees]
    BY <2>1, <2>2, DiskTyping DEF Typed, TypeOK, FilesOK
  <2> QED BY <1>1, <2>3 DEF UserWritesFile, MayEdit, Typed, TypeOK, FilesOK, ProcsOK, AtOK, Goto, Steps,
       hubVars, fileVars, declVars, envVars, goalVars, workVars
<1>2. ASSUME NEW l \in Locs, NEW i \in Files, UserDeletesFile(l, i) PROVE Typed'
  <2>1. Absent \in Content
    BY DEF Content
  <2>2. disk' = [disk EXCEPT ![l][i] = Absent]
    BY <1>2 DEF UserDeletesFile
  <2>3. disk' \in [Locs -> Trees]
    BY <2>1, <2>2, DiskTyping DEF Typed, TypeOK, FilesOK
  <2> QED BY <1>2, <2>3 DEF UserDeletesFile, MayEdit, Typed, TypeOK, FilesOK, ProcsOK, AtOK, Goto, Steps,
       hubVars, fileVars, declVars, envVars, goalVars, workVars
<1>3. ASSUME NEW l \in Locs, UserRemovesInstall(l) PROVE Typed'
  BY <1>3, HubTyping
  DEF UserRemovesInstall, MayEdit, Typed, TypeOK, FilesOK, ProcsOK, AtOK, Goto, Steps,
     hubVars, fileVars, declVars, envVars, goalVars, workVars
<1>4. ASSUME NEW c \in Comps, UserEditsManifest(c) PROVE Typed'
  <2>1. manifest' \in Manifests
    BY <1>4 DEF UserEditsManifest, Typed, TypeOK, FilesOK, Manifests
  <2> QED BY <1>4, <2>1 DEF UserEditsManifest, MayEdit, Typed, TypeOK, FilesOK, ProcsOK, AtOK, Goto, Steps,
       hubVars, fileVars, declVars, envVars, goalVars, workVars
<1>5. ASSUME HubPublishes PROVE Typed'
  BY <1>5, MaxCommitAssumption
  DEF HubPublishes, Commits, Typed, TypeOK, FilesOK, ProcsOK, AtOK, Goto, Steps,
     hubVars, fileVars, declVars, envVars, goalVars, workVars
<1>6. ASSUME OtherProjectLoads PROVE Typed'
  BY <1>6
  DEF OtherProjectLoads, Typed, TypeOK, FilesOK, ProcsOK, AtOK, Goto, Steps,
     hubVars, fileVars, declVars, envVars, goalVars, workVars
<1>7. ASSUME NEW c \in Comps, NEW i \in Files, OtherProjectWrites(c, i) PROVE Typed'
  <2>0. HubTree[cacheHead][c] \in HubTrees /\ HubTree[hubHead][c] \in HubTrees
    BY HubTyping DEF Typed, TypeOK, FilesOK
  <2>1. PICK f \in Blobs \union {Absent} : cache' = [cache EXCEPT ![c][i] = f]
    BY <1>7, <2>0 DEF OtherProjectWrites, HubTrees
  <2>2. cache' \in [Comps -> HubTrees]
    BY <2>1, TreeTyping DEF Typed, TypeOK, FilesOK
  <2> QED BY <1>7, <2>2 DEF OtherProjectWrites, Typed, TypeOK, FilesOK, ProcsOK, AtOK, Goto, Steps,
       hubVars, fileVars, declVars, envVars, goalVars, workVars
<1>8. ASSUME UserRemovesManifest PROVE Typed'
  BY <1>8 DEF UserRemovesManifest, MayEdit, Typed, TypeOK, FilesOK, ProcsOK, AtOK, Goto, Steps,
     hubVars, fileVars, declVars, envVars, goalVars, workVars
<1> QED BY <1>1, <1>2, <1>3, <1>4, <1>5, <1>6, <1>7, <1>8 DEF Environment

\* Every step keeps the types.
LEMMA NextTyping ==
  ASSUME Typed, [Next]_vars
  PROVE  Typed'
<1>1. CASE UNCHANGED vars
  BY <1>1 DEF vars, Typed, TypeOK, FilesOK, ProcsOK, AtOK, hubVars, fileVars, declVars, envVars, goalVars, workVars
<1>2. CASE Environment
  BY <1>2, EnvironmentTyping
<1>3. ASSUME NEW p \in Procs, Start(p) PROVE Typed'
  BY <1>3, StartTyping
<1>4. ASSUME NEW p \in Procs, Run(p) PROVE Typed'
  <2>1. CASE Plan(p) \/ Uninstalling(p) \/ Install(p) \/ Declare(p)
    BY <2>1, PlanTyping, RemoveTyping, InstallTyping, DeclareTyping
  <2>2. CASE Load(p)
    BY <2>2, HubTyping DEF Load, Typed, TypeOK, FilesOK, ProcsOK, AtOK, Goto, Steps,
     hubVars, fileVars, declVars, envVars, goalVars, workVars
  <2>3. CASE Finish(p)
    BY <2>3, StopTyping DEF Finish, Return, Typed, TypeOK, FilesOK, ProcsOK, AtOK, Goto, Steps,
     hubVars, fileVars, declVars, envVars, goalVars, workVars
  <2> QED BY <1>4, <2>1, <2>2, <2>3 DEF Run
<1>5. ASSUME NEW p \in Procs, Confirm(p) PROVE Typed'
  BY <1>5, StopTyping DEF Confirm, Return, Typed, TypeOK, FilesOK, ProcsOK, AtOK, Goto, Steps,
     hubVars, fileVars, declVars, envVars, goalVars, workVars
<1>6. ASSUME NEW p \in Procs, Crash(p) PROVE Typed'
  <2>1. disk' \in [Locs -> Trees] /\ marker' \in [Locs -> Markers \union {Nothing}]
    BY <1>6, InterruptedTyping DEF Crash
  <2>2. FilesOK'
    BY <1>6, <2>1 DEF Crash, Typed, TypeOK, FilesOK, hubVars, declVars
  <2> QED BY <1>6, <2>2, StopTyping DEF Crash, Typed, TypeOK
<1>7. ASSUME NEW p \in Procs, RefreshFails(p) PROVE Typed'
  <2>1. disk' \in [Locs -> Trees] /\ marker' \in [Locs -> Markers \union {Nothing}]
    BY <1>7, InterruptedTyping DEF RefreshFails
  <2> QED BY <1>7, <2>1 DEF RefreshFails, Typed, TypeOK, FilesOK, ProcsOK, AtOK, Goto, Steps,
     hubVars, fileVars, declVars, envVars, goalVars, workVars
<1>8. ASSUME NEW p \in Procs, FinalizeFails(p) PROVE Typed'
  BY <1>8 DEF FinalizeFails, Typed, TypeOK, FilesOK, ProcsOK, AtOK, Goto, Steps,
     hubVars, fileVars, declVars, envVars, goalVars, workVars
<1> QED BY <1>1, <1>2, <1>3, <1>4, <1>5, <1>6, <1>7, <1>8 DEF Next, Fault

\* Type correctness: every reachable state is typed.
THEOREM TypeCorrect == Spec => []TypeOK
<1>1. Init => Typed
  BY InitTyping
<1>2. Typed /\ [Next]_vars => Typed'
  BY NextTyping
<1>3. Typed => TypeOK
  BY DEF Typed
<1> QED BY <1>1, <1>2, <1>3, PTL DEF Spec

(***************************************************************************)
(* What a marker says: for every cache MarkerPublished; and, for one process *)
(* on a cache of its own, MarkerTruthful.                                  *)
(***************************************************************************)
\* Process p has read file i of the source of the location it works on.
Hashed(p, i) == \/ pc[p] \in {"check", "copy", "mark"}
                \/ pc[p] = "hash" /\ i < idx[p]

\* Process p knows the hub: from the load to the last install.
Loaded(p) ==
  \/ pc[p] \in {"plan", "confirm", "apply", "hash", "check", "copy", "mark"}
  \/ pc[p] \in {"remove", "removing"} /\ job[p].cmd = "switch"

\* Nobody is ahead of the hub.
NoneAhead == cacheHead <= hubHead /\ \A p \in Procs : reg[p] <= hubHead

\* What a process has read was published for the component it installs.
ReadPublished ==
  \A p \in Procs, i \in Files : Hashed(p, i) =>
    WasPublished(Comp(at[p]), i, src[p][i])

\* The cache's working tree holds what was published.
CachePublished == \A c \in Comps, i \in Files : WasPublished(c, i, cache[c][i])

Published ==
  Typed /\ NoneAhead /\ CachePublished /\ ReadPublished /\ MarkerPublished

\* A step that reads no source file,
Unread ==
  /\ hubHead <= hubHead'
  /\ \A p \in Procs, i \in Files : Hashed(p, i)' =>
       Hashed(p, i) /\ src'[p] = src[p] /\ at'[p] = at[p] /\ reg'[p] = reg[p]

\* and one that writes no marker either.
Calm == Unread /\ \A l \in Locs : marker'[l] = marker[l] \/ marker'[l] = Nothing

\* The first keeps what the processes have read, and what was published,
LEMMA UnreadKeepsPublished ==
  ASSUME Published, Typed', Unread
  PROVE  /\ hubHead \in Nat /\ hubHead' \in Nat /\ hubHead <= hubHead'
         /\ \A k \in 1..hubHead : k \in 1..hubHead'
         /\ ReadPublished'
<1>1. hubHead \in Nat /\ hubHead' \in Nat /\ hubHead <= hubHead'
  BY DEF Published, Typed, TypeOK, FilesOK, Commits, Unread
<1>2. \A k \in 1..hubHead : k \in 1..hubHead'
  BY <1>1
<1>3. ReadPublished'
  BY <1>2 DEF ReadPublished, WasPublished, Published, Unread
<1> QED BY <1>1, <1>2, <1>3

\* the second what the markers say as well.
LEMMA CalmKeepsPublished ==
  ASSUME Published, Typed', Calm
  PROVE  ReadPublished' /\ MarkerPublished'
<1>1. hubHead \in Nat /\ hubHead' \in Nat /\ hubHead <= hubHead'
  BY UnreadKeepsPublished DEF Calm
<1>2. \A k \in 1..hubHead : k \in 1..hubHead'
  BY UnreadKeepsPublished DEF Calm
<1>3. ReadPublished'
  BY UnreadKeepsPublished DEF Calm
<1>4. MarkerPublished'
  <2> SUFFICES ASSUME NEW l \in Locs, marker'[l] # Nothing
               PROVE  /\ marker'[l].commit <= hubHead'
                      /\ \A i \in Files : WasPublished(Comp(l), i, marker[l].hash[i])'
    BY DEF MarkerPublished, Managed
  <2>1. marker'[l] = marker[l]
    BY DEF Calm
  <2>2. /\ marker[l].commit <= hubHead
        /\ \A i \in Files : WasPublished(Comp(l), i, marker[l].hash[i])
    BY <2>1 DEF Published, MarkerPublished, Managed
  <2>3. marker[l].commit \in Nat
    BY <2>1 DEF Published, Typed, TypeOK, FilesOK, Markers, Commits
  <2> QED BY <1>1, <1>2, <2>1, <2>2, <2>3 DEF WasPublished
<1> QED BY <1>3, <1>4

\* A process that stops, or that a step moves to where nothing is read, is calm.
LEMMA StopIsUnread ==
  ASSUME Typed, NEW p \in Procs, Stop(p), UNCHANGED hubHead
  PROVE  Unread
<1>1. \A q \in Procs : q # p => /\ pc'[q] = pc[q] /\ idx'[q] = idx[q]
                                /\ src'[q] = src[q] /\ at'[q] = at[q] /\ reg'[q] = reg[q]
  BY DEF Stop, Goto, Typed, TypeOK, ProcsOK
<1>2. pc'[p] = "idle"
  BY DEF Stop, Goto, Typed, TypeOK, ProcsOK
<1> QED BY <1>1, <1>2 DEF Unread, Hashed, Typed, TypeOK, FilesOK, Commits

LEMMA StopIsCalm ==
  ASSUME Typed, NEW p \in Procs, Stop(p),
         UNCHANGED <<hubHead, marker>>
  PROVE  Calm
BY StopIsUnread DEF Calm

\* Starting a command is calm,
LEMMA StartIsCalm ==
  ASSUME Typed, NEW p \in Procs, Start(p)
  PROVE  Calm
<1>1. ASSUME NEW frozen \in BOOLEAN, StartInstall(p, frozen) PROVE Calm
  BY <1>1
  DEF StartInstall, Launch, Calm, Unread, Hashed, Typed, TypeOK, FilesOK, ProcsOK, Commits, Goto,
     hubVars, fileVars, declVars, envVars, goalVars, workVars
<1>2. ASSUME GenerateFromLegacy(p) PROVE Calm
  BY <1>2
  DEF GenerateFromLegacy, Calm, Unread, Hashed, Typed, TypeOK, FilesOK, ProcsOK, Commits, Goto,
     hubVars, fileVars, declVars, envVars, goalVars, workVars
<1>3. ASSUME NEW h \in Harnesses, StartInit(p, h) PROVE Calm
  BY <1>3
  DEF StartInit, Launch, Calm, Unread, Hashed, Typed, TypeOK, FilesOK, ProcsOK, Commits, Goto,
     hubVars, fileVars, declVars, envVars, goalVars, workVars
<1>4. ASSUME NEW h \in Harnesses, StartSwitch(p, h) PROVE Calm
  BY <1>4
  DEF StartSwitch, Launch, Calm, Unread, Hashed, Typed, TypeOK, FilesOK, ProcsOK, Commits, Goto,
     hubVars, fileVars, declVars, envVars, goalVars, workVars
<1>5. ASSUME NEW force \in BOOLEAN, StartUpdate(p, force) PROVE Calm
  BY <1>5
  DEF StartUpdate, Launch, Calm, Unread, Hashed, Typed, TypeOK, FilesOK, ProcsOK, Commits, Goto,
     hubVars, fileVars, declVars, envVars, goalVars, workVars
<1>6. ASSUME NEW c \in Comps, StartUninstall(p, c) PROVE Calm
  BY <1>6
  DEF StartUninstall, Calm, Unread, Hashed, Typed, TypeOK, FilesOK, ProcsOK, Commits, Goto,
     hubVars, fileVars, declVars, envVars, goalVars, workVars
<1> QED BY <1>1, <1>2, <1>3, <1>4, <1>5, <1>6 DEF Start

\* and planning,
LEMMA PlanIsCalm ==
  ASSUME Typed, NEW p \in Procs, Plan(p)
  PROVE  Calm
<1>1. ASSUME PlanInstall(p) PROVE Calm
  BY <1>1
  DEF PlanInstall, Calm, Unread, Hashed, Typed, TypeOK, FilesOK, ProcsOK, Commits, Goto,
     hubVars, fileVars, declVars, envVars, goalVars, workVars
<1>2. ASSUME PlanInit(p) PROVE Calm
  BY <1>2, StopIsCalm
  DEF PlanInit, Calm, Unread, Hashed, Typed, TypeOK, FilesOK, ProcsOK, Commits, Goto,
     hubVars, fileVars, declVars, envVars, goalVars, workVars
<1>3. ASSUME PlanSwitch(p) PROVE Calm
  BY <1>3
  DEF PlanSwitch, Calm, Unread, Hashed, Typed, TypeOK, FilesOK, ProcsOK, Commits, Goto,
     hubVars, fileVars, declVars, envVars, goalVars, workVars
<1>4. ASSUME PlanUpdate(p) PROVE Calm
  BY <1>4
  DEF PlanUpdate, Calm, Unread, Hashed, Typed, TypeOK, FilesOK, ProcsOK, Commits, Goto,
     hubVars, fileVars, declVars, envVars, goalVars, workVars
<1>5. ASSUME PlanReturns(p) PROVE Calm
  BY <1>5, StopIsCalm
  DEF PlanReturns, Return, Calm, Unread, Hashed, Typed, TypeOK, FilesOK, ProcsOK, Commits, Goto,
     hubVars, fileVars, declVars, envVars, goalVars, workVars
<1> QED BY <1>1, <1>2, <1>3, <1>4, <1>5 DEF Plan

\* removing,
LEMMA RemoveIsCalm ==
  ASSUME Typed, NEW p \in Procs, Uninstalling(p)
  PROVE  Calm
<1>1. ASSUME BeginRemove(p) PROVE Calm
  BY <1>1
  DEF BeginRemove, Calm, Unread, Hashed, Typed, TypeOK, FilesOK, ProcsOK, Commits, Goto,
     hubVars, fileVars, declVars, envVars, goalVars, workVars
<1>2. ASSUME RemoveFile(p) PROVE Calm
  BY <1>2
  DEF RemoveFile, Calm, Unread, Hashed, Typed, TypeOK, FilesOK, ProcsOK, Commits, Goto,
     hubVars, fileVars, declVars, envVars, goalVars, workVars
<1>3. ASSUME RemoveMarker(p) PROVE Calm
  BY <1>3
  DEF RemoveMarker, Calm, Unread, Hashed, Typed, TypeOK, FilesOK, ProcsOK, Commits, Goto,
     hubVars, fileVars, declVars, envVars, goalVars, workVars
<1>4. ASSUME Removed(p) PROVE Calm
  BY <1>4
  DEF Removed, Calm, Unread, Hashed, Typed, TypeOK, FilesOK, ProcsOK, Commits, Goto,
     hubVars, fileVars, declVars, envVars, goalVars, workVars
<1>5. ASSUME EndRemove(p) PROVE Calm
  BY <1>5
  DEF EndRemove, Calm, Unread, Hashed, Typed, TypeOK, FilesOK, ProcsOK, Commits, Goto,
     hubVars, fileVars, declVars, envVars, goalVars, workVars
<1> QED BY <1>1, <1>2, <1>3, <1>4, <1>5 DEF Uninstalling

\* installing, but for hashing a file and writing a marker,
LEMMA InstallIsCalm ==
  ASSUME Typed, NEW p \in Procs, Install(p), ~HashFile(p), ~WriteMarker(p)
  PROVE  Calm
<1>1. ASSUME BeginInstall(p) PROVE Calm
  BY <1>1, NumFilesAssumption
  DEF BeginInstall, Files, Calm, Unread, Hashed, Typed, TypeOK, FilesOK, ProcsOK, Commits, Goto,
     hubVars, fileVars, declVars, envVars, goalVars, workVars
<1>2. ASSUME FetchFails(p) PROVE Calm
  BY <1>2, StopIsCalm
  DEF FetchFails, Calm, Unread, Hashed, Typed, TypeOK, FilesOK, ProcsOK, Commits, Goto,
     hubVars, fileVars, declVars, envVars, goalVars, workVars
<1>3. ASSUME CheckMarker(p) PROVE Calm
  BY <1>3
  DEF CheckMarker, Calm, Unread, Hashed, Typed, TypeOK, FilesOK, ProcsOK, Commits, Goto,
     hubVars, fileVars, declVars, envVars, goalVars, workVars
<1>4. ASSUME CopyFile(p) PROVE Calm
  BY <1>4
  DEF CopyFile, NextFile, Calm, Unread, Hashed, Typed, TypeOK, FilesOK, ProcsOK, Commits, Goto,
     hubVars, fileVars, declVars, envVars, goalVars, workVars
<1>5. ASSUME CopyFlat(p) PROVE Calm
  BY <1>5
  DEF CopyFlat, Calm, Unread, Hashed, Typed, TypeOK, FilesOK, ProcsOK, Commits, Goto,
     hubVars, fileVars, declVars, envVars, goalVars, workVars
<1>6. ASSUME InstallFails(p) PROVE Calm
  BY <1>6, StopIsCalm
  DEF InstallFails, Calm, Unread, Hashed, Typed, TypeOK, FilesOK, ProcsOK, Commits, Goto,
     hubVars, fileVars, declVars, envVars, goalVars, workVars
<1>7. ASSUME EndApply(p) PROVE Calm
  BY <1>7
  DEF EndApply, Calm, Unread, Hashed, Typed, TypeOK, FilesOK, ProcsOK, Commits, Goto,
     hubVars, fileVars, declVars, envVars, goalVars, workVars
<1> QED BY <1>1, <1>2, <1>3, <1>4, <1>5, <1>6, <1>7 DEF Install

\* writing the declarative files,
LEMMA DeclareIsCalm ==
  ASSUME Typed, NEW p \in Procs, Declare(p)
  PROVE  Calm
<1>1. ASSUME WriteManifest(p) PROVE Calm
  BY <1>1
  DEF WriteManifest, Calm, Unread, Hashed, Typed, TypeOK, FilesOK, ProcsOK, Commits, Goto,
     hubVars, fileVars, declVars, envVars, goalVars, workVars
<1>2. ASSUME WriteLock(p) PROVE Calm
  BY <1>2
  DEF WriteLock, Calm, Unread, Hashed, Typed, TypeOK, FilesOK, ProcsOK, Commits, Goto,
     hubVars, fileVars, declVars, envVars, goalVars, workVars
<1>3. ASSUME LockReturns(p) PROVE Calm
  BY <1>3, StopIsCalm
  DEF LockReturns, Return, Calm, Unread, Hashed, Typed, TypeOK, FilesOK, ProcsOK, Commits, Goto,
     hubVars, fileVars, declVars, envVars, goalVars, workVars
<1>4. ASSUME ScanMarkers(p) PROVE Calm
  BY <1>4
  DEF ScanMarkers, Calm, Unread, Hashed, Typed, TypeOK, FilesOK, ProcsOK, Commits, Goto,
     hubVars, fileVars, declVars, envVars, goalVars, workVars
<1>5. ASSUME ApplyGitignore(p) PROVE Calm
  BY <1>5
  DEF ApplyGitignore, Calm, Unread, Hashed, Typed, TypeOK, FilesOK, ProcsOK, Commits, Goto,
     hubVars, fileVars, declVars, envVars, goalVars, workVars
<1> QED BY <1>1, <1>2, <1>3, <1>4, <1>5 DEF Declare

\* and what the environment does.
LEMMA EnvironmentIsCalm ==
  ASSUME Typed, Environment
  PROVE  Calm
<1>1. ASSUME NEW l \in Locs, NEW i \in Files, UserWritesFile(l, i) PROVE Calm
  BY <1>1
  DEF UserWritesFile, MayEdit, Calm, Unread, Hashed, Typed, TypeOK, FilesOK, ProcsOK, Commits, Goto,
     hubVars, fileVars, declVars, envVars, goalVars, workVars
<1>2. ASSUME NEW l \in Locs, NEW i \in Files, UserDeletesFile(l, i) PROVE Calm
  BY <1>2
  DEF UserDeletesFile, Calm, Unread, Hashed, Typed, TypeOK, FilesOK, ProcsOK, Commits, Goto,
     hubVars, fileVars, declVars, envVars, goalVars, workVars
<1>3. ASSUME NEW l \in Locs, UserRemovesInstall(l) PROVE Calm
  BY <1>3
  DEF UserRemovesInstall, Calm, Unread, Hashed, Typed, TypeOK, FilesOK, ProcsOK, Commits, Goto,
     hubVars, fileVars, declVars, envVars, goalVars, workVars
<1>4. ASSUME NEW c \in Comps, UserEditsManifest(c) PROVE Calm
  BY <1>4
  DEF UserEditsManifest, Calm, Unread, Hashed, Typed, TypeOK, FilesOK, ProcsOK, Commits, Goto,
     hubVars, fileVars, declVars, envVars, goalVars, workVars
<1>5. ASSUME HubPublishes PROVE Calm
  BY <1>5
  DEF HubPublishes, Calm, Unread, Hashed, Typed, TypeOK, FilesOK, ProcsOK, Commits, Goto,
     hubVars, fileVars, declVars, envVars, goalVars, workVars
<1>6. ASSUME OtherProjectLoads PROVE Calm
  BY <1>6
  DEF OtherProjectLoads, Calm, Unread, Hashed, Typed, TypeOK, FilesOK, ProcsOK, Commits, Goto,
     hubVars, fileVars, declVars, envVars, goalVars, workVars
<1>7. ASSUME NEW c \in Comps, NEW i \in Files, OtherProjectWrites(c, i) PROVE Calm
  BY <1>7
  DEF OtherProjectWrites, Calm, Unread, Hashed, Typed, TypeOK, FilesOK, ProcsOK, Commits, Goto,
     hubVars, fileVars, declVars, envVars, goalVars, workVars
<1>8. ASSUME UserRemovesManifest PROVE Calm
  BY <1>8
  DEF UserRemovesManifest, Calm, Unread, Hashed, Typed, TypeOK, FilesOK, ProcsOK, Commits, Goto,
     hubVars, fileVars, declVars, envVars, goalVars, workVars
<1> QED BY <1>1, <1>2, <1>3, <1>4, <1>5, <1>6, <1>7, <1>8 DEF Environment

\* So is the end of a command, an answer, a load, and a failure, unless it leaves
\* a part of a marker.
LEMMA RestIsCalm ==
  ASSUME Typed, NEW p \in Procs, Load(p) \/ Finish(p) \/ Confirm(p) \/ Fault(p)
  PROVE  Calm \/ (Unread /\ Marking(p))
<1>1. CASE Load(p)
  BY <1>1 DEF Load, Calm, Unread, Hashed, Typed, TypeOK, FilesOK, ProcsOK, Commits, Goto,
     hubVars, fileVars, declVars, envVars, goalVars, workVars
<1>2. CASE Finish(p)
  BY <1>2, StopIsCalm DEF Finish, Return, hubVars, fileVars
<1>3. CASE Confirm(p)
  BY <1>3, StopIsCalm DEF Confirm, Return, Calm, Unread, Hashed, Typed, TypeOK, FilesOK, ProcsOK, Commits, Goto,
     hubVars, fileVars, declVars, envVars, goalVars, workVars
<1>4. CASE Crash(p)
  <2>1. Unread
    BY <1>4, StopIsUnread DEF Crash, hubVars
  <2> QED BY <1>4, <2>1, InterruptedTyping DEF Crash, Calm
<1>5. CASE RefreshFails(p)
  <2>1. Unread
    BY <1>5 DEF RefreshFails, Unread, Hashed, Typed, TypeOK, FilesOK, ProcsOK, Commits, Goto,
       hubVars, goalVars, workVars
  <2> QED BY <1>5, <2>1, InterruptedTyping DEF RefreshFails, Calm
<1>6. CASE FinalizeFails(p)
  BY <1>6 DEF FinalizeFails, Calm, Unread, Hashed, Typed, TypeOK, FilesOK, ProcsOK, Commits, Goto,
     hubVars, fileVars, declVars, envVars, goalVars, workVars
<1> QED BY <1>1, <1>2, <1>3, <1>4, <1>5, <1>6 DEF Fault

LEMMA IdleIsCalm == ASSUME Typed, UNCHANGED vars PROVE Calm
  BY DEF vars, Calm, Unread, Hashed, Typed, TypeOK, FilesOK, ProcsOK, Commits, Goto,
     hubVars, fileVars, declVars, envVars, goalVars, workVars

\* A marker that is written is not read from.
LEMMA MarkerIsUnread ==
  ASSUME Typed, NEW p \in Procs, WriteMarker(p)
  PROVE  Unread /\ Marking(p)
<1>1. Unread
  BY DEF WriteMarker, Unread, Hashed, Typed, TypeOK, FilesOK, ProcsOK, Commits, Goto,
     hubVars, goalVars, workVars
<1>2. Marking(p)
  BY DEF WriteMarker, Marking, Extents
<1> QED BY <1>1, <1>2

\* Every step but the reading of a source file and the writing of a marker, or of
\* a part of it, is calm.
LEMMA NextIsCalm ==
  ASSUME Typed, [Next]_vars, \A p \in Procs : ~HashFile(p)
  PROVE  Calm \/ \E p \in Procs : Unread /\ Marking(p)
<1>1. CASE UNCHANGED vars \/ Environment
  BY <1>1, IdleIsCalm, EnvironmentIsCalm
<1>2. ASSUME NEW p \in Procs, Start(p) \/ Run(p) \/ Confirm(p) \/ Fault(p)
      PROVE  Calm \/ (Unread /\ Marking(p))
  BY <1>2, StartIsCalm, PlanIsCalm, RemoveIsCalm, InstallIsCalm, DeclareIsCalm, RestIsCalm,
     MarkerIsUnread DEF Run
<1> QED BY <1>1, <1>2 DEF Next

\* The steps that move the cache, or what a process knows of it.
LEMMA KnowledgeSteps ==
  ASSUME Typed, [Next]_vars
  PROVE  \/ UNCHANGED <<hubHead, cacheHead>> /\ \A q \in Procs : reg'[q] \in {reg[q], 1}
         \/ HubPublishes \/ OtherProjectLoads
         \/ \E p \in Procs : Load(p)
<1> DEFINE Still == UNCHANGED <<hubHead, cacheHead>> /\ \A q \in Procs : reg'[q] \in {reg[q], 1}
<1>1. CASE UNCHANGED vars
  BY <1>1 DEF vars, hubVars, goalVars
<1>2. CASE Environment
  BY <1>2 DEF Environment, UserWritesFile, UserDeletesFile, UserRemovesInstall,
     UserEditsManifest, UserRemovesManifest, OtherProjectWrites, hubVars, goalVars
<1>3. ASSUME NEW p \in Procs, Stop(p) PROVE \A q \in Procs : reg'[q] \in {reg[q], 1}
  BY <1>3 DEF Stop, Typed, TypeOK, ProcsOK
<1>4. ASSUME NEW p \in Procs, Start(p) PROVE Still
  BY <1>4 DEF Start, StartInstall, GenerateFromLegacy, StartInit, StartSwitch, StartUpdate,
     StartUninstall, Launch, hubVars, goalVars
<1>5. ASSUME NEW p \in Procs, Plan(p) PROVE Still
  BY <1>3, <1>5 DEF Plan, PlanInstall, PlanInit, PlanSwitch, PlanUpdate, PlanReturns, Return,
     hubVars, goalVars
<1>6. ASSUME NEW p \in Procs, Uninstalling(p) PROVE Still
  BY <1>6 DEF Uninstalling, BeginRemove, RemoveFile, RemoveMarker, Removed, EndRemove, hubVars, goalVars
<1>7. ASSUME NEW p \in Procs, Install(p) PROVE Still
  BY <1>3, <1>7 DEF Install, BeginInstall, FetchFails, HashFile, CheckMarker, CopyFile, CopyFlat,
     InstallFails, WriteMarker, EndApply, hubVars, goalVars
<1>8. ASSUME NEW p \in Procs, Declare(p) PROVE Still
  BY <1>3, <1>8 DEF Declare, WriteManifest, WriteLock, LockReturns, ScanMarkers, ApplyGitignore,
     Return, hubVars, goalVars
<1>9. ASSUME NEW p \in Procs, Finish(p) \/ Confirm(p) \/ Fault(p) PROVE Still
  BY <1>3, <1>9 DEF Finish, Confirm, Fault, Crash, RefreshFails, FinalizeFails, Return, hubVars, goalVars
<1> QED BY <1>1, <1>2, <1>4, <1>5, <1>6, <1>7, <1>8, <1>9 DEF Next, Run

LEMMA NoneAheadStep ==
  ASSUME Typed, NoneAhead, [Next]_vars
  PROVE  NoneAhead'
<1>1. /\ hubHead \in Commits /\ cacheHead \in Commits
      /\ reg \in [Procs -> Commits]
  BY DEF Typed, TypeOK, FilesOK, ProcsOK
<1>2. CASE UNCHANGED <<hubHead, cacheHead>> /\ \A q \in Procs : reg'[q] \in {reg[q], 1}
  BY <1>1, <1>2 DEF NoneAhead, Commits
<1>3. CASE HubPublishes \/ OtherProjectLoads
  BY <1>1, <1>3 DEF NoneAhead, HubPublishes, OtherProjectLoads, Commits, goalVars
<1>4. ASSUME NEW p \in Procs, Load(p) PROVE NoneAhead'
  BY <1>1, <1>4 DEF NoneAhead, Load, Commits
<1> QED BY <1>2, <1>3, <1>4, KnowledgeSteps

\* The steps that write the cache's working tree.
LEMMA CacheSteps ==
  ASSUME Typed, [Next]_vars
  PROVE  \/ cache' = cache
         \/ \E C : cache' = Fetched(C)
         \/ \E p \in Procs : Load(p)
         \/ \E c \in Comps, i \in Files : OtherProjectWrites(c, i)
<1> DEFINE Kept == cache' = cache
<1>1. CASE UNCHANGED vars
  BY <1>1 DEF vars, hubVars
<1>2. CASE Environment
  BY <1>2 DEF Environment, UserWritesFile, UserDeletesFile, UserRemovesInstall,
     UserEditsManifest, UserRemovesManifest, HubPublishes, OtherProjectLoads, hubVars
<1>3. ASSUME NEW p \in Procs, Start(p) PROVE Kept
  BY <1>3 DEF Start, StartInstall, GenerateFromLegacy, StartInit, StartSwitch, StartUpdate,
     StartUninstall, Launch, hubVars
<1>4. ASSUME NEW p \in Procs, Plan(p), ~PlanUpdate(p) PROVE Kept
  BY <1>4 DEF Plan, PlanInstall, PlanInit, PlanSwitch, PlanReturns, Return, hubVars
<1>5. ASSUME NEW p \in Procs, Uninstalling(p) PROVE Kept
  BY <1>5 DEF Uninstalling, BeginRemove, RemoveFile, RemoveMarker, Removed, EndRemove, hubVars
<1>6. ASSUME NEW p \in Procs, Install(p), ~BeginInstall(p) PROVE Kept
  BY <1>6 DEF Install, FetchFails, HashFile, CheckMarker, CopyFile, CopyFlat,
     InstallFails, WriteMarker, EndApply, hubVars
<1>7. ASSUME NEW p \in Procs, Declare(p) PROVE Kept
  BY <1>7 DEF Declare, WriteManifest, WriteLock, LockReturns, ScanMarkers, ApplyGitignore,
     Return, hubVars
<1>8. ASSUME NEW p \in Procs, Finish(p) \/ Confirm(p) \/ Fault(p) PROVE Kept
  BY <1>8 DEF Finish, Confirm, Fault, Crash, RefreshFails, FinalizeFails, Return, hubVars
<1>9. ASSUME NEW p \in Procs, PlanUpdate(p) \/ BeginInstall(p)
      PROVE  cache' = cache \/ \E C : cache' = Fetched(C)
  BY <1>9 DEF PlanUpdate, BeginInstall
<1> QED BY <1>1, <1>2, <1>3, <1>4, <1>5, <1>6, <1>7, <1>8, <1>9 DEF Next, Run

LEMMA HubGrows == ASSUME Typed, [Next]_vars PROVE hubHead <= hubHead'
<1>1. hubHead \in Nat
  BY DEF Typed, TypeOK, FilesOK, Commits
<1> QED BY <1>1, KnowledgeSteps DEF HubPublishes, OtherProjectLoads, Load

LEMMA CachePublishedStep ==
  ASSUME Typed, Typed', NoneAhead, CachePublished, [Next]_vars
  PROVE  CachePublished'
<1>1. /\ hubHead \in Nat /\ hubHead' \in Nat /\ hubHead <= hubHead'
      /\ hubHead \in 1..hubHead' /\ cacheHead \in 1..hubHead'
      /\ \A k \in 1..hubHead : k \in 1..hubHead'
  BY HubGrows DEF Typed, TypeOK, FilesOK, Commits, NoneAhead
<1>2. CASE cache' = cache
  BY <1>1, <1>2 DEF CachePublished, WasPublished
<1>3. ASSUME NEW C, cache' = Fetched(C) PROVE CachePublished'
  BY <1>1, <1>3 DEF CachePublished, WasPublished, Fetched
<1>4. ASSUME NEW p \in Procs, Load(p) PROVE CachePublished'
  <2>1. CASE cache' = [c \in Comps |-> NoFiles]
    BY <2>1 DEF CachePublished, WasPublished, NoFiles
  <2> QED BY <1>2, <1>4, <2>1 DEF Load
<1>5. ASSUME NEW c \in Comps, NEW i \in Files, OtherProjectWrites(c, i) PROVE CachePublished'
  <2>1. PICK f \in {Absent, HubTree[cacheHead][c][i], HubTree[hubHead][c][i]} :
          cache' = [cache EXCEPT ![c][i] = f]
    BY <1>5 DEF OtherProjectWrites
  <2>2. cache \in [Comps -> [Files -> Blobs \union {Absent}]]
    BY DEF Typed, TypeOK, FilesOK, HubTrees
  <2>3. ASSUME NEW d \in Comps, NEW j \in Files PROVE WasPublished(d, j, cache[d][j])'
    <3>1. CASE d = c /\ j = i
      BY <1>1, <2>1, <2>2, <3>1 DEF WasPublished
    <3>2. CASE d # c \/ j # i
      <4>1. cache'[d][j] = cache[d][j]
        BY <2>1, <2>2, <3>2
      <4> QED BY <1>1, <4>1 DEF CachePublished, WasPublished
    <3> QED BY <3>1, <3>2
  <2> QED BY <2>3 DEF CachePublished
<1> QED BY <1>2, <1>3, <1>4, <1>5, CacheSteps

\* Hashing reads a file that the cache's working tree has.
LEMMA HashKeepsPublished ==
  ASSUME Published, Typed', NEW p \in Procs, HashFile(p)
  PROVE  ReadPublished' /\ MarkerPublished'
<1>1. /\ hubHead' = hubHead /\ marker' = marker /\ at' = at
      /\ src' = [src EXCEPT ![p][idx[p]] = cache[Comp(at[p])][idx[p]]]
      /\ pc[p] = "hash"
  BY DEF HashFile, Source, hubVars, fileVars
<1>2. MarkerPublished'
  BY <1>1 DEF Published, MarkerPublished, Managed, WasPublished
<1>3. WasPublished(Comp(at[p]), idx[p], cache[Comp(at[p])][idx[p]])
  BY <1>1 DEF Published, CachePublished, Typed, AtOK, TypeOK, ProcsOK, Comp, Locs
<1>4. ASSUME NEW q \in Procs, NEW i \in Files, Hashed(q, i)'
      PROVE  WasPublished(Comp(at[q]), i, src'[q][i])
  <2>1. src \in [Procs -> [Files -> Blobs \union {Absent}]] /\ idx \in [Procs -> Files]
    BY DEF Published, Typed, TypeOK, ProcsOK, HubTrees
  <2>2. CASE q = p /\ i = idx[p]
    BY <1>1, <1>3, <2>1, <2>2
  <2>3. CASE q # p \/ i # idx[p]
    <3>1. src'[q][i] = src[q][i]
      BY <1>1, <2>1, <2>3
    <3>2. Hashed(q, i)
      BY <1>4, <2>1, <2>3, NumFilesAssumption DEF HashFile, Hashed, NextFile, Goto, Files,
         Published, Typed, TypeOK, ProcsOK
    <3> QED BY <3>1, <3>2 DEF Published, ReadPublished
  <2> QED BY <2>2, <2>3
<1>5. ReadPublished'
  BY <1>1, <1>4 DEF ReadPublished, WasPublished
<1> QED BY <1>2, <1>5

\* The marker takes the hash and the commit the process has read, or a part.
LEMMA MarkKeepsPublished ==
  ASSUME Published, Typed', NEW p \in Procs, Unread, Marking(p)
  PROVE  ReadPublished' /\ MarkerPublished'
<1>1. PICK kept \in Extents : pc[p] = "mark" /\ marker' = Marks(p, kept)
  BY DEF Marking
<1>2. /\ hubHead \in Nat /\ hubHead' \in Nat /\ hubHead <= hubHead'
      /\ \A k \in 1..hubHead : k \in 1..hubHead'
      /\ ReadPublished'
  BY UnreadKeepsPublished
<1>3. MarkerPublished'
  <2>1. /\ reg[p] <= hubHead
        /\ \A i \in Files : WasPublished(Comp(at[p]), i, src[p][i])
    BY <1>1 DEF Published, NoneAhead, ReadPublished, Hashed
  <2> SUFFICES ASSUME NEW l \in Locs, marker'[l] # Nothing
               PROVE  /\ marker'[l].commit <= hubHead'
                      /\ \A i \in Files : WasPublished(Comp(l), i, marker[l].hash[i])'
    BY DEF MarkerPublished, Managed
  <2>2. marker'[l].commit <= hubHead /\ marker'[l].commit \in Nat
    <3>1. CASE l = at[p]
      BY <1>1, <2>1, <3>1 DEF Marks, Published, Typed, TypeOK, FilesOK, ProcsOK, Commits
    <3>2. CASE l # at[p]
      BY <1>1, <3>2 DEF Marks, Published, MarkerPublished, Managed, Typed, TypeOK, FilesOK,
         Markers, Commits
    <3> QED BY <3>1, <3>2
  <2>3. \A i \in Files : WasPublished(Comp(l), i, marker'[l].hash[i])
    <3>1. CASE l = at[p]
      BY <1>1, <2>1, <3>1 DEF Marks, Published, Typed, TypeOK, FilesOK
    <3>2. CASE l # at[p]
      BY <1>1, <3>2 DEF Marks, Published, MarkerPublished, Managed, Typed, TypeOK, FilesOK
    <3> QED BY <3>1, <3>2
  <2> QED BY <1>2, <2>2, <2>3 DEF WasPublished
<1> QED BY <1>2, <1>3

\* MarkerPublished: whatever runs beside it, a marker names a commit and file
\* contents that the hub has published for the component.
THEOREM MarkersArePublished == Spec => []MarkerPublished
<1>1. Init => Published
  <2> SUFFICES ASSUME Init PROVE Published
    OBVIOUS
  <2>1. NoneAhead /\ CachePublished /\ ReadPublished /\ MarkerPublished
    BY DEF Init, NoneAhead, CachePublished, WasPublished, NoFiles, ReadPublished, Hashed,
       MarkerPublished, Managed
  <2> QED BY <2>1, InitTyping DEF Published
<1>2. Published /\ [Next]_vars => Published'
  <2> SUFFICES ASSUME Published, [Next]_vars PROVE Published'
    OBVIOUS
  <2>1. Typed' /\ NoneAhead' /\ CachePublished'
    BY NextTyping, NoneAheadStep, CachePublishedStep DEF Published
  <2>2. CASE \A p \in Procs : ~HashFile(p)
    BY <2>1, <2>2, NextIsCalm, CalmKeepsPublished, MarkKeepsPublished DEF Published
  <2>3. ASSUME NEW p \in Procs, HashFile(p) PROVE Published'
    BY <2>1, <2>3, HashKeepsPublished DEF Published
  <2> QED BY <2>2, <2>3
<1>3. Published => MarkerPublished
  BY DEF Published
<1> QED BY <1>1, <1>2, <1>3, PTL DEF Spec

(***************************************************************************)
(* One process on a cache of its own.                                      *)
(***************************************************************************)
Alone == ~SharedCache /\ \E p \in Procs : Procs = {p}

\* The cache has the commit of every loaded process checked out.
CacheIsMine == \A p \in Procs : Loaded(p) => cacheHead = reg[p]

\* What a process has read is the component at its commit.
ReadTruthful ==
  \A p \in Procs, i \in Files : Hashed(p, i) => src[p][i] = HubTree[reg[p]][Comp(at[p])][i]

\* The steps of an installation, and those with installations to come.
Installing(p) == pc[p] \in {"hash", "check", "copy", "mark"}
Working(p) ==
  pc[p] = "apply" \/ Installing(p) \/ (pc[p] \in {"remove", "removing"} /\ job[p].cmd = "switch")

\* The cache's working tree has the component as its commit has it: the one that
\* is being installed, and those installed for some agents and not yet for all.
InPlace(c) == cache[c] = HubTree[cacheHead][c]
Materialized ==
  \A p \in Procs :
    /\ Installing(p) => InPlace(Comp(at[p]))
    /\ Working(p) /\ job[p].cmd # "update" => \A l \in Started(p) : InPlace(Comp(l))
    /\ pc[p] = "confirm" => job[p].cmd = "update"

Truthful == Typed /\ CacheIsMine /\ Materialized /\ ReadTruthful /\ MarkerTruthful

\* A step that loads nothing, and moves no cache.
Settled ==
  /\ cacheHead' = cacheHead
  /\ \A p \in Procs : Loaded(p)' => Loaded(p) /\ reg'[p] = reg[p]

LEMMA StopIsSettled ==
  ASSUME Typed, NEW p \in Procs, Stop(p), cacheHead' = cacheHead
  PROVE  Settled
<1>1. \A q \in Procs : q # p => pc'[q] = pc[q] /\ job'[q] = job[q] /\ reg'[q] = reg[q]
  BY DEF Stop, Goto, Typed, TypeOK, ProcsOK
<1>2. pc'[p] = "idle"
  BY DEF Stop, Goto, Typed, TypeOK, ProcsOK
<1> QED BY <1>1, <1>2 DEF Settled, Loaded

\* Every step but a load is settled, when no other project moves the cache.
LEMMA NextIsSettled ==
  ASSUME Typed, [Next]_vars, ~SharedCache, \A p \in Procs : ~Load(p)
  PROVE  Settled
<1>1. CASE UNCHANGED vars
  BY <1>1 DEF vars, Settled, Loaded, hubVars, goalVars
<1>2. CASE Environment
  BY <1>2 DEF Environment, UserWritesFile, UserDeletesFile, UserRemovesInstall,
     UserEditsManifest, UserRemovesManifest, HubPublishes, OtherProjectLoads, OtherProjectWrites, Settled, Loaded, hubVars, goalVars
<1>3. ASSUME NEW p \in Procs, Start(p) PROVE Settled
  <2>1. ASSUME NEW c \in Comps, StartUninstall(p, c) PROVE Settled
    <3>1. /\ job' = [job EXCEPT ![p] = [NoJob EXCEPT !.cmd = "uninstall"]]
          /\ pc' = [pc EXCEPT ![p] = "remove"]
          /\ UNCHANGED <<cacheHead, reg>>
      BY <2>1 DEF StartUninstall, Goto, hubVars
    <3>2. [NoJob EXCEPT !.cmd = "uninstall"].cmd = "uninstall"
      BY DEF NoJob
    <3> QED BY <3>1, <3>2 DEF Settled, Loaded, Typed, TypeOK, ProcsOK
  <2>2. ASSUME NEW j, NEW m, Launch(p, j, m) PROVE Settled
    <3>1. /\ job' = [job EXCEPT ![p] = j]
          /\ pc' = [pc EXCEPT ![p] = "load"]
          /\ UNCHANGED <<cacheHead, reg>>
      BY <2>2 DEF Launch, Goto, hubVars
    <3> QED BY <3>1 DEF Settled, Loaded, Typed, TypeOK, ProcsOK
  <2>3. CASE GenerateFromLegacy(p)
    BY <2>3 DEF GenerateFromLegacy, Settled, Loaded, hubVars, goalVars
  <2> QED BY <1>3, <2>1, <2>2, <2>3 DEF Start, StartInstall, StartInit, StartSwitch, StartUpdate
<1>4. ASSUME NEW p \in Procs, Plan(p) PROVE Settled
  BY <1>4, StopIsSettled DEF Plan, PlanInstall, PlanInit, PlanSwitch, PlanUpdate, PlanReturns, Return,
     Goto, Settled, Loaded, hubVars, goalVars, Typed, TypeOK, ProcsOK
<1>5. ASSUME NEW p \in Procs, Uninstalling(p) PROVE Settled
  BY <1>5 DEF Uninstalling, BeginRemove, RemoveFile, RemoveMarker, Removed, EndRemove,
     Goto, Settled, Loaded, hubVars, goalVars, Typed, TypeOK, ProcsOK
<1>6. ASSUME NEW p \in Procs, Install(p) PROVE Settled
  <2>1. CASE FetchFails(p) \/ InstallFails(p)
    BY <2>1, StopIsSettled DEF FetchFails, InstallFails, SourceGone,
       Goto, Settled, Loaded, hubVars, goalVars, Typed, TypeOK, ProcsOK
  <2>2. CASE HashFile(p) \/ CopyFile(p)
    BY <2>2 DEF HashFile, CopyFile, NextFile,
       Goto, Settled, Loaded, hubVars, goalVars, Typed, TypeOK, ProcsOK
  <2>3. CASE BeginInstall(p) \/ CheckMarker(p) \/ CopyFlat(p) \/ WriteMarker(p) \/ EndApply(p)
    BY <2>3 DEF BeginInstall, CheckMarker, CopyFlat, WriteMarker, EndApply,
       Goto, Settled, Loaded, hubVars, goalVars, Typed, TypeOK, ProcsOK
  <2> QED BY <1>6, <2>1, <2>2, <2>3 DEF Install
<1>7. ASSUME NEW p \in Procs, Declare(p) PROVE Settled
  BY <1>7, StopIsSettled DEF Declare, WriteManifest, WriteLock, LockReturns, ScanMarkers,
     ApplyGitignore, Return, Goto, Settled, Loaded, hubVars, goalVars, Typed, TypeOK, ProcsOK
<1>8. ASSUME NEW p \in Procs, Finish(p) \/ Confirm(p) \/ Fault(p) PROVE Settled
  BY <1>8, StopIsSettled DEF Finish, Confirm, Fault, Crash, RefreshFails, FinalizeFails, Return,
     Goto, Settled, Loaded, hubVars, goalVars, Typed, TypeOK, ProcsOK
<1> QED BY <1>1, <1>2, <1>3, <1>4, <1>5, <1>6, <1>7, <1>8 DEF Next, Run

LEMMA CacheIsMineStep ==
  ASSUME Typed, CacheIsMine, [Next]_vars, Alone
  PROVE  CacheIsMine'
<1>1. CASE \A p \in Procs : ~Load(p)
  BY <1>1, NextIsSettled DEF Settled, CacheIsMine, Alone
<1>2. ASSUME NEW p \in Procs, Load(p) PROVE CacheIsMine'
  BY <1>2 DEF Load, CacheIsMine, Alone, Typed, TypeOK, ProcsOK
<1> QED BY <1>1, <1>2

\* A step that begins no work, neither fetches nor resets the cache.
Steady ==
  /\ UNCHANGED <<cacheHead, cache>>
  /\ \A p \in Procs :
       /\ Working(p)' => Working(p) /\ todo'[p] = todo[p] /\ job'[p].cmd = job[p].cmd
       /\ Installing(p)' => Installing(p) /\ at'[p] = at[p]
       /\ pc'[p] = "confirm" => pc[p] = "confirm" /\ job'[p].cmd = job[p].cmd

LEMMA StopIsSteady ==
  ASSUME Typed, NEW p \in Procs, Stop(p), UNCHANGED <<cacheHead, cache>>
  PROVE  Steady
<1>1. \A q \in Procs : q # p => /\ pc'[q] = pc[q] /\ job'[q] = job[q]
                                /\ todo'[q] = todo[q] /\ at'[q] = at[q]
  BY DEF Stop, Goto, Typed, TypeOK, ProcsOK
<1>2. pc'[p] = "idle"
  BY DEF Stop, Goto, Typed, TypeOK, ProcsOK
<1> QED BY <1>1, <1>2 DEF Steady, Working, Installing

\* Every step but a load, a plan, an answer, a fetch and its failure is steady,
\* when no other project writes the cache.
LEMMA NextIsSteady ==
  ASSUME Typed, [Next]_vars, ~SharedCache,
         \A p \in Procs : ~(Load(p) \/ Plan(p) \/ Confirm(p) \/ BeginInstall(p) \/ FetchFails(p))
  PROVE  Steady
<1>1. CASE UNCHANGED vars
  BY <1>1 DEF vars, Steady, Working, Installing, hubVars, goalVars, workVars
<1>2. CASE Environment
  BY <1>2 DEF Environment, UserWritesFile, UserDeletesFile, UserRemovesInstall,
     UserEditsManifest, UserRemovesManifest, HubPublishes, OtherProjectLoads, OtherProjectWrites,
     Steady, Working, Installing, hubVars, goalVars, workVars
<1>3. ASSUME NEW p \in Procs, Start(p) PROVE Steady
  <2>1. ASSUME NEW c \in Comps, StartUninstall(p, c) PROVE Steady
    <3>1. /\ job' = [job EXCEPT ![p] = [NoJob EXCEPT !.cmd = "uninstall"]]
          /\ pc' = [pc EXCEPT ![p] = "remove"]
          /\ UNCHANGED <<cacheHead, cache, todo, at>>
      BY <2>1 DEF StartUninstall, Goto, hubVars
    <3>2. [NoJob EXCEPT !.cmd = "uninstall"].cmd = "uninstall"
      BY DEF NoJob
    <3> QED BY <3>1, <3>2 DEF Steady, Working, Installing, Typed, TypeOK, ProcsOK
  <2>2. ASSUME NEW j, NEW m, Launch(p, j, m) PROVE Steady
    <3>1. /\ job' = [job EXCEPT ![p] = j]
          /\ pc' = [pc EXCEPT ![p] = "load"]
          /\ UNCHANGED <<cacheHead, cache, todo, at>>
      BY <2>2 DEF Launch, Goto, hubVars, workVars
    <3> QED BY <3>1 DEF Steady, Working, Installing, Typed, TypeOK, ProcsOK
  <2>3. CASE GenerateFromLegacy(p)
    BY <2>3 DEF GenerateFromLegacy, Steady, Working, Installing, hubVars, goalVars, workVars
  <2> QED BY <1>3, <2>1, <2>2, <2>3 DEF Start, StartInstall, StartInit, StartSwitch, StartUpdate
<1>4. ASSUME NEW p \in Procs, Uninstalling(p) PROVE Steady
  BY <1>4 DEF Uninstalling, BeginRemove, RemoveFile, RemoveMarker, Removed, EndRemove,
     Goto, Steady, Working, Installing, hubVars, goalVars, workVars, Typed, TypeOK, ProcsOK
<1>5. ASSUME NEW p \in Procs, Install(p) PROVE Steady
  <2>1. CASE InstallFails(p)
    BY <2>1, StopIsSteady DEF InstallFails, SourceGone,
       Goto, Steady, Working, Installing, hubVars, goalVars, workVars, Typed, TypeOK, ProcsOK
  <2>2. CASE HashFile(p) \/ CopyFile(p)
    BY <2>2 DEF HashFile, CopyFile, NextFile,
       Goto, Steady, Working, Installing, hubVars, goalVars, workVars, Typed, TypeOK, ProcsOK
  <2>3. CASE CheckMarker(p) \/ CopyFlat(p) \/ WriteMarker(p) \/ EndApply(p)
    BY <2>3 DEF CheckMarker, CopyFlat, WriteMarker, EndApply,
       Goto, Steady, Working, Installing, hubVars, goalVars, workVars, Typed, TypeOK, ProcsOK
  <2> QED BY <1>5, <2>1, <2>2, <2>3 DEF Install
<1>6. ASSUME NEW p \in Procs, Declare(p) PROVE Steady
  BY <1>6, StopIsSteady DEF Declare, WriteManifest, WriteLock, LockReturns, ScanMarkers,
     ApplyGitignore, Return, Goto, Steady, Working, Installing, hubVars, goalVars, workVars,
     Typed, TypeOK, ProcsOK
<1>7. ASSUME NEW p \in Procs, Finish(p) \/ Fault(p) PROVE Steady
  BY <1>7, StopIsSteady DEF Finish, Fault, Crash, RefreshFails, FinalizeFails, Return,
     Goto, Steady, Working, Installing, hubVars, goalVars, workVars, Typed, TypeOK, ProcsOK
<1> QED BY <1>1, <1>2, <1>3, <1>4, <1>5, <1>6, <1>7 DEF Next, Run

LEMMA SteadyKeepsMaterialized ==
  ASSUME Materialized, Steady
  PROVE  Materialized'
BY DEF Materialized, Steady, InPlace, Started

\* The other steps of a process that is alone: none of them leaves work on a
\* component that is not in place.
LEMMA PlanKeepsMaterialized ==
  ASSUME Typed, Materialized, NEW p \in Procs, Procs = {p}, Load(p) \/ Plan(p)
  PROVE  Materialized'
<1>0. pc \in [Procs -> Steps] /\ todo \in [Procs -> SUBSET Locs]
  BY DEF Typed, TypeOK, ProcsOK
<1>1. CASE Load(p)
  BY <1>0, <1>1 DEF Load, Goto, Materialized, Working, Installing
<1>2. CASE PlanInstall(p)
  <2>1. pc'[p] = "apply" /\ \E C : todo'[p] = LocsOf(C)
    BY <1>0, <1>2 DEF PlanInstall, Goto
  <2>2. Started(p)' = {}
    BY <2>1 DEF Started, LocsOf, Comp
  <2> QED BY <2>1, <2>2 DEF Materialized, Installing
<1>3. CASE PlanInit(p)
  <2>1. CASE Stop(p)
    BY <1>0, <2>1 DEF Stop, Goto, Materialized, Working, Installing
  <2>2. CASE pc'[p] = "apply" /\ \E C : todo'[p] = LocsOf(C)
    <3>1. Started(p)' = {}
      BY <2>2 DEF Started, LocsOf, Comp
    <3> QED BY <2>2, <3>1 DEF Materialized, Installing
  <2> QED BY <1>0, <1>3, <2>1, <2>2 DEF PlanInit, Goto
<1>4. CASE PlanSwitch(p)
  <2>1. pc'[p] = "remove" /\ \E C : todo'[p] = LocsOf(C)
    BY <1>0, <1>4 DEF PlanSwitch, Goto
  <2>2. Started(p)' = {}
    BY <2>1 DEF Started, LocsOf, Comp
  <2> QED BY <2>1, <2>2 DEF Materialized, Installing
<1>5. CASE PlanUpdate(p)
  BY <1>0, <1>5 DEF PlanUpdate, Goto, goalVars, Materialized, Working, Installing
<1>6. CASE PlanReturns(p)
  BY <1>0, <1>6 DEF PlanReturns, Return, Stop, Goto, Materialized, Working, Installing
<1> QED BY <1>1, <1>2, <1>3, <1>4, <1>5, <1>6 DEF Plan

LEMMA FetchKeepsMaterialized ==
  ASSUME Typed, Materialized, NEW p \in Procs, Procs = {p},
         Confirm(p) \/ BeginInstall(p) \/ FetchFails(p)
  PROVE  Materialized'
<1>0. /\ pc \in [Procs -> Steps] /\ todo \in [Procs -> SUBSET Locs]
      /\ at \in [Procs -> Locs \union {NoLoc}] /\ cache \in [Comps -> HubTrees]
  BY DEF Typed, TypeOK, ProcsOK, FilesOK
<1>1. CASE Confirm(p)
  <2>1. CASE Stop(p)
    BY <1>0, <2>1 DEF Stop, Goto, Materialized, Working, Installing
  <2>2. CASE pc'[p] = "apply" /\ UNCHANGED job /\ pc[p] = "confirm"
    BY <2>2 DEF Materialized, Installing
  <2> QED BY <1>0, <1>1, <2>1, <2>2 DEF Confirm, Return, Goto, goalVars
<1>2. CASE BeginInstall(p)
  <2>1. PICK l \in Due(p) :
          /\ cache' = IF Refetches(p) THEN Fetched({Comp(l)}) ELSE cache
          /\ at' = [at EXCEPT ![p] = l]
          /\ todo' = [todo EXCEPT ![p] = @ \ {l}]
    BY <1>2 DEF BeginInstall
  <2>2. /\ pc[p] = "apply" /\ pc' = [pc EXCEPT ![p] = "hash"]
        /\ UNCHANGED <<cacheHead, job>>
    BY <1>2 DEF BeginInstall, Goto, goalVars
  <2>3. l \in Locs /\ Comp(l) \in Comps /\ l \in todo[p]
    BY <1>0 DEF Due, Started, Comp, Locs
  <2>4. \A c \in Comps : InPlace(c) => InPlace(c)'
    BY <2>1, <2>2 DEF InPlace, Fetched
  <2>5. InPlace(Comp(l))'
    <3>1. CASE Refetches(p)
      BY <2>1, <2>2, <2>3, <3>1 DEF InPlace, Fetched
    <3>2. CASE ~Refetches(p)
      <4>1. l \in Started(p) /\ job[p].cmd # "update"
        BY <3>2 DEF Due, Refetches
      <4> QED BY <2>2, <2>3, <2>4, <4>1 DEF Materialized, Working
    <3> QED BY <3>1, <3>2
  <2>6. ASSUME NEW m \in Started(p)', job[p].cmd # "update" PROVE InPlace(Comp(m))'
    <3>1. m \in todo[p] /\ m # l /\ m \in Locs /\ Comp(m) \in Comps
      BY <1>0, <2>1, <2>6 DEF Started, Comp, Locs
    <3>2. CASE Comp(m) = Comp(l)
      BY <2>5, <3>2
    <3>3. CASE Comp(m) # Comp(l)
      <4>1. m \in Started(p)
        BY <1>0, <2>1, <2>6, <3>1, <3>3 DEF Started, LocsOf
      <4> QED BY <2>2, <2>4, <2>6, <3>1, <4>1 DEF Materialized, Working
    <3> QED BY <3>2, <3>3
  <2> QED BY <1>0, <2>1, <2>2, <2>5, <2>6 DEF Materialized, Working, Installing
<1>3. CASE FetchFails(p)
  <2>1. CASE Stop(p)
    BY <1>0, <2>1 DEF Stop, Goto, Materialized, Working, Installing
  <2>2. CASE job[p].cmd = "update" /\ UNCHANGED <<pc, job>> /\ pc[p] = "apply"
    BY <2>2 DEF Materialized, Working, Installing
  <2> QED BY <1>3, <2>1, <2>2 DEF FetchFails, goalVars
<1> QED BY <1>1, <1>2, <1>3

LEMMA MaterializedStep ==
  ASSUME Typed, Materialized, [Next]_vars, Alone
  PROVE  Materialized'
<1>1. CASE \A p \in Procs : ~(Load(p) \/ Plan(p) \/ Confirm(p) \/ BeginInstall(p) \/ FetchFails(p))
  BY <1>1, NextIsSteady, SteadyKeepsMaterialized DEF Alone
<1>2. ASSUME NEW p \in Procs, Load(p) \/ Plan(p) \/ Confirm(p) \/ BeginInstall(p) \/ FetchFails(p)
      PROVE  Materialized'
  <2>1. Procs = {p}
    BY DEF Alone
  <2> QED BY <1>2, <2>1, PlanKeepsMaterialized, FetchKeepsMaterialized
<1> QED BY <1>1, <1>2

LEMMA CalmKeepsTruthful ==
  ASSUME Truthful, Typed', Calm
  PROVE  ReadTruthful' /\ MarkerTruthful'
<1>1. ReadTruthful'
  BY DEF Truthful, ReadTruthful, Calm, Unread
<1>2. MarkerTruthful'
  BY DEF Truthful, MarkerTruthful, Managed, Calm
<1> QED BY <1>1, <1>2

LEMMA HashKeepsTruthful ==
  ASSUME Truthful, Typed', NEW p \in Procs, HashFile(p)
  PROVE  ReadTruthful' /\ MarkerTruthful'
<1>1. /\ marker' = marker /\ at' = at /\ reg' = reg /\ cacheHead = reg[p]
      /\ src' = [src EXCEPT ![p][idx[p]] = HubTree[cacheHead][Comp(at[p])][idx[p]]]
  BY DEF HashFile, Source, hubVars, fileVars, goalVars, Truthful, CacheIsMine, Loaded,
     InPlace, Materialized, Installing
<1>2. ASSUME NEW q \in Procs, NEW i \in Files, Hashed(q, i)'
      PROVE  src'[q][i] = HubTree[reg[q]][Comp(at[q])][i]
  <2>1. src \in [Procs -> [Files -> Blobs \union {Absent}]] /\ idx \in [Procs -> Files]
    BY DEF Truthful, Typed, TypeOK, ProcsOK, HubTrees
  <2>2. CASE q = p /\ i = idx[p]
    BY <1>1, <2>1, <2>2
  <2>3. CASE q # p \/ i # idx[p]
    <3>1. src'[q][i] = src[q][i]
      BY <1>1, <2>1, <2>3
    <3>2. Hashed(q, i)
      BY <1>2, <2>1, <2>3, NumFilesAssumption DEF HashFile, Hashed, NextFile, Goto, Files,
         Truthful, Typed, TypeOK, ProcsOK
    <3> QED BY <3>1, <3>2 DEF Truthful, ReadTruthful
  <2> QED BY <2>2, <2>3
<1> QED BY <1>1, <1>2 DEF ReadTruthful, Truthful, MarkerTruthful, Managed

LEMMA MarkKeepsTruthful ==
  ASSUME Truthful, Typed', NEW p \in Procs, Unread, Marking(p)
  PROVE  ReadTruthful' /\ MarkerTruthful'
<1>1. PICK kept \in Extents : pc[p] = "mark" /\ marker' = Marks(p, kept)
  BY DEF Marking
<1>2. ReadTruthful'
  BY DEF Truthful, ReadTruthful, Unread
<1>3. src[p] = HubTree[reg[p]][Comp(at[p])]
  <2>1. \A i \in Files : src[p][i] = HubTree[reg[p]][Comp(at[p])][i]
    BY <1>1 DEF Truthful, ReadTruthful, Hashed
  <2>2. at[p] \in Locs /\ Comp(at[p]) \in Comps /\ reg[p] \in Commits
    BY <1>1 DEF Truthful, Typed, AtOK, TypeOK, ProcsOK, Locs, Comp
  <2>3. HubTree[reg[p]][Comp(at[p])] \in HubTrees /\ src[p] \in HubTrees
    BY <2>2, HubTyping DEF Truthful, Typed, TypeOK, ProcsOK
  <2> QED BY <2>1, <2>3 DEF HubTrees
<1>4. MarkerTruthful'
  <2> SUFFICES ASSUME NEW l \in Locs, marker'[l] # Nothing, HasHash(marker'[l])
               PROVE  /\ HasCommit(marker'[l])
                      /\ marker'[l].hash = HubTree[marker'[l].commit][Comp(l)]
    BY DEF MarkerTruthful, Managed
  <2>1. CASE l = at[p]
    BY <1>1, <1>3, <2>1 DEF Marks, HasHash, HasCommit, Truthful, Typed, TypeOK, FilesOK
  <2>2. CASE l # at[p]
    BY <1>1, <2>2 DEF Marks, MarkerTruthful, Managed, Truthful, Typed, TypeOK, FilesOK
  <2> QED BY <2>1, <2>2
<1> QED BY <1>2, <1>4

LEMMA InitTruthful == Init => Truthful
<1> SUFFICES ASSUME Init PROVE Truthful
  OBVIOUS
<1>1. CacheIsMine /\ Materialized /\ ReadTruthful /\ MarkerTruthful
  BY DEF Init, CacheIsMine, Loaded, Materialized, Working, Installing, ReadTruthful, Hashed,
     MarkerTruthful, Managed
<1> QED BY <1>1, InitTyping DEF Truthful

LEMMA TruthfulStep ==
  ASSUME Alone, Truthful, [Next]_vars
  PROVE  Truthful'
<1>1. Typed' /\ CacheIsMine' /\ Materialized'
  BY NextTyping, CacheIsMineStep, MaterializedStep DEF Truthful
<1>2. CASE \A p \in Procs : ~HashFile(p)
  BY <1>1, <1>2, NextIsCalm, CalmKeepsTruthful, MarkKeepsTruthful DEF Truthful
<1>3. ASSUME NEW p \in Procs, HashFile(p) PROVE Truthful'
  BY <1>1, <1>3, HashKeepsTruthful DEF Truthful
<1> QED BY <1>2, <1>3

\* MarkerTruthful: one command at a time, on a cache nobody else moves, records in
\* each marker that has a hash, those of writes that were cut included, the hash of
\* the component at the commit the marker names.
THEOREM MarkersAreTruthful == ASSUME Alone PROVE Spec => []MarkerTruthful
<1>1. Truthful => MarkerTruthful
  BY DEF Truthful
<1> QED BY <1>1, InitTruthful, TruthfulStep, PTL DEF Spec

(* For one command at a time on a cache that nobody else moves, a directory that
   doctor calls ok holds exactly the files that the hub published for it at the
   marker's commit, unless its marker was cut in front of the hash. *)
THEOREM OkInstallsArePublished == ASSUME Alone PROVE Spec => []OkIsPublished
<1>1. TypeOK /\ MarkerTruthful => OkIsPublished
  <2> SUFFICES ASSUME MarkerTruthful, NEW l \in Locs, l \in Parsed, ~Differs(l),
                      marker[l].kept \notin {"nothing", "name", "commit"}, TypeOK
               PROVE  disk[l] = HubTree[marker[l].commit][Comp(l)]
    BY DEF OkIsPublished, ManagedDrift, DriftStatus
  <2>1. marker[l].kept \in Extents
    BY DEF Parsed, Managed, TypeOK, FilesOK, Markers
  <2>2. HasHash(marker[l])
    BY <2>1 DEF Parsed, Differs, HasHash, Extents
  <2> QED BY <2>2 DEF MarkerTruthful, Parsed, Differs
<1> QED BY <1>1, TypeCorrect, MarkersAreTruthful, PTL

(***************************************************************************)
(* What the developer wrote: LocalEditsKept, for any number of commands on *)
(* a shared cache, when nobody edits while a command runs.                 *)
(***************************************************************************)
Quiet == ~EditWhileRunning

\* Location l is one that p is to install, or is installing.
Awaits(p, l) ==
  \/ (pc[p] = "confirm" \/ Working(p)) /\ l \in todo[p]
  \/ Installing(p) /\ l = at[p]

\* A marker's hash is that of files of the hub, of none the developer wrote.
HashesAreOfHub == \A l \in Managed : marker[l].hash \in HubTrees

\* What `fdh update` is to refresh without --force holds no edits.
RefreshSpares ==
  \A p \in Procs : job[p].cmd = "update" /\ ~job[p].force =>
    \A l \in Locs, i \in Files : Awaits(p, l) => disk[l][i] # Edited

Spared == Typed /\ HashesAreOfHub /\ RefreshSpares

\* What process q works with stays.
Same(q) ==
  /\ pc'[q] = pc[q] /\ job'[q] = job[q] /\ want'[q] = want[q] /\ old'[q] = old[q]
  /\ todo'[q] = todo[q] /\ del'[q] = del[q] /\ at'[q] = at[q]

Acts(p) == Start(p) \/ Run(p) \/ Confirm(p) \/ Fault(p)

LEMMA NoEditInHub == \A T \in HubTrees, i \in Files : T[i] # Edited /\ Edited # Torn
BY BlobsAssumption DEF HubTrees

LEMMA StopIsOwn ==
  ASSUME Typed, NEW p \in Procs, Stop(p)
  PROVE  /\ pc'[p] = "idle"
         /\ \A q \in Procs \ {p} : Same(q)
BY DEF Stop, Goto, Same, Typed, TypeOK, ProcsOK

\* A process changes nothing of what another one works with,
LEMMA ActsAreOwn ==
  ASSUME Typed, NEW p \in Procs, Acts(p), NEW q \in Procs \ {p}
  PROVE  Same(q)
<1>1. CASE Start(p)
  BY <1>1 DEF Start, StartInstall, GenerateFromLegacy, StartInit, StartSwitch, StartUpdate,
     StartUninstall, Launch, Goto, Same, goalVars, workVars, Typed, TypeOK, ProcsOK
<1>2. CASE Plan(p)
  BY <1>2, StopIsOwn DEF Plan, PlanInstall, PlanInit, PlanSwitch, PlanUpdate, PlanReturns, Return,
     Goto, Same, goalVars, workVars, Typed, TypeOK, ProcsOK
<1>3. CASE Uninstalling(p)
  BY <1>3 DEF Uninstalling, BeginRemove, RemoveFile, RemoveMarker, Removed, EndRemove,
     Goto, Same, goalVars, workVars, Typed, TypeOK, ProcsOK
<1>4. CASE Install(p)
  BY <1>4, StopIsOwn DEF Install, BeginInstall, FetchFails, HashFile, CheckMarker, CopyFile,
     CopyFlat, InstallFails, WriteMarker, EndApply, NextFile,
     Goto, Same, goalVars, workVars, Typed, TypeOK, ProcsOK
<1>5. CASE Declare(p)
  BY <1>5, StopIsOwn DEF Declare, WriteManifest, WriteLock, LockReturns, ScanMarkers,
     ApplyGitignore, Return, Goto, Same, goalVars, workVars, Typed, TypeOK, ProcsOK
<1>6. CASE Load(p) \/ Finish(p) \/ Confirm(p) \/ Fault(p)
  BY <1>6, StopIsOwn DEF Load, Finish, Confirm, Fault, Crash, RefreshFails, FinalizeFails, Return,
     Goto, Same, goalVars, workVars, Typed, TypeOK, ProcsOK
<1> QED BY <1>1, <1>2, <1>3, <1>4, <1>5, <1>6 DEF Acts, Run

\* and the environment nothing of what any works with.
LEMMA EnvironmentIsOutside ==
  ASSUME Environment \/ UNCHANGED vars
  PROVE  \A q \in Procs : Same(q)
BY DEF Environment, UserWritesFile, UserDeletesFile, UserRemovesInstall,
   UserEditsManifest, UserRemovesManifest, HubPublishes, OtherProjectLoads, OtherProjectWrites,
   Same, goalVars, workVars, vars

\* Only the developer writes edits, and only when no command runs.
LEMMA EditsAreTheDevelopers ==
  ASSUME Typed, [Next]_vars, Quiet, NEW l \in Locs, NEW i \in Files,
         disk'[l][i] = Edited, disk[l][i] # Edited
  PROVE  Environment /\ \A p \in Procs : pc[p] = "idle"
<1>0. disk \in [Locs -> [Files -> Content]]
  BY DEF Typed, TypeOK, FilesOK, Trees
<1>1. CASE Environment
  BY <1>0, <1>1, BlobsAssumption DEF Environment, UserWritesFile, UserDeletesFile, UserRemovesInstall,
     UserEditsManifest, UserRemovesManifest, HubPublishes, OtherProjectLoads, OtherProjectWrites,
     MayEdit, Quiet, fileVars, NoFiles
<1>2. CASE UNCHANGED vars
  BY <1>2 DEF vars, fileVars
<1>3. ASSUME NEW p \in Procs, Acts(p) PROVE FALSE
  <2>1. ASSUME NEW m, NEW j, NEW b, b # Edited, disk' = [disk EXCEPT ![m][j] = b] PROVE FALSE
    BY <1>0, <2>1
  <2>2. CASE disk' = disk
    BY <2>2
  <2>3. CASE RemoveFile(p)
    BY <2>1, <2>3, BlobsAssumption DEF RemoveFile
  <2>4. CASE CopyFile(p)
    <3>1. at[p] \in Locs /\ idx[p] \in Files
      BY <2>4 DEF CopyFile, Typed, AtOK, TypeOK, ProcsOK
    <3>2. Source(p)[idx[p]] # Edited
      BY <3>1, SourceTyping, BlobsAssumption
    <3> QED BY <2>1, <2>2, <2>4, <3>2 DEF CopyFile
  <2>5. CASE CopyFlat(p)
    <3>1. src[p] \in HubTrees /\ SkillMD \in Files
      BY HubTyping DEF Typed, TypeOK, ProcsOK, SkillMD
    <3> QED BY <2>1, <2>5, <3>1, NoEditInHub DEF CopyFlat
  <2>6. CASE Fault(p)
    <3>1. Torn # Edited
      BY BlobsAssumption
    <3>2. Interrupted(p)
      BY <2>6 DEF Fault, Crash, RefreshFails, FinalizeFails, Interrupted
    <3> QED BY <2>1, <2>2, <3>1, <3>2 DEF Interrupted, fileVars
  <2>7. CASE Start(p) \/ Plan(p) \/ Declare(p) \/ Load(p) \/ Finish(p) \/ Confirm(p)
    BY <2>2, <2>7 DEF Start, StartInstall, GenerateFromLegacy, StartInit, StartSwitch, StartUpdate,
       StartUninstall, Launch, Plan, PlanInstall, PlanInit, PlanSwitch, PlanUpdate, PlanReturns,
       Declare, WriteManifest, WriteLock, LockReturns, ScanMarkers, ApplyGitignore,
       Load, Finish, Confirm, Return, fileVars
  <2>8. CASE Uninstalling(p)
    BY <2>2, <2>3, <2>8 DEF Uninstalling, BeginRemove, RemoveMarker, Removed, EndRemove, fileVars
  <2>9. CASE Install(p)
    <3>1. CASE BeginInstall(p) \/ FetchFails(p) \/ HashFile(p) \/ CheckMarker(p)
               \/ InstallFails(p) \/ WriteMarker(p) \/ EndApply(p)
      BY <2>2, <3>1 DEF BeginInstall, FetchFails, HashFile, CheckMarker, InstallFails, WriteMarker,
         EndApply, fileVars
    <3> QED BY <2>4, <2>5, <2>9, <3>1 DEF Install
  <2> QED BY <1>3, <2>6, <2>7, <2>8, <2>9 DEF Acts, Run
<1> QED BY <1>1, <1>2, <1>3 DEF Next, Acts

\* Only a plan gives a command locations to install.
LEMMA InstallsAwaitTheirPlan ==
  ASSUME Typed, [Next]_vars, NEW q \in Procs, NEW l \in Locs, Awaits(q, l)'
  PROVE  \/ Awaits(q, l) /\ job'[q] = job[q] /\ want'[q] = want[q]
         \/ /\ PlanInstall(q) \/ PlanInit(q) \/ PlanSwitch(q) \/ PlanUpdate(q)
            /\ l \in todo'[q] /\ job'[q] = job[q]
<1>0. /\ pc \in [Procs -> Steps] /\ job \in [Procs -> Jobs] /\ todo \in [Procs -> SUBSET Locs]
      /\ at \in [Procs -> Locs \union {NoLoc}]
  BY DEF Typed, TypeOK, ProcsOK
<1>1. CASE Same(q)
  BY <1>1 DEF Same, Awaits, Working, Installing
<1>2. CASE Acts(q)
  <2> USE DEF Awaits, Working, Installing, Goto
  <2>1. CASE Start(q)
    <3>1. ASSUME NEW c \in Comps, StartUninstall(q, c) PROVE FALSE
      <4>1. job'[q].cmd = "uninstall" /\ pc'[q] = "remove"
        BY <1>0, <3>1 DEF StartUninstall, NoJob
      <4> QED BY <4>1
    <3>2. ASSUME NEW j, NEW m, Launch(q, j, m) PROVE FALSE
      <4>1. pc'[q] = "load"
        BY <1>0, <3>2 DEF Launch
      <4> QED BY <4>1
    <3>3. CASE GenerateFromLegacy(q)
      BY <3>3 DEF GenerateFromLegacy, goalVars, workVars
    <3> QED BY <2>1, <3>1, <3>2, <3>3 DEF Start, StartInstall, StartInit, StartSwitch, StartUpdate
  <2>2. ASSUME Stop(q) PROVE FALSE
    <3>1. pc'[q] = "idle"
      BY <1>0, <2>2 DEF Stop
    <3> QED BY <3>1
  <2>3. CASE PlanInstall(q)
    <3>1. pc'[q] = "apply" /\ job' = job
      BY <1>0, <2>3 DEF PlanInstall
    <3> QED BY <2>3, <3>1
  <2>4. CASE PlanInit(q)
    <3>1. pc'[q] = "apply" /\ job' = job
      BY <1>0, <2>2, <2>4 DEF PlanInit
    <3> QED BY <2>4, <3>1
  <2>5. CASE PlanSwitch(q)
    <3>1. pc'[q] = "remove" /\ job' = job
      BY <1>0, <2>5 DEF PlanSwitch
    <3> QED BY <2>5, <3>1
  <2>6. CASE PlanUpdate(q)
    <3>1. pc'[q] = "confirm" /\ job' = job
      BY <1>0, <2>6 DEF PlanUpdate, goalVars
    <3> QED BY <2>6, <3>1
  <2>7. CASE PlanReturns(q)
    BY <2>2, <2>7 DEF PlanReturns, Return
  <2>8. CASE Uninstalling(q)
    BY <1>0, <2>8 DEF Uninstalling, BeginRemove, RemoveFile, RemoveMarker, Removed, EndRemove,
       goalVars, workVars
  <2>9. CASE BeginInstall(q)
    BY <1>0, <2>9 DEF BeginInstall, Due, Started, goalVars
  <2>10. CASE HashFile(q) \/ CopyFile(q)
    BY <1>0, <2>10 DEF HashFile, CopyFile, NextFile, goalVars
  <2>11. CASE CheckMarker(q) \/ CopyFlat(q) \/ WriteMarker(q)
    BY <1>0, <2>11 DEF CheckMarker, CopyFlat, WriteMarker, goalVars, workVars
  <2>12. CASE EndApply(q)
    <3>1. pc'[q] \in {"manifest", "done", "scan", "lock"}
      BY <1>0, <2>12 DEF EndApply
    <3> QED BY <3>1
  <2>13. CASE FetchFails(q)
    BY <1>0, <2>2, <2>13 DEF FetchFails, goalVars
  <2>14. CASE InstallFails(q)
    BY <1>0, <2>2, <2>14 DEF InstallFails, SourceGone, goalVars, workVars
  <2>15. CASE Declare(q)
    BY <1>0, <2>2, <2>15 DEF Declare, WriteManifest, WriteLock, LockReturns, ScanMarkers,
       ApplyGitignore, Return, goalVars, workVars
  <2>16. CASE Load(q) \/ Finish(q) \/ Confirm(q) \/ Fault(q)
    BY <1>0, <2>2, <2>16 DEF Load, Finish, Confirm, Fault, Crash, RefreshFails, FinalizeFails, Return,
       goalVars, workVars
  <2> QED BY <1>2, <2>1, <2>3, <2>4, <2>5, <2>6, <2>7, <2>8, <2>9, <2>10, <2>11, <2>12, <2>13,
             <2>14, <2>15, <2>16 DEF Acts, Run, Plan, Install
<1> QED BY <1>1, <1>2, ActsAreOwn, EnvironmentIsOutside DEF Next, Acts

LEMMA HashesStep ==
  ASSUME Typed, HashesAreOfHub, [Next]_vars
  PROVE  HashesAreOfHub'
<1>1. ASSUME NEW p \in Procs, Marking(p) PROVE HashesAreOfHub'
  <2>1. PICK kept \in Extents : pc[p] = "mark" /\ marker' = Marks(p, kept)
    BY <1>1 DEF Marking
  <2> QED BY <2>1 DEF Marks, HashesAreOfHub, Managed, Typed, TypeOK, FilesOK, ProcsOK
<1>2. ASSUME NEW p \in Procs, HashFile(p) PROVE HashesAreOfHub'
  BY <1>2 DEF HashFile, HashesAreOfHub, Managed, fileVars
<1>3. CASE Calm
  BY <1>3 DEF Calm, HashesAreOfHub, Managed
<1> QED BY <1>1, <1>2, <1>3, NextIsCalm

LEMMA RefreshSparesStep ==
  ASSUME Quiet, Spared, [Next]_vars
  PROVE  RefreshSpares'
<1> SUFFICES ASSUME NEW q \in Procs, job'[q].cmd = "update", ~job'[q].force,
                    NEW l \in Locs, NEW i \in Files, Awaits(q, l)', disk'[l][i] = Edited
             PROVE  FALSE
  BY DEF RefreshSpares
<1>1. CASE Awaits(q, l) /\ job'[q] = job[q]
  <2>1. disk[l][i] # Edited
    BY <1>1 DEF Spared, RefreshSpares
  <2>2. pc[q] # "idle"
    BY <1>1 DEF Awaits, Working, Installing
  <2> QED BY <2>1, <2>2, EditsAreTheDevelopers DEF Spared
<1>2. CASE PlanUpdate(q) /\ l \in Refreshed(q) /\ job'[q] = job[q]
  <2>1. disk[l] = marker[l].hash /\ l \in Managed
    BY <1>2 DEF Refreshed, Attributed, Installed, UpdateAction, Drifted
  <2>2. disk[l] \in HubTrees /\ disk' = disk
    BY <1>2, <2>1 DEF Spared, HashesAreOfHub, PlanUpdate, fileVars
  <2> QED BY <2>2, NoEditInHub
<1>3. CASE PlanUpdate(q) /\ l \in todo'[q] /\ job'[q] = job[q]
  BY <1>2, <1>3 DEF PlanUpdate, Spared, Typed, TypeOK, ProcsOK
<1>4. CASE PlanInstall(q) \/ PlanInit(q) \/ PlanSwitch(q)
  BY <1>4 DEF PlanInstall, PlanInit, PlanSwitch, Stop, Spared, Typed, TypeOK, ProcsOK, NoJob
<1> QED BY <1>1, <1>3, <1>4, InstallsAwaitTheirPlan DEF Spared

\* Who loses an edit: the developer, a removal, a forced copy, or a flat install.
LEMMA Losses ==
  ASSUME Typed, [Next]_vars, NEW l \in Locs, NEW i \in Files,
         disk[l][i] = Edited, disk'[l][i] # Edited
  PROVE  \/ edits' # edits
         \/ \E p \in Procs : /\ at[p] = l
                             /\ \/ pc[p] = "removing"
                                \/ pc[p] = "copy" /\ (job[p].cmd = "update" \/ ~IsDir(l))
<1> DEFINE Blamed == \/ edits' # edits
                     \/ \E p \in Procs :
                          /\ at[p] = l
                          /\ \/ pc[p] = "removing"
                             \/ pc[p] = "copy" /\ (job[p].cmd = "update" \/ ~IsDir(l))
<1>0. disk \in [Locs -> [Files -> Content]] /\ edits \in Nat
  BY DEF Typed, TypeOK, FilesOK, Trees
<1>1. CASE Environment
  BY <1>0, <1>1 DEF Environment, UserWritesFile, UserDeletesFile, UserRemovesInstall, MayEdit,
     UserEditsManifest, UserRemovesManifest, HubPublishes, OtherProjectLoads, OtherProjectWrites, fileVars
<1>2. CASE UNCHANGED vars
  BY <1>2 DEF vars, fileVars
<1>3. ASSUME NEW p \in Procs, Acts(p) PROVE Blamed
  <2>1. ASSUME NEW m, NEW j, NEW b, disk' = [disk EXCEPT ![m][j] = b] PROVE m = l /\ j = i
    BY <1>0, <2>1
  <2>2. CASE disk' = disk
    BY <2>2
  <2>3. CASE RemoveFile(p)
    BY <2>1, <2>3 DEF RemoveFile
  <2>4. ASSUME Copies(p, idx[p]), at[p] = l, idx[p] = i PROVE job[p].cmd = "update"
    BY <2>4, BlobsAssumption DEF Copies, Overwrite
  <2>5. CASE CopyFile(p)
    BY <2>1, <2>2, <2>4, <2>5 DEF CopyFile
  <2>6. CASE CopyFlat(p)
    BY <2>1, <2>6 DEF CopyFlat
  <2>7. CASE Fault(p)
    <3>1. Interrupted(p)
      BY <2>7 DEF Fault, Crash, RefreshFails, FinalizeFails, Interrupted
    <3>2. CASE disk' # disk
      <4>1. /\ pc[p] = "copy" /\ Copies(p, idx[p])
            /\ disk' = [disk EXCEPT ![at[p]][idx[p]] = Torn]
        BY <3>1, <3>2 DEF Interrupted, fileVars
      <4>2. at[p] = l /\ idx[p] = i
        BY <2>1, <4>1
      <4> QED BY <2>4, <4>1, <4>2
    <3> QED BY <2>2, <3>2
  <2>8. CASE Start(p) \/ Plan(p) \/ Declare(p) \/ Load(p) \/ Finish(p) \/ Confirm(p)
    BY <2>2, <2>8 DEF Start, StartInstall, GenerateFromLegacy, StartInit, StartSwitch, StartUpdate,
       StartUninstall, Launch, Plan, PlanInstall, PlanInit, PlanSwitch, PlanUpdate, PlanReturns,
       Declare, WriteManifest, WriteLock, LockReturns, ScanMarkers, ApplyGitignore,
       Load, Finish, Confirm, Return, fileVars
  <2>9. CASE Uninstalling(p)
    BY <2>2, <2>3, <2>9 DEF Uninstalling, BeginRemove, RemoveMarker, Removed, EndRemove, fileVars
  <2>10. CASE Install(p)
    <3>1. CASE BeginInstall(p) \/ FetchFails(p) \/ HashFile(p) \/ CheckMarker(p)
               \/ InstallFails(p) \/ WriteMarker(p) \/ EndApply(p)
      BY <2>2, <3>1 DEF BeginInstall, FetchFails, HashFile, CheckMarker, InstallFails, WriteMarker,
         EndApply, fileVars
    <3> QED BY <2>5, <2>6, <2>10, <3>1 DEF Install
  <2> QED BY <1>3, <2>7, <2>8, <2>9, <2>10 DEF Acts, Run
<1> QED BY <1>1, <1>2, <1>3 DEF Next, Acts

\* LocalEditsKept: when nobody edits while a command runs, a file the developer
\* wrote is lost only to the developer, to a removal, to `fdh update --force`, or
\* to an install into a flat layout, however many commands run, on whatever cache.
THEOREM EditsAreKept == ASSUME Quiet PROVE Spec => LocalEditsKept
<1>1. Init => Spared
  <2> SUFFICES ASSUME Init PROVE Spared
    OBVIOUS
  <2>1. HashesAreOfHub /\ RefreshSpares
    BY DEF Init, HashesAreOfHub, Managed, RefreshSpares, Awaits, Working, Installing
  <2> QED BY <2>1, InitTyping DEF Spared
<1>2. Spared /\ [Next]_vars => Spared'
  BY NextTyping, HashesStep, RefreshSparesStep DEF Spared
<1> DEFINE Kept ==
      \A l \in Locs, i \in Files :
        disk[l][i] = Edited /\ disk'[l][i] # Edited =>
          \/ edits' # edits
          \/ \E p \in Procs : at[p] = l /\ ( \/ pc[p] = "removing"
                                             \/ job[p].force
                                             \/ ~IsDir(l) /\ job[p].cmd # "update" )
<1>3. Spared /\ [Next]_vars => Kept
  <2> SUFFICES ASSUME Spared, [Next]_vars, NEW l \in Locs, NEW i \in Files,
                      disk[l][i] = Edited, disk'[l][i] # Edited, edits' = edits
               PROVE  \E p \in Procs : at[p] = l /\ ( \/ pc[p] = "removing"
                                                      \/ job[p].force
                                                      \/ ~IsDir(l) /\ job[p].cmd # "update" )
    OBVIOUS
  <2>1. PICK p \in Procs : /\ at[p] = l
                           /\ \/ pc[p] = "removing"
                              \/ pc[p] = "copy" /\ (job[p].cmd = "update" \/ ~IsDir(l))
    BY Losses DEF Spared
  <2>2. CASE pc[p] = "copy" /\ job[p].cmd = "update"
    <3>1. Awaits(p, l)
      BY <2>1, <2>2 DEF Awaits, Installing
    <3> QED BY <2>1, <2>2, <3>1 DEF Spared, RefreshSpares
  <2> QED BY <2>1, <2>2
<1>4. Spared /\ [Next]_vars => [Kept]_vars
  BY <1>3
<1>5. LocalEditsKept <=> [][Kept]_vars
  BY DEF LocalEditsKept
<1> HIDE DEF Kept
<1> QED BY <1>1, <1>2, <1>4, <1>5, PTL DEF Spec

(***************************************************************************)
(* What a removal takes: SwitchSparesWanted, for any number of commands,   *)
(* when no two components of the hub share a name.                         *)
(***************************************************************************)
OneKindPerName == \A c \in Comps, d \in Comps : NameOf[c] = NameOf[d] => c = d

\* Location l is one that p is to remove, or is removing.
Condemned(p, l) ==
  \/ pc[p] \in {"remove", "removing"} /\ l \in del[p]
  \/ pc[p] = "removing" /\ l = at[p]

SparesWanted ==
  \A p \in Procs : job[p].cmd = "switch" =>
    \A l \in Locs : Condemned(p, l) => Comp(l) \notin want[p]

LEMMA NamesTell ==
  ASSUME OneKindPerName, NEW C \in SUBSET Comps, NEW l \in SameName(C)
  PROVE  Comp(l) \in C
BY DEF OneKindPerName, SameName, Installed, Managed, Locs, Comp

\* Only the plan of a switch, or the start of an uninstall, condemns a location.
LEMMA RemovalsAwaitTheirPlan ==
  ASSUME Typed, [Next]_vars, NEW q \in Procs, NEW l \in Locs, Condemned(q, l)'
  PROVE  \/ Condemned(q, l) /\ job'[q] = job[q] /\ want'[q] = want[q] /\ old'[q] = old[q]
         \/ PlanSwitch(q)
         \/ \E c \in Comps : StartUninstall(q, c)
<1>0. /\ pc \in [Procs -> Steps] /\ job \in [Procs -> Jobs] /\ del \in [Procs -> SUBSET Locs]
      /\ at \in [Procs -> Locs \union {NoLoc}]
  BY DEF Typed, TypeOK, ProcsOK
<1>1. CASE Same(q)
  BY <1>1 DEF Same, Condemned
<1>2. CASE Acts(q)
  <2> USE DEF Condemned, Goto
  <2>1. CASE Start(q)
    <3>1. ASSUME NEW j, NEW m, Launch(q, j, m) PROVE FALSE
      <4>1. pc'[q] = "load"
        BY <1>0, <3>1 DEF Launch
      <4> QED BY <4>1
    <3>2. CASE GenerateFromLegacy(q)
      BY <3>2 DEF GenerateFromLegacy, goalVars, workVars
    <3> QED BY <2>1, <3>1, <3>2 DEF Start, StartInstall, StartInit, StartSwitch, StartUpdate
  <2>2. ASSUME Stop(q) PROVE FALSE
    <3>1. pc'[q] = "idle"
      BY <1>0, <2>2 DEF Stop
    <3> QED BY <3>1
  <2>3. CASE PlanInstall(q) \/ PlanInit(q) \/ PlanUpdate(q) \/ PlanReturns(q)
    BY <1>0, <2>2, <2>3 DEF PlanInstall, PlanInit, PlanUpdate, PlanReturns, Return
  <2>4. CASE Uninstalling(q)
    BY <1>0, <2>4 DEF Uninstalling, BeginRemove, RemoveFile, RemoveMarker, Removed, EndRemove,
       goalVars, workVars
  <2>5. CASE Install(q)
    <3>1. CASE BeginInstall(q)
      BY <1>0, <3>1 DEF BeginInstall
    <3>2. CASE HashFile(q) \/ CopyFile(q)
      BY <1>0, <3>2 DEF HashFile, CopyFile, NextFile, goalVars
    <3>3. CASE CheckMarker(q) \/ CopyFlat(q) \/ WriteMarker(q)
      BY <1>0, <3>3 DEF CheckMarker, CopyFlat, WriteMarker, goalVars, workVars
    <3>4. CASE EndApply(q)
      <4>1. pc'[q] \in {"manifest", "done", "scan", "lock"}
        BY <1>0, <3>4 DEF EndApply
      <4> QED BY <4>1
    <3>5. CASE FetchFails(q)
      BY <1>0, <2>2, <3>5 DEF FetchFails, goalVars
    <3>6. CASE InstallFails(q)
      BY <1>0, <2>2, <3>6 DEF InstallFails, SourceGone, goalVars, workVars
    <3> QED BY <2>5, <3>1, <3>2, <3>3, <3>4, <3>5, <3>6 DEF Install
  <2>6. CASE Declare(q)
    BY <1>0, <2>2, <2>6 DEF Declare, WriteManifest, WriteLock, LockReturns, ScanMarkers,
       ApplyGitignore, Return, goalVars, workVars
  <2>7. CASE Load(q) \/ Finish(q) \/ Confirm(q) \/ Fault(q)
    BY <1>0, <2>2, <2>7 DEF Load, Finish, Confirm, Fault, Crash, RefreshFails, FinalizeFails, Return,
       goalVars, workVars
  <2> QED BY <1>2, <2>1, <2>3, <2>4, <2>5, <2>6, <2>7 DEF Acts, Run, Plan
<1> QED BY <1>1, <1>2, ActsAreOwn, EnvironmentIsOutside DEF Next, Acts

LEMMA SparesWantedStep ==
  ASSUME OneKindPerName, Typed, SparesWanted, [Next]_vars
  PROVE  SparesWanted'
<1> SUFFICES ASSUME NEW q \in Procs, job'[q].cmd = "switch", NEW l \in Locs, Condemned(q, l)'
             PROVE  Comp(l) \notin want'[q]
  BY DEF SparesWanted
<1>0. job \in [Procs -> Jobs]
  BY DEF Typed, TypeOK, ProcsOK
<1>1. CASE Condemned(q, l) /\ job'[q] = job[q] /\ want'[q] = want[q]
  BY <1>1 DEF SparesWanted
<1>2. CASE PlanSwitch(q)
  <2> DEFINE O == Expand(man[q], cacheHead)
             N == Expand(Retarget(man[q], job[q].to), cacheHead)
  <2>1. /\ pc'[q] = "remove"
        /\ del'[q] = {k \in SameName(Uninstalls(O, N)) : IsDir(k)}
        /\ want'[q] = N
    BY <1>2 DEF PlanSwitch, Goto, Typed, TypeOK, ProcsOK
  <2>2. Uninstalls(O, N) \in SUBSET Comps
    BY ManifestTyping DEF Uninstalls, Typed, TypeOK, FilesOK, ProcsOK
  <2>3. l \in SameName(Uninstalls(O, N))
    BY <2>1 DEF Condemned
  <2>4. Comp(l) \in Uninstalls(O, N)
    BY <2>2, <2>3, NamesTell
  <2> QED BY <2>1, <2>4 DEF Uninstalls
<1>3. ASSUME NEW c \in Comps, StartUninstall(q, c) PROVE FALSE
  <2>1. job'[q].cmd = "uninstall"
    BY <1>0, <1>3 DEF StartUninstall, NoJob
  <2> QED BY <2>1
<1> QED BY <1>1, <1>2, <1>3, RemovalsAwaitTheirPlan

\* SwitchSparesWanted: when no two components share a name, a switch takes no
\* marker of a component that its new resolution wants.
THEOREM WantedIsSpared == ASSUME OneKindPerName PROVE Spec => SwitchSparesWanted
<1>1. Init => Typed /\ SparesWanted
  BY InitTyping DEF Init, SparesWanted, Condemned
<1>2. Typed /\ SparesWanted /\ [Next]_vars => (Typed /\ SparesWanted)'
  BY NextTyping, SparesWantedStep
<1> DEFINE Spares ==
      \A l \in Locs : \A p \in Procs :
        job[p].cmd = "switch" /\ pc[p] = "removing" /\ at[p] = l /\ marker'[l] # marker[l]
          => Comp(l) \notin want[p]
<1>3. SparesWanted => Spares
  BY DEF SparesWanted, Condemned
<1>4. SwitchSparesWanted <=> [][Spares]_vars
  BY DEF SwitchSparesWanted
<1> HIDE DEF Spares
<1> QED BY <1>1, <1>2, <1>3, <1>4, PTL DEF Spec

(***************************************************************************)
(* One command at a time, and nobody edits while it runs.                  *)
(***************************************************************************)
Solo(p) == Procs = {p} /\ Quiet

\* The command is over, or has planned nothing yet.
Unplanned(p) == pc[p] \in {"idle", "load", "plan"}

\* What goes on beside the commands leaves the project alone.
Beside == UNCHANGED <<fileVars, declVars, envVars, pc, goalVars, workVars, scan>>

\* The answer to update, the planned switch, install or init, an update that skips or
\* gives up one refresh.
Answered(p) == pc[p] = "confirm" /\ Goto(p, "apply")
               /\ UNCHANGED <<fileVars, declVars, envVars, goalVars, workVars, scan>>
PlannedInit(p) ==
  pc[p] = "plan" /\ job[p].cmd = "init" /\ pc' = [pc EXCEPT ![p] = "apply"] /\ job' = job
SkipsRefresh(p) ==
  /\ pc[p] = "apply" /\ job[p].cmd = "update"
  /\ \E l \in todo[p] : ~Fetchable(Comp(l)) /\ todo' = [todo EXCEPT ![p] = @ \ {l}]
  /\ UNCHANGED <<fileVars, declVars, envVars, pc, goalVars, del, at, idx, src, scan>>
GivesUpRefresh(p) ==
  /\ SourceGone(p) /\ job[p].cmd = "update" /\ Goto(p, "apply")
  /\ UNCHANGED <<fileVars, declVars, envVars, goalVars, workVars, scan>>

Plans(p) == PlanInstall(p) \/ PlannedInit(p) \/ PlanSwitch(p) \/ PlanUpdate(p) \/ Answered(p)

\* An init that reports success without a lock or a managed block of its own.
Excused(p) ==
  /\ job[p].cmd = "init" /\ pc[p] \in {"lock", "ignore"} /\ Goto(p, "done")
  /\ UNCHANGED <<fileVars, declVars, goalVars, workVars, scan>>
Refuses(p) == SkipsRefresh(p) \/ GivesUpRefresh(p) \/ RefreshFails(p)
Writes(p) ==
  BeginInstall(p) \/ HashFile(p) \/ CheckMarker(p) \/ CopyFile(p) \/ CopyFlat(p)
    \/ WriteMarker(p) \/ EndApply(p)
Closes(p) == WriteManifest(p) \/ WriteLock(p) \/ ScanMarkers(p) \/ ApplyGitignore(p)

\* The steps of a project in which p is the only command.
LEMMA SoloSteps ==
  ASSUME Typed, [Next]_vars, NEW p \in Procs, Solo(p)
  PROVE  \/ Unplanned(p)'
         \/ Beside
         \/ \E c \in Comps : StartUninstall(p, c)
         \/ Plans(p) \/ Uninstalling(p) \/ Writes(p) \/ Refuses(p) \/ Closes(p) \/ Excused(p)
<1>0. pc \in [Procs -> Steps]
  BY DEF Typed, TypeOK, ProcsOK
<1> DEFINE Listed == \/ Unplanned(p)'
                     \/ Beside
                     \/ \E c \in Comps : StartUninstall(p, c)
                     \/ Plans(p) \/ Uninstalling(p) \/ Writes(p) \/ Refuses(p) \/ Closes(p) \/ Excused(p)
<1>1. CASE Environment
  <2>1. CASE MayEdit /\ UNCHANGED pc
    BY <2>1 DEF MayEdit, Solo, Quiet, Unplanned
  <2>2. CASE HubPublishes \/ OtherProjectLoads \/ \E c \in Comps, i \in Files : OtherProjectWrites(c, i)
    BY <2>2 DEF HubPublishes, OtherProjectLoads, OtherProjectWrites, Beside
  <2> QED BY <1>1, <2>1, <2>2 DEF Environment, UserWritesFile, UserDeletesFile, UserRemovesInstall,
          UserEditsManifest, UserRemovesManifest
<1>2. CASE UNCHANGED vars
  BY <1>2 DEF vars, Beside
<1>3. CASE Start(p)
  <2>1. ASSUME NEW j, NEW m, Launch(p, j, m) PROVE Unplanned(p)'
    BY <1>0, <2>1 DEF Launch, Goto, Unplanned
  <2>2. CASE GenerateFromLegacy(p)
    BY <2>2 DEF GenerateFromLegacy, Unplanned
  <2> QED BY <1>3, <2>1, <2>2 DEF Start, StartInstall, StartInit, StartSwitch, StartUpdate
<1>4. ASSUME Stop(p) PROVE Unplanned(p)'
  BY <1>0, <1>4 DEF Stop, Goto, Unplanned
<1>5. CASE Plan(p)
  BY <1>4, <1>5 DEF Plan, PlanInit, PlanReturns, Return, Plans, PlannedInit, Goto
<1>6. CASE Install(p)
  BY <1>4, <1>6 DEF Install, Writes, FetchFails, InstallFails, Refuses, SkipsRefresh, GivesUpRefresh
<1>7. CASE Declare(p)
  BY <1>4, <1>7 DEF Declare, Closes, LockReturns, Return, Excused
<1>8. CASE Load(p) \/ Finish(p) \/ Confirm(p) \/ Fault(p)
  <2>1. CASE Load(p)
    BY <1>0, <2>1 DEF Load, Goto, Unplanned
  <2>2. CASE Confirm(p)
    BY <1>4, <2>2 DEF Confirm, Return, Plans, Answered
  <2>3. CASE Finish(p) \/ Fault(p)
    BY <1>4, <2>3 DEF Finish, Return, Fault, Crash, Refuses, FinalizeFails, Excused
  <2> QED BY <1>8, <2>1, <2>2, <2>3
<1>9. CASE Uninstalling(p)
  BY <1>9
<1> QED BY <1>1, <1>2, <1>3, <1>5, <1>6, <1>7, <1>8, <1>9 DEF Next, Run, Solo

(***************************************************************************)
(* The managed block: IgnoreExact.                                         *)
(***************************************************************************)
IgnoreFollows ==
  \A p \in Procs :
    /\ pc[p] = "ignore" => scan[p] = Managed
    /\ pc[p] = "done" /\ job[p].cmd \in {"install", "switch", "uninstall"} =>
         gitignore = Managed

LEMMA IgnoreStep ==
  ASSUME Typed, IgnoreFollows, [Next]_vars, NEW p \in Procs, Solo(p)
  PROVE  IgnoreFollows'
<1>0. /\ pc \in [Procs -> Steps] /\ job \in [Procs -> Jobs] /\ scan \in [Procs -> SUBSET Locs]
      /\ \A q \in Procs : q = p
  BY DEF Typed, TypeOK, ProcsOK, Solo
<1>1. CASE pc'[p] \notin {"ignore", "done"}
  BY <1>0, <1>1 DEF IgnoreFollows
<1>2. CASE Beside
  BY <1>2 DEF Beside, fileVars, declVars, goalVars, IgnoreFollows, Managed
<1>3. CASE Plans(p) \/ Refuses(p) \/ \E c \in Comps : StartUninstall(p, c)
  <2>1. pc'[p] \in {"apply", "remove", "confirm"} \/ (pc'[p] = pc[p] /\ pc[p] = "apply")
    BY <1>0, <1>3 DEF Plans, PlanInstall, PlannedInit, PlanSwitch, PlanUpdate, Answered,
       Refuses, SkipsRefresh, GivesUpRefresh, RefreshFails, StartUninstall, Goto
  <2> QED BY <1>1, <2>1
<1>4. CASE Uninstalling(p)
  <2>1. pc'[p] \notin {"ignore", "done"}
    BY <1>0, <1>4 DEF Uninstalling, BeginRemove, RemoveFile, RemoveMarker, Removed, EndRemove, Goto
  <2> QED BY <1>1, <2>1
<1>5. CASE Writes(p)
  <2>1. CASE EndApply(p)
    <3>1. /\ pc'[p] \in {"manifest", "scan", "lock"} \/ job[p].cmd = "update"
          /\ pc'[p] \in {"manifest", "scan", "lock", "done"} /\ job' = job
      BY <1>0, <2>1 DEF EndApply, Goto, goalVars
    <3> QED BY <1>0, <3>1 DEF IgnoreFollows
  <2>2. CASE ~EndApply(p)
    <3>1. pc'[p] \notin {"ignore", "done"}
      BY <1>0, <1>5, <2>2 DEF Writes, BeginInstall, HashFile, CheckMarker, CopyFile, CopyFlat,
         WriteMarker, NextFile, Goto
    <3> QED BY <1>1, <3>1
  <2> QED BY <2>1, <2>2
<1>6. CASE Closes(p)
  <2>1. CASE WriteManifest(p) \/ WriteLock(p)
    <3>1. pc'[p] \notin {"ignore", "done"}
      BY <1>0, <2>1 DEF WriteManifest, WriteLock, Goto
    <3> QED BY <1>1, <3>1
  <2>2. CASE ScanMarkers(p)
    BY <1>0, <2>2 DEF ScanMarkers, Goto, IgnoreFollows, Managed, fileVars
  <2>3. CASE ApplyGitignore(p)
    BY <1>0, <2>3 DEF ApplyGitignore, Goto, IgnoreFollows, Managed, fileVars
  <2> QED BY <1>6, <2>1, <2>2, <2>3 DEF Closes
<1>7. CASE Excused(p)
  BY <1>0, <1>7 DEF Excused, Goto, IgnoreFollows, goalVars
<1> QED BY <1>1, <1>2, <1>3, <1>4, <1>5, <1>6, <1>7, SoloSteps DEF Unplanned

\* IgnoreExact: with one command at a time and no edits beside it, an install, switch
\* or uninstall ends with a block that lists exactly the marked locations.
THEOREM IgnoreIsExact ==
  ASSUME Quiet, \E p \in Procs : Procs = {p}
  PROVE  Spec => []IgnoreExact
<1>1. PICK p \in Procs : Solo(p)
  BY DEF Solo
<1>2. Init => Typed /\ IgnoreFollows
  BY InitTyping DEF Init, IgnoreFollows
<1>3. Typed /\ IgnoreFollows /\ [Next]_vars => (Typed /\ IgnoreFollows)'
  BY <1>1, NextTyping, IgnoreStep
<1>4. Typed /\ IgnoreFollows => IgnoreExact
  BY DEF Typed, IgnoreFollows, IgnoreExact
<1> QED BY <1>2, <1>3, <1>4, PTL DEF Spec

(***************************************************************************)
(* What is left of what was removed: RemovedIsGone.                        *)
(***************************************************************************)
\* The steps each command goes through.
OnTrack ==
  \A p \in Procs :
    /\ job[p].cmd = "uninstall" => pc[p] \in {"remove", "removing", "scan", "ignore", "done"}
    /\ job[p].cmd = "update" =>
         pc[p] \in {"load", "plan", "confirm", "apply", "hash", "check", "copy", "mark", "done"}
    /\ job[p].cmd = "install" => pc[p] \notin {"confirm", "remove", "removing", "manifest"}
    /\ job[p].cmd = "switch" => pc[p] # "confirm"

LEMMA JobCommands ==
  /\ \A f \in BOOLEAN : [NoJob EXCEPT !.cmd = "install", !.frozen = f].cmd = "install"
  /\ \A f \in BOOLEAN : [NoJob EXCEPT !.cmd = "update", !.force = f].cmd = "update"
  /\ \A h \in Harnesses : [NoJob EXCEPT !.cmd = "init", !.to = h].cmd = "init"
  /\ \A g, h : [NoJob EXCEPT !.cmd = "switch", !.from = g, !.to = h].cmd = "switch"
  /\ [NoJob EXCEPT !.cmd = "uninstall"].cmd = "uninstall"
BY Zenon DEF NoJob

LEMMA OnTrackStep ==
  ASSUME Typed, OnTrack, [Next]_vars
  PROVE  OnTrack'
<1> SUFFICES ASSUME NEW q \in Procs
             PROVE  /\ job'[q].cmd = "uninstall" =>
                         pc'[q] \in {"remove", "removing", "scan", "ignore", "done"}
                    /\ job'[q].cmd = "update" =>
                         pc'[q] \in {"load", "plan", "confirm", "apply", "hash", "check", "copy",
                                     "mark", "done"}
                    /\ job'[q].cmd = "install" =>
                         pc'[q] \notin {"confirm", "remove", "removing", "manifest"}
                    /\ job'[q].cmd = "switch" => pc'[q] # "confirm"
  BY DEF OnTrack
<1>0. /\ pc \in [Procs -> Steps] /\ job \in [Procs -> Jobs]
  BY DEF Typed, TypeOK, ProcsOK
<1>1. CASE Same(q)
  BY <1>1 DEF Same, OnTrack
<1>2. CASE Acts(q)
  <2> USE <1>0 DEF Goto, OnTrack
  <2>1. CASE Start(q)
    <3>1. ASSUME NEW c \in Comps, StartUninstall(q, c)
          PROVE  job'[q].cmd = "uninstall" /\ pc'[q] = "remove"
      BY <3>1 DEF StartUninstall, NoJob
    <3>2. ASSUME NEW j, NEW m, Launch(q, j, m) PROVE pc'[q] = "load" /\ job'[q] = j
      BY <3>2 DEF Launch
    <3>3. CASE GenerateFromLegacy(q)
      BY <3>3 DEF GenerateFromLegacy, goalVars
    <3>4. ASSUME NEW f \in BOOLEAN, StartInstall(q, f) PROVE job'[q].cmd = "install" /\ pc'[q] = "load"
      <4> DEFINE j == [NoJob EXCEPT !.cmd = "install", !.frozen = f]
      <4>1. Launch(q, j, manifest)
        BY <3>4 DEF StartInstall
      <4>2. j.cmd = "install"
        BY JobCommands
      <4> HIDE DEF j
      <4> QED BY <3>2, <4>1, <4>2
    <3>5. ASSUME NEW h \in Harnesses, StartInit(q, h) PROVE job'[q].cmd = "init" /\ pc'[q] = "load"
      <4> DEFINE j == [NoJob EXCEPT !.cmd = "init", !.to = h]
      <4>1. Launch(q, j, EmptyManifest)
        BY <3>5 DEF StartInit
      <4>2. j.cmd = "init"
        BY JobCommands
      <4> HIDE DEF j
      <4> QED BY <3>2, <4>1, <4>2
    <3>6. ASSUME NEW h \in Harnesses, StartSwitch(q, h) PROVE job'[q].cmd = "switch" /\ pc'[q] = "load"
      <4> DEFINE j == [NoJob EXCEPT !.cmd = "switch", !.from = manifest.harness, !.to = h]
      <4>1. Launch(q, j, manifest)
        BY <3>6 DEF StartSwitch
      <4>2. j.cmd = "switch"
        BY JobCommands
      <4> HIDE DEF j
      <4> QED BY <3>2, <4>1, <4>2
    <3>7. ASSUME NEW f \in BOOLEAN, StartUpdate(q, f) PROVE job'[q].cmd = "update" /\ pc'[q] = "load"
      <4> DEFINE j == [NoJob EXCEPT !.cmd = "update", !.force = f]
      <4>1. Launch(q, j, EmptyManifest)
        BY <3>7 DEF StartUpdate
      <4>2. j.cmd = "update"
        BY JobCommands
      <4> HIDE DEF j
      <4> QED BY <3>2, <4>1, <4>2
    <3> QED BY <2>1, <3>1, <3>3, <3>4, <3>5, <3>6, <3>7 DEF Start
  <2>2. ASSUME Stop(q) PROVE job'[q].cmd = "none"
    BY <2>2 DEF Stop, NoJob
  <2>3. CASE Plan(q)
    BY <2>2, <2>3 DEF Plan, PlanInstall, PlanInit, PlanSwitch, PlanUpdate, PlanReturns, Return, goalVars
  <2>4. CASE Uninstalling(q)
    BY <2>4 DEF Uninstalling, BeginRemove, RemoveFile, RemoveMarker, Removed, EndRemove, goalVars
  <2>5. CASE BeginInstall(q) \/ CheckMarker(q) \/ CopyFlat(q) \/ WriteMarker(q)
    BY <2>5 DEF BeginInstall, CheckMarker, CopyFlat, WriteMarker, goalVars
  <2>6. CASE HashFile(q) \/ CopyFile(q)
    BY <2>6 DEF HashFile, CopyFile, NextFile, goalVars
  <2>7. CASE EndApply(q)
    <3>1. /\ pc[q] = "apply" /\ job' = job
          /\ job[q].cmd = "switch" => pc'[q] = "manifest"
          /\ job[q].cmd = "update" => pc'[q] = "done"
          /\ job[q].cmd \notin {"switch", "update"} => pc'[q] \in {"scan", "lock"}
      BY <2>7 DEF EndApply, goalVars
    <3> QED BY <3>1
  <2>8. CASE FetchFails(q) \/ InstallFails(q)
    BY <2>2, <2>8 DEF FetchFails, InstallFails, SourceGone, goalVars
  <2>9. CASE Declare(q)
    BY <2>2, <2>9 DEF Declare, WriteManifest, WriteLock, LockReturns, ScanMarkers,
       ApplyGitignore, Return, goalVars
  <2>10. CASE Load(q) \/ Finish(q) \/ Confirm(q) \/ Fault(q)
    BY <2>2, <2>10 DEF Load, Finish, Confirm, Fault, Crash, RefreshFails, FinalizeFails, Return, goalVars
  <2> QED BY <1>2, <2>1, <2>3, <2>4, <2>5, <2>6, <2>7, <2>8, <2>9, <2>10 DEF Acts, Run, Install
<1> QED BY <1>1, <1>2, ActsAreOwn, EnvironmentIsOutside DEF Next, Acts

LEMMA InitOnTrack == Init => OnTrack
BY DEF Init, OnTrack, NoJob

\* Whatever fdh still recognises as a removed component, it is to remove.
UninstallTakesAll(p) ==
  job[p].cmd = "uninstall" => \A l \in Candidates(old[p]) : Condemned(p, l)
SwitchTakesAll(p) ==
  job[p].cmd = "switch" /\ ~Unplanned(p) =>
    /\ \A l \in SameName(old[p] \ want[p]) : IsDir(l) => Condemned(p, l)
    /\ \A l \in Locs : Awaits(p, l) => Comp(l) \in want[p]

\* Only the end of an installation marks a location, or marks it anew.
LEMMA OnlyInstallsMark ==
  ASSUME Typed, [Next]_vars, NEW l \in Locs, marker'[l] # Nothing
  PROVE  marker'[l] = marker[l] \/ \E p \in Procs : Marking(p) /\ at[p] = l
<1>1. CASE Calm
  BY <1>1 DEF Calm
<1>2. ASSUME NEW p \in Procs, HashFile(p) PROVE marker' = marker
  BY <1>2 DEF HashFile, fileVars
<1>3. ASSUME NEW p \in Procs, Marking(p), at[p] # l PROVE marker'[l] = marker[l]
  BY <1>3 DEF Marking, Marks, Typed, TypeOK, FilesOK
<1> QED BY <1>1, <1>2, <1>3, NextIsCalm

LEMMA UninstallStep ==
  ASSUME Typed, OnTrack, NEW p \in Procs, Solo(p), UninstallTakesAll(p), [Next]_vars
  PROVE  UninstallTakesAll(p)'
<1> SUFFICES ASSUME job'[p].cmd = "uninstall", NEW l \in Locs, l \in Candidates(old[p])'
             PROVE  Condemned(p, l)'
  BY DEF UninstallTakesAll, Candidates, SameName, Installed, Managed
<1>0. /\ pc \in [Procs -> Steps] /\ job \in [Procs -> Jobs] /\ at \in [Procs -> Locs \union {NoLoc}]
      /\ del \in [Procs -> SUBSET Locs] /\ old \in [Procs -> SUBSET Comps]
      /\ marker \in [Locs -> Markers \union {Nothing}]
  BY DEF Typed, TypeOK, ProcsOK, FilesOK
<1>1. pc'[p] \in {"remove", "removing", "scan", "ignore", "done"}
  BY OnTrackStep DEF OnTrack
<1>2. marker'[l] # Nothing
  BY DEF Candidates, SameName, Installed, Managed
<1>3. ASSUME NEW c \in Comps, StartUninstall(p, c) PROVE Condemned(p, l)'
  <2>1. /\ old'[p] = {Comp(k) : k \in Candidates({c})} /\ del'[p] = Candidates({c})
        /\ pc'[p] = "remove" /\ marker' = marker
    BY <1>0, <1>3 DEF StartUninstall, Goto, fileVars
  <2>2. l \in Candidates({c})
    BY <2>1 DEF Candidates, Attributed, SameName, Installed, Managed
  <2> QED BY <2>1, <2>2 DEF Condemned
<1>4. CASE Unplanned(p)'
  BY <1>1, <1>4 DEF Unplanned
<1>5. ASSUME job'[p] = job[p], old'[p] = old[p], \A q \in Procs : ~Marking(q)
      PROVE  Condemned(p, l)
  <2>1. marker'[l] = marker[l]
    BY <1>2, <1>5, OnlyInstallsMark
  <2>2. l \in Candidates(old[p])
    BY <1>5, <2>1 DEF Candidates, Attributed, SameName, Installed, Managed
  <2> QED BY <1>5, <2>2 DEF UninstallTakesAll
<1>6. ASSUME pc[p] # "mark" PROVE \A q \in Procs : ~Marking(q)
  BY <1>6 DEF Marking, Solo
<1>7. CASE Beside
  BY <1>5, <1>6, <1>7, <1>1 DEF Beside, goalVars, workVars, Condemned
<1>8. CASE Plans(p) \/ Writes(p) \/ Refuses(p)
  <2>1. pc[p] \in {"plan", "confirm", "apply", "hash", "check", "copy", "mark"} /\ job' = job
    BY <1>8 DEF Plans, PlanInstall, PlannedInit, PlanSwitch, PlanUpdate, Answered,
       Writes, BeginInstall, HashFile, CheckMarker, CopyFile, CopyFlat, WriteMarker, EndApply,
       Refuses, SkipsRefresh, GivesUpRefresh, SourceGone, RefreshFails, goalVars
  <2> QED BY <2>1 DEF OnTrack
<1>9. CASE Closes(p)
  <2>1. pc[p] \in {"manifest", "lock", "scan", "ignore"} /\ UNCHANGED <<job, old>>
    BY <1>9 DEF Closes, WriteManifest, WriteLock, ScanMarkers, ApplyGitignore, goalVars
  <2>2. Condemned(p, l)
    BY <1>5, <1>6, <2>1
  <2> QED BY <2>1, <2>2 DEF Condemned
<1>10. CASE Uninstalling(p)
  <2>1. pc[p] \in {"remove", "removing"} /\ UNCHANGED <<job, old>>
    BY <1>10 DEF Uninstalling, BeginRemove, RemoveFile, RemoveMarker, Removed, EndRemove, goalVars
  <2>2. Condemned(p, l)
    BY <1>5, <1>6, <2>1
  <2> QED BY <1>0, <1>2, <1>10, <2>2 DEF Uninstalling, BeginRemove, RemoveFile, RemoveMarker, Removed,
          EndRemove, Condemned, Goto, goalVars, workVars, fileVars
<1>11. CASE Excused(p)
  BY <1>11 DEF Excused, goalVars
<1> QED BY <1>3, <1>4, <1>7, <1>8, <1>9, <1>10, <1>11, SoloSteps

LEMMA SwitchStep ==
  ASSUME OneKindPerName, Typed, OnTrack, NEW p \in Procs, Solo(p), SwitchTakesAll(p), [Next]_vars
  PROVE  SwitchTakesAll(p)'
<1> SUFFICES ASSUME job'[p].cmd = "switch", ~Unplanned(p)', NEW l \in Locs
             PROVE  /\ l \in SameName(old[p] \ want[p])' /\ IsDir(l) => Condemned(p, l)'
                    /\ Awaits(p, l)' => Comp(l) \in want'[p]
  BY DEF SwitchTakesAll, SameName, Installed, Managed
<1>0. /\ pc \in [Procs -> Steps] /\ job \in [Procs -> Jobs] /\ at \in [Procs -> Locs \union {NoLoc}]
      /\ del \in [Procs -> SUBSET Locs] /\ old \in [Procs -> SUBSET Comps]
      /\ want \in [Procs -> SUBSET Comps] /\ todo \in [Procs -> SUBSET Locs]
      /\ marker \in [Locs -> Markers \union {Nothing}]
  BY DEF Typed, TypeOK, ProcsOK, FilesOK
<1>1. ASSUME Awaits(p, l)' PROVE Comp(l) \in want'[p]
  <2>1. CASE Awaits(p, l) /\ job'[p] = job[p] /\ want'[p] = want[p]
    BY <2>1 DEF SwitchTakesAll, Awaits, Working, Installing, Unplanned
  <2>2. CASE PlanSwitch(p) /\ l \in todo'[p]
    BY <1>0, <2>2 DEF PlanSwitch, LocsOf, Installs
  <2>3. CASE (PlanInstall(p) \/ PlanInit(p) \/ PlanUpdate(p)) /\ job'[p] = job[p]
    BY <2>3 DEF PlanInstall, PlanInit, PlanUpdate
  <2> QED BY <1>1, <2>1, <2>2, <2>3, InstallsAwaitTheirPlan
<1>2. ASSUME l \in SameName(old[p] \ want[p])', IsDir(l) PROVE Condemned(p, l)'
  <2>1. /\ marker'[l] # Nothing /\ HasName(marker'[l]) /\ Comp(l) \in Skills
        /\ NameOf[Comp(l)] \in {NameOf[c] : c \in old'[p] \ want'[p]}
    BY <1>2 DEF SameName, Installed, Managed
  <2>2. ASSUME job'[p] = job[p], ~Unplanned(p), old'[p] = old[p], want'[p] = want[p]
        PROVE  Condemned(p, l)
    <3>1. CASE marker'[l] = marker[l]
      <4>1. l \in SameName(old[p] \ want[p])
        BY <2>1, <2>2, <3>1 DEF SameName, Installed, Managed
      <4> QED BY <1>2, <2>2, <4>1 DEF SwitchTakesAll
    <3>2. CASE marker'[l] # marker[l]
      <4>1. Marking(p) /\ at[p] = l
        BY <2>1, <3>2, OnlyInstallsMark DEF Solo
      <4>2. Awaits(p, l)
        BY <4>1 DEF Marking, Awaits, Installing
      <4>3. Comp(l) \in want[p] /\ Comp(l) \in Comps
        BY <2>2, <4>2 DEF SwitchTakesAll, Locs, Comp
      <4>4. Comp(l) \in old[p] \ want[p]
        BY <1>0, <2>1, <2>2, <4>3 DEF OneKindPerName
      <4> QED BY <4>3, <4>4
    <3> QED BY <3>1, <3>2
  <2>3. ASSUME NEW c \in Comps, StartUninstall(p, c) PROVE FALSE
    <3>1. job'[p].cmd = "uninstall"
      BY <1>0, <2>3 DEF StartUninstall, NoJob
    <3> QED BY <3>1
  <2>4. CASE Beside
    BY <2>2, <2>4 DEF Beside, goalVars, workVars, Condemned, Unplanned
  <2>5. CASE PlanSwitch(p)
    <3> DEFINE O == Expand(man[p], cacheHead)
               N == Expand(Retarget(man[p], job[p].to), cacheHead)
    <3>1. /\ del'[p] = {k \in SameName(Uninstalls(O, N)) : IsDir(k)}
          /\ old'[p] = O /\ want'[p] = N /\ pc'[p] = "remove" /\ marker' = marker
      BY <1>0, <2>5 DEF PlanSwitch, Goto, fileVars
    <3> HIDE DEF O, N
    <3>2. l \in SameName(Uninstalls(O, N))
      BY <2>1, <3>1 DEF SameName, Installed, Managed, Uninstalls
    <3> QED BY <1>2, <3>1, <3>2 DEF Condemned
  <2>6. CASE Plans(p) /\ ~PlanSwitch(p)
    <3>1. job' = job /\ job[p].cmd # "switch"
      BY <2>6 DEF Plans, PlanInstall, PlannedInit, PlanUpdate, Answered, OnTrack, goalVars
    <3> QED BY <3>1
  <2>7. CASE Writes(p) \/ Refuses(p) \/ Closes(p)
    <3>1. /\ pc[p] \in {"apply", "hash", "check", "copy", "mark", "manifest", "lock", "scan", "ignore"}
          /\ UNCHANGED <<job, old, want>>
      BY <2>7 DEF Writes, BeginInstall, HashFile, CheckMarker, CopyFile, CopyFlat, WriteMarker,
         EndApply, Refuses, SkipsRefresh, GivesUpRefresh, SourceGone, RefreshFails,
         Closes, WriteManifest, WriteLock, ScanMarkers, ApplyGitignore, goalVars
    <3>2. Condemned(p, l)
      BY <2>2, <3>1 DEF Unplanned
    <3> QED BY <3>1, <3>2 DEF Condemned
  <2>8. CASE Uninstalling(p)
    <3>1. pc[p] \in {"remove", "removing"} /\ UNCHANGED <<job, old, want>>
      BY <2>8 DEF Uninstalling, BeginRemove, RemoveFile, RemoveMarker, Removed, EndRemove, goalVars
    <3>2. Condemned(p, l)
      BY <2>2, <3>1 DEF Unplanned
    <3> QED BY <1>0, <2>1, <2>8, <3>2 DEF Uninstalling, BeginRemove, RemoveFile, RemoveMarker, Removed,
          EndRemove, Condemned, Goto, goalVars, workVars, fileVars
  <2>9. CASE Excused(p)
    BY <2>9 DEF Excused, goalVars
  <2> QED BY <2>3, <2>4, <2>5, <2>6, <2>7, <2>8, <2>9, SoloSteps
<1> QED BY <1>1, <1>2

\* RemovedIsGone: with one command at a time, no edits beside it and no two components
\* of one name, an uninstall that succeeds leaves nothing that fdh recognises as what it
\* removed, and a switch no directory.
THEOREM RemovedStaysGone ==
  ASSUME Quiet, \E p \in Procs : Procs = {p}, OneKindPerName
  PROVE  Spec => []RemovedIsGone
<1>1. PICK p \in Procs : Solo(p)
  BY DEF Solo
<1> DEFINE Inv == Typed /\ OnTrack /\ UninstallTakesAll(p) /\ SwitchTakesAll(p)
<1>2. Init => Inv
  <2> SUFFICES ASSUME Init PROVE Inv
    OBVIOUS
  <2>1. job[p].cmd = "none"
    BY DEF Init, NoJob
  <2> QED BY <2>1, InitTyping, InitOnTrack DEF UninstallTakesAll, SwitchTakesAll
<1>3. Inv /\ [Next]_vars => Inv'
  BY <1>1, NextTyping, OnTrackStep, UninstallStep, SwitchStep
<1>4. Inv => RemovedIsGone
  <2> SUFFICES ASSUME Inv, pc[p] = "done"
               PROVE  /\ job[p].cmd = "uninstall" => Candidates(old[p]) = {}
                      /\ job[p].cmd = "switch" => \A l \in SameName(old[p] \ want[p]) : ~IsDir(l)
    BY <1>1 DEF Solo, RemovedIsGone, Succeeded
  <2>1. \A l \in Locs : ~Condemned(p, l)
    BY DEF Condemned
  <2> QED BY <2>1 DEF UninstallTakesAll, SwitchTakesAll, Unplanned, Candidates, SameName,
          Installed, Managed
<1> HIDE DEF Inv
<1> QED BY <1>2, <1>3, <1>4, PTL DEF Spec

(***************************************************************************)
(* What `fdh install` says: InstallMatchesLock.                            *)
(***************************************************************************)
\* What a process has hashed is its component at the commit it has loaded.
LEMMA ReadsWhole ==
  ASSUME Truthful, NEW p \in Procs, pc[p] \in {"check", "copy", "mark"}
  PROVE  src[p] = HubTree[reg[p]][Comp(at[p])]
<1>1. \A i \in Files : src[p][i] = HubTree[reg[p]][Comp(at[p])][i]
  BY DEF Truthful, ReadTruthful, Hashed
<1>2. at[p] \in Locs /\ Comp(at[p]) \in Comps /\ reg[p] \in Commits
  BY DEF Truthful, Typed, AtOK, TypeOK, ProcsOK, Locs, Comp
<1>3. HubTree[reg[p]][Comp(at[p])] \in HubTrees /\ src[p] \in HubTrees
  BY <1>2, HubTyping DEF Truthful, Typed, TypeOK, ProcsOK
<1> QED BY <1>1, <1>3 DEF HubTrees

\* Location l has what p installs there.
Placed(p, l) ==
  marker[l] # Nothing /\ HasHash(marker[l]) /\ marker[l].hash = HubTree[reg[p]][Comp(l)]

\* The lock that p will leave, once it needs write none.
Locked(p) ==
  /\ lock # Nothing /\ lock.entries = want[p]
  /\ job[p].frozen \/ lock.commit = reg[p]
LockWritten(p) == job[p].frozen \/ pc[p] \in {"scan", "ignore", "done"}

InstallsAll(p) ==
  job[p].cmd = "install" /\ ~Unplanned(p) =>
    /\ LockWritten(p) => Locked(p)
    /\ \A l \in LocsOf(want[p]) : Awaits(p, l) \/ Placed(p, l)

LEMMA LockStep ==
  ASSUME Typed, OnTrack, NEW p \in Procs, Solo(p), InstallsAll(p), [Next]_vars,
         job'[p].cmd = "install", ~Unplanned(p)', LockWritten(p)'
  PROVE  Locked(p)'
<1>0. /\ pc \in [Procs -> Steps] /\ job \in [Procs -> Jobs] /\ want \in [Procs -> SUBSET Comps]
      /\ reg \in [Procs -> Commits]
  BY DEF Typed, TypeOK, ProcsOK
<1>1. ASSUME ~Unplanned(p), UNCHANGED <<lock, job, want, reg>>, LockWritten(p)
      PROVE  Locked(p)'
  BY <1>1 DEF InstallsAll, Locked
<1>2. ASSUME NEW c \in Comps, StartUninstall(p, c) PROVE FALSE
  <2>1. job'[p].cmd = "uninstall"
    BY <1>0, <1>2 DEF StartUninstall, NoJob
  <2> QED BY <2>1
<1>3. CASE Beside
  BY <1>1, <1>3 DEF Beside, declVars, goalVars, LockWritten, Unplanned
<1>4. CASE PlanInstall(p)
  <2>1. /\ pc'[p] = "apply" /\ job' = job /\ lock' = lock
        /\ want'[p] = Expand(man[p], cacheHead)
        /\ job[p].frozen => LockAgrees(Expand(man[p], cacheHead))
    BY <1>0, <1>4 DEF PlanInstall, Goto, declVars
  <2> QED BY <2>1 DEF LockWritten, Locked, LockAgrees
<1>5. CASE Plans(p) /\ ~PlanInstall(p)
  <2>1. job' = job /\ job[p].cmd # "install"
    BY <1>5 DEF Plans, PlannedInit, PlanSwitch, PlanUpdate, Answered, OnTrack, goalVars
  <2> QED BY <2>1
<1>6. CASE Uninstalling(p) \/ Refuses(p)
  <2>1. job' = job /\ (pc[p] \in {"remove", "removing"} \/ job[p].cmd = "update")
    BY <1>6 DEF Uninstalling, BeginRemove, RemoveFile, RemoveMarker, Removed, EndRemove,
       Refuses, SkipsRefresh, GivesUpRefresh, RefreshFails, goalVars
  <2> QED BY <2>1 DEF OnTrack
<1>7. CASE Writes(p) /\ ~EndApply(p)
  <2>1. /\ pc[p] \in {"apply", "hash", "check", "copy", "mark"}
        /\ pc'[p] \in {"apply", "hash", "check", "copy", "mark"}
        /\ UNCHANGED <<lock, job, want, reg>>
    BY <1>0, <1>7 DEF Writes, BeginInstall, HashFile, CheckMarker, CopyFile, CopyFlat, WriteMarker,
       NextFile, Goto, goalVars, declVars
  <2> QED BY <1>1, <2>1 DEF LockWritten, Unplanned
<1>8. CASE EndApply(p)
  <2>1. /\ pc[p] = "apply" /\ UNCHANGED <<lock, job, want, reg>>
        /\ pc'[p] = IF job[p].frozen THEN "scan" ELSE "lock"
    BY <1>0, <1>8 DEF EndApply, Goto, goalVars, declVars
  <2> QED BY <1>1, <2>1 DEF LockWritten, Unplanned
<1>9. CASE Closes(p)
  <2>1. CASE WriteLock(p)
    <3>1. /\ lock' = [commit |-> reg[p], entries |-> want[p]]
          /\ UNCHANGED <<job, want, reg>>
      BY <2>1 DEF WriteLock, LockEntries, goalVars
    <3>2. lock' \in Locks
      BY <1>0, <3>1 DEF Locks
    <3> QED BY <3>1, <3>2, NothingAssumption DEF Locked
  <2>2. CASE ScanMarkers(p) \/ ApplyGitignore(p)
    BY <1>1, <2>2 DEF ScanMarkers, ApplyGitignore, goalVars, declVars, LockWritten, Unplanned
  <2>3. CASE WriteManifest(p)
    BY <2>3 DEF WriteManifest, OnTrack, goalVars
  <2> QED BY <1>9, <2>1, <2>2, <2>3 DEF Closes
<1>10. CASE Excused(p)
  BY <1>10 DEF Excused, goalVars
<1> QED BY <1>2, <1>3, <1>4, <1>5, <1>6, <1>7, <1>8, <1>9, <1>10, SoloSteps

LEMMA PlaceStep ==
  ASSUME Truthful, OnTrack, NEW p \in Procs, Solo(p), InstallsAll(p), [Next]_vars,
         job'[p].cmd = "install", ~Unplanned(p)', NEW l \in LocsOf(want[p])'
  PROVE  Awaits(p, l)' \/ Placed(p, l)'
<1>0. /\ pc \in [Procs -> Steps] /\ job \in [Procs -> Jobs] /\ want \in [Procs -> SUBSET Comps]
      /\ reg \in [Procs -> Commits] /\ at \in [Procs -> Locs \union {NoLoc}]
      /\ todo \in [Procs -> SUBSET Locs] /\ marker \in [Locs -> Markers \union {Nothing}]
      /\ src \in [Procs -> HubTrees]
  BY DEF Truthful, Typed, TypeOK, ProcsOK, FilesOK
<1>a. Typed
  BY DEF Truthful
<1>b. l \in Locs /\ Comp(l) \in want'[p]
  BY DEF LocsOf
<1> USE DEF Awaits, Working, Installing
<1>1. ASSUME ~Unplanned(p), UNCHANGED <<job, want, reg>>
      PROVE  Awaits(p, l) \/ Placed(p, l)
  BY <1>1, <1>b DEF InstallsAll, LocsOf
<1>2. ASSUME NEW c \in Comps, StartUninstall(p, c) PROVE FALSE
  <2>1. job'[p].cmd = "uninstall"
    BY <1>0, <1>2 DEF StartUninstall, NoJob
  <2> QED BY <2>1
<1>3. CASE Beside
  BY <1>1, <1>3 DEF Beside, fileVars, goalVars, workVars, Unplanned, Placed
<1>4. CASE PlanInstall(p)
  <2>1. /\ pc'[p] = "apply"
        /\ todo'[p] = LocsOf(want'[p])
    BY <1>0, <1>4 DEF PlanInstall, Goto
  <2> QED BY <2>1, <1>b DEF LocsOf
<1>5. CASE Plans(p) /\ ~PlanInstall(p)
  <2>1. job' = job /\ job[p].cmd # "install"
    BY <1>5 DEF Plans, PlannedInit, PlanSwitch, PlanUpdate, Answered, OnTrack, goalVars
  <2> QED BY <2>1
<1>6. CASE Uninstalling(p) \/ Refuses(p)
  <2>1. job' = job /\ (pc[p] \in {"remove", "removing"} \/ job[p].cmd = "update")
    BY <1>6 DEF Uninstalling, BeginRemove, RemoveFile, RemoveMarker, Removed, EndRemove,
       Refuses, SkipsRefresh, GivesUpRefresh, RefreshFails, goalVars
  <2> QED BY <2>1 DEF OnTrack
<1>7. CASE Writes(p)
  <2>0. /\ pc[p] \in {"apply", "hash", "check", "copy", "mark"} /\ UNCHANGED <<job, want, reg>>
        /\ Awaits(p, l) \/ Placed(p, l)
    <3>1. /\ pc[p] \in {"apply", "hash", "check", "copy", "mark"} /\ UNCHANGED <<job, want, reg>>
      BY <1>7 DEF Writes, BeginInstall, HashFile, CheckMarker, CopyFile, CopyFlat, WriteMarker,
         EndApply, goalVars
    <3> QED BY <1>1, <3>1 DEF Unplanned
  <2>1. CASE BeginInstall(p)
    BY <1>0, <2>0, <2>1 DEF BeginInstall, Due, Started, Goto, fileVars, Placed
  <2>2. CASE HashFile(p) \/ CopyFile(p) \/ CopyFlat(p)
    BY <1>0, <2>0, <2>2 DEF HashFile, CopyFile, CopyFlat, NextFile, Goto, fileVars, workVars, Placed
  <2>3. CASE CheckMarker(p)
    <3>1. UNCHANGED <<marker, todo, at>> /\ pc[p] = "check"
      BY <2>3 DEF CheckMarker, fileVars, workVars
    <3>2. pc'[p] = IF UpToDate(p) THEN "apply" ELSE "copy"
      BY <1>0, <2>3 DEF CheckMarker, Goto
    <3>3. CASE UpToDate(p) /\ l = at[p]
      BY <2>0, <3>1, <3>3, ReadsWhole DEF UpToDate, Placed
    <3> QED BY <2>0, <3>1, <3>2, <3>3 DEF Placed
  <2>4. CASE WriteMarker(p)
    <3>1. /\ marker' = Marks(p, "all")
          /\ UNCHANGED <<todo, at, src>> /\ pc[p] = "mark" /\ pc'[p] = "apply"
      BY <1>0, <2>4 DEF WriteMarker, workVars, Goto
    <3>2. CASE l = at[p]
      <4>1. marker'[l] = [hash |-> src[p], commit |-> reg[p], kept |-> "all"]
        BY <1>0, <1>b, <3>1, <3>2 DEF Marks
      <4>2. marker'[l] \in Markers /\ HasHash(marker'[l])
        BY <1>0, <4>1, HubTyping DEF Markers, Extents, HasHash
      <4>3. src[p] = HubTree[reg[p]][Comp(at[p])]
        BY <3>1, ReadsWhole
      <4> QED BY <2>0, <3>2, <4>1, <4>2, <4>3, NothingAssumption DEF Placed
    <3>3. CASE l # at[p]
      <4>1. marker'[l] = marker[l]
        BY <1>0, <3>1, <3>3 DEF Marks
      <4> QED BY <2>0, <3>1, <3>3, <4>1 DEF Placed
    <3> QED BY <3>2, <3>3
  <2>5. CASE EndApply(p)
    BY <2>0, <2>5 DEF EndApply, fileVars, Placed
  <2> QED BY <1>7, <2>1, <2>2, <2>3, <2>4, <2>5 DEF Writes
<1>8. CASE Closes(p)
  <2>1. /\ pc[p] \in {"manifest", "lock", "scan", "ignore"} /\ UNCHANGED <<job, want, reg, marker>>
    BY <1>8 DEF Closes, WriteManifest, WriteLock, ScanMarkers, ApplyGitignore, goalVars, fileVars
  <2> QED BY <1>1, <2>1 DEF Unplanned, Placed
<1>9. CASE Excused(p)
  BY <1>9 DEF Excused, goalVars
<1> QED BY <1>a, <1>2, <1>3, <1>4, <1>5, <1>6, <1>7, <1>8, <1>9, SoloSteps

\* InstallMatchesLock: with one command at a time on a cache of its own, and no edits
\* beside it, an install that succeeds leaves a lock and a disk that tell the same story.
THEOREM InstallsMatchLocks ==
  ASSUME Quiet, Alone
  PROVE  Spec => []InstallMatchesLock
<1>1. PICK p \in Procs : Solo(p)
  BY DEF Solo, Alone
<1> DEFINE Inv == Truthful /\ OnTrack /\ InstallsAll(p)
<1>2. Init => Inv
  <2> SUFFICES ASSUME Init PROVE Inv
    OBVIOUS
  <2>1. job[p].cmd = "none"
    BY DEF Init, NoJob
  <2> QED BY <2>1, InitTruthful, InitOnTrack DEF InstallsAll
<1>3. Inv /\ [Next]_vars => Inv'
  <2> SUFFICES ASSUME Inv, [Next]_vars PROVE Inv'
    OBVIOUS
  <2>1. Truthful' /\ OnTrack'
    BY TruthfulStep, OnTrackStep DEF Truthful
  <2>2. InstallsAll(p)'
    BY <1>1, LockStep, PlaceStep DEF InstallsAll, Truthful, LocsOf
  <2> QED BY <2>1, <2>2
<1>4. Inv => InstallMatchesLock
  <2> SUFFICES ASSUME Inv, pc[p] = "done", job[p].cmd = "install"
               PROVE  /\ lock # Nothing /\ lock.entries = want[p]
                      /\ job[p].frozen \/ lock.commit = reg[p]
                      /\ \A l \in LocsOf(lock.entries) :
                           /\ marker[l] # Nothing
                           /\ HasHash(marker[l]) /\ marker[l].hash = HubTree[reg[p]][Comp(l)]
    BY <1>1 DEF Solo, InstallMatchesLock, Succeeded
  <2>1. Locked(p) /\ \A l \in LocsOf(want[p]) : Placed(p, l)
    BY DEF InstallsAll, Unplanned, LockWritten, Awaits, Working, Installing
  <2> QED BY <2>1 DEF Locked, Placed
<1> HIDE DEF Inv
<1> QED BY <1>2, <1>3, <1>4, PTL DEF Spec

(***************************************************************************)
(* What `fdh update` does: RefreshComplete and UpdateConverges.            *)
(***************************************************************************)
\* The cache holds what a process installs, as the hub has it at the commit loaded.
LEMMA SourceInPlace ==
  ASSUME Truthful, NEW p \in Procs, Installing(p)
  PROVE  /\ Source(p) = HubTree[reg[p]][Comp(at[p])] /\ cacheHead = reg[p]
         /\ at[p] \in Locs /\ Comp(at[p]) \in Comps
BY DEF Truthful, Materialized, InPlace, CacheIsMine, Loaded, Installing, Source,
   Typed, AtOK, Locs, Comp

\* A copy starts at the first file, and is done with the files before the next.
CopiesInOrder(p) ==
  /\ pc[p] = "check" => idx[p] = 1
  /\ job[p].cmd = "update" => \A i \in Files : src[p][i] # Absent =>
       /\ pc[p] = "copy" /\ IsDir(at[p]) /\ i < idx[p] => disk[at[p]][i] = src[p][i]
       /\ pc[p] = "mark" /\ (IsDir(at[p]) \/ i = SkillMD) => disk[at[p]][i] = src[p][i]

\* Steps that are not those of an installation end it.
LEMMA InstallationGoesOn ==
  ASSUME Typed, [Next]_vars, NEW p \in Procs, Solo(p), pc'[p] \in {"check", "copy", "mark"}
  PROVE  Beside \/ HashFile(p) \/ CheckMarker(p) \/ CopyFile(p) \/ CopyFlat(p)
<1>0. pc \in [Procs -> Steps]
  BY DEF Typed, TypeOK, ProcsOK
<1>1. CASE Unplanned(p)'
  BY <1>1 DEF Unplanned
<1>2. ASSUME NEW c \in Comps, StartUninstall(p, c) PROVE FALSE
  BY <1>0, <1>2 DEF StartUninstall, Goto
<1>3. CASE Plans(p) \/ Refuses(p)
  BY <1>0, <1>3 DEF Plans, PlanInstall, PlannedInit, PlanSwitch, PlanUpdate, Answered,
     Refuses, SkipsRefresh, GivesUpRefresh, RefreshFails, Goto
<1>4. CASE Uninstalling(p)
  BY <1>0, <1>4 DEF Uninstalling, BeginRemove, RemoveFile, RemoveMarker, Removed, EndRemove, Goto
<1>5. CASE Closes(p)
  BY <1>0, <1>5 DEF Closes, WriteManifest, WriteLock, ScanMarkers, ApplyGitignore, Goto
<1>6. CASE BeginInstall(p) \/ WriteMarker(p)
  BY <1>0, <1>6 DEF BeginInstall, WriteMarker, Goto
<1>7. CASE EndApply(p)
  <2>1. pc'[p] \in {"manifest", "done", "scan", "lock"}
    BY <1>0, <1>7 DEF EndApply, Goto
  <2> QED BY <2>1
<1>8. CASE Excused(p)
  BY <1>0, <1>8 DEF Excused, Goto
<1> QED BY <1>1, <1>2, <1>3, <1>4, <1>5, <1>6, <1>7, <1>8, SoloSteps DEF Writes

LEMMA CopyStep ==
  ASSUME Truthful, NEW p \in Procs, Solo(p), CopiesInOrder(p), [Next]_vars
  PROVE  CopiesInOrder(p)'
<1>0. /\ pc \in [Procs -> Steps] /\ at \in [Procs -> Locs \union {NoLoc}]
      /\ idx \in [Procs -> Files] /\ src \in [Procs -> HubTrees]
      /\ disk \in [Locs -> [Files -> Content]]
  BY DEF Truthful, Typed, TypeOK, ProcsOK, FilesOK, Trees
<1>a. Typed /\ SkillMD \in Files
  BY HubTyping DEF Truthful, SkillMD
<1>1. CASE pc'[p] \notin {"check", "copy", "mark"}
  BY <1>1 DEF CopiesInOrder
<1>2. CASE Beside
  BY <1>2 DEF Beside, fileVars, goalVars, workVars, CopiesInOrder
<1>3. CASE HashFile(p)
  <2>1. pc'[p] = "hash" \/ (pc'[p] = "check" /\ idx'[p] = 1)
    BY <1>0, <1>3 DEF HashFile, NextFile, Goto
  <2> QED BY <2>1 DEF CopiesInOrder
<1>4. CASE CheckMarker(p)
  <2>1. pc'[p] \in {"apply", "copy"} /\ idx'[p] = 1
    BY <1>0, <1>4 DEF CheckMarker, Goto, workVars, CopiesInOrder
  <2> QED BY <2>1 DEF CopiesInOrder, Files
<1>5. CASE CopyFile(p)
  <2>1. /\ at[p] \in Locs /\ IsDir(at[p]) /\ pc[p] = "copy" /\ UNCHANGED <<at, src, job>>
        /\ NextFile(p, "mark")
    BY <1>5 DEF CopyFile, goalVars, Truthful, Typed, AtOK
  <2>2. Source(p) = src[p]
    BY <2>1, ReadsWhole, SourceInPlace DEF Installing
  <2>3. ASSUME job[p].cmd = "update", NEW i \in Files, src[p][i] # Absent, i < idx[p] \/ i = idx[p]
        PROVE  disk'[at[p]][i] = src[p][i]
    <3>1. CASE i = idx[p]
      <4>1. Copies(p, i)
        BY <2>2, <2>3 DEF Copies, Overwrite
      <4>2. disk' = [disk EXCEPT ![at[p]][i] = src[p][i]]
        BY <1>5, <2>2, <3>1, <4>1 DEF CopyFile
      <4> QED BY <1>0, <2>1, <4>2
    <3>2. CASE i # idx[p]
      <4>1. disk[at[p]][i] = src[p][i]
        BY <2>1, <2>3, <3>2 DEF CopiesInOrder, Files
      <4>2. disk'[at[p]][i] = disk[at[p]][i]
        BY <1>0, <1>5, <2>1, <3>2 DEF CopyFile
      <4> QED BY <4>1, <4>2
    <3> QED BY <3>1, <3>2
  <2>4. CASE idx[p] = NumFiles
    <3>1. pc'[p] = "mark" /\ \A i \in Files : i < idx[p] \/ i = idx[p]
      BY <1>0, <2>1, <2>4, NumFilesAssumption DEF NextFile, Goto, Files
    <3> QED BY <2>1, <2>3, <3>1 DEF CopiesInOrder
  <2>5. CASE idx[p] # NumFiles
    <3>1. pc'[p] = "copy" /\ \A i \in Files : i < idx'[p] => i < idx[p] \/ i = idx[p]
      BY <1>0, <2>1, <2>5, NumFilesAssumption DEF NextFile, Files
    <3> QED BY <2>1, <2>3, <3>1 DEF CopiesInOrder
  <2> QED BY <2>4, <2>5
<1>6. CASE CopyFlat(p)
  <2>1. /\ at[p] \in Locs /\ ~IsDir(at[p]) /\ pc'[p] = "mark" /\ UNCHANGED <<at, src, job>>
        /\ disk' = [disk EXCEPT ![at[p]][SkillMD] = src[p][SkillMD]]
    BY <1>0, <1>6 DEF CopyFlat, goalVars, workVars, Goto, Truthful, Typed, AtOK
  <2>2. disk'[at[p]][SkillMD] = src[p][SkillMD]
    BY <1>0, <1>a, <2>1
  <2> QED BY <2>1, <2>2 DEF CopiesInOrder
<1> QED BY <1>a, <1>1, <1>2, <1>3, <1>4, <1>5, <1>6, InstallationGoesOn

\* RefreshComplete: with one command at a time on a cache of its own, and no edits beside
\* it, a refresh that writes its marker has put every file of the source in place.
THEOREM RefreshesAreComplete ==
  ASSUME Quiet, Alone
  PROVE  Spec => []RefreshComplete
<1>1. PICK p \in Procs : Solo(p)
  BY DEF Solo, Alone
<1>2. Init => Truthful /\ CopiesInOrder(p)
  BY InitTruthful DEF Init, CopiesInOrder
<1>3. Truthful /\ CopiesInOrder(p) /\ [Next]_vars => (Truthful /\ CopiesInOrder(p))'
  BY <1>1, TruthfulStep, CopyStep
<1>4. CopiesInOrder(p) => RefreshComplete
  BY <1>1 DEF Solo, CopiesInOrder, RefreshComplete
<1> QED BY <1>2, <1>3, <1>4, PTL DEF Spec

\* What is copied into a flat layout is SKILL.md: a listed component has one.
Bodied ==
  \A k \in Commits, l \in Locs :
    ~IsDir(l) /\ HubTree[k][Comp(l)] # NoFiles => HubTree[k][Comp(l)][SkillMD] # Absent

\* Whatever update would still refresh, it is going to, and can.
RefreshesAll(p) ==
  job[p].cmd = "update" /\ ~Unplanned(p) /\ faults = 0 =>
    /\ \A l \in Refreshed(p) : Awaits(p, l)
    /\ \A l \in Locs : Awaits(p, l) => HubTree[reg[p]][Comp(l)] # NoFiles

LEMMA FetchableStep ==
  ASSUME Truthful, Alone, NEW p \in Procs, RefreshesAll(p), [Next]_vars,
         job'[p].cmd = "update", faults = 0, NEW l \in Locs, Awaits(p, l)'
  PROVE  HubTree[reg'[p]][Comp(l)] # NoFiles
<1>a. Typed
  BY DEF Truthful
<1>1. ~Load(p) /\ Loaded(p)'
  BY <1>a DEF Load, Goto, Awaits, Working, Installing, Loaded, Typed, TypeOK, ProcsOK
<1>2. Loaded(p) /\ reg'[p] = reg[p]
  BY <1>a, <1>1, NextIsSettled DEF Alone, Settled
<1>3. CASE Awaits(p, l) /\ job'[p] = job[p]
  BY <1>2, <1>3 DEF RefreshesAll, Awaits, Working, Installing, Unplanned
<1>4. CASE PlanUpdate(p) /\ l \in todo'[p]
  <2>1. l \in Refreshed(p)
    BY <1>4 DEF PlanUpdate, Truthful, Typed, TypeOK, ProcsOK
  <2> QED BY <1>2, <1>4, <2>1 DEF PlanUpdate, Fetchable, Truthful, CacheIsMine
<1>5. CASE (PlanInstall(p) \/ PlanInit(p) \/ PlanSwitch(p)) /\ job'[p] = job[p]
  BY <1>5 DEF PlanInstall, PlanInit, PlanSwitch
<1> QED BY <1>a, <1>3, <1>4, <1>5, InstallsAwaitTheirPlan

\* On a cache of its own, update neither skips nor gives up a refresh.
LEMMA NothingRefused ==
  ASSUME Truthful, Bodied, NEW p \in Procs, job[p].cmd = "update",
         \A l \in Locs : Awaits(p, l) => HubTree[reg[p]][Comp(l)] # NoFiles
  PROVE  ~SkipsRefresh(p) /\ ~GivesUpRefresh(p)
<1>1. ASSUME SkipsRefresh(p) PROVE FALSE
  <2>1. PICK l \in todo[p] : ~Fetchable(Comp(l))
    BY <1>1 DEF SkipsRefresh
  <2>2. l \in Locs /\ Awaits(p, l)
    BY <1>1 DEF SkipsRefresh, Awaits, Working, Truthful, Typed, TypeOK, ProcsOK
  <2>3. cacheHead = reg[p]
    BY <1>1 DEF SkipsRefresh, Truthful, CacheIsMine, Loaded
  <2> QED BY <2>1, <2>2, <2>3 DEF Fetchable
<1>2. ASSUME GivesUpRefresh(p) PROVE FALSE
  <2>1. Installing(p) /\ SourceGone(p)
    BY <1>2 DEF GivesUpRefresh, SourceGone, Installing
  <2>2. /\ Source(p) = HubTree[reg[p]][Comp(at[p])] /\ cacheHead = reg[p] /\ at[p] \in Locs
        /\ reg[p] \in Commits
    BY <2>1, SourceInPlace DEF Truthful, Typed, TypeOK, ProcsOK
  <2>3. HubTree[reg[p]][Comp(at[p])] # NoFiles
    BY <2>1, <2>2 DEF Awaits
  <2>4. CASE pc[p] = "copy" /\ ~IsDir(at[p]) /\ src[p][SkillMD] = Absent
    BY <2>2, <2>3, <2>4, ReadsWhole DEF Bodied
  <2> QED BY <2>1, <2>2, <2>3, <2>4 DEF SourceGone
<1> QED BY <1>1, <1>2

\* A step that leaves the disk and the marker of l alone leaves it as due as it was.
LEMMA SameDue ==
  ASSUME NEW p \in Procs, NEW l \in Locs, l \in Refreshed(p)',
         job'[p] = job[p], reg'[p] = reg[p], marker'[l] = marker[l], disk'[l] = disk[l]
  PROVE  l \in Refreshed(p)
BY DEF Refreshed, Attributed, Installed, Managed, UpdateAction, Drifted

LEMMA DueStep ==
  ASSUME Truthful, OnTrack, Bodied, NEW p \in Procs, Solo(p), RefreshesAll(p), [Next]_vars,
         job'[p].cmd = "update", ~Unplanned(p)', faults' = 0, NEW l \in Refreshed(p)'
  PROVE  faults = 0 /\ Awaits(p, l)'
<1>0. /\ pc \in [Procs -> Steps] /\ job \in [Procs -> Jobs] /\ reg \in [Procs -> Commits]
      /\ at \in [Procs -> Locs \union {NoLoc}] /\ todo \in [Procs -> SUBSET Locs]
      /\ marker \in [Locs -> Markers \union {Nothing}] /\ disk \in [Locs -> Trees] /\ faults \in Nat
  BY DEF Truthful, Typed, TypeOK, ProcsOK, FilesOK
<1>a. Typed /\ l \in Locs
  BY DEF Truthful, Refreshed, Attributed, Installed, Managed
<1>1. ASSUME job' = job, reg' = reg, marker'[l] = marker[l], disk'[l] = disk[l], faults' = faults,
             ~Unplanned(p)
      PROVE  faults = 0 /\ Awaits(p, l)
  BY <1>1, <1>a, SameDue DEF RefreshesAll
<1> USE DEF Awaits, Working, Installing
<1>2. ASSUME NEW c \in Comps, StartUninstall(p, c) PROVE FALSE
  <2>1. job'[p].cmd = "uninstall"
    BY <1>0, <1>2 DEF StartUninstall, NoJob
  <2> QED BY <2>1
<1>3. CASE Beside
  BY <1>1, <1>3 DEF Beside, fileVars, envVars, goalVars, workVars, Unplanned
<1>4. CASE PlanUpdate(p)
  <2>1. /\ UNCHANGED <<job, reg, marker, disk, faults>> /\ pc'[p] = "confirm"
        /\ todo'[p] = Refreshed(p)
    BY <1>0, <1>4 DEF PlanUpdate, Goto, fileVars, envVars, goalVars
  <2>2. l \in Refreshed(p)
    BY <1>a, <2>1, SameDue
  <2> QED BY <2>1, <2>2
<1>5. CASE Answered(p)
  <2>1. /\ UNCHANGED <<job, reg, marker, disk, faults, todo>> /\ pc[p] = "confirm"
        /\ pc'[p] = "apply"
    BY <1>0, <1>5 DEF Answered, Goto, fileVars, envVars, goalVars, workVars
  <2>2. faults = 0 /\ Awaits(p, l)
    BY <1>1, <2>1 DEF Unplanned
  <2> QED BY <2>1, <2>2
<1>6. CASE PlanInstall(p) \/ PlannedInit(p) \/ PlanSwitch(p)
  <2>1. job' = job /\ job[p].cmd # "update"
    BY <1>6 DEF PlanInstall, PlannedInit, PlanSwitch
  <2> QED BY <2>1
<1>7. CASE Uninstalling(p) \/ Closes(p)
  <2>1. job' = job /\ pc[p] \in {"remove", "removing", "manifest", "lock", "scan", "ignore"}
    BY <1>7 DEF Uninstalling, BeginRemove, RemoveFile, RemoveMarker, Removed, EndRemove,
       Closes, WriteManifest, WriteLock, ScanMarkers, ApplyGitignore, goalVars
  <2> QED BY <2>1 DEF OnTrack
<1>8. CASE Refuses(p)
  <2>1. CASE RefreshFails(p)
    BY <1>0, <2>1 DEF RefreshFails
  <2>2. CASE SkipsRefresh(p) \/ GivesUpRefresh(p)
    <3>1. job[p].cmd = "update" /\ faults' = faults /\ ~Unplanned(p)
      BY <2>2 DEF SkipsRefresh, GivesUpRefresh, SourceGone, Unplanned, envVars
    <3> QED BY <2>2, <3>1, NothingRefused DEF RefreshesAll
  <2> QED BY <1>8, <2>1, <2>2 DEF Refuses
<1>9. CASE Writes(p)
  <2>0. /\ pc[p] \in {"apply", "hash", "check", "copy", "mark"} /\ UNCHANGED <<job, reg, faults>>
        /\ ~Unplanned(p)
    BY <1>9 DEF Writes, BeginInstall, HashFile, CheckMarker, CopyFile, CopyFlat, WriteMarker,
       EndApply, goalVars, envVars, Unplanned
  <2>1. CASE BeginInstall(p)
    <3>1. faults = 0 /\ Awaits(p, l)
      BY <1>1, <2>0, <2>1 DEF BeginInstall, fileVars
    <3> QED BY <1>0, <2>1, <3>1 DEF BeginInstall, Due, Started, Goto
  <2>2. CASE HashFile(p)
    <3>1. faults = 0 /\ Awaits(p, l)
      BY <1>1, <2>0, <2>2 DEF HashFile, fileVars
    <3> QED BY <1>0, <2>2, <3>1 DEF HashFile, NextFile, Goto
  <2>3. CASE CheckMarker(p)
    <3>1. faults = 0 /\ Awaits(p, l)
      BY <1>1, <2>0, <2>3 DEF CheckMarker, fileVars
    <3>2. pc'[p] = "copy" /\ UNCHANGED <<todo, at>>
      BY <1>0, <2>0, <2>3 DEF CheckMarker, UpToDate, Overwrite, Goto, workVars
    <3> QED BY <3>1, <3>2
  <2>4. CASE CopyFile(p) \/ CopyFlat(p)
    <3>1. /\ pc'[p] \in {"copy", "mark"} /\ UNCHANGED <<todo, at>> /\ marker' = marker
          /\ l # at[p] => disk'[l] = disk[l]
      BY <1>0, <1>a, <2>4 DEF CopyFile, CopyFlat, NextFile, Goto, workVars
    <3>2. CASE l # at[p]
      BY <1>1, <2>0, <3>1, <3>2
    <3>3. CASE l = at[p]
      BY <2>0, <3>1, <3>3
    <3> QED BY <3>1, <3>2, <3>3, <2>0
  <2>5. CASE WriteMarker(p)
    <3>1. /\ marker' = Marks(p, "all")
          /\ UNCHANGED <<todo, at, disk>> /\ pc[p] = "mark" /\ pc'[p] = "apply"
      BY <1>0, <2>5 DEF WriteMarker, workVars, Goto
    <3>2. ASSUME l = at[p] PROVE FALSE
      <4>1. marker'[l].commit = reg'[p] /\ HasCommit(marker'[l])
        BY <1>0, <1>a, <2>0, <3>1, <3>2 DEF Marks, HasCommit
      <4> QED BY <4>1 DEF Refreshed, UpdateAction
    <3>3. marker'[l] = marker[l]
      BY <1>0, <3>1, <3>2 DEF Marks
    <3>4. faults = 0 /\ Awaits(p, l)
      BY <1>1, <2>0, <3>1, <3>3
    <3> QED BY <3>1, <3>2, <3>4, <2>0
  <2>6. CASE EndApply(p)
    <3>1. faults = 0 /\ Awaits(p, l)
      BY <1>1, <2>0, <2>6 DEF EndApply, fileVars
    <3> QED BY <2>6, <3>1 DEF EndApply
  <2> QED BY <1>9, <2>1, <2>2, <2>3, <2>4, <2>5, <2>6 DEF Writes
<1>10. CASE Excused(p)
  BY <1>10 DEF Excused, goalVars
<1> QED BY <1>a, <1>2, <1>3, <1>4, <1>5, <1>6, <1>7, <1>8, <1>9, <1>10, SoloSteps DEF Plans

LEMMA FaultsGrow ==
  ASSUME Typed, [Next]_vars, faults' = 0
  PROVE  faults = 0
<1>0. faults \in Nat
  BY DEF Typed, TypeOK, FilesOK
<1>1. CASE UNCHANGED faults
  BY <1>1
<1>2. CASE Environment \/ UNCHANGED vars
  BY <1>1, <1>2 DEF Environment, UserWritesFile, UserDeletesFile, UserRemovesInstall,
     UserEditsManifest, UserRemovesManifest, HubPublishes, OtherProjectLoads, OtherProjectWrites,
     vars, envVars
<1>3. ASSUME NEW p \in Procs, Acts(p) PROVE faults = 0
  <2>1. CASE Fault(p)
    BY <1>0, <2>1 DEF Fault, Crash, RefreshFails, FinalizeFails
  <2>2. CASE Start(p) \/ Plan(p) \/ Declare(p) \/ Load(p) \/ Finish(p) \/ Confirm(p)
    BY <1>1, <2>2 DEF Start, StartInstall, GenerateFromLegacy, StartInit, StartSwitch, StartUpdate,
       StartUninstall, Launch, Plan, PlanInstall, PlanInit, PlanSwitch, PlanUpdate, PlanReturns,
       Declare, WriteManifest, WriteLock, LockReturns, ScanMarkers, ApplyGitignore,
       Load, Finish, Confirm, Return, envVars
  <2>3. CASE Uninstalling(p)
    BY <1>1, <2>3 DEF Uninstalling, BeginRemove, RemoveFile, RemoveMarker, Removed, EndRemove, envVars
  <2>4. CASE Install(p)
    BY <1>1, <2>4 DEF Install, BeginInstall, FetchFails, HashFile, CheckMarker, CopyFile, CopyFlat,
       InstallFails, WriteMarker, EndApply, envVars
  <2> QED BY <1>3, <2>1, <2>2, <2>3, <2>4 DEF Acts, Run
<1> QED BY <1>2, <1>3 DEF Next, Acts

\* UpdateConverges: with one command at a time on a cache of its own, no edits beside it,
\* and a SKILL.md in what flat layouts take, an update without failures leaves nothing
\* it would refresh.
THEOREM UpdatesConverge ==
  ASSUME Quiet, Alone, Bodied
  PROVE  Spec => []UpdateConverges
<1>1. PICK p \in Procs : Solo(p)
  BY DEF Solo, Alone
<1> DEFINE Inv == Truthful /\ OnTrack /\ RefreshesAll(p)
<1>2. Init => Inv
  <2> SUFFICES ASSUME Init PROVE Inv
    OBVIOUS
  <2>1. job[p].cmd = "none"
    BY DEF Init, NoJob
  <2> QED BY <2>1, InitTruthful, InitOnTrack DEF RefreshesAll
<1>3. Inv /\ [Next]_vars => Inv'
  <2> SUFFICES ASSUME Inv, [Next]_vars PROVE Inv'
    OBVIOUS
  <2>1. Truthful' /\ OnTrack'
    BY TruthfulStep, OnTrackStep DEF Truthful
  <2>2. ASSUME job'[p].cmd = "update", ~Unplanned(p)', faults' = 0
        PROVE  /\ \A l \in Refreshed(p)' : Awaits(p, l)'
               /\ \A l \in Locs : Awaits(p, l)' => HubTree[reg'[p]][Comp(l)] # NoFiles
    <3>1. faults = 0
      BY <2>2, FaultsGrow DEF Truthful
    <3> QED BY <1>1, <2>2, <3>1, DueStep, FetchableStep
  <2> QED BY <2>1, <2>2 DEF RefreshesAll
<1>4. Inv => UpdateConverges
  <2> SUFFICES ASSUME Inv, pc[p] = "done", job[p].cmd = "update", faults = 0
               PROVE  Refreshed(p) = {}
    BY <1>1 DEF Solo, UpdateConverges, Succeeded
  <2>1. \A l \in Locs : ~Awaits(p, l)
    BY DEF Awaits, Working, Installing
  <2> QED BY <2>1 DEF RefreshesAll, Unplanned, Refreshed, Attributed, Installed, Managed
<1> HIDE DEF Inv
<1> QED BY <1>2, <1>3, <1>4, PTL DEF Spec

(***************************************************************************)
(* Documents: constraints and catalogues of any length                     *)
(***************************************************************************)
(* A caret, tilde or exact constraint matches exactly the versions of its range
   (semver.go, Matches). *)
THEOREM MatchesRange ==
  \A c \in Constraint, v \in Semver : Matches(c, v) <=> InRange(c, v)
<1> SUFFICES ASSUME NEW c \in Constraint, NEW v \in Semver
             PROVE  Matches(c, v) <=> InRange(c, v)
  OBVIOUS
<1> USE PartAssumption
<1>1. CASE c.op = "any"
  BY <1>1 DEF Matches, InRange
<1>2. CASE c.op = "exact"
  BY <1>2 DEF Matches, InRange, Floor
<1>3. CASE c.op = "caret"
  BY <1>3 DEF Matches, InRange, Caret, Gte, Floor, Ceiling, CanonicalExact, OrZero,
              Greater, Constraint, Semver
<1>4. CASE c.op = "tilde"
  BY <1>4 DEF Matches, InRange, Tilde, Gte, Floor, Ceiling, CanonicalExact, OrZero,
              Greater, Constraint, Semver
<1>5. QED
  BY <1>1, <1>2, <1>3, <1>4 DEF Constraint

LEMMA GreaterOrder ==
  ASSUME NEW u \in Semver, NEW v \in Semver, NEW w \in Semver
  PROVE  /\ ~Greater(v, v)
         /\ Greater(v, w) => ~Greater(w, v)
         /\ ~Greater(u, v) /\ ~Greater(v, w) => ~Greater(u, w)
<1>1. /\ u.major \in Nat /\ u.minor \in Nat /\ u.patch \in Nat
      /\ v.major \in Nat /\ v.minor \in Nat /\ v.patch \in Nat
      /\ w.major \in Nat /\ w.minor \in Nat /\ w.patch \in Nat
  BY PartAssumption DEF Semver
<1> QED BY <1>1 DEF Greater

\* What has been picked out of the first i versions of a list.
Fitting(c, list, i) == {list[k] : k \in {j \in 1 .. i : Matches(c, list[j])}}
PickedOf(c, list, i, best) ==
  IF best = NoPart THEN Fitting(c, list, i) = {}
  ELSE best \in Fitting(c, list, i) /\ \A v \in Fitting(c, list, i) : ~Greater(v, best)

\* The loop of HighestSatisfying.
Better(c, v, best) == Matches(c, v) /\ (best # NoPart => Greater(v, best))

LEMMA PickedStep ==
  ASSUME NEW c \in Constraint, NEW N \in Nat, NEW list \in [1 .. N -> Semver],
         NEW i \in 1 .. N, NEW cur \in Semver \union {NoPart}, PickedOf(c, list, i - 1, cur)
  PROVE  PickedOf(c, list, i, IF Better(c, list[i], cur) THEN list[i] ELSE cur)
<1> DEFINE new == IF Better(c, list[i], cur) THEN list[i] ELSE cur
<1>1. list[i] \in Semver /\ list[i] # NoPart
  BY SemverAssumption
<1>2. Fitting(c, list, i)
        = Fitting(c, list, i - 1) \union (IF Matches(c, list[i]) THEN {list[i]} ELSE {})
  <2>1. 1 .. i = (1 .. i - 1) \union {i}
    OBVIOUS
  <2> QED BY <2>1 DEF Fitting
<1>3. Fitting(c, list, i - 1) \subseteq Semver
  BY DEF Fitting
<1>4. CASE ~Matches(c, list[i])
  BY <1>2, <1>4 DEF PickedOf, Better
<1>5. CASE Matches(c, list[i]) /\ cur = NoPart
  <2>1. Fitting(c, list, i) = {list[i]}
    BY <1>2, <1>5 DEF PickedOf
  <2>2. Better(c, list[i], cur)
    BY <1>5 DEF Better
  <2> QED BY <1>1, <2>1, <2>2, GreaterOrder DEF PickedOf
<1>6. CASE Matches(c, list[i]) /\ cur # NoPart /\ Greater(list[i], cur)
  <2>1. new = list[i]
    BY <1>6 DEF Better
  <2>2. cur \in Semver
    BY <1>6
  <2>3. \A v \in Fitting(c, list, i - 1) : ~Greater(v, cur)
    BY <1>6 DEF PickedOf
  <2>4. \A v \in Fitting(c, list, i - 1) : ~Greater(v, list[i])
    BY <1>1, <1>3, <1>6, <2>2, <2>3, GreaterOrder
  <2>5. \A v \in Fitting(c, list, i) : ~Greater(v, list[i])
    BY <1>1, <1>2, <1>6, <2>4, GreaterOrder
  <2> QED BY <1>1, <1>2, <1>6, <2>1, <2>5 DEF PickedOf
<1>7. CASE Matches(c, list[i]) /\ cur # NoPart /\ ~Greater(list[i], cur)
  <2>1. new = cur
    BY <1>7 DEF Better
  <2>2. \A v \in Fitting(c, list, i) : ~Greater(v, cur)
    BY <1>2, <1>7 DEF PickedOf
  <2> QED BY <1>2, <1>7, <2>1, <2>2 DEF PickedOf
<1> QED BY <1>4, <1>5, <1>6, <1>7

(* For every constraint and every list of versions, of any length, the version picked
   is one of the constraint's range that no other version of it is above, and none is
   picked only when none is in the range (semver.go, HighestSatisfying). *)
THEOREM HighestIsPicked ==
  ASSUME NEW c \in Constraint, NEW N \in Nat, NEW list \in [1 .. N -> Semver]
  PROVE  PickedOf(c, list, N, HighestSatisfying(c, list))
<1> DEFINE B == Semver \union {NoPart}
           H == [i \in 1 .. N |-> [cur \in B |-> IF Better(c, list[i], cur) THEN list[i] ELSE cur]]
           Loop(f) == f = [i \in 0 .. N |-> IF i = 0 THEN NoPart
                             ELSE IF Matches(c, list[i]) /\ (f[i - 1] # NoPart => Greater(list[i], f[i - 1]))
                                  THEN list[i] ELSE f[i - 1]]
           best == CHOOSE f : Loop(f)
<1>1. Len(list) = N
  OBVIOUS
<1>2. HighestSatisfying(c, list) = best[N]
  BY <1>1 DEF HighestSatisfying
<1>3. \E f \in [0 .. N -> B] : Loop(f)
  <2>1. H \in [1 .. N -> [B -> B]]
    OBVIOUS
  <2>2. NoPart \in B
    OBVIOUS
  <2> HIDE DEF H, B, Loop, best
  <2> DEFINE f == Stepping(B, NoPart, N, H)
  <2>3. f \in [0 .. N -> B] /\ f[0] = NoPart /\ \A i \in 1 .. N : f[i] = H[i][f[i - 1]]
    BY <2>1, <2>2, Stepwise
  <2> HIDE DEF f
  <2>4. ASSUME NEW i \in 1 .. N
        PROVE  H[i][f[i - 1]] = IF Matches(c, list[i]) /\ (f[i - 1] # NoPart => Greater(list[i], f[i - 1]))
                                THEN list[i] ELSE f[i - 1]
    <3>1. f[i - 1] \in B
      BY <2>3
    <3> QED BY <3>1 DEF H, Better
  <2>5. Loop(f)
    <3>1. \A i \in 0 .. N : f[i] =
            IF i = 0 THEN NoPart
            ELSE IF Matches(c, list[i]) /\ (f[i - 1] # NoPart => Greater(list[i], f[i - 1]))
                 THEN list[i] ELSE f[i - 1]
      BY <2>3, <2>4
    <3> QED BY <2>3, <3>1 DEF Loop
  <2> QED BY <2>3, <2>5
<1>4. Loop(best)
  BY <1>3
<1> HIDE DEF best
<1>5. best[0] = NoPart /\ \A i \in 1 .. N : best[i] = IF Better(c, list[i], best[i - 1])
                                                     THEN list[i] ELSE best[i - 1]
  BY <1>4 DEF Better
<1> DEFINE S == {i \in Nat : i <= N => best[i] \in B /\ PickedOf(c, list, i, best[i])}
<1>6. 0 \in S
  BY <1>5 DEF PickedOf, Fitting
<1>7. ASSUME NEW i \in Nat, i \in S PROVE i + 1 \in S
  <2> SUFFICES ASSUME i + 1 <= N
               PROVE  best[i + 1] \in B /\ PickedOf(c, list, i + 1, best[i + 1])
    OBVIOUS
  <2>1. best[i] \in B /\ PickedOf(c, list, i, best[i]) /\ i + 1 \in 1 .. N /\ (i + 1) - 1 = i
    BY <1>7
  <2>2. best[i + 1] = IF Better(c, list[i + 1], best[i]) THEN list[i + 1] ELSE best[i]
    BY <1>5, <2>1
  <2>3. PickedOf(c, list, i + 1, IF Better(c, list[i + 1], best[i]) THEN list[i + 1] ELSE best[i])
    BY <2>1, PickedStep
  <2> QED BY <2>1, <2>2, <2>3
<1>8. N \in S
  <2> HIDE DEF S
  <2> QED BY <1>6, <1>7, InductionOn
<1> QED BY <1>2, <1>8

(* ConstraintPicks, for any numbers and lists of any length (semver.go). *)
THEOREM ConstraintsPickHighest == Spec => []ConstraintPicks
<1>1. PicksHighestOfRange(MaxList)
  <2> SUFFICES ASSUME NEW c \in Constraint, NEW list \in BoundedSeq(Semver, MaxList)
               PROVE  LET best == HighestSatisfying(c, list)
                          Fits == {v \in ToSet(list) : InRange(c, v)}
                      IN  IF best = NoPart THEN Fits = {}
                          ELSE best \in Fits /\ \A v \in Fits : ~Greater(v, best)
    BY DEF PicksHighestOfRange
  <2>1. PICK N \in 0 .. MaxList : list \in [1 .. N -> Semver]
    BY BoundedSeqElements, DocumentAssumption
  <2>2. PickedOf(c, list, N, HighestSatisfying(c, list))
    BY <2>1, HighestIsPicked
  <2>3. {v \in ToSet(list) : InRange(c, v)} = Fitting(c, list, N)
    BY <2>1, MatchesRange DEF ToSet, Fitting
  <2> QED BY <2>2, <2>3 DEF PickedOf
<1>2. ConstraintPicks
  BY <1>1 DEF ConstraintPicks
<1> QED BY <1>2, PTL

LEMMA FirstEntry ==
  ASSUME NEW catalog, Len(catalog) \in Nat, DOMAIN catalog = 1 .. Len(catalog),
         NEW r, Known(catalog, r)
  PROVE  \E k \in DOMAIN catalog :
           Ref(catalog[k]) = r /\ ComponentByName(catalog, r) = catalog[k]
<1> DEFINE I == {k \in 1 .. Len(catalog) : Ref(catalog[k]) = r}
<1>1. I # {} /\ I \in SUBSET Nat
  BY DEF Known
<1>2. Min(I) \in I
  BY <1>1, LeastElement
<1>3. SelectInSeq(catalog, LAMBDA e : Ref(e) = r) = Min(I)
  BY <1>1 DEF SelectInSeq
<1>4. ComponentByName(catalog, r) = catalog[Min(I)]
  BY <1>3 DEF ComponentByName
<1> QED BY <1>2, <1>4

(* What has been chosen for the manifest is what the manifest asks for. *)
LEMMA ManifestAsks ==
  ASSUME NEW picked \in SUBSET [name : Kebab, kind : Kinds], picked # {}
  PROVE  /\ ManifestValid(Blocks(picked)) /\ HasAnyEntries(Blocks(picked))
         /\ Explicit(Blocks(picked)) = picked
<1> DEFINE b == Blocks(picked)
<1>1. \A k \in Kinds : b[k] = {r.name : r \in {p \in picked : p.kind = k}}
  BY DEF Blocks
<1>2. ManifestValid(b)
  BY <1>1 DEF ManifestValid
<1>3. HasAnyEntries(b)
  <2>1. PICK r \in picked : TRUE
    OBVIOUS
  <2>2. r.kind \in Kinds /\ r.name \in b[r.kind]
    BY <1>1
  <2> QED BY <2>2 DEF HasAnyEntries
<1>4. picked \subseteq Explicit(b)
  <2> SUFFICES ASSUME NEW r \in picked PROVE r \in Explicit(b)
    OBVIOUS
  <2>1. r = [name |-> r.name, kind |-> r.kind] /\ r.kind \in Kinds
    OBVIOUS
  <2>2. r.name \in b[r.kind]
    BY <1>1, <2>1
  <2>3. r \in Asked(b)
    BY <2>1, <2>2 DEF Asked
  <2> QED BY <2>2, <2>3 DEF Explicit
<1>5. Explicit(b) \subseteq picked
  <2> SUFFICES ASSUME NEW r \in Explicit(b) PROVE r \in picked
    OBVIOUS
  <2>1. PICK n \in UNION {b[k] : k \in Kinds}, k \in Kinds : r = [name |-> n, kind |-> k]
    BY DEF Explicit, Asked
  <2>2. r.name = n /\ r.kind = k /\ n \in b[k]
    BY <2>1 DEF Explicit
  <2>3. PICK p \in picked : p.kind = k /\ p.name = n
    BY <1>1, <2>2
  <2>4. p = [name |-> n, kind |-> k]
    BY <2>3
  <2> QED BY <2>1, <2>4
<1> QED BY <1>2, <1>3, <1>4, <1>5

\* An entry is fetched from a directory and goes where it should.
PlacedFor(catalog, e, dirs, agents) ==
  /\ ComponentByName(catalog, Ref(e)).path \in dirs
  /\ Targets(catalog, Ref(e), agents) = e.agents \cap agents \cap Adapters[e.kind]

LEMMA OfferedInstalls ==
  ASSUME NEW n \in Nat, NEW catalog, DOMAIN catalog = 1 .. n, Len(catalog) = n,
         NEW dirs, Validate(catalog, dirs), NEW agents,
         NEW picked \in SUBSET Offered(catalog, agents), picked # {}
  PROVE  /\ Unknown(catalog, picked) = {}
         /\ ManifestValid(Blocks(picked)) /\ HasAnyEntries(Blocks(picked))
         /\ Explicit(Blocks(picked)) = picked
         /\ \A i \in DOMAIN catalog : Ref(catalog[i]) \in picked =>
              PlacedFor(catalog, catalog[i], dirs, agents)
<1>1. \A r \in picked : \E i \in 1 .. n : r = Ref(catalog[i]) /\ catalog[i].agents \cap agents # {}
  BY DEF Offered
<1>2. \A i \in 1 .. n : EntryOK(catalog[i], dirs)
  BY DEF Validate
<1>3. picked \in SUBSET [name : Kebab, kind : Kinds]
  BY <1>1, <1>2 DEF EntryOK, Ref
<1>4. Unknown(catalog, picked) = {}
  <2>1. ASSUME NEW r \in picked PROVE Known(catalog, r)
    BY <1>1 DEF Known
  <2> QED BY <2>1 DEF Unknown
<1>5. ASSUME NEW i \in 1 .. n, Ref(catalog[i]) \in picked
      PROVE  PlacedFor(catalog, catalog[i], dirs, agents)
  <2> DEFINE r == Ref(catalog[i])
  <2>1. Known(catalog, r)
    BY DEF Known
  <2>2. PICK k \in DOMAIN catalog : Ref(catalog[k]) = r /\ ComponentByName(catalog, r) = catalog[k]
    BY <2>1, FirstEntry
  <2>3. k = i
    BY <2>2 DEF Validate, NamesUnique
  <2>4. catalog[i].path \in dirs
    BY <1>2 DEF EntryOK
  <2>5. r.kind = catalog[i].kind
    BY DEF Ref
  <2> QED BY <2>2, <2>3, <2>4, <2>5 DEF Targets, PlacedFor
<1> QED BY <1>3, <1>4, <1>5, ManifestAsks

(* For catalogues of any length, over any kinds, names and agents: what the check of
   the hub's CI accepts, fdh init can offer, write down, resolve and place
   (validate.go, Validate; init_wizard_harness.go). *)
THEOREM AcceptedInstalls == \A n \in Nat : AcceptedCatalogueInstalls(n)
<1> SUFFICES ASSUME NEW n \in Nat, NEW file \in CatalogueFiles(n), NEW dirs \in SUBSET AllDirs,
                    Accepts(file, dirs), NEW agents \in (SUBSET Canonical) \ {{}},
                    NEW noDefaults \in BOOLEAN,
                    NEW members \in SUBSET {Ref(Parse(file)[i]) : i \in DOMAIN Parse(file)}
             PROVE  LET catalog == Parse(file)
                        offered == Offered(catalog, agents) IN
                    /\ PreSelected(catalog, agents, members, noDefaults) \subseteq offered
                    /\ \A picked \in (SUBSET offered) \ {{}} :
                         /\ Unknown(catalog, picked) = {}
                         /\ ManifestValid(Blocks(picked)) /\ HasAnyEntries(Blocks(picked))
                         /\ Explicit(Blocks(picked)) = picked
                         /\ \A i \in DOMAIN catalog : Ref(catalog[i]) \in picked =>
                              PlacedFor(catalog, catalog[i], dirs, agents)
  BY DEF AcceptedCatalogueInstalls, PlacedFor
<1> DEFINE catalog == Parse(file)
           offered == Offered(catalog, agents)
<1>1. PICK m \in 0 .. n : file.components \in [1 .. m -> Entries]
  BY BoundedSeqElements DEF CatalogueFiles
<1>2. DOMAIN catalog = 1 .. m /\ Len(catalog) = m
  <2>1. DOMAIN file.components = 1 .. m /\ m \in Nat
    BY <1>1
  <2>2. CASE file.schema = 1
    BY <2>1, <2>2 DEF Parse
  <2>3. CASE file.schema # 1
    BY <1>1, <2>1, <2>3 DEF Parse
  <2> QED BY <2>2, <2>3
<1>3. Validate(catalog, dirs) /\ m \in Nat
  BY DEF Accepts
<1>4. PreSelected(catalog, agents, members, noDefaults) \subseteq offered
  BY DEF PreSelected, Offered
<1> HIDE DEF catalog, offered
<1>5. ASSUME NEW picked \in (SUBSET offered) \ {{}}
      PROVE  /\ Unknown(catalog, picked) = {}
             /\ ManifestValid(Blocks(picked)) /\ HasAnyEntries(Blocks(picked))
             /\ Explicit(Blocks(picked)) = picked
             /\ \A i \in DOMAIN catalog : Ref(catalog[i]) \in picked =>
                  PlacedFor(catalog, catalog[i], dirs, agents)
  <2>1. picked \in SUBSET Offered(catalog, agents) /\ picked # {}
    BY DEF offered
  <2> QED BY <1>2, <1>3, <2>1, OfferedInstalls
<1> QED BY <1>4, <1>5 DEF catalog, offered

(* CatalogueInstalls, for catalogues of any length (validate.go). *)
THEOREM AcceptedCataloguesInstall == Spec => []CatalogueInstalls
<1>1. CatalogueInstalls
  BY AcceptedInstalls, DocumentAssumption DEF CatalogueInstalls
<1> QED BY <1>1, PTL
=============================================================================
