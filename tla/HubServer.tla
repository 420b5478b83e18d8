----------------------------- MODULE HubServer -----------------------------
(***************************************************************************)
(* The portal API as a server of the hub's catalogue.  Refreshers bring a  *)
(* clone of the hub to the tip of main, one file at a time, and publish a  *)
(* snapshot; requests read that same clone, in several steps, while the    *)
(* refreshers change it: for the versions of a component, for the files of *)
(* one, and for what its authors contributed.                              *)
(*                                                                         *)
(* One component stands for the catalogue.  Its tree is an entrypoint,     *)
(* which declares the version, and one more file; a content hash is the    *)
(* tree it is the hash of.  Version 0 is "no version": the entrypoint is   *)
(* missing or declares none, and it names the sentinel 0.0.0.              *)
(***************************************************************************)
EXTENDS Naturals, Sequences, FiniteSets

CONSTANTS
  History,    \* the trees of the component on main, oldest commit first
  TagOf,      \* TagOf[v]: the commit the release pipeline tags as version v
  Verdict,    \* Verdict[t]: what fdh scan says of the tree t
  Data, NoFile, \* contents of the second file, and its absence
  Refreshers, \* what calls Refresh: the loop, a forced refresh, a signal
  Loop,       \* the refresher that is a loop
  FirstTip,   \* the tip of main when the portal starts
  Requests,   \* requests served at the same time
  Kinds,      \* what requests ask for
  MaxFaults   \* bound: failed fetches, checkouts and scans, and restarts

Commits  == 1 .. Len(History)
Versions == DOMAIN TagOf
Trees    == [doc : Versions \union {0}, data : Data \union {NoFile}]
EmptyTree == [doc |-> 0, data |-> NoFile]

ASSUME DataAssumption    == NoFile \notin Data
ASSUME VersionAssumption == Versions \subseteq Nat \ {0}
\* A commit of main declares a version; a bumped version is not taken back.
ASSUME HistoryAssumption ==
  /\ Len(History) \in Nat \ {0} /\ History \in [Commits -> Trees]
  /\ \A c \in Commits : History[c].doc \in Versions
  /\ \A c, d \in Commits : c <= d => History[c].doc <= History[d].doc
\* The release pipeline tags the commit that bumps the version.
ASSUME TagAssumption ==
  \A v \in Versions : TagOf[v] \in Commits /\ History[TagOf[v]].doc = v
ASSUME VerdictAssumption == Verdict \in [Trees -> {"pass", "warn", "fail"}]
ASSUME RefreshAssumption ==
  Loop \in Refreshers /\ FirstTip \in Commits /\ MaxFaults \in Nat
ASSUME SentinelAssumption == "none" \notin Refreshers
ASSUME KindAssumption ==
  Kinds \subseteq {"manifest", "sidecar", "tarball", "contributions"}

VARIABLES
  origin,    \* the tip of main on the remote
  released,  \* the versions tagged on the remote
  clone,     \* the repository in the hub directory
  work,      \* its working tree: the catalogue file, and the component
  lock,      \* the refresher that holds Server.mu
  refresher, \* refresher[r]: the step of a call of Refresh, and what it has built
  snapshot,  \* the published snapshot
  ready,     \* what /readyz reports
  verdicts,  \* the scan cache: verdicts[t] for a hash t
  walked,    \* Server.contribCache: the head and the commits that a walk attributed
  request,   \* request[q]: the step of a request and what it has read
  faults     \* failures and restarts so far

remote == <<origin, released>>
disk   == <<clone, work>>
vars   == <<remote, disk, lock, refresher, snapshot, ready, verdicts, walked,
            request, faults>>

NoRefresher == "none"
Unscanned   == "none"
NoVersions  == [v \in {} |-> EmptyTree]
\* An entry of the catalogue: the newest version of the component and its hash; the
\* component is not in it when its tree cannot be hashed.
NoEntry     == [version |-> 0, hash |-> EmptyTree]
\* A snapshot, with what the refresh that built it had checked out.
NoSnapshot  == [entry |-> NoEntry, commit |-> 0, whole |-> FALSE]
\* A call of Refresh: its next step, whether it clones, what it has built.
Resting     == [at |-> "idle", clones |-> FALSE, whole |-> FALSE, built |-> NoSnapshot]
\* A request: its next step, what it asks for, what it has read and answers, and whether
\* a checkout has removed a file of the tree that it was hashing.
Idle        == [at |-> "idle", kind |-> "none", v |-> 0, past |-> {}, torn |-> FALSE,
                read |-> 0, tags |-> {}, versions |-> NoVersions,
                status |-> "none", body |-> EmptyTree, found |-> {}]
NoWalk      == [head |-> 0, commits |-> {}]

\* Mutant: a version past its release is listed with the tip's hash.
VersionsTip(declared, tags, hash) ==
  [v \in IF tags \union ({declared} \ {0}) = {} THEN {0} ELSE tags \union ({declared} \ {0})
     |-> hash]

(* The versions of a component: what its tags, the declared version and the
   tree's hash, read at three moments, make of them. *)
VersionsOf(declared, tags, hash) ==
  LET names == tags \union ({declared} \ {0})
  IN  IF names = {} THEN [v \in {0} |-> hash]
      ELSE [v \in names |-> IF v = declared THEN hash ELSE History[TagOf[v]]]

\* The versions come newest first.
Latest(versions) == CHOOSE v \in DOMAIN versions : \A w \in DOMAIN versions : w <= v

Init ==
  /\ origin = FirstTip /\ released = {}
  /\ clone = [repo |-> FALSE, fetched |-> 0, head |-> 0, tags |-> {}]
  /\ work = [catalog |-> FALSE, tree |-> EmptyTree]
  /\ lock = NoRefresher /\ refresher = [r \in Refreshers |-> Resting]
  /\ snapshot = NoSnapshot /\ ready = FALSE
  /\ verdicts = [t \in Trees |-> Unscanned]
  /\ walked = NoWalk
  /\ request = [q \in Requests |-> Idle]
  /\ faults = 0

-----------------------------------------------------------------------------
(* The hub: merges move main, the pipeline tags a version some time later. *)

Merge ==
  /\ origin < Len(History)
  /\ origin' = origin + 1
  /\ UNCHANGED <<released, disk, lock, refresher, snapshot, ready, verdicts,
                 request, faults, walked>>

Release(v) ==
  /\ v \notin released /\ TagOf[v] <= origin
  /\ released' = released \union {v}
  /\ UNCHANGED <<origin, disk, lock, refresher, snapshot, ready, verdicts,
                 request, faults, walked>>

-----------------------------------------------------------------------------
(* A refresh. *)

\* A clone that changes finds requests half served; those that are served are over.
Disturbed(removes) ==
  [q \in Requests |-> IF request[q].at = "done" THEN Idle
    ELSE [request[q] EXCEPT !.torn = @ \/ (removes /\ request[q].at \in {"files", "rest"})]]
\* What the releases were when they were asked for says nothing once the clone is given up.
Bereft == [q \in Requests |-> IF request[q].at = "done" THEN Idle ELSE [request[q] EXCEPT !.past = {}]]

At(r, step) == refresher[r].at = step
Goes(r, step) == refresher' = [refresher EXCEPT ![r].at = step]
Rests(r) == refresher' = [refresher EXCEPT ![r] = Resting]

Refresh(r) ==
  /\ At(r, "idle") /\ lock = NoRefresher
  /\ lock' = r /\ Goes(r, "fetch")
  /\ UNCHANGED <<remote, disk, snapshot, ready, verdicts, request, faults, walked>>

\* Mutant: a fetch that brings nothing new returns before the checkout.
FetchNews(r) ==
  /\ At(r, "fetch")
  /\ clone' = [repo |-> TRUE, fetched |-> origin, head |-> origin, tags |-> released]
  /\ Goes(r, IF clone.fetched = origin THEN "build" ELSE "checkout")
  /\ request' = Disturbed(FALSE)
  /\ UNCHANGED <<remote, work, lock, snapshot, ready, verdicts, faults, walked>>

(* A clone or a fetch brings main and the tags that point into it; HEAD moves
   before the files do. *)
Fetch(r) ==
  /\ At(r, "fetch")
  /\ clone' = [repo |-> TRUE, fetched |-> origin, head |-> origin, tags |-> released]
  /\ refresher' = [refresher EXCEPT ![r].at = "checkout", ![r].clones = ~clone.repo]
  /\ request' = Disturbed(FALSE)
  /\ UNCHANGED <<remote, work, lock, snapshot, ready, verdicts, faults, walked>>

\* The network is down, or the request that asked for the refresh has gone.
FetchFails(r) ==
  /\ At(r, "fetch") /\ faults < MaxFaults
  /\ Goes(r, "build") /\ faults' = faults + 1
  /\ UNCHANGED <<remote, disk, lock, snapshot, ready, verdicts, request, walked>>

Checked == [catalog |-> TRUE, tree |-> History[clone.head]]

(* One file of the checkout.  Git walks the names in order: hub/registry.yaml, then,
   for a skill, SKILL.md and what is beside it. *)
NextFile ==
  IF ~work.catalog THEN [work EXCEPT !.catalog = TRUE]
  ELSE IF work.tree.doc # Checked.tree.doc THEN [work EXCEPT !.tree.doc = Checked.tree.doc]
  ELSE [work EXCEPT !.tree.data = Checked.tree.data]

CheckoutFile(r) ==
  /\ At(r, "checkout") /\ work # Checked
  /\ work' = NextFile
  /\ request' = Disturbed(work.tree.data # NoFile /\ NextFile.tree.data = NoFile)
  /\ UNCHANGED <<remote, clone, lock, refresher, snapshot, ready, verdicts, faults, walked>>

\* Mutant: only the sync is serialized, not the building of the snapshot.
CheckoutEndsUnlocks(r) ==
  /\ At(r, "checkout") /\ work = Checked
  /\ refresher' = [refresher EXCEPT ![r].at = "build", ![r].whole = TRUE]
  /\ lock' = NoRefresher
  /\ UNCHANGED <<remote, disk, snapshot, ready, verdicts, request, faults, walked>>

CheckoutEnds(r) ==
  /\ At(r, "checkout") /\ work = Checked
  /\ refresher' = [refresher EXCEPT ![r].at = "build", ![r].whole = TRUE]
  /\ UNCHANGED <<remote, disk, lock, snapshot, ready, verdicts, request, faults, walked>>

(* A checkout that fails leaves what it has written, and the refresh goes on.  A
   clone that fails takes everything away again. *)
CheckoutFails(r) ==
  /\ At(r, "checkout") /\ work # Checked /\ faults < MaxFaults
  /\ IF refresher[r].clones
     THEN /\ clone' = [repo |-> FALSE, fetched |-> 0, head |-> 0, tags |-> {}]
          /\ work' = [catalog |-> FALSE, tree |-> EmptyTree]
          /\ request' = Bereft
     ELSE UNCHANGED <<disk, request>>
  /\ Goes(r, "build") /\ faults' = faults + 1
  /\ UNCHANGED <<remote, lock, snapshot, ready, verdicts, walked>>

\* A scan that cannot run is recorded as none, and is not cached.
Scan(hash, tree, verdict) ==
  \/ verdict = Verdict[tree] /\ verdicts' = [verdicts EXCEPT ![hash] = verdict]
     /\ UNCHANGED faults
  \/ verdict = Unscanned /\ faults < MaxFaults /\ faults' = faults + 1
     /\ UNCHANGED verdicts

\* buildHubIndex: the lock keeps the tree as it is until the entry is built.
Build(r) ==
  /\ At(r, "build")
  /\ IF ~work.catalog
     THEN /\ Rests(r) /\ lock' = NoRefresher
          /\ UNCHANGED <<verdicts, faults>>
     ELSE /\ LET versions == VersionsOf(work.tree.doc, clone.tags, work.tree)
                 newest   == Latest(versions)
                 hash     == versions[newest]
                 Built(e) == refresher' = [refresher EXCEPT ![r].at = "store",
                   ![r].built = [entry |-> e, commit |-> clone.head, whole |-> refresher[r].whole]]
             IN  CASE work.tree = EmptyTree -> Built(NoEntry) /\ UNCHANGED <<verdicts, faults>>
                   [] work.tree # EmptyTree /\ verdicts[hash] # Unscanned ->
                        /\ Built([version |-> newest, hash |-> hash])
                        /\ UNCHANGED <<verdicts, faults>>
                   [] OTHER -> \E verdict \in {Unscanned, Verdict[work.tree]} :
                        /\ Scan(hash, work.tree, verdict)
                        /\ Built([version |-> newest, hash |-> hash])
          /\ UNCHANGED lock
  /\ UNCHANGED <<remote, disk, snapshot, ready, request, walked>>

Store(r) ==
  /\ At(r, "store")
  /\ snapshot' = refresher[r].built /\ ready' = TRUE
  /\ Rests(r) /\ lock' = NoRefresher
  /\ UNCHANGED <<remote, disk, verdicts, request, faults, walked>>

\* The container restarts on the same volume.
Restart ==
  /\ faults < MaxFaults /\ faults' = faults + 1
  /\ lock' = NoRefresher /\ refresher' = [r \in Refreshers |-> Resting]
  /\ snapshot' = NoSnapshot /\ ready' = FALSE
  /\ verdicts' = [t \in Trees |-> Unscanned]
  /\ walked' = NoWalk
  /\ request' = [q \in Requests |-> Idle]
  /\ UNCHANGED <<remote, disk>>

-----------------------------------------------------------------------------
(* The requests.  A handler reads the clone in steps: what the catalogue has
   and the entrypoint declares, the tags, the hash of the tree; then it answers,
   scans, or looks for the bytes of the version it was asked for. *)

\* A manifest stands for the index and the portal's detail page too, which take the
\* same steps, and an archive for the document page, which serves one file of it.
ByVersion == {"sidecar", "tarball"}

\* Versions whose release is in the clone and which the tip has left behind.
PastReleases == {v \in clone.tags : work.catalog /\ v < work.tree.doc}

ReqAt(q, step) == request[q].at = step
ReqGoes(q, rec) == request' = [request EXCEPT ![q] = rec]
Answer(q, status, versions, body) ==
  ReqGoes(q, [Idle EXCEPT !.at = "done", !.kind = request[q].kind, !.v = request[q].v,
                          !.past = request[q].past, !.torn = request[q].torn, !.status = status, !.versions = versions, !.body = body])
Refuse(q) == Answer(q, "refused", NoVersions, EmptyTree)
serverOnly == <<remote, disk, lock, refresher, snapshot, ready, walked>>

\* A client asks, once it has had its last answer.
Ask(q, kind, v) ==
  /\ request[q].at \in {"idle", "done"}
  /\ (kind \in ByVersion) <=> (v \in Versions)
  /\ ReqGoes(q, [Idle EXCEPT !.at = IF kind = "contributions" THEN "head" ELSE "declared", !.kind = kind, !.v = v,
                             !.past = PastReleases])
  /\ UNCHANGED <<serverOnly, verdicts, faults>>

\* No catalogue: 503 on the wire, 404 on the portal's own pages.
ReadDeclared(q) ==
  /\ ReqAt(q, "declared")
  /\ IF ~work.catalog
     THEN Refuse(q)
     ELSE ReqGoes(q, [request[q] EXCEPT !.at = "tags", !.read = work.tree.doc])
  /\ UNCHANGED <<serverOnly, verdicts, faults>>

ReadTags(q) ==
  /\ ReqAt(q, "tags")
  /\ ReqGoes(q, [request[q] EXCEPT !.at = "hash", !.tags = clone.tags])
  /\ UNCHANGED <<serverOnly, verdicts, faults>>

(* The hash of the tip's tree: the names of its directory, then one file after the
   other.  Where a checkout has removed a file whose name was read there is no hash,
   and no answer, for any version: 500 on the wire, 404 on the portal's own pages. *)
ListFiles(q) ==
  /\ ReqAt(q, "hash")
  /\ IF work.tree = EmptyTree THEN Refuse(q)
     ELSE ReqGoes(q, [request[q] EXCEPT !.at = "files", !.body = work.tree])
  /\ UNCHANGED <<serverOnly, verdicts, faults>>

HashEntrypoint(q) ==
  /\ ReqAt(q, "files")
  /\ IF request[q].body.doc # 0 /\ work.tree.doc = 0 THEN Refuse(q)
     ELSE ReqGoes(q, [request[q] EXCEPT !.at = "rest",
                        !.body.doc = IF @ = 0 THEN 0 ELSE work.tree.doc])
  /\ UNCHANGED <<serverOnly, verdicts, faults>>

\* The last file and, of what was hashed, the versions; or a version that is not there.
ReadHash(q) ==
  /\ ReqAt(q, "rest")
  /\ LET rec      == request[q]
         hash     == [rec.body EXCEPT !.data = IF @ = NoFile THEN NoFile ELSE work.tree.data]
         versions == VersionsOf(rec.read, rec.tags, hash)
     IN  IF \/ rec.body.data # NoFile /\ work.tree.data = NoFile
            \/ rec.kind \in ByVersion /\ rec.v \notin DOMAIN versions
         THEN Refuse(q)
         ELSE ReqGoes(q, [rec EXCEPT !.at = IF rec.kind = "manifest" THEN "lookup" ELSE "source",
                                     !.read = 0, !.tags = {}, !.body = EmptyTree,
                                     !.versions = versions])
  /\ UNCHANGED <<serverOnly, verdicts, faults>>

Newest(q) == request[q].versions[Latest(request[q].versions)]

LookUpVerdict(q) ==
  /\ ReqAt(q, "lookup")
  /\ IF verdicts[Newest(q)] # Unscanned
     THEN Answer(q, "ok", request[q].versions, EmptyTree)
     ELSE ReqGoes(q, [request[q] EXCEPT !.at = "scan"])
  /\ UNCHANGED <<serverOnly, verdicts, faults>>

\* The verdict of the working tree is kept for the hash of the newest version.
ScanTip(q) ==
  /\ ReqAt(q, "scan")
  /\ \E verdict \in {Unscanned, Verdict[work.tree]} :
       /\ Scan(Newest(q), work.tree, verdict)
       /\ Answer(q, "ok", request[q].versions, EmptyTree)
  /\ UNCHANGED serverOnly

\* resolveVersionSource reads the entrypoint and the tags once more.
FindSource(q) ==
  /\ ReqAt(q, "source")
  /\ LET rec    == request[q]
         inTree == rec.v = work.tree.doc \/ rec.v \notin clone.tags
     IN  IF rec.kind = "sidecar"
         THEN Answer(q, "ok", NoVersions, rec.versions[rec.v])
         ELSE IF inTree THEN ReqGoes(q, [rec EXCEPT !.at = "read", !.versions = NoVersions])
         ELSE Answer(q, "ok", NoVersions, History[TagOf[rec.v]])
  /\ UNCHANGED <<serverOnly, verdicts, faults>>

ReadSource(q) ==
  /\ ReqAt(q, "read")
  /\ Answer(q, "ok", NoVersions, work.tree)
  /\ UNCHANGED <<serverOnly, verdicts, faults>>

-----------------------------------------------------------------------------
(* The contributions of an author: the commits of main that touch the component,
   kept for the head they were walked from.  An answer stands for those of every
   author, of which the handler gives one author's. *)

\* A commit touches the component when its tree is not that of its parent.
Touches(c) == c = 1 \/ History[c] # History[c - 1]
Contributions(head) == {c \in 1 .. head : Touches(c)}

\* No repository: nothing to derive.
ReadHead(q) ==
  /\ ReqAt(q, "head")
  /\ IF ~clone.repo THEN Refuse(q)
     ELSE ReqGoes(q, [request[q] EXCEPT !.at = "walk", !.read = clone.head])
  /\ UNCHANGED <<serverOnly, verdicts, faults>>

\* Newest first; the walk ends where a commit of the clone cannot be read.
Walk(head) ==
  IF clone.repo THEN {Contributions(head)}
  ELSE {{c \in Contributions(head) : c > last} : last \in 0 .. head}

\* Mutant: what was walked once is kept whatever the head.
WalkOnce(q) ==
  /\ ReqAt(q, "walk")
  /\ \E commits \in IF walked # NoWalk THEN {walked.commits} ELSE Walk(request[q].read) :
       /\ walked' = [head |-> request[q].read, commits |-> commits]
       /\ ReqGoes(q, [request[q] EXCEPT !.at = "done", !.status = "ok", !.found = commits])
  /\ UNCHANGED <<remote, disk, lock, refresher, snapshot, ready, verdicts, faults>>

\* contribMu is held from the look at the memo to its replacement.
WalkHistory(q) ==
  /\ ReqAt(q, "walk")
  /\ LET head == request[q].read IN
     \E commits \in IF walked.head = head THEN {walked.commits} ELSE Walk(head) :
       /\ walked' = [head |-> head, commits |-> commits]
       /\ ReqGoes(q, [request[q] EXCEPT !.at = "done", !.status = "ok", !.found = commits])
  /\ UNCHANGED <<remote, disk, lock, refresher, snapshot, ready, verdicts, faults>>

-----------------------------------------------------------------------------
RefreshStep(r) ==
  \/ Fetch(r) \/ FetchFails(r) \/ CheckoutFile(r) \/ CheckoutEnds(r)
  \/ CheckoutFails(r) \/ Build(r) \/ Store(r)

RequestStep(q) ==
  \/ ReadDeclared(q) \/ ReadTags(q) \/ ListFiles(q) \/ HashEntrypoint(q) \/ ReadHash(q)
  \/ LookUpVerdict(q) \/ ScanTip(q) \/ FindSource(q) \/ ReadSource(q) \/ ReadHead(q) \/ WalkHistory(q)

Next ==
  \/ Merge
  \/ \E v \in Versions : Release(v)
  \/ \E r \in Refreshers : Refresh(r) \/ RefreshStep(r)
  \/ \E q \in Requests :
       \/ \E kind \in Kinds, v \in Versions \union {0} : Ask(q, kind, v)
       \/ RequestStep(q)
  \/ Restart

(* The ticker of the loop keeps ticking and a refresh runs on; nobody has to
   merge, release, ask or force a refresh.  Faults are finitely many. *)
Fairness ==
  /\ WF_vars(Refresh(Loop))
  /\ \A r \in Refreshers : WF_vars(RefreshStep(r))

Spec == Init /\ [][Next]_vars /\ Fairness

-----------------------------------------------------------------------------
\* Every variable has its type.
TypeOK ==
  /\ origin \in Commits /\ released \subseteq Versions
  /\ clone \in [repo : BOOLEAN, fetched : Commits \union {0}, head : Commits \union {0},
                tags : SUBSET Versions]
  /\ work \in [catalog : BOOLEAN, tree : Trees]
  /\ lock \in Refreshers \union {NoRefresher}
  /\ \A r \in Refreshers : refresher[r].at \in {"idle", "fetch", "checkout", "build", "store"}
  /\ ready = (snapshot # NoSnapshot)
  /\ verdicts \in [Trees -> {"pass", "warn", "fail", Unscanned}]
  /\ walked \in [head : Commits \union {0}, commits : SUBSET Commits]
  /\ \A q \in Requests : request[q].body \in Trees
  /\ faults \in 0 .. MaxFaults

(* A snapshot built after a checkout that succeeded shows the component as one
   commit of main has it, never a mixture of two, and its newest version is the
   declared one unless a later release is already in the clone: requests and
   other refreshes go on while it is built (server.go, Refresh). *)
SnapshotWhole ==
  /\ TypeOK
  /\ snapshot.whole =>
       /\ snapshot.entry.version >= History[snapshot.commit].doc
       /\ snapshot.entry.version = History[snapshot.commit].doc =>
            snapshot.entry.hash = History[snapshot.commit]

(* A published snapshot is never replaced by one of an older commit, however the
   loop, forced refreshes and failures overlap (server.go, Refresh). *)
SnapshotForward ==
  [][snapshot' # NoSnapshot => snapshot'.commit >= snapshot.commit]_vars

(* Once merges and failures stop, the loop brings the snapshot to the tip of main,
   also after a checkout that stopped half-way (server.go, RunRefreshLoop; git.go,
   refresh). *)
EventuallyCurrent ==
  <>[](snapshot.whole /\ snapshot.commit = origin /\ work = Checked)

(* A version whose release was in the clone and that the tip had left behind when a
   request was made is served, if at all, with the tree of its tag, whatever is checked
   out while the request is served; and it is refused only where a checkout removed a
   file of the tip's tree between the reading of its name and its hash; unless a clone
   was given up meanwhile (versions.go, componentVersions and resolveVersionSource;
   bundle.go, HashDir). *)
ReleasedIsFixed ==
  \A q \in Requests : LET rec == request[q] IN
    rec.at = "done" /\ rec.kind # "contributions" =>
      \A v \in rec.past :
        /\ (rec.kind \in ByVersion => rec.v = v) /\ rec.status = "refused" => rec.torn
        /\ rec.kind \in ByVersion /\ rec.v = v /\ rec.status = "ok" =>
             rec.body = History[TagOf[v]]
        /\ rec.kind = "manifest" /\ rec.status = "ok" =>
             v \in DOMAIN rec.versions /\ rec.versions[v] = History[TagOf[v]]

(* An answer lists all of an author's commits up to the head that was read for it,
   and no others, while main moves and refreshes bring the clone forward; unless a
   clone was given up while its history was walked (contributions.go,
   contributionIndexForHead). *)
ContributionsOfHead ==
  \A q \in Requests : LET rec == request[q] IN
    rec.at = "done" /\ rec.kind = "contributions" /\ rec.status = "ok" =>
      /\ rec.found \subseteq Contributions(rec.read)
      /\ faults = 0 => rec.found = Contributions(rec.read)

=============================================================================
