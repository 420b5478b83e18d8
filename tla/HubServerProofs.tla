--------------------------- MODULE HubServerProofs ---------------------------
(***************************************************************************)
(* Theorems about HubServer, for every history of the hub, every number of *)
(* refreshers and requests, and every number of faults: the snapshot is    *)
(* whole and never goes back, past releases are served as they were        *)
(* tagged, and an answer lists the contributions of the head it read.      *)
(***************************************************************************)
EXTENDS HubServer, FiniteSetTheorems, TLAPS

(***************************************************************************)
(* The newest of the versions.                                             *)
(***************************************************************************)
\* A finite set of numbers has a greatest: of the sets of the numbers above a member
\* one is least.
LEMMA GreatestExists ==
  ASSUME NEW S \in SUBSET Nat, IsFiniteSet(S), S # {}
  PROVE  \E m \in S : \A n \in S : n <= m
<1> DEFINE Above(m) == {n \in S : m < n}
           T == {Above(m) : m \in S}
<1>1. IsWellFoundedOn(StrictSubsetOrdering(S), SUBSET S)
  BY FS_StrictSubsetOrderingWellFounded, FS_FiniteSubsetsOfFinite
<1>2. T \subseteq SUBSET S /\ T # {}
  OBVIOUS
<1>3. PICK x \in T : \A y \in T : <<y, x>> \notin StrictSubsetOrdering(S)
  <2> HIDE DEF T
  <2> QED BY <1>1, <1>2, WFMin
<1>4. PICK m \in S : x = Above(m)
  BY <1>3
<1>5. ASSUME NEW n \in S, ~(n <= m) PROVE FALSE
  <2>0. m \in Nat /\ S \subseteq Nat /\ n \in Nat /\ m < n
    BY <1>5
  <2>1. Above(n) \subseteq x /\ n \in x /\ n \notin Above(n)
    <3>1. \A k \in S : n < k => m < k
      BY <2>0
    <3>2. Above(n) \subseteq Above(m) /\ n \in Above(m)
      BY <2>0, <3>1
    <3>3. n \notin Above(n)
      BY <2>0
    <3> QED BY <1>4, <3>2, <3>3, Zenon
  <2>2. <<Above(n), x>> \in StrictSubsetOrdering(S)
    BY <2>1, <1>2, <1>3 DEF StrictSubsetOrdering
  <2> QED BY <2>2, <1>3
<1> QED BY <1>5

\* Main declares no version above that of its last commit.
LEMMA VersionsFinite == IsFiniteSet(Versions \union {0}) /\ Versions \union {0} \subseteq Nat
<1>1. Len(History) \in Commits
  BY HistoryAssumption DEF Commits
<1>2. History[Len(History)].doc \in Nat
  BY <1>1, HistoryAssumption, VersionAssumption
<1>3. \A v \in Versions \union {0} : v \in Nat /\ v <= History[Len(History)].doc
  <2> SUFFICES ASSUME NEW v \in Versions
               PROVE  v \in Nat /\ v <= History[Len(History)].doc
    BY <1>2
  <2>1. TagOf[v] \in Commits /\ History[TagOf[v]].doc = v
    BY TagAssumption
  <2>2. TagOf[v] <= Len(History)
    BY <2>1, HistoryAssumption DEF Commits
  <2> QED BY <2>1, <2>2, <1>1, HistoryAssumption, VersionAssumption
<1> QED BY <1>2, <1>3, FS_BoundedSetOfNaturals

VersionMaps == UNION {[D -> Trees] : D \in SUBSET (Versions \union {0})}

\* Latest is the newest of the versions it is given.
LEMMA LatestIsNewest ==
  ASSUME NEW versions \in VersionMaps, DOMAIN versions # {}
  PROVE  /\ Latest(versions) \in DOMAIN versions /\ Latest(versions) \in Versions \union {0}
         /\ \A v \in DOMAIN versions : v <= Latest(versions)
         /\ versions[Latest(versions)] \in Trees
<1>1. DOMAIN versions \in SUBSET (Versions \union {0})
      /\ \A v \in DOMAIN versions : versions[v] \in Trees
  BY DEF VersionMaps
<1>2. DOMAIN versions \subseteq Nat /\ IsFiniteSet(DOMAIN versions)
  BY <1>1, VersionsFinite, FS_Subset
<1>3. \E m \in DOMAIN versions : \A n \in DOMAIN versions : n <= m
  BY <1>2, GreatestExists
<1>4. Latest(versions) \in DOMAIN versions
      /\ \A v \in DOMAIN versions : v <= Latest(versions)
  BY <1>3 DEF Latest
<1> QED BY <1>1, <1>4

\* Versions, commits and faults are numbers.
LEMMA Numbers ==
  /\ \A v \in Versions \union {0} : v \in Nat
  /\ \A c \in Commits \union {0} : c \in Nat
  /\ \A f \in 0 .. MaxFaults : f \in Nat
  BY HistoryAssumption, VersionAssumption, RefreshAssumption DEF Commits

LEMMA EmptyTreeTyping == EmptyTree \in Trees
  BY DEF EmptyTree, Trees

LEMMA ReleasedTrees == \A v \in Versions : History[TagOf[v]] \in Trees
  BY TagAssumption, HistoryAssumption

(* VersionsOf names the tagged versions and the declared one, which alone has the hash
   of the tree; every other has the tree of its tag. *)
LEMMA VersionsOfEntry ==
  ASSUME NEW declared \in Versions \union {0}, NEW tags \in SUBSET Versions, NEW hash \in Trees,
         NEW versions, versions = VersionsOf(declared, tags, hash)
  PROVE  /\ versions \in VersionMaps /\ DOMAIN versions # {}
         /\ tags \subseteq DOMAIN versions
         /\ \A v \in tags : v # declared => versions[v] = History[TagOf[v]]
         /\ declared # 0 => declared \in DOMAIN versions /\ versions[declared] = hash
<1> DEFINE names == tags \union ({declared} \ {0})
<1>1. CASE names = {}
  <2>1. VersionsOf(declared, tags, hash) = [v \in {0} |-> hash]
    BY <1>1 DEF VersionsOf
  <2>2. tags = {} /\ declared = 0
    BY <1>1
  <2>3. [v \in {0} |-> hash] \in VersionMaps
    <3>1. [v \in {0} |-> hash] \in [{0} -> Trees] /\ {0} \in SUBSET (Versions \union {0})
      OBVIOUS
    <3> QED BY <3>1, Zenon DEF VersionMaps
  <2> QED BY <2>1, <2>2, <2>3
<1>2. CASE names # {}
  <2> DEFINE f == [v \in names |-> IF v = declared THEN hash ELSE History[TagOf[v]]]
  <2>1. VersionsOf(declared, tags, hash) = f
    BY <1>2 DEF VersionsOf
  <2>2. names \in SUBSET (Versions \union {0}) /\ \A v \in names : f[v] \in Trees
    BY ReleasedTrees
  <2>3. f \in [names -> Trees]
    BY <2>2
  <2>4. f \in VersionMaps
    BY <2>2, <2>3 DEF VersionMaps
  <2>5. \A v \in tags : v # declared => f[v] = History[TagOf[v]]
    OBVIOUS
  <2>6. declared # 0 => declared \in names /\ f[declared] = hash
    OBVIOUS
  <2> QED BY <1>2, <2>1, <2>4, <2>5, <2>6
<1> QED BY <1>1, <1>2

(***************************************************************************)
(* The types of the variables.                                             *)
(***************************************************************************)
Entries   == [version : Versions \union {0}, hash : Trees]
Snapshots == [entry : Entries,
              commit : Commits \union {0}, whole : BOOLEAN]
Calls     == [at : {"idle", "fetch", "checkout", "build", "store"}, clones : BOOLEAN,
              whole : BOOLEAN, built : Snapshots]
ByKind    == {"manifest", "sidecar", "tarball"}
Served    == [at : {"idle", "declared", "tags", "hash", "files", "rest", "lookup", "scan",
                    "source", "read", "head", "walk", "done"},
              kind : ByKind \union {"contributions", "none"}, v : Versions \union {0},
              past : SUBSET Versions, torn : BOOLEAN, read : Nat, tags : SUBSET Versions,
              versions : VersionMaps, status : {"none", "ok", "refused"}, body : Trees,
              found : SUBSET Commits]

HubTyped ==
  /\ origin \in Commits /\ released \subseteq Versions
  /\ clone \in [repo : BOOLEAN, fetched : Commits \union {0}, head : Commits \union {0},
                tags : SUBSET Versions]
  /\ work \in [catalog : BOOLEAN, tree : Trees]
  /\ lock \in Refreshers \union {NoRefresher}
  /\ refresher \in [Refreshers -> Calls]
  /\ snapshot \in Snapshots
  /\ ready \in BOOLEAN
  /\ verdicts \in [Trees -> {"pass", "warn", "fail", Unscanned}]
  /\ walked \in [head : Commits \union {0}, commits : SUBSET Commits]
  /\ request \in [Requests -> Served]
  /\ faults \in 0 .. MaxFaults

(***************************************************************************)
(* The inductive invariant of the refreshes.                               *)
(***************************************************************************)
\* One refresh at a time: whoever is in one holds the lock, and nobody else has anything.
OneRefresh ==
  \A r \in Refreshers : /\ refresher[r].at # "idle" => lock = r
                        /\ refresher[r].at = "idle" => refresher[r] = Resting

\* The clone follows main; what it has checked out, and the snapshot, are not ahead of it.
CloneFollows ==
  /\ clone.head <= origin /\ clone.tags \subseteq released
  /\ clone.repo <=> clone.head # 0
  /\ clone.repo => work.tree.doc <= History[clone.head].doc
  /\ ~clone.repo => work.tree.doc = 0 /\ ~work.catalog
  /\ snapshot.commit <= clone.head

\* What SnapshotWhole says of a snapshot, published or not.
ShowsOne(s) ==
  s.whole => /\ s.commit \in Commits
             /\ s.entry.version >= History[s.commit].doc
             /\ s.entry.version = History[s.commit].doc => s.entry.hash = History[s.commit]

\* What a refresh knows of the clone at each step.
CallKnows(call, cl, wk, snap) ==
  /\ call.at \in {"fetch", "checkout"} => ~call.whole
  /\ call.at = "checkout" => cl.repo /\ (call.clones => snap.commit = 0)
  /\ call.at = "build" /\ call.whole =>
       cl.repo /\ wk = [catalog |-> TRUE, tree |-> History[cl.head]]
  /\ call.at = "store" => /\ cl.repo /\ call.built.commit = cl.head
                          /\ ShowsOne(call.built)

RefreshInv ==
  /\ HubTyped /\ OneRefresh /\ CloneFollows /\ ShowsOne(snapshot)
  /\ (ready <=> snapshot # NoSnapshot)
  /\ \A r \in Refreshers : CallKnows(refresher[r], clone, work, snapshot)

(***************************************************************************)
(* The inductive invariant of the requests.                                *)
(***************************************************************************)
\* A release that a request saw left behind stays so until the clone is given up.
PastKept(rec, cl, wk) ==
  rec.at \notin {"idle", "done"} =>
    \A v \in rec.past : v \in cl.tags /\ wk.catalog /\ v < wk.tree.doc

\* What an answer may be where the request saw the past release v.
RightFor(rec, v, status, versions, body) ==
  /\ rec.kind # "contributions" /\ (rec.kind \in ByVersion => rec.v = v)
       /\ status = "refused" => rec.torn
  /\ rec.kind \in ByVersion /\ rec.v = v /\ status = "ok" => body = History[TagOf[v]]
  /\ rec.kind = "manifest" /\ status = "ok" =>
       v \in DOMAIN versions /\ versions[v] = History[TagOf[v]]

\* The past releases of a request through its steps, and in its answer.
PastServed(rec) ==
  \A v \in rec.past :
    /\ rec.at \in {"tags", "hash", "files", "rest"} => v < rec.read
    /\ rec.at \in {"hash", "files", "rest"} => v \in rec.tags
    /\ rec.at \in {"lookup", "scan", "source"} =>
         v \in DOMAIN rec.versions /\ rec.versions[v] = History[TagOf[v]]
    /\ rec.at = "read" => rec.v # v
    /\ rec.at = "done" => RightFor(rec, v, rec.status, rec.versions, rec.body)

\* A file that was there when the names were read is there, or a checkout removed it.
Listed(rec, wk) ==
  rec.at \in {"files", "rest"} /\ rec.past # {} /\ rec.body.data # NoFile =>
    wk.tree.data # NoFile \/ rec.torn

\* Which request takes which step, and what it has then.
StepOfKind(rec) ==
  /\ rec.at \in {"declared", "tags", "hash", "files", "rest"} => rec.kind \in ByKind
  /\ rec.at \in {"tags", "hash", "files", "rest"} => rec.read \in Versions \union {0}
  /\ rec.at \in {"lookup", "scan"} => rec.kind = "manifest" /\ DOMAIN rec.versions # {}
  /\ rec.at = "source" => rec.kind \in ByVersion /\ rec.v \in DOMAIN rec.versions
  /\ rec.at = "read" => rec.kind = "tarball"
  /\ rec.at \in {"head", "walk"} => rec.kind = "contributions"
  /\ rec.at = "walk" => rec.read \in Commits

\* What was walked, for an answer or for the memo: all of the head's contributions,
\* when no clone can have been given up meanwhile.
FoundAt(commits, head, flt) ==
  commits \subseteq Contributions(head) /\ (flt = 0 => commits = Contributions(head))

FoundServed(rec, cl, flt) ==
  /\ rec.at = "walk" /\ flt = 0 => cl.repo
  /\ rec.at = "done" /\ rec.kind = "contributions" /\ rec.status = "ok" =>
       FoundAt(rec.found, rec.read, flt)

\* A request fits the clone, its working tree and the faults so far.
Fits(rec, cl, wk, flt) ==
  /\ PastKept(rec, cl, wk) /\ PastServed(rec) /\ Listed(rec, wk)
  /\ StepOfKind(rec) /\ FoundServed(rec, cl, flt)

RequestInv ==
  /\ FoundAt(walked.commits, walked.head, faults)
  /\ \A q \in Requests : Fits(request[q], clone, work, faults)

(***************************************************************************)
(* Types are kept.                                                         *)
(***************************************************************************)
LEMMA IdleTyped == Idle \in Served
<1>1. NoVersions \in VersionMaps
  <2>1. NoVersions \in [{} -> Trees] /\ {} \in SUBSET (Versions \union {0})
    BY DEF NoVersions
  <2> QED BY <2>1, Zenon DEF VersionMaps
<1> QED BY <1>1, EmptyTreeTyping DEF Idle, Served

LEMMA RestingTyped == Resting \in Calls /\ NoSnapshot \in Snapshots
  BY EmptyTreeTyping DEF Resting, Calls, NoSnapshot, Snapshots, Entries, NoEntry

\* Requests change one at a time.
LEMMA OneRequest ==
  ASSUME HubTyped, NEW q \in Requests, NEW rec \in Served, ReqGoes(q, rec)
  PROVE  /\ request' \in [Requests -> Served] /\ request'[q] = rec
         /\ \A p \in Requests : p # q => request'[p] = request[p]
  BY DEF ReqGoes, HubTyped

\* What an answer is.
Answers(rec, status, versions, body, ans) ==
  /\ ans.at = "done" /\ ans.kind = rec.kind /\ ans.v = rec.v /\ ans.past = rec.past
  /\ ans.torn = rec.torn /\ ans.status = status /\ ans.versions = versions /\ ans.body = body

LEMMA AnswerTyped ==
  ASSUME HubTyped, NEW q \in Requests, NEW status \in {"ok", "refused"},
         NEW versions \in VersionMaps, NEW body \in Trees, Answer(q, status, versions, body)
  PROVE  /\ request' \in [Requests -> Served]
         /\ Answers(request[q], status, versions, body, request'[q])
         /\ \A p \in Requests : p # q => request'[p] = request[p]
<1> DEFINE rec == request[q]
           ans == [Idle EXCEPT !.at = "done", !.kind = rec.kind, !.v = rec.v, !.past = rec.past,
                               !.torn = rec.torn, !.status = status, !.versions = versions, !.body = body]
<1>1. rec \in Served
  BY DEF HubTyped
<1> HIDE DEF rec
<1>2. ans \in Served
  BY <1>1, IdleTyped DEF Served
<1>3. Answers(rec, status, versions, body, ans)
  BY <1>1, IdleTyped DEF Served, Idle, Answers
<1>4. ReqGoes(q, ans)
  BY DEF Answer, rec
<1> HIDE DEF ans
<1> QED BY <1>2, <1>3, <1>4, OneRequest DEF rec

LEMMA NewestTyped ==
  ASSUME HubTyped, NEW q \in Requests, DOMAIN request[q].versions # {}
  PROVE  Newest(q) \in Trees
  BY LatestIsNewest DEF Newest, HubTyped, Served

LEMMA CommitTrees ==
  \A c \in Commits : History[c] \in Trees /\ History[c].doc \in Versions /\ History[c].doc \in Nat
                     /\ History[c].doc # 0
  BY HistoryAssumption, VersionAssumption DEF Trees

\* A build gives up where there is no catalogue, or makes an entry.
Builds(r, e, made) ==
  /\ IF made
     THEN /\ work.catalog /\ UNCHANGED lock
          /\ refresher' = [refresher EXCEPT ![r].at = "store",
               ![r].built = [entry |-> e, commit |-> clone.head, whole |-> refresher[r].whole]]
     ELSE /\ ~work.catalog /\ lock' = NoRefresher
          /\ refresher' = [refresher EXCEPT ![r] = Resting]
  /\ verdicts' \in [Trees -> {"pass", "warn", "fail", Unscanned}]
  /\ faults' \in 0 .. MaxFaults /\ faults' >= faults

\* The entry has the version that the tree declares and its hash, or a later version.
LEMMA BuildResult ==
  ASSUME HubTyped, NEW r \in Refreshers, Build(r)
  PROVE  \/ Builds(r, NoEntry, FALSE)
         \/ \E e \in Entries :
              /\ Builds(r, e, TRUE)
              /\ work.tree.doc # 0 => /\ e.version >= work.tree.doc
                                      /\ e.version = work.tree.doc => e.hash = work.tree
<1>0. /\ work.tree \in Trees /\ work.tree.doc \in Versions \union {0} /\ clone.tags \in SUBSET Versions
      /\ verdicts \in [Trees -> {"pass", "warn", "fail", Unscanned}] /\ faults \in 0 .. MaxFaults
      /\ MaxFaults \in Nat
  BY RefreshAssumption DEF HubTyped, Trees
<1>1. CASE ~work.catalog
  BY <1>0, <1>1 DEF Build, Builds, Rests
<1>2. CASE work.catalog
  <2> DEFINE versions == VersionsOf(work.tree.doc, clone.tags, work.tree)
             newest   == Latest(versions)
             hash     == versions[newest]
             entry    == [version |-> newest, hash |-> hash]
             Built(e) == refresher' = [refresher EXCEPT ![r].at = "store",
               ![r].built = [entry |-> e, commit |-> clone.head, whole |-> refresher[r].whole]]
  <2>1. /\ newest \in Versions \union {0} /\ hash \in Trees
        /\ work.tree.doc # 0 => /\ newest >= work.tree.doc
                                /\ newest = work.tree.doc => hash = work.tree
    <3>0. PICK d \in Versions \union {0}, t \in SUBSET Versions, h \in Trees :
            d = work.tree.doc /\ t = clone.tags /\ h = work.tree /\ versions = VersionsOf(d, t, h)
      BY <1>0
    <3> HIDE DEF versions
    <3>1. versions \in VersionMaps /\ DOMAIN versions # {}
          /\ (d # 0 => d \in DOMAIN versions /\ versions[d] = h)
      <4>1. versions = VersionsOf(d, t, h)
        BY <3>0
      <4> QED BY <4>1, VersionsOfEntry
    <3>2. /\ newest \in Versions \union {0} /\ hash \in Trees
          /\ \A v \in DOMAIN versions : v <= newest
      BY <3>1, LatestIsNewest
    <3>3. newest \in Nat /\ d \in Nat
      BY <3>2, VersionsFinite
    <3> QED BY <3>0, <3>1, <3>2, <3>3
  <2> HIDE DEF versions, newest, hash
  <2>2. entry \in Entries /\ NoEntry \in Entries
    BY <2>1, EmptyTreeTyping DEF Entries, NoEntry
  <2>3. UNCHANGED lock
    BY <1>2 DEF Build
  <2>4. \/ work.tree = EmptyTree /\ Built(NoEntry) /\ UNCHANGED <<verdicts, faults>>
        \/ Built(entry) /\ UNCHANGED <<verdicts, faults>>
        \/ Built(entry) /\ \E verdict \in {Unscanned, Verdict[work.tree]} :
                             Scan(hash, work.tree, verdict)
    BY <1>2, Zenon DEF Build, versions, newest, hash
  <2>5. CASE work.tree = EmptyTree /\ Built(NoEntry) /\ UNCHANGED <<verdicts, faults>>
    <3>1. Builds(r, NoEntry, TRUE)
      BY <1>0, <1>2, <2>3, <2>5 DEF Builds
    <3>2. work.tree.doc = 0
      BY <2>5 DEF EmptyTree
    <3> QED BY <2>2, <3>1, <3>2, Zenon
  <2>6. CASE Built(entry) /\ UNCHANGED <<verdicts, faults>>
    <3>1. Builds(r, entry, TRUE)
      BY <1>0, <1>2, <2>3, <2>6 DEF Builds
    <3> QED BY <2>1, <2>2, <3>1
  <2>7. CASE Built(entry) /\ \E verdict \in {Unscanned, Verdict[work.tree]} :
                               Scan(hash, work.tree, verdict)
    <3>1. Verdict[work.tree] \in {"pass", "warn", "fail"}
      BY <1>0, VerdictAssumption
    <3>2. verdicts' \in [Trees -> {"pass", "warn", "fail", Unscanned}]
          /\ faults' \in 0 .. MaxFaults /\ faults' >= faults
      BY <1>0, <2>7, <3>1 DEF Scan
    <3>3. Builds(r, entry, TRUE)
      BY <1>2, <2>3, <2>7, <3>2 DEF Builds
    <3> QED BY <2>1, <2>2, <3>3
  <2> QED BY <2>4, <2>5, <2>6, <2>7
<1> QED BY <1>1, <1>2

\* What a refresh changes keeps its type.
LEMMA RefreshTypes ==
  ASSUME RefreshInv, NEW r \in Refreshers, Refresh(r) \/ RefreshStep(r)
  PROVE  HubTyped'
<1>0. /\ HubTyped /\ refresher[r] \in Calls /\ clone.head \in Commits \union {0}
      /\ \A q \in Requests : request[q] \in Served
  BY DEF HubTyped, RefreshInv
<1>1. ASSUME NEW removes \in BOOLEAN PROVE Disturbed(removes) \in [Requests -> Served]
  BY <1>0, IdleTyped DEF Disturbed, Served
<1>2. Bereft \in [Requests -> Served]
  BY <1>0, IdleTyped DEF Bereft, Served
<1>3. CASE Refresh(r)
  BY <1>0, <1>3 DEF Refresh, At, Goes, HubTyped, remote, disk, Calls
<1>4. CASE Fetch(r)
  <2>1. request' \in [Requests -> Served]
    BY <1>1, <1>4 DEF Fetch
  <2> QED BY <1>0, <1>4, <2>1 DEF Fetch, At, HubTyped, remote, Calls
<1>5. CASE FetchFails(r)
  BY <1>0, <1>5, RefreshAssumption DEF FetchFails, At, Goes, HubTyped, remote, disk, Calls
<1>6. CASE CheckoutFile(r)
  <2>1. clone.head \in Commits
    BY <1>0, <1>6 DEF CheckoutFile, At, RefreshInv, CallKnows, CloneFollows
  <2>2. work \in [catalog : BOOLEAN, tree : Trees] /\ Checked.tree \in Trees
    BY <1>0, <2>1, CommitTrees DEF HubTyped, Checked
  <2>3. NextFile \in [catalog : BOOLEAN, tree : Trees]
    BY <2>2 DEF NextFile, Trees
  <2>4. request' \in [Requests -> Served]
    BY <1>1, <1>6 DEF CheckoutFile
  <2> QED BY <1>0, <1>6, <2>3, <2>4 DEF CheckoutFile, HubTyped, remote
<1>7. CASE CheckoutEnds(r)
  BY <1>0, <1>7 DEF CheckoutEnds, At, HubTyped, remote, disk, Calls
<1>8. CASE CheckoutFails(r)
  <2>1. /\ refresher' \in [Refreshers -> Calls] /\ faults' \in 0 .. MaxFaults
        /\ UNCHANGED <<remote, lock, snapshot, ready, verdicts, walked>>
    BY <1>0, <1>8, RefreshAssumption DEF CheckoutFails, Goes, HubTyped, Calls
  <2>0. refresher[r].clones \in BOOLEAN
    BY <1>0 DEF Calls
  <2>2. CASE refresher[r].clones = TRUE
    <3>1. /\ clone' = [repo |-> FALSE, fetched |-> 0, head |-> 0, tags |-> {}]
          /\ work' = [catalog |-> FALSE, tree |-> EmptyTree] /\ request' = Bereft
      BY <1>8, <2>2 DEF CheckoutFails
    <3> QED BY <1>0, <1>2, <2>1, <3>1, EmptyTreeTyping DEF HubTyped, remote
  <2>3. CASE refresher[r].clones = FALSE
    <3>1. UNCHANGED <<remote, disk, request>>
      BY <1>8, <2>3 DEF CheckoutFails
    <3>2. UNCHANGED <<origin, released, clone, work, request>>
      BY <3>1 DEF remote, disk
    <3> QED BY <1>0, <2>1, <3>2 DEF HubTyped
  <2> QED BY <2>0, <2>2, <2>3
<1>9. CASE Build(r)
  <2>1. CASE Builds(r, NoEntry, FALSE)
    BY <1>0, <1>9, <2>1, RestingTyped DEF Build, Builds, HubTyped, remote, disk
  <2>2. ASSUME NEW e \in Entries, Builds(r, e, TRUE)
        PROVE  HubTyped'
    <3> DEFINE s == [entry |-> e, commit |-> clone.head, whole |-> refresher[r].whole]
    <3>1. s \in Snapshots
      BY <1>0, <2>2 DEF Snapshots, Entries, Calls
    <3> HIDE DEF s
    <3>2. refresher' \in [Refreshers -> Calls]
      BY <1>0, <2>2, <3>1 DEF Builds, HubTyped, Calls, s
    <3> QED BY <1>0, <1>9, <2>2, <3>2 DEF Build, Builds, HubTyped, remote, disk
  <2> QED BY <1>9, <1>0, <2>1, <2>2, BuildResult
<1>10. CASE Store(r)
  BY <1>0, <1>10, RestingTyped DEF Store, At, Rests, HubTyped, remote, disk, Calls
<1> QED BY <1>3, <1>4, <1>5, <1>6, <1>7, <1>8, <1>9, <1>10 DEF RefreshStep

(***************************************************************************)
(* The steps of the requests.                                              *)
(***************************************************************************)
\* A request goes on fitting while the clone and its tree move forward.
LEMMA FitsLater ==
  ASSUME NEW rec \in Served, NEW cl, NEW wk, NEW flt \in Nat, NEW cl2, NEW wk2, NEW flt2 \in Nat,
         Fits(rec, cl, wk, flt), flt <= flt2, cl.repo => cl2.repo, cl.tags \subseteq cl2.tags,
         wk.catalog => wk2.catalog, wk.tree.doc \in Nat, wk2.tree.doc \in Nat,
         wk.tree.doc <= wk2.tree.doc, Listed(rec, wk2)
  PROVE  Fits(rec, cl2, wk2, flt2)
<1>1. PastKept(rec, cl2, wk2)
  <2> SUFFICES ASSUME rec.at \notin {"idle", "done"}, NEW v \in rec.past
               PROVE  v \in cl2.tags /\ wk2.catalog /\ v < wk2.tree.doc
    BY DEF PastKept
  <2>1. v \in Nat
    BY VersionAssumption DEF Served
  <2>2. v \in cl.tags /\ wk.catalog /\ v < wk.tree.doc
    BY DEF Fits, PastKept
  <2> QED BY <2>1, <2>2
<1>2. FoundServed(rec, cl2, flt2)
  BY DEF Fits, FoundServed, FoundAt
<1> QED BY <1>1, <1>2 DEF Fits

LEMMA IdleFits ==
  ASSUME NEW cl, NEW wk, NEW flt
  PROVE  Fits(Idle, cl, wk, flt)
  BY DEF Fits, PastKept, PastServed, Listed, StepOfKind, FoundServed, Idle

\* It goes on fitting when it is told that a checkout removed a file.
LEMMA FitsTorn ==
  ASSUME NEW rec \in Served, NEW new \in Served, NEW torn \in BOOLEAN,
         new = [rec EXCEPT !.torn = @ \/ torn], rec.at # "done",
         NEW cl, NEW wk, NEW flt, Fits(rec, cl, wk, flt)
  PROVE  Fits(new, cl, wk, flt) /\ (torn => new.torn)
<1>1. /\ new.at = rec.at /\ new.kind = rec.kind /\ new.v = rec.v /\ new.past = rec.past
      /\ new.read = rec.read /\ new.tags = rec.tags /\ new.versions = rec.versions
      /\ new.body = rec.body /\ (rec.torn => new.torn) /\ (torn => new.torn)
  BY DEF Served
<1>2. PastServed(new)
  BY <1>1 DEF Fits, PastServed
<1>3. PastKept(new, cl, wk) /\ Listed(new, wk) /\ StepOfKind(new) /\ FoundServed(new, cl, flt)
  BY <1>1 DEF Fits, PastKept, Listed, StepOfKind, FoundServed
<1> QED BY <1>1, <1>2, <1>3 DEF Fits

\* An answer fits when it serves the past releases as they are.
LEMMA AnswerFits ==
  ASSUME NEW rec, NEW status, NEW versions, NEW body, NEW ans \in Served,
         NEW cl, NEW wk, NEW flt, Answers(rec, status, versions, body, ans),
         rec.kind = "contributions" => status = "refused",
         \A v \in rec.past : RightFor(rec, v, status, versions, body)
  PROVE  Fits(ans, cl, wk, flt)
<1>1. PastKept(ans, cl, wk) /\ StepOfKind(ans) /\ FoundServed(ans, cl, flt) /\ Listed(ans, wk)
  BY DEF Answers, PastKept, StepOfKind, FoundServed, Listed
<1>2. PastServed(ans)
  BY DEF Answers, PastServed, RightFor
<1> QED BY <1>1, <1>2 DEF Fits

\* A request that steps fits what it has stepped in, and no other request changes.
Moves(q) ==
  /\ request' \in [Requests -> Served] /\ \A p \in Requests : p # q => request'[p] = request[p]
  /\ Fits(request'[q], clone, work, faults)

LEMMA AskMoves ==
  ASSUME RefreshInv, RequestInv, NEW q \in Requests, NEW kind \in Kinds,
         NEW v \in Versions \union {0}, Ask(q, kind, v)
  PROVE  Moves(q)
<1> DEFINE new == [Idle EXCEPT !.at = IF kind = "contributions" THEN "head" ELSE "declared",
                               !.kind = kind, !.v = v, !.past = PastReleases]
<1>1. HubTyped /\ kind \in ByKind \union {"contributions"} /\ PastReleases \in SUBSET Versions
  BY KindAssumption DEF RefreshInv, PastReleases, HubTyped, ByKind
<1>2. new \in Served
  BY <1>1, IdleTyped DEF Served
<1>3. /\ new.at = (IF kind = "contributions" THEN "head" ELSE "declared")
      /\ new.kind = kind /\ new.past = PastReleases
  BY IdleTyped DEF Served, Idle
<1>4. ReqGoes(q, new)
  BY DEF Ask
<1> HIDE DEF new
<1>5. Fits(new, clone, work, faults)
  <2>1. PastKept(new, clone, work) /\ PastServed(new) /\ Listed(new, work)
    BY <1>3 DEF PastKept, PastServed, PastReleases, Listed
  <2>2. StepOfKind(new) /\ FoundServed(new, clone, faults)
    BY <1>1, <1>3 DEF StepOfKind, FoundServed
  <2> QED BY <2>1, <2>2 DEF Fits
<1> QED BY <1>1, <1>2, <1>4, <1>5, OneRequest DEF Moves

\* A walk, or the memo of one, finds the contributions of the head.
LEMMA WalkFinds ==
  ASSUME RefreshInv, RequestInv, NEW q \in Requests, WalkHistory(q)
  PROVE  \E commits \in SUBSET Commits :
           /\ ReqGoes(q, [request[q] EXCEPT !.at = "done", !.status = "ok", !.found = commits])
           /\ walked' = [head |-> request[q].read, commits |-> commits]
           /\ FoundAt(commits, request[q].read, faults)
<1> DEFINE head == request[q].read
<1>1. request[q].at = "walk" /\ head \in Commits /\ (faults = 0 => clone.repo)
  BY DEF WalkHistory, ReqAt, RequestInv, Fits, StepOfKind, FoundServed
<1>2. FoundAt(walked.commits, walked.head, faults)
  BY DEF RequestInv
<1> HIDE DEF head
<1>3. PICK commits \in IF walked.head = head THEN {walked.commits} ELSE Walk(head) :
        /\ walked' = [head |-> head, commits |-> commits]
        /\ ReqGoes(q, [request[q] EXCEPT !.at = "done", !.status = "ok", !.found = commits])
  BY Zenon DEF WalkHistory, head
<1>4. Contributions(head) \subseteq Commits
  BY <1>1, HistoryAssumption DEF Contributions, Commits
<1>5. FoundAt(commits, head, faults)
  <2>1. CASE walked.head = head
    BY <1>2, <1>3, <2>1
  <2>2. CASE walked.head # head /\ clone.repo
    BY <1>3, <2>2 DEF Walk, FoundAt
  <2>3. CASE walked.head # head /\ ~clone.repo
    BY <1>1, <1>3, <2>3 DEF Walk, FoundAt
  <2> QED BY <2>1, <2>2, <2>3
<1> QED BY <1>3, <1>4, <1>5 DEF FoundAt, head

LEMMA StepMoves ==
  ASSUME RefreshInv, RequestInv, NEW q \in Requests, RequestStep(q)
  PROVE  Moves(q)
<1> DEFINE rec == request[q]
           new == request'[q]
<1>0. /\ HubTyped /\ rec \in Served /\ Fits(rec, clone, work, faults)
      /\ work.tree \in Trees /\ work.tree.doc \in Versions \union {0} /\ clone.tags \in SUBSET Versions
      /\ work.tree.doc \in Nat
      /\ NoVersions \in VersionMaps /\ EmptyTree \in Trees /\ Versions \subseteq Nat \ {0}
  BY EmptyTreeTyping, IdleTyped, VersionAssumption
     DEF RefreshInv, RequestInv, HubTyped, Trees, Idle, Served
<1>1. PastKept(rec, clone, work) /\ PastServed(rec) /\ Listed(rec, work) /\ StepOfKind(rec)
      /\ FoundServed(rec, clone, faults)
  BY <1>0 DEF Fits
<1> HIDE DEF rec, new
\* An answer.
<1>2. ASSUME NEW status \in {"ok", "refused"}, NEW versions \in VersionMaps, NEW body \in Trees,
             Answer(q, status, versions, body), rec.kind = "contributions" => status = "refused",
             \A v \in rec.past : RightFor(rec, v, status, versions, body)
      PROVE  Moves(q)
  <2>1. /\ request' \in [Requests -> Served] /\ Answers(rec, status, versions, body, new)
        /\ \A p \in Requests : p # q => request'[p] = request[p]
    BY <1>0, <1>2, AnswerTyped DEF rec, new
  <2>2. new \in Served
    BY <2>1 DEF new
  <2>3. Fits(new, clone, work, faults)
    BY <1>2, <2>1, <2>2, AnswerFits
  <2> QED BY <2>1, <2>3 DEF Moves, new
\* A refusal: nothing was left behind, or a checkout removed a file of what was hashed.
<1>3. ASSUME Refuse(q), rec.past = {} \/ rec.kind = "contributions" \/ rec.torn PROVE Moves(q)
  <2>1. Answer(q, "refused", NoVersions, EmptyTree)
    BY <1>3 DEF Refuse
  <2> QED BY <1>0, <1>2, <1>3, <2>1 DEF ByVersion, RightFor
\* A step short of the answer.
<1>4. ASSUME NEW next \in Served, ReqGoes(q, next), Fits(next, clone, work, faults) PROVE Moves(q)
  BY <1>0, <1>4, OneRequest DEF Moves
<1>5. CASE ReadDeclared(q)
  <2>1. rec.at = "declared"
    BY <1>5 DEF ReadDeclared, ReqAt, rec
  <2>2. CASE ~work.catalog
    <3>1. Refuse(q) /\ rec.past = {}
      BY <1>0, <1>1, <1>5, <2>1, <2>2 DEF ReadDeclared, PastKept, Served
    <3> QED BY <1>3, <3>1
  <2>3. CASE work.catalog
    <3> DEFINE next == [rec EXCEPT !.at = "tags", !.read = work.tree.doc]
    <3>1. ReqGoes(q, next)
      BY <1>5, <2>3 DEF ReadDeclared, rec
    <3>2. /\ next \in Served /\ next.at = "tags" /\ next.read = work.tree.doc
          /\ next.kind = rec.kind /\ next.past = rec.past
      BY <1>0 DEF Served
    <3> HIDE DEF next
    <3>3. Fits(next, clone, work, faults)
      BY <1>0, <1>1, <2>1, <3>2 DEF Fits, PastKept, PastServed, Listed, StepOfKind, FoundServed
    <3> QED BY <1>4, <3>1, <3>2, <3>3
  <2> QED BY <2>2, <2>3
<1>6. CASE ReadTags(q)
  <2> DEFINE next == [rec EXCEPT !.at = "hash", !.tags = clone.tags]
  <2>1. rec.at = "tags" /\ ReqGoes(q, next)
    BY <1>6 DEF ReadTags, ReqAt, rec
  <2>2. /\ next \in Served /\ next.at = "hash" /\ next.tags = clone.tags /\ next.read = rec.read
        /\ next.kind = rec.kind /\ next.past = rec.past
    BY <1>0 DEF Served
  <2> HIDE DEF next
  <2>3. Fits(next, clone, work, faults)
    BY <1>0, <1>1, <2>1, <2>2 DEF Fits, PastKept, PastServed, Listed, StepOfKind, FoundServed
  <2> QED BY <1>4, <2>1, <2>2, <2>3
<1>7. CASE ListFiles(q)
  <2>1. rec.at = "hash"
    BY <1>7 DEF ListFiles, ReqAt, rec
  <2>2. CASE work.tree = EmptyTree
    <3>1. Refuse(q) /\ rec.past = {}
      BY <1>0, <1>1, <1>7, <2>1, <2>2 DEF ListFiles, PastKept, Served, EmptyTree
    <3> QED BY <1>3, <3>1
  <2>3. CASE work.tree # EmptyTree
    <3> DEFINE next == [rec EXCEPT !.at = "files", !.body = work.tree]
    <3>1. ReqGoes(q, next)
      BY <1>7, <2>3 DEF ListFiles, rec
    <3>2. /\ next \in Served /\ next.at = "files" /\ next.body = work.tree /\ next.tags = rec.tags
          /\ next.read = rec.read /\ next.kind = rec.kind /\ next.past = rec.past
      BY <1>0 DEF Served
    <3> HIDE DEF next
    <3>3. Fits(next, clone, work, faults)
      BY <1>0, <1>1, <2>1, <3>2 DEF Fits, PastKept, PastServed, Listed, StepOfKind, FoundServed
    <3> QED BY <1>4, <3>1, <3>2, <3>3
  <2> QED BY <2>2, <2>3
<1>8. CASE HashEntrypoint(q)
  <2>1. rec.at = "files"
    BY <1>8 DEF HashEntrypoint, ReqAt, rec
  <2>2. CASE rec.body.doc # 0 /\ work.tree.doc = 0
    <3>1. Refuse(q) /\ rec.past = {}
      BY <1>0, <1>1, <1>8, <2>1, <2>2 DEF HashEntrypoint, rec, PastKept, Served
    <3> QED BY <1>3, <3>1
  <2>3. CASE ~(rec.body.doc # 0 /\ work.tree.doc = 0)
    <3> DEFINE next == [rec EXCEPT !.at = "rest",
                                   !.body.doc = IF @ = 0 THEN 0 ELSE work.tree.doc]
    <3>1. ReqGoes(q, next)
      BY <1>8, <2>3 DEF HashEntrypoint, rec
    <3>2. /\ next.at = "rest" /\ next.body.data = rec.body.data /\ next.tags = rec.tags
          /\ next.read = rec.read /\ next.kind = rec.kind /\ next.past = rec.past
          /\ next.torn = rec.torn
      BY <1>0 DEF Served, Trees
    <3>3. next \in Served
      BY <1>0 DEF Served, Trees
    <3> HIDE DEF next
    <3>4. Fits(next, clone, work, faults)
      BY <1>0, <1>1, <2>1, <3>2 DEF Fits, PastKept, PastServed, Listed, StepOfKind, FoundServed
    <3> QED BY <1>4, <3>1, <3>3, <3>4
  <2> QED BY <2>2, <2>3
<1>9. CASE ReadHash(q)
  <2> DEFINE hash == [rec.body EXCEPT !.data = IF @ = NoFile THEN NoFile ELSE work.tree.data]
             versions == VersionsOf(rec.read, rec.tags, hash)
             gone == rec.body.data # NoFile /\ work.tree.data = NoFile
             next == [rec EXCEPT !.at = IF rec.kind = "manifest" THEN "lookup" ELSE "source",
                                 !.read = 0, !.tags = {}, !.body = EmptyTree,
                                 !.versions = versions]
  <2>1. rec.at = "rest" /\ rec.read \in Versions \union {0} /\ rec.kind \in ByKind
        /\ rec.tags \in SUBSET Versions
    BY <1>0, <1>1, <1>9 DEF ReadHash, ReqAt, rec, StepOfKind, Served
  <2>6. hash \in Trees
    BY <1>0 DEF Served, Trees
  <2>2. /\ versions \in VersionMaps /\ DOMAIN versions # {}
        /\ rec.tags \subseteq DOMAIN versions
        /\ \A v \in rec.tags : v # rec.read => versions[v] = History[TagOf[v]]
    <3>1. PICK d \in Versions \union {0}, t \in SUBSET Versions, h \in Trees :
            d = rec.read /\ t = rec.tags /\ h = hash
      BY <1>0, <2>1, <2>6
    <3>2. PICK f : f = VersionsOf(d, t, h)
      OBVIOUS
    <3>3. f \in VersionMaps /\ DOMAIN f # {}
      BY <3>2, VersionsOfEntry
    <3>4. t \subseteq DOMAIN f
      BY <3>2, VersionsOfEntry
    <3>5. \A v \in t : v # d => f[v] = History[TagOf[v]]
      BY <3>2, VersionsOfEntry
    <3>6. f = versions
      BY <3>1, <3>2
    <3> HIDE DEF versions, hash
    <3> QED BY <3>1, <3>3, <3>4, <3>5, <3>6
  <2> HIDE DEF hash
  <2>3. \A v \in rec.past : v \in DOMAIN versions /\ versions[v] = History[TagOf[v]]
    <3> HIDE DEF versions
    <3> QED BY <1>0, <1>1, <2>1, <2>2 DEF PastServed, Served
  <2>7. gone => rec.past = {} \/ rec.torn
    BY <1>1, <2>1 DEF Listed
  <2>8. \/ /\ gone \/ (rec.kind \in ByVersion /\ rec.v \notin DOMAIN versions)
           /\ Refuse(q)
        \/ /\ ~(gone \/ (rec.kind \in ByVersion /\ rec.v \notin DOMAIN versions))
           /\ ReqGoes(q, next)
    BY <1>9, Zenon DEF ReadHash, rec, hash
  <2> HIDE DEF versions, gone
  <2>4. CASE /\ gone \/ (rec.kind \in ByVersion /\ rec.v \notin DOMAIN versions)
             /\ Refuse(q)
    <3>1. CASE gone
      BY <1>3, <2>4, <2>7, <3>1
    <3>2. CASE rec.kind \in ByVersion /\ rec.v \notin DOMAIN versions
      <4>1. Answer(q, "refused", NoVersions, EmptyTree)
        BY <2>4 DEF Refuse
      <4>2. \A v \in rec.past : rec.v # v
        BY <2>3, <3>2
      <4>3. \A v \in rec.past : RightFor(rec, v, "refused", NoVersions, EmptyTree)
        BY <2>1, <3>2, <4>2 DEF ByVersion, RightFor
      <4> QED BY <1>0, <1>2, <4>1, <4>3
    <3> QED BY <2>4, <3>1, <3>2
  <2>5. CASE /\ ~(gone \/ (rec.kind \in ByVersion /\ rec.v \notin DOMAIN versions))
             /\ ReqGoes(q, next)
    <3>1. ReqGoes(q, next)
      BY <2>5
    <3>2. /\ next \in Served /\ next.versions = versions /\ next.v = rec.v
          /\ next.at = (IF rec.kind = "manifest" THEN "lookup" ELSE "source")
          /\ next.kind = rec.kind /\ next.past = rec.past
      BY <1>0, <2>2 DEF Served
    <3> HIDE DEF next
    <3>3. Fits(next, clone, work, faults)
      <4>1. PastKept(next, clone, work) /\ PastServed(next) /\ Listed(next, work)
        BY <1>0, <1>1, <2>1, <2>3, <3>2 DEF PastKept, PastServed, Listed
      <4>2. StepOfKind(next) /\ FoundServed(next, clone, faults)
        BY <2>1, <2>2, <2>5, <3>2 DEF StepOfKind, FoundServed, ByKind, ByVersion
      <4> QED BY <4>1, <4>2 DEF Fits
    <3> QED BY <1>4, <3>1, <3>2, <3>3
  <2> QED BY <2>8, <2>4, <2>5
<1>10. CASE LookUpVerdict(q)
  <2> DEFINE next == [rec EXCEPT !.at = "scan"]
  <2>1. rec.at = "lookup" /\ rec.kind = "manifest" /\ rec.versions \in VersionMaps
    BY <1>0, <1>1, <1>10 DEF LookUpVerdict, ReqAt, rec, StepOfKind, Served
  <2>2. CASE Answer(q, "ok", rec.versions, EmptyTree)
    BY <1>0, <1>1, <1>2, <2>1, <2>2 DEF PastServed, ByVersion, RightFor
  <2>3. CASE ReqGoes(q, next)
    <3>1. /\ next \in Served /\ next.at = "scan" /\ next.versions = rec.versions
          /\ next.kind = rec.kind /\ next.past = rec.past
      BY <1>0 DEF Served
    <3> HIDE DEF next
    <3>2. Fits(next, clone, work, faults)
      BY <1>0, <1>1, <2>1, <3>1 DEF Fits, PastKept, PastServed, Listed, StepOfKind, FoundServed
    <3> QED BY <1>4, <2>3, <3>1, <3>2
  <2> QED BY <1>10, <2>2, <2>3 DEF LookUpVerdict, rec
<1>11. CASE ScanTip(q)
  <2>1. rec.at = "scan" /\ rec.kind = "manifest" /\ rec.versions \in VersionMaps
    BY <1>0, <1>1, <1>11 DEF ScanTip, ReqAt, rec, StepOfKind, Served
  <2>2. Answer(q, "ok", rec.versions, EmptyTree)
    BY <1>11 DEF ScanTip, rec
  <2> QED BY <1>0, <1>1, <1>2, <2>1, <2>2 DEF PastServed, ByVersion, RightFor
<1>12. CASE FindSource(q)
  <2> DEFINE next == [rec EXCEPT !.at = "read", !.versions = NoVersions]
  <2>1. /\ rec.at = "source" /\ rec.kind \in ByVersion /\ rec.v \in DOMAIN rec.versions
        /\ rec.versions \in VersionMaps /\ rec.past \in SUBSET Versions
    BY <1>0, <1>1, <1>12 DEF FindSource, ReqAt, rec, StepOfKind, Served
  <2>2. rec.v \in Versions \union {0} /\ rec.versions[rec.v] \in Trees
    BY <2>1 DEF VersionMaps
  <2>3. \A v \in rec.past : /\ rec.versions[v] = History[TagOf[v]]
                            /\ v \in clone.tags /\ v < work.tree.doc
    BY <1>0, <1>1, <2>1 DEF PastServed, PastKept
  <2>4. CASE rec.kind = "sidecar"
    <3>1. Answer(q, "ok", NoVersions, rec.versions[rec.v])
      BY <1>12, <2>4 DEF FindSource, rec
    <3> QED BY <1>0, <1>2, <2>1, <2>2, <2>3, <2>4, <3>1 DEF RightFor
  <2>5. CASE rec.kind # "sidecar" /\ (rec.v = work.tree.doc \/ rec.v \notin clone.tags)
    <3>1. ReqGoes(q, next)
      BY <1>12, <2>5 DEF FindSource, rec
    <3>2. /\ next \in Served /\ next.at = "read" /\ next.v = rec.v
          /\ next.kind = rec.kind /\ next.past = rec.past
      BY <1>0 DEF Served
    <3> HIDE DEF next
    <3>3. \A v \in rec.past : rec.v # v
      BY <1>0, <2>1, <2>3, <2>5
    <3>4. Fits(next, clone, work, faults)
      BY <1>0, <1>1, <2>1, <2>5, <3>2, <3>3
         DEF Fits, PastKept, PastServed, Listed, StepOfKind, FoundServed, ByVersion
    <3> QED BY <1>4, <3>1, <3>2, <3>4
  <2>6. CASE rec.kind # "sidecar" /\ ~(rec.v = work.tree.doc \/ rec.v \notin clone.tags)
    <3>1. Answer(q, "ok", NoVersions, History[TagOf[rec.v]])
      BY <1>12, <2>6 DEF FindSource, rec
    <3>2. History[TagOf[rec.v]] \in Trees
      BY <1>0, <2>6, ReleasedTrees
    <3> QED BY <1>0, <1>2, <2>1, <3>1, <3>2 DEF ByVersion, RightFor
  <2> QED BY <2>4, <2>5, <2>6
<1>13. CASE ReadSource(q)
  <2>1. rec.at = "read" /\ rec.kind = "tarball" /\ \A v \in rec.past : rec.v # v
    BY <1>1, <1>13 DEF ReadSource, ReqAt, rec, StepOfKind, PastServed
  <2>2. Answer(q, "ok", NoVersions, work.tree)
    BY <1>13 DEF ReadSource
  <2> QED BY <1>0, <1>2, <2>1, <2>2 DEF RightFor
<1>14. CASE ReadHead(q)
  <2> DEFINE next == [rec EXCEPT !.at = "walk", !.read = clone.head]
  <2>1. rec.at = "head" /\ rec.kind = "contributions"
    BY <1>1, <1>14 DEF ReadHead, ReqAt, rec, StepOfKind
  <2>2. CASE Refuse(q)
    BY <1>3, <2>1, <2>2
  <2>3. CASE clone.repo /\ ReqGoes(q, next)
    <3>1. clone.head \in Commits /\ clone.head \in Nat
      BY <1>0, <2>3 DEF RefreshInv, CloneFollows, HubTyped, Commits
    <3>2. /\ next \in Served /\ next.at = "walk" /\ next.read = clone.head
          /\ next.kind = rec.kind /\ next.past = rec.past
      BY <1>0, <3>1 DEF Served
    <3> HIDE DEF next
    <3>3. Fits(next, clone, work, faults)
      BY <1>0, <1>1, <2>1, <2>3, <3>1, <3>2 DEF Fits, PastKept, PastServed, Listed, StepOfKind, FoundServed
    <3> QED BY <1>4, <2>3, <3>2, <3>3
  <2> QED BY <1>14, <2>2, <2>3 DEF ReadHead, rec
<1>15. CASE WalkHistory(q)
  <2>1. /\ rec.at = "walk" /\ rec.kind = "contributions" /\ rec.read \in Commits
        /\ faults = 0 => clone.repo
    BY <1>1, <1>15 DEF WalkHistory, ReqAt, rec, StepOfKind, FoundServed
  <2>2. PICK commits : /\ ReqGoes(q, [rec EXCEPT !.at = "done", !.status = "ok", !.found = commits])
                       /\ FoundAt(commits, rec.read, faults) /\ commits \in SUBSET Commits
    BY <1>15, <2>1, WalkFinds DEF rec
  <2> DEFINE next == [rec EXCEPT !.at = "done", !.status = "ok", !.found = commits]
  <2>3. /\ next \in Served /\ next.at = "done" /\ next.read = rec.read /\ next.status = "ok"
        /\ next.found = commits /\ next.kind = rec.kind /\ next.past = rec.past
    BY <1>0, <2>2 DEF Served
  <2>4. ReqGoes(q, next)
    BY <2>2
  <2> HIDE DEF next
  <2>5. Fits(next, clone, work, faults)
    <3>1. PastKept(next, clone, work) /\ Listed(next, work) /\ StepOfKind(next)
      BY <2>3 DEF PastKept, Listed, StepOfKind
    <3>2. PastServed(next)
      BY <2>1, <2>3 DEF PastServed, RightFor, ByVersion
    <3>3. FoundServed(next, clone, faults)
      BY <2>2, <2>3 DEF FoundServed
    <3> QED BY <3>1, <3>2, <3>3 DEF Fits
  <2> QED BY <1>4, <2>3, <2>4, <2>5
<1> QED BY <1>5, <1>6, <1>7, <1>10, <1>11, <1>12, <1>13, <1>14, <1>15, <1>8, <1>9
     DEF RequestStep

(***************************************************************************)
(* The steps of the refreshes.                                             *)
(***************************************************************************)
\* A refresh that has started is the only one, and it holds the lock.
LEMMA OnlyOne ==
  ASSUME OneRefresh, NEW r \in Refreshers,
         refresher[r].at # "idle" \/ lock = NoRefresher
  PROVE  /\ refresher[r].at # "idle" => lock = r
         /\ \A p \in Refreshers : p # r => refresher[p] = Resting
  BY SentinelAssumption DEF OneRefresh, NoRefresher

\* What a step of a refresh comes to, for the call that takes it: a record of the call
\* that fits, and a lock that is its own until it rests.
LEMMA CallFits ==
  ASSUME RefreshInv, NEW r \in Refreshers, NEW new \in Calls,
         refresher[r].at # "idle" \/ lock = NoRefresher,
         refresher' = [refresher EXCEPT ![r] = new],
         IF new.at = "idle" THEN new = Resting ELSE lock' = r,
         CallKnows(new, clone', work', snapshot')
  PROVE  OneRefresh' /\ \A p \in Refreshers : CallKnows(refresher[p], clone, work, snapshot)'
<1>1. /\ refresher \in [Refreshers -> Calls] /\ OneRefresh
      /\ \A p \in Refreshers : p # r => refresher[p] = Resting
  BY OnlyOne DEF RefreshInv, HubTyped
<1>2. refresher'[r] = new /\ \A p \in Refreshers : p # r => refresher'[p] = Resting
  BY <1>1
<1>3. Resting.at = "idle" /\ CallKnows(Resting, clone', work', snapshot')
  BY DEF Resting, CallKnows
<1>4. OneRefresh'
  BY <1>2, <1>3 DEF OneRefresh
<1> QED BY <1>2, <1>3, <1>4

\* The snapshot is not replaced by one of an older commit.
Forward == snapshot' # NoSnapshot => snapshot'.commit >= snapshot.commit

LEMMA DocsGrow == \A c, d \in Commits : c <= d => History[c].doc <= History[d].doc
  BY HistoryAssumption

LEMMA RefreshKeeps ==
  ASSUME RefreshInv, NEW r \in Refreshers, Refresh(r) \/ RefreshStep(r)
  PROVE  RefreshInv' /\ Forward
<1> DEFINE call == refresher[r]
<1>0. /\ HubTyped /\ HubTyped' /\ call \in Calls /\ refresher \in [Refreshers -> Calls]
      /\ CallKnows(call, clone, work, snapshot) /\ OneRefresh /\ CloneFollows
      /\ ShowsOne(snapshot) /\ (ready <=> snapshot # NoSnapshot)
      /\ clone.head \in Nat /\ origin \in Nat /\ snapshot.commit \in Nat /\ work.tree.doc \in Nat
      /\ clone.repo \in BOOLEAN /\ (clone.repo => clone.head \in Commits) /\ origin \in Commits
      /\ work.tree \in Trees
  <2>1. RefreshInv /\ HubTyped /\ HubTyped' /\ call \in Calls
    BY RefreshTypes DEF RefreshInv, HubTyped
  <2>2. /\ clone.head \in Commits \union {0} /\ origin \in Commits /\ clone.repo \in BOOLEAN
        /\ snapshot.commit \in Commits \union {0} /\ work.tree \in Trees
        /\ work.tree.doc \in Versions \union {0}
    BY <2>1 DEF HubTyped, Snapshots, Trees
  <2>3. /\ \A c \in Commits \union {0} : c \in Nat
        /\ \A v \in Versions \union {0} : v \in Nat
    BY HistoryAssumption, VersionAssumption DEF Commits
  <2>4. /\ OneRefresh /\ CloneFollows /\ ShowsOne(snapshot) /\ (ready <=> snapshot # NoSnapshot)
        /\ CallKnows(call, clone, work, snapshot) /\ refresher \in [Refreshers -> Calls]
    BY <2>1 DEF RefreshInv, HubTyped
  <2>5. clone.repo => clone.head \in Commits
    BY <2>2, <2>4 DEF CloneFollows
  <2>6. /\ clone.head \in Nat /\ origin \in Nat /\ snapshot.commit \in Nat
        /\ work.tree.doc \in Nat
    BY <2>2, <2>3
  <2> HIDE DEF call
  <2> QED BY <2>1, <2>2, <2>4, <2>5, <2>6
<1> HIDE DEF call
\* The clone and the snapshot stay, or the clone moves as CloneFollows says.
<1>1. ASSUME NEW new \in Calls, call.at # "idle" \/ lock = NoRefresher,
             refresher' = [refresher EXCEPT ![r] = new],
             IF new.at = "idle" THEN new = Resting ELSE lock' = r,
             CallKnows(new, clone', work', snapshot'),
             CloneFollows', ShowsOne(snapshot'), (ready' <=> snapshot' # NoSnapshot), Forward
      PROVE  RefreshInv' /\ Forward
  BY <1>0, <1>1, CallFits DEF RefreshInv, call
<1>2. ASSUME UNCHANGED <<remote, disk, snapshot, ready>>
      PROVE  CloneFollows' /\ ShowsOne(snapshot') /\ (ready' <=> snapshot' # NoSnapshot) /\ Forward
  BY <1>0, <1>2 DEF CloneFollows, Forward, remote, disk
<1>3. CASE Refresh(r)
  <2> DEFINE new == [call EXCEPT !.at = "fetch"]
  <2>1. /\ call.at = "idle" /\ lock = NoRefresher /\ lock' = r
        /\ refresher' = [refresher EXCEPT ![r] = new]
        /\ UNCHANGED <<remote, disk, snapshot, ready>>
    BY <1>0, <1>3 DEF Refresh, At, Goes, call
  <2>2. call = Resting
    BY <1>0, <2>1 DEF OneRefresh, call
  <2>3. new \in Calls /\ new.at = "fetch" /\ new.whole = FALSE
    BY <1>0, <2>2 DEF Calls, Resting
  <2> HIDE DEF new
  <2>4. CallKnows(new, clone', work', snapshot')
    BY <2>3 DEF CallKnows
  <2> QED BY <1>1, <1>2, <2>1, <2>3, <2>4
<1>4. CASE Fetch(r)
  <2> DEFINE new == [call EXCEPT !.at = "checkout", !.clones = ~clone.repo]
  <2>1. /\ call.at = "fetch" /\ UNCHANGED <<remote, work, lock, snapshot, ready>>
        /\ clone' = [repo |-> TRUE, fetched |-> origin, head |-> origin, tags |-> released]
        /\ refresher' = [refresher EXCEPT ![r] = new]
    BY <1>0, <1>4 DEF Fetch, At, call
  <2>2. new \in Calls /\ new.at = "checkout" /\ new.whole = call.whole /\ new.clones = ~clone.repo
    BY <1>0, <2>1 DEF Calls, HubTyped
  <2> HIDE DEF new
  <2>3. lock' = r
    BY <1>0, <2>1, OnlyOne DEF call
  <2>4. CallKnows(new, clone', work', snapshot')
    <3>1. ~clone.repo => snapshot.commit = 0
      BY <1>0 DEF CloneFollows
    <3> QED BY <1>0, <2>1, <2>2, <3>1 DEF CallKnows
  <2>5. CloneFollows'
    <3>1. work.tree.doc <= History[origin].doc
      BY <1>0, DocsGrow, CommitTrees DEF CloneFollows
    <3>2. origin # 0
      BY <1>0 DEF Commits
    <3>3. clone'.repo = TRUE /\ clone'.head = origin /\ clone'.tags = released
      BY <2>1
    <3> QED BY <1>0, <2>1, <3>1, <3>2, <3>3 DEF CloneFollows, remote
  <2>6. ShowsOne(snapshot') /\ (ready' <=> snapshot' # NoSnapshot) /\ Forward
    BY <1>0, <2>1 DEF Forward
  <2> QED BY <1>1, <2>1, <2>2, <2>3, <2>4, <2>5, <2>6
<1>5. CASE FetchFails(r)
  <2> DEFINE new == [call EXCEPT !.at = "build"]
  <2>1. /\ call.at = "fetch" /\ UNCHANGED <<remote, disk, snapshot, ready, lock>>
        /\ refresher' = [refresher EXCEPT ![r] = new]
    BY <1>0, <1>5 DEF FetchFails, At, Goes, call
  <2>2. new \in Calls /\ new.at = "build" /\ new.whole = call.whole
    BY <1>0 DEF Calls
  <2> HIDE DEF new
  <2>3. lock' = r
    BY <1>0, <2>1, OnlyOne DEF call
  <2>4. CallKnows(new, clone', work', snapshot')
    BY <1>0, <2>1, <2>2 DEF CallKnows
  <2> QED BY <1>1, <1>2, <2>1, <2>2, <2>3, <2>4
<1>6. CASE CheckoutFile(r)
  <2>1. /\ call.at = "checkout" /\ work' = NextFile /\ refresher' = refresher
        /\ UNCHANGED <<remote, clone, snapshot, ready, lock>>
    BY <1>0, <1>6 DEF CheckoutFile, At, call
  <2>2. refresher' = [refresher EXCEPT ![r] = call]
    BY <1>0, <2>1 DEF call
  <2>3. lock' = r /\ clone.repo /\ CallKnows(call, clone', work', snapshot')
    BY <1>0, <2>1, OnlyOne DEF call, CallKnows
  <2>4. CloneFollows'
    <3>1. work'.tree.doc \in {work.tree.doc, History[clone.head].doc}
      BY <1>0, <2>1, <2>3 DEF NextFile, Checked, HubTyped, Trees
    <3>2. work'.tree.doc <= History[clone.head].doc
      BY <1>0, <2>3, <3>1, CommitTrees DEF CloneFollows
    <3> QED BY <1>0, <2>1, <2>3, <3>2 DEF CloneFollows, remote
  <2>5. ShowsOne(snapshot') /\ (ready' <=> snapshot' # NoSnapshot) /\ Forward
    BY <1>0, <2>1 DEF Forward
  <2> QED BY <1>0, <1>1, <2>1, <2>2, <2>3, <2>4, <2>5
<1>7. CASE CheckoutEnds(r)
  <2> DEFINE new == [call EXCEPT !.at = "build", !.whole = TRUE]
  <2>1. /\ call.at = "checkout" /\ UNCHANGED <<remote, disk, snapshot, ready, lock>>
        /\ refresher' = [refresher EXCEPT ![r] = new] /\ work = Checked
    BY <1>0, <1>7 DEF CheckoutEnds, At, call
  <2>2. new \in Calls /\ new.at = "build"
    BY <1>0 DEF Calls
  <2> HIDE DEF new
  <2>3. lock' = r
    BY <1>0, <2>1, OnlyOne DEF call
  <2>4. CallKnows(new, clone', work', snapshot')
    BY <1>0, <2>1, <2>2 DEF CallKnows, Checked, disk
  <2> QED BY <1>1, <1>2, <2>1, <2>2, <2>3, <2>4
<1>8. CASE CheckoutFails(r)
  <2> DEFINE new == [call EXCEPT !.at = "build"]
  <2>1. /\ call.at = "checkout" /\ UNCHANGED <<remote, snapshot, ready, lock>>
        /\ refresher' = [refresher EXCEPT ![r] = new]
        /\ IF call.clones
           THEN /\ clone' = [repo |-> FALSE, fetched |-> 0, head |-> 0, tags |-> {}]
                /\ work' = [catalog |-> FALSE, tree |-> EmptyTree]
           ELSE UNCHANGED disk
    BY <1>0, <1>8 DEF CheckoutFails, At, Goes, call
  <2>2. new \in Calls /\ new.at = "build" /\ new.whole = call.whole
    BY <1>0 DEF Calls
  <2> HIDE DEF new
  <2>3. lock' = r
    BY <1>0, <2>1, OnlyOne DEF call
  <2>4. CallKnows(new, clone', work', snapshot')
    BY <1>0, <2>1, <2>2 DEF CallKnows
  <2>5. call.clones \in BOOLEAN
    BY <1>0 DEF Calls
  <2>6. CASE call.clones = TRUE
    <3>1. snapshot.commit = 0
      BY <1>0, <2>1, <2>6 DEF CallKnows
    <3>2. CloneFollows'
      <4>1. /\ clone'.repo = FALSE /\ clone'.head = 0 /\ clone'.tags = {}
            /\ work'.catalog = FALSE /\ work'.tree.doc = 0
        BY <2>1, <2>6 DEF EmptyTree
      <4> QED BY <1>0, <2>1, <3>1, <4>1 DEF CloneFollows, remote
    <3>3. ShowsOne(snapshot') /\ (ready' <=> snapshot' # NoSnapshot) /\ Forward
      BY <1>0, <2>1 DEF Forward
    <3> QED BY <1>1, <2>1, <2>2, <2>3, <2>4, <3>2, <3>3
  <2>7. CASE call.clones = FALSE
    BY <1>1, <1>2, <2>1, <2>2, <2>3, <2>4, <2>7
  <2> QED BY <2>5, <2>6, <2>7
<1>9. CASE Build(r)
  <2>1. call.at = "build" /\ UNCHANGED <<remote, disk, snapshot, ready>>
    BY <1>9 DEF Build, At, call
  <2>2. CASE Builds(r, NoEntry, FALSE)
    <3>1. refresher' = [refresher EXCEPT ![r] = Resting] /\ Resting.at = "idle"
      BY <2>2 DEF Builds, Resting
    <3>2. CallKnows(Resting, clone', work', snapshot')
      BY DEF CallKnows, Resting
    <3> QED BY <1>1, <1>2, <2>1, <3>1, <3>2, RestingTyped
  <2>3. ASSUME NEW e \in Entries, Builds(r, e, TRUE),
               work.tree.doc # 0 => /\ e.version >= work.tree.doc
                                    /\ e.version = work.tree.doc => e.hash = work.tree
        PROVE  RefreshInv' /\ Forward
    <3> DEFINE s == [entry |-> e, commit |-> clone.head, whole |-> call.whole]
               new == [call EXCEPT !.at = "store", !.built = s]
    <3>1. /\ s \in Snapshots /\ s.commit = clone.head /\ s.entry = e
          /\ (s.whole => call.whole)
      BY <1>0, <2>3 DEF Snapshots, Calls, HubTyped
    <3> HIDE DEF s
    <3>2. new \in Calls /\ new.at = "store" /\ new.built = s
      BY <1>0, <3>1 DEF Calls
    <3>3. refresher' = [refresher EXCEPT ![r] = new] /\ UNCHANGED lock /\ work.catalog
      BY <1>0, <2>3 DEF Builds, call, s
    <3> HIDE DEF new
    <3>4. clone.repo
      BY <1>0, <3>3 DEF CloneFollows
    <3>5. ShowsOne(s)
      <4> SUFFICES ASSUME s.whole PROVE ShowsOne(s)
        BY DEF ShowsOne
      <4>1. work.tree = History[clone.head] /\ clone.head \in Commits
        BY <1>0, <2>1, <3>1, <3>4 DEF CallKnows
      <4>2. work.tree.doc # 0
        BY <4>1, CommitTrees
      <4> QED BY <2>3, <3>1, <4>1, <4>2 DEF ShowsOne
    <3>6. lock' = r
      BY <1>0, <2>1, <3>3, OnlyOne DEF call
    <3>7. CallKnows(new, clone', work', snapshot')
      BY <2>1, <3>1, <3>2, <3>4, <3>5 DEF CallKnows, disk
    <3> QED BY <1>1, <1>2, <2>1, <3>2, <3>3, <3>6, <3>7
  <2> QED BY <1>0, <1>9, <2>2, <2>3, BuildResult
<1>10. CASE Store(r)
  <2>1. /\ call.at = "store" /\ snapshot' = call.built /\ ready' = TRUE
        /\ refresher' = [refresher EXCEPT ![r] = Resting] /\ UNCHANGED <<remote, disk>>
    BY <1>10 DEF Store, At, Rests, call
  <2>2. clone.repo /\ call.built.commit = clone.head /\ ShowsOne(call.built)
    BY <1>0, <2>1 DEF CallKnows
  <2>3. Resting.at = "idle" /\ CallKnows(Resting, clone', work', snapshot')
    BY DEF CallKnows, Resting
  <2>4. snapshot' # NoSnapshot /\ snapshot'.commit = clone.head /\ Forward
    BY <1>0, <2>1, <2>2 DEF NoSnapshot, CloneFollows, Forward
  <2>5. CloneFollows'
    BY <1>0, <2>1, <2>4 DEF CloneFollows, remote, disk
  <2>6. ShowsOne(snapshot') /\ (ready' <=> snapshot' # NoSnapshot)
    BY <2>1, <2>2, <2>4
  <2> QED BY <1>1, <2>1, <2>3, <2>4, <2>5, <2>6, RestingTyped
<1> QED BY <1>3, <1>4, <1>5, <1>6, <1>7, <1>8, <1>9, <1>10 DEF RefreshStep

(***************************************************************************)
(* The two invariants together, through every step.                        *)
(***************************************************************************)
HubInv == RefreshInv /\ RequestInv

LEMMA InitHolds == Init => HubInv
<1> SUFFICES ASSUME Init PROVE HubInv
  OBVIOUS
<1>1. HubTyped
  <2>1. /\ clone \in [repo : BOOLEAN, fetched : Commits \union {0}, head : Commits \union {0},
                      tags : SUBSET Versions]
        /\ work \in [catalog : BOOLEAN, tree : Trees]
    BY EmptyTreeTyping DEF Init
  <2>2. walked \in [head : Commits \union {0}, commits : SUBSET Commits]
    BY DEF Init, NoWalk
  <2>3. /\ refresher \in [Refreshers -> Calls] /\ snapshot \in Snapshots
        /\ request \in [Requests -> Served]
    BY IdleTyped, RestingTyped DEF Init
  <2>4. /\ origin \in Commits /\ released \subseteq Versions /\ ready \in BOOLEAN
        /\ lock \in Refreshers \union {NoRefresher} /\ faults \in 0 .. MaxFaults
    <3>1. origin = FirstTip /\ released = {} /\ ready = FALSE /\ lock = NoRefresher /\ faults = 0
      BY DEF Init
    <3>2. origin \in Commits
      BY <3>1, RefreshAssumption
    <3>3. faults \in 0 .. MaxFaults
      BY <3>1, RefreshAssumption
    <3>4. ready \in BOOLEAN
      BY <3>1
    <3> QED BY <3>1, <3>2, <3>3, <3>4
  <2>5. verdicts \in [Trees -> {"pass", "warn", "fail", Unscanned}]
    BY DEF Init
  <2> QED BY <2>1, <2>2, <2>3, <2>4, <2>5 DEF HubTyped
<1>2. /\ OneRefresh /\ CloneFollows /\ ShowsOne(snapshot) /\ (ready <=> snapshot # NoSnapshot)
      /\ \A r \in Refreshers : CallKnows(refresher[r], clone, work, snapshot)
  BY RefreshAssumption
     DEF Init, OneRefresh, CloneFollows, ShowsOne, CallKnows, NoSnapshot, Resting, EmptyTree, Commits
<1>3. FoundAt(walked.commits, walked.head, faults)
  BY DEF Init, NoWalk, FoundAt, Contributions
<1>4. \A q \in Requests : Fits(request[q], clone, work, faults)
  BY IdleFits DEF Init
<1> QED BY <1>1, <1>2, <1>3, <1>4 DEF HubInv, RefreshInv, RequestInv

\* What a request changes beside itself.
LEMMA RequestTouches ==
  ASSUME HubInv, NEW q \in Requests,
         RequestStep(q) \/ \E kind \in Kinds, v \in Versions \union {0} : Ask(q, kind, v)
  PROVE  /\ UNCHANGED <<remote, disk, lock, refresher, snapshot, ready>>
         /\ verdicts' \in [Trees -> {"pass", "warn", "fail", Unscanned}]
         /\ faults' \in 0 .. MaxFaults /\ faults <= faults'
         /\ walked' \in [head : Commits \union {0}, commits : SUBSET Commits]
         /\ FoundAt(walked'.commits, walked'.head, faults)
<1>0. /\ verdicts \in [Trees -> {"pass", "warn", "fail", Unscanned}] /\ faults \in 0 .. MaxFaults
      /\ walked \in [head : Commits \union {0}, commits : SUBSET Commits] /\ MaxFaults \in Nat
      /\ FoundAt(walked.commits, walked.head, faults) /\ work.tree \in Trees
  BY RefreshAssumption DEF HubInv, RefreshInv, RequestInv, HubTyped
<1>1. CASE UNCHANGED <<serverOnly, verdicts, faults>>
  BY <1>0, <1>1 DEF serverOnly
<1>2. CASE ScanTip(q)
  <2>1. UNCHANGED serverOnly
    BY <1>2 DEF ScanTip
  <2>2. PICK verdict \in {Unscanned, Verdict[work.tree]} : Scan(Newest(q), work.tree, verdict)
    BY <1>2 DEF ScanTip
  <2>3. Verdict[work.tree] \in {"pass", "warn", "fail"}
    BY <1>0, VerdictAssumption
  <2>4. /\ verdicts' \in [Trees -> {"pass", "warn", "fail", Unscanned}]
        /\ faults' \in 0 .. MaxFaults /\ faults <= faults'
    BY <1>0, <2>2, <2>3 DEF Scan
  <2> QED BY <1>0, <2>1, <2>4 DEF serverOnly
<1>3. CASE WalkHistory(q)
  <2>1. UNCHANGED <<remote, disk, lock, refresher, snapshot, ready, verdicts, faults>>
    BY <1>3 DEF WalkHistory
  <2>2. request[q].read \in Commits
    BY <1>3 DEF WalkHistory, ReqAt, HubInv, RequestInv, Fits, StepOfKind
  <2>3. PICK commits \in SUBSET Commits :
          /\ walked' = [head |-> request[q].read, commits |-> commits]
          /\ FoundAt(commits, request[q].read, faults)
    BY <1>3, WalkFinds DEF HubInv
  <2> QED BY <1>0, <2>1, <2>2, <2>3
<1>4. CASE \E kind \in Kinds, v \in Versions \union {0} : Ask(q, kind, v)
  BY <1>1, <1>4 DEF Ask
<1>5. CASE RequestStep(q) /\ ~ScanTip(q) /\ ~WalkHistory(q)
  BY <1>1, <1>5 DEF RequestStep, ReadDeclared, ReadTags, ListFiles, HashEntrypoint, ReadHash,
                    LookUpVerdict, FindSource, ReadSource, ReadHead
<1> QED BY <1>2, <1>3, <1>4, <1>5

LEMMA RequestKeeps ==
  ASSUME HubInv, NEW q \in Requests,
         RequestStep(q) \/ \E kind \in Kinds, v \in Versions \union {0} : Ask(q, kind, v)
  PROVE  HubInv' /\ UNCHANGED snapshot
<1>1. Moves(q)
  BY AskMoves, StepMoves DEF HubInv
<1>2. /\ UNCHANGED <<remote, disk, lock, refresher, snapshot, ready>>
      /\ verdicts' \in [Trees -> {"pass", "warn", "fail", Unscanned}]
      /\ faults' \in 0 .. MaxFaults /\ faults <= faults'
      /\ walked' \in [head : Commits \union {0}, commits : SUBSET Commits]
      /\ FoundAt(walked'.commits, walked'.head, faults)
  BY RequestTouches
<1>3. HubTyped /\ RefreshInv /\ RequestInv
  BY DEF HubInv, RefreshInv
<1>4. HubTyped'
  BY <1>1, <1>2, <1>3 DEF HubTyped, Moves, remote, disk
<1>5. RefreshInv'
  BY <1>2, <1>3, <1>4 DEF RefreshInv, OneRefresh, CloneFollows, remote, disk
<1>6. faults \in Nat /\ faults' \in Nat /\ work.tree.doc \in Nat
  <2>1. work.tree.doc \in Versions \union {0} /\ faults \in Nat
    BY <1>3, Numbers DEF HubTyped, Trees
  <2> QED BY <1>2, <2>1, Numbers
<1>7. \A p \in Requests : Fits(request[p], clone, work, faults)'
  <2> SUFFICES ASSUME NEW p \in Requests PROVE Fits(request'[p], clone', work', faults')
    OBVIOUS
  <2>1. PICK rec : rec = request'[p]
    OBVIOUS
  <2>2. rec \in Served /\ Fits(rec, clone, work, faults)
    BY <1>1, <1>3, <2>1 DEF Moves, RequestInv
  <2>3. clone' = clone /\ work' = work
    BY <1>2 DEF disk
  <2>4. Fits(rec, clone, work, faults')
    BY <1>2, <1>6, <2>2, FitsLater DEF Fits
  <2> QED BY <2>1, <2>3, <2>4
<1>8. FoundAt(walked.commits, walked.head, faults)'
  BY <1>2, <1>6 DEF FoundAt
<1> QED BY <1>2, <1>5, <1>7, <1>8 DEF HubInv, RequestInv

\* What a step of a refresh does to the requests: it leaves them and the clone, or moves
\* the clone forward, or gives the clone up.
LEMMA RefreshDisturbs ==
  ASSUME RefreshInv, NEW r \in Refreshers, Refresh(r) \/ RefreshStep(r)
  PROVE  /\ UNCHANGED walked /\ faults <= faults'
         /\ \/ UNCHANGED <<disk, request>>
            \/ /\ \E removes \in BOOLEAN :
                    /\ request' = Disturbed(removes)
                    /\ work.tree.data # NoFile /\ work'.tree.data = NoFile => removes
               /\ clone.tags \subseteq clone'.tags
               /\ clone.repo => clone'.repo
               /\ work.catalog => work'.catalog
               /\ work.tree.doc <= work'.tree.doc
            \/ request' = Bereft /\ faults' # 0
<1>0. /\ HubTyped /\ CloneFollows /\ CallKnows(refresher[r], clone, work, snapshot)
      /\ faults \in Nat /\ work.tree \in Trees
      /\ work.tree.doc \in Versions \union {0} /\ Versions \union {0} \subseteq Nat
  BY RefreshAssumption, VersionAssumption DEF RefreshInv, HubTyped, Trees
<1>1. work.tree.doc \in Nat
  BY <1>0
<1>2. CASE Fetch(r)
  <2>1. /\ clone'.repo = TRUE /\ clone'.tags = released
        /\ request' = Disturbed(FALSE) /\ UNCHANGED <<work, faults, walked>>
    BY <1>2 DEF Fetch
  <2>2. \E removes \in BOOLEAN :
          /\ request' = Disturbed(removes)
          /\ work.tree.data # NoFile /\ work'.tree.data = NoFile => removes
    <3>1. ~(work.tree.data # NoFile /\ work'.tree.data = NoFile)
      BY <2>1
    <3> QED BY <2>1, <3>1, Zenon
  <2>3. /\ clone.tags \subseteq clone'.tags /\ (clone.repo => clone'.repo)
        /\ (work.catalog => work'.catalog) /\ work.tree.doc <= work'.tree.doc
    BY <1>0, <1>1, <2>1 DEF CloneFollows
  <2>4. faults <= faults'
    BY <1>0, <2>1
  <2> QED BY <2>1, <2>2, <2>3, <2>4, Zenon
<1>3. CASE CheckoutFile(r)
  <2>1. /\ work' = NextFile /\ UNCHANGED <<clone, faults, walked>>
        /\ request' = Disturbed(work.tree.data # NoFile /\ work'.tree.data = NoFile)
        /\ refresher[r].at = "checkout"
    BY <1>3 DEF CheckoutFile, At
  <2>2. clone.repo /\ clone.head \in Commits
    BY <1>0, <2>1 DEF CallKnows, CloneFollows, HubTyped
  <2>3. /\ work.catalog => work'.catalog
        /\ work'.tree.doc \in {work.tree.doc, History[clone.head].doc}
    BY <1>0, <2>1 DEF NextFile, Checked, HubTyped, Trees
  <2>4. work.tree.doc <= work'.tree.doc
    BY <1>0, <1>1, <2>2, <2>3 DEF CloneFollows
  <2>5. PICK removes \in BOOLEAN : removes = (work.tree.data # NoFile /\ work'.tree.data = NoFile)
    OBVIOUS
  <2>6. request' = Disturbed(removes)
    BY <2>1, <2>5
  <2>7. \E b \in BOOLEAN :
          /\ request' = Disturbed(b)
          /\ work.tree.data # NoFile /\ work'.tree.data = NoFile => b
    BY <2>5, <2>6, Zenon
  <2>8. faults <= faults' /\ clone.tags \subseteq clone'.tags /\ (clone.repo => clone'.repo)
    BY <1>0, <2>1
  <2> QED BY <2>1, <2>3, <2>4, <2>7, <2>8, Zenon
<1>4. CASE CheckoutFails(r)
  <2>1. refresher[r].clones \in BOOLEAN
    BY <1>0 DEF HubTyped, Calls
  <2> QED BY <1>0, <1>4, <2>1 DEF CheckoutFails
<1>5. CASE Build(r)
  <2>1. UNCHANGED <<disk, request, walked>>
    BY <1>5 DEF Build
  <2>2. faults' >= faults /\ faults' \in Nat
    <3>1. faults' \in 0 .. MaxFaults /\ faults' >= faults
      BY <1>0, <1>5, BuildResult DEF Builds
    <3> QED BY <3>1, Numbers
  <2> QED BY <1>0, <2>1, <2>2
<1>6. CASE Refresh(r) \/ FetchFails(r) \/ CheckoutEnds(r) \/ Store(r)
  BY <1>0, <1>6 DEF Refresh, FetchFails, CheckoutEnds, Store
<1> QED BY <1>2, <1>3, <1>4, <1>5, <1>6 DEF RefreshStep

LEMMA RefreshKeepsAll ==
  ASSUME HubInv, NEW r \in Refreshers, Refresh(r) \/ RefreshStep(r)
  PROVE  HubInv' /\ Forward
<1>1. RefreshInv /\ RequestInv /\ RefreshInv' /\ Forward /\ HubTyped /\ HubTyped'
  BY RefreshKeeps DEF HubInv, RefreshInv
<1>2. /\ UNCHANGED walked /\ faults <= faults' /\ faults \in Nat /\ faults' \in Nat
      /\ \A q \in Requests : request[q] \in Served
      /\ work.tree.doc \in Versions \union {0} /\ work'.tree.doc \in Versions \union {0}
  BY <1>1, RefreshDisturbs, RefreshAssumption DEF HubTyped, Trees
<1>3. work.tree.doc \in Nat /\ work'.tree.doc \in Nat
  BY <1>2, Numbers
<1>4. FoundAt(walked.commits, walked.head, faults)'
  BY <1>1, <1>2 DEF RequestInv, FoundAt
<1>5. \A q \in Requests : Fits(request[q], clone, work, faults)'
  <2> SUFFICES ASSUME NEW q \in Requests PROVE Fits(request'[q], clone', work', faults')
    OBVIOUS
  <2>1. PICK rec \in Served : rec = request[q]
    BY <1>2
  <2>2. Fits(rec, clone, work, faults)
    BY <1>1, <2>1 DEF RequestInv
  <2>3. CASE UNCHANGED <<disk, request>>
    <3>1. clone' = clone /\ work' = work /\ request'[q] = rec
      BY <2>1, <2>3 DEF disk
    <3>2. Fits(rec, clone, work, faults')
      BY <1>2, <1>3, <2>2, FitsLater DEF Fits
    <3> QED BY <3>1, <3>2
  <2>4. CASE /\ \E removes \in BOOLEAN :
                  /\ request' = Disturbed(removes)
                  /\ work.tree.data # NoFile /\ work'.tree.data = NoFile => removes
             /\ clone.tags \subseteq clone'.tags
             /\ clone.repo => clone'.repo
             /\ work.catalog => work'.catalog
             /\ work.tree.doc <= work'.tree.doc
    <3>1. PICK removes \in BOOLEAN :
            /\ request' = Disturbed(removes)
            /\ work.tree.data # NoFile /\ work'.tree.data = NoFile => removes
      BY <2>4
    <3>2. CASE rec.at = "done"
      BY <2>1, <3>1, <3>2, IdleFits DEF Disturbed
    <3>3. CASE rec.at # "done"
      <4>1. PICK torn \in BOOLEAN : torn = (removes /\ rec.at \in {"files", "rest"})
        OBVIOUS
      <4>2. PICK new : new = [rec EXCEPT !.torn = @ \/ torn]
        OBVIOUS
      <4>3. /\ new \in Served /\ new.at = rec.at /\ new.past = rec.past
            /\ new.body = rec.body
        BY <2>1, <4>2 DEF Served
      <4>4. Fits(new, clone, work, faults) /\ (torn => new.torn)
        BY <2>2, <3>3, <4>2, <4>3, FitsTorn
      <4>5. Listed(new, work')
        BY <3>1, <4>1, <4>3, <4>4 DEF Fits, Listed
      <4>6. Fits(new, clone', work', faults')
        BY <1>2, <1>3, <2>4, <4>3, <4>4, <4>5, FitsLater
      <4>7. request'[q] = new
        BY <2>1, <3>1, <3>3, <4>1, <4>2 DEF Disturbed
      <4> QED BY <4>6, <4>7
    <3> QED BY <3>2, <3>3
  <2>5. CASE request' = Bereft /\ faults' # 0
    <3>1. request'[q] = (IF rec.at = "done" THEN Idle ELSE [rec EXCEPT !.past = {}])
      BY <2>1, <2>5 DEF Bereft
    <3>2. CASE rec.at = "done"
      BY <3>1, <3>2, IdleFits
    <3>3. CASE rec.at # "done"
      <4> DEFINE new == [rec EXCEPT !.past = {}]
      <4>1. /\ new \in Served /\ new.at = rec.at /\ new.past = {} /\ new.kind = rec.kind
            /\ new.read = rec.read /\ new.versions = rec.versions /\ new.v = rec.v
        BY <2>1 DEF Served
      <4> HIDE DEF new
      <4>2. Fits(new, clone', work', faults')
        BY <2>2, <2>5, <3>3, <4>1 DEF Fits, PastKept, PastServed, Listed, StepOfKind, FoundServed
      <4> QED BY <3>1, <3>3, <4>2 DEF new
    <3> QED BY <3>2, <3>3
  <2> QED BY <1>1, <2>3, <2>4, <2>5, RefreshDisturbs
<1> QED BY <1>1, <1>4, <1>5 DEF HubInv, RequestInv

\* Main moves, and its versions are tagged: the portal has nothing of it yet.
LEMMA RemoteKeeps ==
  ASSUME HubInv, Merge \/ \E v \in Versions : Release(v)
  PROVE  HubInv' /\ UNCHANGED snapshot
<1>1. /\ UNCHANGED <<disk, lock, refresher, snapshot, ready, verdicts, request, faults, walked>>
      /\ origin' \in Commits /\ released' \subseteq Versions
      /\ origin <= origin' /\ released \subseteq released'
  BY HistoryAssumption DEF Merge, Release, HubInv, RefreshInv, HubTyped, Commits
<1>2. RefreshInv /\ RequestInv /\ HubTyped /\ CloneFollows
  BY DEF HubInv, RefreshInv
<1>3. clone.head \in Nat /\ origin \in Nat /\ origin' \in Nat
  BY <1>1, <1>2, Numbers DEF HubTyped
<1>4. HubTyped'
  BY <1>1, <1>2 DEF HubTyped, disk
<1>5. CloneFollows'
  BY <1>1, <1>2, <1>3 DEF CloneFollows, disk
<1>6. RefreshInv'
  BY <1>1, <1>2, <1>4, <1>5 DEF RefreshInv, OneRefresh, disk
<1>7. RequestInv'
  BY <1>1, <1>2 DEF RequestInv, disk
<1> QED BY <1>1, <1>6, <1>7 DEF HubInv

LEMMA RestartKeeps ==
  ASSUME HubInv, Restart
  PROVE  HubInv' /\ snapshot' = NoSnapshot
<1>1. /\ UNCHANGED <<remote, disk>> /\ faults' \in 0 .. MaxFaults
      /\ lock' = NoRefresher /\ refresher' = [r \in Refreshers |-> Resting]
      /\ snapshot' = NoSnapshot /\ ready' = FALSE
      /\ verdicts' = [t \in Trees |-> Unscanned] /\ walked' = NoWalk
      /\ request' = [q \in Requests |-> Idle]
  BY RefreshAssumption DEF Restart, HubInv, RefreshInv, HubTyped
<1>2. HubTyped /\ CloneFollows
  BY DEF HubInv, RefreshInv
<1>3. HubTyped'
  <2>1. walked' \in [head : Commits \union {0}, commits : SUBSET Commits]
    BY <1>1 DEF NoWalk
  <2>2. /\ refresher' \in [Refreshers -> Calls] /\ snapshot' \in Snapshots
        /\ request' \in [Requests -> Served]
    BY <1>1, IdleTyped, RestingTyped
  <2>3. verdicts' \in [Trees -> {"pass", "warn", "fail", Unscanned}]
    BY <1>1
  <2> QED BY <1>1, <1>2, <2>1, <2>2, <2>3 DEF HubTyped, remote, disk
<1>4. CloneFollows'
  <2>1. clone.head \in Nat
    BY <1>2, Numbers DEF HubTyped
  <2> QED BY <1>1, <1>2, <2>1 DEF CloneFollows, NoSnapshot, remote, disk
<1>5. /\ OneRefresh' /\ ShowsOne(snapshot') /\ (ready' <=> snapshot' # NoSnapshot)
      /\ \A r \in Refreshers : CallKnows(refresher'[r], clone', work', snapshot')
  BY <1>1 DEF OneRefresh, ShowsOne, CallKnows, NoSnapshot, Resting
<1>6. RequestInv'
  <2>1. FoundAt(walked'.commits, walked'.head, faults')
    BY <1>1 DEF NoWalk, FoundAt, Contributions
  <2>2. \A q \in Requests : Fits(request'[q], clone', work', faults')
    BY <1>1, IdleFits
  <2> QED BY <2>1, <2>2 DEF RequestInv
<1> QED BY <1>1, <1>3, <1>4, <1>5, <1>6 DEF HubInv, RefreshInv

LEMMA StepKeeps ==
  ASSUME HubInv, [Next]_vars
  PROVE  HubInv' /\ (Forward \/ UNCHANGED snapshot)
<1>1. CASE UNCHANGED vars
  <2>1. UNCHANGED <<origin, released, clone, work, lock, refresher, snapshot, ready, verdicts,
                    walked, request, faults>>
    BY <1>1 DEF vars, remote, disk
  <2>2. HubTyped' /\ OneRefresh' /\ CloneFollows'
    BY <2>1 DEF HubInv, RefreshInv, HubTyped, OneRefresh, CloneFollows
  <2> QED BY <2>1, <2>2 DEF HubInv, RefreshInv, RequestInv
<1>2. CASE Merge \/ \E v \in Versions : Release(v)
  BY <1>2, RemoteKeeps
<1>3. ASSUME NEW r \in Refreshers, Refresh(r) \/ RefreshStep(r)
      PROVE  HubInv' /\ Forward
  BY <1>3, RefreshKeepsAll
<1>4. ASSUME NEW q \in Requests,
             RequestStep(q) \/ \E kind \in Kinds, v \in Versions \union {0} : Ask(q, kind, v)
      PROVE  HubInv' /\ UNCHANGED snapshot
  BY <1>4, RequestKeeps
<1>5. CASE Restart
  BY <1>5, RestartKeeps DEF Forward
<1> QED BY <1>1, <1>2, <1>3, <1>4, <1>5 DEF Next

(***************************************************************************)
(* The theorems.                                                           *)
(***************************************************************************)
LEMMA HubInvHolds == Spec => []HubInv
<1>1. HubInv /\ [Next]_vars => HubInv'
  BY StepKeeps
<1> QED BY InitHolds, <1>1, PTL DEF Spec

\* Whatever refreshes, requests, failures and restarts do, a snapshot built after a
\* checkout that succeeded shows one commit of main (server.go, Refresh).
THEOREM SnapshotsAreWhole == Spec => []SnapshotWhole
<1>1. HubInv => SnapshotWhole
  <2> SUFFICES ASSUME HubInv PROVE SnapshotWhole
    OBVIOUS
  <2>1. HubTyped /\ ShowsOne(snapshot) /\ (ready <=> snapshot # NoSnapshot)
    BY DEF HubInv, RefreshInv
  <2>2. /\ \A r \in Refreshers : refresher[r].at \in {"idle", "fetch", "checkout", "build", "store"}
        /\ \A q \in Requests : request[q].body \in Trees
    BY <2>1 DEF HubTyped, Calls, Served
  <2>3. ready = (snapshot # NoSnapshot)
    BY <2>1 DEF HubTyped
  <2>4. TypeOK
    BY <2>1, <2>2, <2>3 DEF TypeOK, HubTyped
  <2> QED BY <2>1, <2>4 DEF SnapshotWhole, ShowsOne
<1> QED BY HubInvHolds, <1>1, PTL

\* The published snapshot never goes back to an older commit, however the loop, forced
\* refreshes, failed clones and restarts overlap (server.go, Refresh).
THEOREM SnapshotsGoForward == Spec => SnapshotForward
<1>1. HubInv /\ [Next]_vars => (snapshot' # NoSnapshot => snapshot'.commit >= snapshot.commit)
  <2> SUFFICES ASSUME HubInv, [Next]_vars, snapshot' # NoSnapshot
               PROVE  snapshot'.commit >= snapshot.commit
    OBVIOUS
  <2>1. snapshot.commit \in Nat
    BY Numbers DEF HubInv, RefreshInv, HubTyped, Snapshots
  <2> QED BY <2>1, StepKeeps DEF Forward
<1> QED BY HubInvHolds, <1>1, PTL DEF Spec, SnapshotForward

\* A past release that is served is the tree of its tag, whatever is checked out while it
\* is served, and it is refused only where a checkout removed a file of the tip's tree under
\* the request (versions.go, componentVersions and resolveVersionSource; bundle.go, HashDir).
THEOREM ReleasesAreFixed == Spec => []ReleasedIsFixed
<1>1. HubInv => ReleasedIsFixed
  BY DEF HubInv, RequestInv, Fits, PastServed, RightFor, ReleasedIsFixed
<1> QED BY HubInvHolds, <1>1, PTL

\* An answer lists the contributions up to the head that was read for it
\* (contributions.go, contributionIndexForHead).
THEOREM ContributionsAreOfHead == Spec => []ContributionsOfHead
<1>1. HubInv => ContributionsOfHead
  BY DEF HubInv, RequestInv, Fits, FoundServed, FoundAt, ContributionsOfHead
<1> QED BY HubInvHolds, <1>1, PTL

=============================================================================
