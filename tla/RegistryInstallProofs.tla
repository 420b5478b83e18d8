------------------------ MODULE RegistryInstallProofs ------------------------
(***************************************************************************)
(* Theorems about RegistryInstall, for every history of releases, every    *)
(* number of files and of faults: an install that reports success has put  *)
(* down one released tree, no install goes back to an older version, and   *)
(* an install that nothing disturbs succeeds.  And about the texts that it *)
(* writes into, of any length: marks do not pile up in a skill and break   *)
(* none of its checks, and .gitignore keeps its developer's lines.         *)
(***************************************************************************)
EXTENDS InstalledTexts, DataLemmas, SequenceTheorems, TLAPS

Commits   == 1 .. Len(Releases)
FileTrees == [Files -> Blobs]
Kinds     == {"index", "manifest", "sidecar", "tar"}
Bodies    == [is : {"missing", "torn", "whole"}, version : Nat, tree : FileTrees]
Kept      == {"no", "stale", "fresh", "forever"}
Copies    == [kept : Kept, body : Bodies]

\* The steps of an install: before it knows a version, with one, with the hash of
\* the sidecar, with a verified tree.
Asking   == {"index", "manifest"}
Placing  == {"write", "sidecar file", "marker", "ignore"}
Hashed   == {"check", "tar"} \union Placing
Versed   == {"sidecar"} \union Hashed
Installs == [at : {"idle"} \union Asking \union Versed, want : Nat, version : Nat,
             sum : FileTrees, tree : FileTrees, todo : SUBSET Files, old : BOOLEAN,
             calm : BOOLEAN, result : {"none", "failed", "done"}]
Targets  == [files : [Files -> Blobs \union {TornFile}], version : Nat, hash : FileTrees,
             marker : FileTrees, ignored : BOOLEAN]

Typed ==
  /\ tip \in Commits
  /\ builder \in [at : 0 .. 4, n : 0 .. Len(Releases), half : BOOLEAN]
  /\ built \in 0 .. Len(Releases)
  /\ site \in [Urls -> Bodies]
  /\ cache \in [Urls -> Copies]
  /\ pending \in SUBSET [url : Urls, body : Bodies] /\ behind \in BOOLEAN
  /\ install \in Installs
  /\ target \in Targets
  /\ faults \in Nat

\* A build takes the tip of its day; only a build that is over is the last one built.
BuildOrder ==
  /\ built <= builder.n /\ builder.n <= tip
  /\ builder.at # 0 => built < builder.n

(***************************************************************************)
(* What an install puts down.                                              *)
(***************************************************************************)
\* A version and a tree that some build up to that of commit n has brought together.
IsRelease(n, v, t) == \E k \in 1 .. n : Releases[k].version = v /\ Releases[k].tree = t

\* A body that is whole at the URL of a version, or of the manifest, is of a release.
Genuine(u, b, n) ==
  b.is = "whole" =>
    /\ u.what # "index" => IsRelease(n, b.version, b.tree)
    /\ u.what \in {"sidecar", "tar"} => b.version = u.v

BodiesGenuine ==
  /\ \A u \in Urls : Genuine(u, site[u], builder.n) /\ Genuine(u, cache[u].body, builder.n)
  /\ \A o \in pending : Genuine(o.url, o.body, builder.n)

\* The files of tree t are in place, those of todo aside.
Placed(files, t, todo) == \A f \in Files \ todo : Present(t, f) => files[f] = t[f]

\* What the install has read belongs together; what it has written, too.
Knows(n, ins, tgt) ==
  /\ ins.at \in Versed => ins.version \in Versions
  /\ ins.at \in Hashed => IsRelease(n, ins.version, ins.sum)
  /\ ins.at \in Placing => ins.tree = ins.sum
  /\ ins.at = "write" => Placed(tgt.files, ins.sum, ins.todo)
  /\ ins.at \in {"sidecar file", "marker", "ignore"} => Placed(tgt.files, ins.sum, {})
  /\ ins.at \in {"marker", "ignore"} => tgt.version = ins.version /\ tgt.hash = ins.sum
  /\ ins.at = "ignore" => tgt.marker = ins.sum
  /\ ins.result = "done" => ins.at = "idle"

Delivered(n, tgt) ==
  /\ tgt.marker = tgt.hash /\ tgt.ignored
  /\ IsRelease(n, tgt.version, tgt.hash) /\ Placed(tgt.files, tgt.hash, {})

GenuineInv ==
  /\ Typed /\ BuildOrder /\ BodiesGenuine /\ Knows(builder.n, install, target)
  /\ install.result = "done" => Delivered(builder.n, target)

(***************************************************************************)
(* Versions only grow.                                                     *)
(***************************************************************************)
\* The newest version that a build has taken.
Newest(n) == IF n = 0 THEN 0 ELSE Releases[n].version

\* Version v is not above what the build and the site have of the manifest.
Published(v, n, st) ==
  /\ v <= Newest(n)
  /\ st[ManifestUrl].is = "whole" => v <= st[ManifestUrl].version

\* Nor above the copy of the manifest, when that is the last one that was got.
NotAbove(v, n, st, ch, late) ==
  /\ Published(v, n, st)
  /\ ch[ManifestUrl].body.is = "whole" /\ ~late => v <= ch[ManifestUrl].body.version

Grows ==
  /\ site[ManifestUrl].is = "whole" => site[ManifestUrl].version <= Newest(builder.n)
  /\ cache[ManifestUrl].body.is = "whole" =>
       Published(cache[ManifestUrl].body.version, builder.n, site)
  /\ \A o \in pending : o.url = ManifestUrl /\ o.body.is = "whole" =>
                        Published(o.body.version, builder.n, site)
  /\ NotAbove(target.version, builder.n, site, cache, behind)
  /\ install.at \in Versed => /\ NotAbove(install.version, builder.n, site, cache, behind)
                              /\ target.version <= install.version \/ install.old

VersionInv == GenuineInv /\ Grows

(***************************************************************************)
(* An undisturbed install.                                                 *)
(***************************************************************************)
\* What a build has written so far is in place, and so is what the last one wrote.
Written(n, k, st) ==
  \A i \in 1 .. 4 : i < k => st[Outputs(n)[i][1]] = Outputs(n)[i][2]

BuildWritten ==
  /\ builder.at # 0 => Written(builder.n, builder.at, site)
  /\ builder.at = 0 /\ built = builder.n /\ built # 0 => Written(built, 5, site)

\* A copy that is used without asking is what the site serves.
CopiesCurrent == \A u \in NewestUrls : Hit(u) => cache[u].body = site[u]

\* The install follows release r.
Follows(r, ins, tgt) ==
  /\ ins.at \in Asking => ins.want \in {0, r.version}
  /\ ins.at \in Versed => ins.version = r.version
  /\ ins.at \in Hashed => ins.sum = r.tree
  /\ ins.at = "idle" => ins.result = "done" /\ tgt.version = r.version /\ tgt.hash = r.tree

Undisturbed ==
  /\ BuildWritten
  /\ install.calm =>
       Quiet /\ (Wedged \/ (CopiesCurrent /\ Follows(Releases[tip], install, target)))

CalmInv == GenuineInv /\ Undisturbed

(***************************************************************************)
(* Lemmas about the constants and the records.                             *)
(***************************************************************************)
LEMMA ReleasesAre ==
  /\ Len(Releases) \in Nat /\ Len(Releases) >= 1
  /\ \A n \in Commits : /\ n \in Nat /\ Releases[n].version \in Nat \ {0}
                        /\ Releases[n].tree \in FileTrees /\ Releases[n].version \in Versions
                        /\ Releases[n] = [version |-> Releases[n].version, tree |-> Releases[n].tree]
  /\ \A n, k \in Commits : n <= k => Releases[n].version <= Releases[k].version
  /\ Versions \subseteq Nat \ {0}
<1> DEFINE R == [version : Nat \ {0}, tree : FileTrees]
<1>1. Releases \in Seq(R) /\ Releases # <<>> /\ DOMAIN Releases = Commits
      /\ Len(Releases) \in Nat /\ Len(Releases) >= 1
  BY ReleaseAssumption DEF FileTrees, Commits
<1>2. \A n \in Commits : n \in Nat /\ Releases[n] \in R
  <2> HIDE DEF R
  <2> QED BY <1>1 DEF Commits
<1>3. \A n, k \in Commits : n <= k => Releases[n].version <= Releases[k].version
  BY <1>1, ReleaseAssumption
<1>4. \A n \in Commits : Releases[n].version \in Versions
  BY <1>1 DEF Versions
<1>5. Versions \subseteq Nat \ {0}
  BY <1>1, <1>2 DEF Versions
<1>6. \A n \in Commits : Releases[n] = [version |-> Releases[n].version, tree |-> Releases[n].tree]
  BY <1>2
<1> QED BY <1>1, <1>2, <1>3, <1>4, <1>5, <1>6

\* The URLs of a component are different from each pending.
LEMMA UrlsAre ==
  /\ IndexUrl \in Urls /\ ManifestUrl \in Urls /\ IndexUrl # ManifestUrl
  /\ \A v \in Versions : /\ SidecarUrl(v) \in Urls /\ TarUrl(v) \in Urls
                         /\ SidecarUrl(v) # TarUrl(v)
                         /\ SidecarUrl(v) \notin {IndexUrl, ManifestUrl}
                         /\ TarUrl(v) \notin {IndexUrl, ManifestUrl}
  /\ \A u \in Urls : u.what \in Kinds
<1>1. IndexUrl \in Urls /\ ManifestUrl \in Urls
  BY DEF Urls, IndexUrl, ManifestUrl
<1>2. \A v \in Versions : SidecarUrl(v) \in Urls /\ TarUrl(v) \in Urls
  <2> DEFINE own == {[what |-> w, v |-> x] : w \in {"sidecar", "tar"}, x \in Versions}
  <2>1. ASSUME NEW v \in Versions
        PROVE  [what |-> "sidecar", v |-> v] \in own /\ [what |-> "tar", v |-> v] \in own
    OBVIOUS
  <2>2. own \subseteq Urls
    BY DEF Urls
  <2> HIDE DEF own
  <2> QED BY <2>1, <2>2 DEF SidecarUrl, TarUrl
<1>3. /\ IndexUrl.what = "index" /\ ManifestUrl.what = "manifest"
      /\ \A v : SidecarUrl(v).what = "sidecar" /\ TarUrl(v).what = "tar"
  BY DEF IndexUrl, ManifestUrl, SidecarUrl, TarUrl
<1>4. \A u \in Urls : u.what \in Kinds
  BY DEF Urls, Kinds
<1> QED BY <1>1, <1>2, <1>3, <1>4

LEMMA EmptyRecords ==
  /\ NoTree \in FileTrees
  /\ Missing \in Bodies /\ Missing.is = "missing"
  /\ TornBody \in Bodies /\ TornBody.is = "torn"
  /\ Uncached \in Copies /\ Uncached.body = Missing /\ Uncached.kept = "no"
  /\ Resting \in Installs /\ Resting.at = "idle" /\ ~Resting.calm /\ Resting.result = "none"
  /\ Untouched \in Targets /\ Untouched.version = 0
<1>1. NoTree \in FileTrees
  BY FileAssumption DEF NoTree, FileTrees
<1>2. Missing \in Bodies /\ Missing.is = "missing"
  BY <1>1 DEF Missing, Bodies
<1>3. TornBody \in Bodies /\ TornBody.is = "torn"
  BY <1>2 DEF TornBody, Bodies
<1>4. Uncached \in Copies /\ Uncached.body = Missing /\ Uncached.kept = "no"
  BY <1>2 DEF Uncached, Copies, Kept
<1>5. Resting \in Installs /\ Resting.at = "idle" /\ ~Resting.calm /\ Resting.result = "none"
  BY <1>1 DEF Resting, Installs
<1>6. Untouched \in Targets /\ Untouched.version = 0
  <2>1. NoTree \in [Files -> Blobs \union {TornFile}]
    BY FileAssumption DEF NoTree
  <2> QED BY <1>1, <2>1 DEF Untouched, Targets
<1> QED BY <1>1, <1>2, <1>3, <1>4, <1>5, <1>6

\* The fields of an install, but for its histories: whether it is calm, and old.
SameInstall(a, b) ==
  /\ a.at = b.at /\ a.want = b.want /\ a.version = b.version /\ a.sum = b.sum
  /\ a.tree = b.tree /\ a.todo = b.todo /\ a.result = b.result

LEMMA HistoriesAlone ==
  ASSUME NEW ins \in Installs, NEW calm \in BOOLEAN, NEW old \in BOOLEAN
  PROVE  LET new == [ins EXCEPT !.calm = calm, !.old = old] IN
         new \in Installs /\ SameInstall(new, ins) /\ new.calm = calm /\ new.old = old
  BY DEF Installs, SameInstall

LEMMA CalmAlone ==
  ASSUME NEW ins \in Installs, NEW calm \in BOOLEAN
  PROVE  LET new == [ins EXCEPT !.calm = calm] IN
         new \in Installs /\ SameInstall(new, ins) /\ new.calm = calm /\ new.old = ins.old
  BY DEF Installs, SameInstall

LEMMA EndedIs ==
  ASSUME install \in Installs, NEW result \in {"failed", "done"}
  PROVE  /\ Ended(result) \in Installs /\ Ended(result).at = "idle"
         /\ Ended(result).result = result /\ Ended(result).calm = install.calm
<1>1. Resting \in Installs /\ Resting.at = "idle" /\ install.calm \in BOOLEAN
  BY EmptyRecords DEF Installs
<1> QED BY <1>1 DEF Ended, Installs

LEMMA FailsIs ==
  ASSUME install \in Installs
  PROVE  Fails \in Installs /\ Fails.at = "idle" /\ Fails.result = "failed" /\ Fails.calm = install.calm
  BY EndedIs DEF Fails

\* What has been released stays so.
LEMMA ReleasesRemain ==
  ASSUME NEW n \in Nat, NEW m \in Nat, n <= m, NEW v, NEW t, IsRelease(n, v, t)
  PROVE  IsRelease(m, v, t)
  BY DEF IsRelease

\* The outputs of a build are whole bodies of its release, at URLs of their own.
LEMMA OutputsAre ==
  ASSUME NEW n \in Commits
  PROVE  /\ Len(Outputs(n)) = 4
         /\ \A i \in 1 .. 4 :
              /\ Outputs(n)[i][1] \in Urls /\ Outputs(n)[i][2] \in Bodies
              /\ Genuine(Outputs(n)[i][1], Outputs(n)[i][2], n)
              /\ Outputs(n)[i][1] = ManifestUrl <=> i = 3
              /\ \A j \in 1 .. 4 : i # j => Outputs(n)[i][1] # Outputs(n)[j][1]
         /\ Outputs(n)[1] = <<TarUrl(Releases[n].version), Body(Releases[n].version, Releases[n].tree)>>
         /\ Outputs(n)[2] = <<SidecarUrl(Releases[n].version), Body(Releases[n].version, Releases[n].tree)>>
         /\ Outputs(n)[3] = <<ManifestUrl, Body(Releases[n].version, Releases[n].tree)>>
         /\ Outputs(n)[4] = <<IndexUrl, Body(0, NoTree)>>
<1> DEFINE v == Releases[n].version
           t == Releases[n].tree
           o == Outputs(n)
<1>1. v \in Nat /\ v \in Versions /\ t \in FileTrees /\ n \in Nat /\ n \in 1 .. n
  <2>1. v \in Nat /\ v \in Versions /\ t \in FileTrees /\ n \in Nat
    BY ReleasesAre
  <2>2. n \in 1 .. n
    BY ReleasesAre DEF Commits
  <2> QED BY <2>1, <2>2
<1>2. Body(v, t) \in Bodies /\ Body(v, t).version = v /\ Body(v, t).tree = t
  BY <1>1 DEF Body, Bodies
<1>3. Body(0, NoTree) \in Bodies
  BY EmptyRecords DEF Body, Bodies
<1>4. IsRelease(n, v, t)
  BY <1>1 DEF IsRelease
<1>5. /\ Len(o) = 4
      /\ o[1] = <<TarUrl(v), Body(v, t)>> /\ o[2] = <<SidecarUrl(v), Body(v, t)>>
      /\ o[3] = <<ManifestUrl, Body(v, t)>> /\ o[4] = <<IndexUrl, Body(0, NoTree)>>
  BY DEF Outputs
<1>6. /\ TarUrl(v).what = "tar" /\ TarUrl(v).v = v /\ SidecarUrl(v).what = "sidecar"
      /\ SidecarUrl(v).v = v /\ ManifestUrl.what = "manifest" /\ IndexUrl.what = "index"
  BY DEF TarUrl, SidecarUrl, ManifestUrl, IndexUrl
<1>7. /\ Genuine(TarUrl(v), Body(v, t), n) /\ Genuine(SidecarUrl(v), Body(v, t), n)
      /\ Genuine(ManifestUrl, Body(v, t), n) /\ Genuine(IndexUrl, Body(0, NoTree), n)
  BY <1>2, <1>4, <1>6 DEF Genuine
<1>8. \A i \in 1 .. 4 : /\ o[i][1] \in Urls /\ o[i][2] \in Bodies
                        /\ Genuine(o[i][1], o[i][2], n)
                        /\ o[i][1] = ManifestUrl <=> i = 3
  <2> SUFFICES ASSUME NEW i \in 1 .. 4
               PROVE  /\ o[i][1] \in Urls /\ o[i][2] \in Bodies
                      /\ Genuine(o[i][1], o[i][2], n)
                      /\ o[i][1] = ManifestUrl <=> i = 3
    OBVIOUS
  <2> HIDE DEF o, v, t
  <2>1. i = 1 \/ i = 2 \/ i = 3 \/ i = 4
    OBVIOUS
  <2> QED BY <2>1, <1>1, <1>2, <1>3, <1>5, <1>7, UrlsAre
<1>9. \A i, j \in 1 .. 4 : i # j => o[i][1] # o[j][1]
  <2> SUFFICES ASSUME NEW i \in 1 .. 4, NEW j \in 1 .. 4, i # j PROVE o[i][1] # o[j][1]
    OBVIOUS
  <2> HIDE DEF o, v, t
  <2>1. (i = 1 \/ i = 2 \/ i = 3 \/ i = 4) /\ (j = 1 \/ j = 2 \/ j = 3 \/ j = 4)
    OBVIOUS
  <2> QED BY <2>1, <1>1, <1>5, UrlsAre
<1> QED BY <1>5, <1>8, <1>9

(***************************************************************************)
(* What the steps have in common.                                          *)
(***************************************************************************)
\* A step of the producer: the install is only disturbed.
HubMoves == /\ install' = Stirred /\ target' = target
            /\ UNCHANGED <<cache, pending, behind>>
            /\ builder.n <= builder'.n /\ builder'.n \in Nat

LEMMA StirredIs ==
  ASSUME install \in Installs
  PROVE  /\ Stirred \in Installs /\ SameInstall(Stirred, install) /\ ~Stirred.calm
         /\ Stirred.old = install.old
  BY CalmAlone DEF Stirred

\* What the install gets at a URL, and what is then kept of it.
LEMMA FetchIs ==
  ASSUME Typed, NEW u \in Urls, NEW f \in Fetches(u)
  PROVE  /\ f.got \in Bodies /\ f.entry \in Copies
         /\ f.how \in {"copy", "host", "down", "unkept"}
         /\ f.how \in {"copy", "down"} => f.got = cache[u].body /\ f.entry = cache[u]
         /\ f.how \in {"host", "unkept"} => f.got = site[u]
         /\ f.how = "host" => \/ f.entry = Copy(u, site[u])
                              \/ f.entry = cache[u] /\ f.got = Missing
         /\ f.how = "unkept" => f.entry \in {cache[u], Uncached} /\ f.got # Missing
         /\ f.how = "copy" => Hit(u)
         /\ Hit(u) => f.entry = cache[u]
         /\ f.entry.body \in {site[u], cache[u].body, Missing}
<1>1. site[u] \in Bodies /\ cache[u] \in Copies /\ cache[u].body \in Bodies
  BY DEF Typed, Copies
<1>2. KeptAs(u.what) \in Kept
  BY UrlsAre, HeaderAssumption DEF KeptAs, Kept, Kinds
<1>3. Copy(u, site[u]) \in Copies /\ Copy(u, site[u]).body = site[u]
  BY <1>1, <1>2 DEF Copy, Copies
<1>4. \/ Answered(u) = Copy(u, site[u])
      \/ Answered(u) = cache[u] /\ site[u] = Missing
  BY DEF Answered
<1>5. CASE Hit(u)
  <2>1. f = [got |-> cache[u].body, entry |-> cache[u], how |-> "copy"]
    BY <1>5 DEF Fetches
  <2> QED BY <1>1, <1>5, <2>1
<1>6. CASE ~Hit(u)
  <2>1. \/ f = [got |-> site[u], entry |-> Answered(u), how |-> "host"]
        \/ f = [got |-> cache[u].body, entry |-> cache[u], how |-> "down"]
        \/ \E e \in {cache[u], Uncached} :
             site[u] # Missing /\ f = [got |-> site[u], entry |-> e, how |-> "unkept"]
    BY <1>6 DEF Fetches
  <2>2. CASE f = [got |-> site[u], entry |-> Answered(u), how |-> "host"]
    BY <1>1, <1>3, <1>4, <1>6, <2>2
  <2>3. CASE f = [got |-> cache[u].body, entry |-> cache[u], how |-> "down"]
    BY <1>1, <1>6, <2>3
  <2>4. ASSUME NEW e \in {cache[u], Uncached}, site[u] # Missing,
               f = [got |-> site[u], entry |-> e, how |-> "unkept"]
        PROVE  /\ f.got \in Bodies /\ f.entry \in Copies /\ f.how = "unkept"
               /\ f.got = site[u] /\ f.entry \in {cache[u], Uncached} /\ f.got # Missing
               /\ f.entry.body \in {site[u], cache[u].body, Missing}
    BY <1>1, <2>4, EmptyRecords
  <2> QED BY <1>6, <2>1, <2>2, <2>3, <2>4
<1> QED BY <1>5, <1>6

(* A request of the install for u, after which it is `next`, but for its histories. *)
Outdated(f) == At("manifest") /\ f.how \in {"copy", "down"} /\ behind

Asks(u, f, next) ==
  /\ f \in Fetches(u) /\ cache' = [cache EXCEPT ![u] = f.entry]
  /\ behind' = (IF u # ManifestUrl \/ f.how \in {"copy", "down"} \/ f.got = Missing THEN behind
                ELSE f.entry # Uncached /\ f.how = "unkept")
  /\ install' = [next EXCEPT !.calm = @ /\ f.how \in {"copy", "host"}, !.old = @ \/ Outdated(f)]
  /\ faults' = (IF f.how = "unkept" THEN faults + 1 ELSE faults)
  /\ UNCHANGED <<hub, pending, target>>

Advance(step) == [install EXCEPT !.at = step]

LEMMA AdvanceIs ==
  ASSUME install \in Installs, NEW step \in {"idle"} \union Asking \union Versed
  PROVE  /\ Advance(step) \in Installs /\ Advance(step).at = step
         /\ Advance(step).want = install.want /\ Advance(step).version = install.version
         /\ Advance(step).sum = install.sum /\ Advance(step).tree = install.tree
         /\ Advance(step).todo = install.todo /\ Advance(step).calm = install.calm
         /\ Advance(step).result = install.result /\ Advance(step).old = install.old
  BY DEF Advance, Installs

LEMMA AskingIs ==
  ASSUME Typed, NEW u \in Urls, NEW f, NEW next \in Installs, Asks(u, f, next)
  PROVE  /\ install' \in Installs /\ SameInstall(install', next)
         /\ install'.calm = (next.calm /\ f.how \in {"copy", "host"})
         /\ install'.old = (next.old \/ Outdated(f))
         /\ cache' \in [Urls -> Copies] /\ cache'[u] = f.entry
         /\ \A x \in Urls : x # u => cache'[x] = cache[x]
         /\ behind' \in BOOLEAN /\ faults' \in Nat
<1>1. f.entry \in Copies
  BY FetchIs DEF Asks
<1>2. next.calm \in BOOLEAN /\ next.old \in BOOLEAN /\ behind \in BOOLEAN
  BY DEF Installs, Typed
<1> DEFINE calm == next.calm /\ f.how \in {"copy", "host"}
           old  == next.old \/ Outdated(f)
<1>3. install' = [next EXCEPT !.calm = calm, !.old = old]
  BY DEF Asks
<1>4. calm \in BOOLEAN /\ old \in BOOLEAN
  BY <1>2
<1> HIDE DEF calm, old
<1>5. install' \in Installs /\ SameInstall(install', next) /\ install'.calm = calm /\ install'.old = old
  BY <1>3, <1>4, HistoriesAlone
<1>6. cache' \in [Urls -> Copies] /\ cache'[u] = f.entry
      /\ \A x \in Urls : x # u => cache'[x] = cache[x]
  BY <1>1 DEF Asks, Typed
<1>7. faults' \in Nat
  BY DEF Asks, Typed
<1>8. behind' \in BOOLEAN
  BY <1>2 DEF Asks
<1> QED BY <1>5, <1>6, <1>7, <1>8 DEF calm, old

(***************************************************************************)
(* The requests of the install, each with what follows it.                 *)
(***************************************************************************)
AfterIndex(got) == IF got.is = "whole" THEN Advance("manifest") ELSE Fails

Versioned(v) == [install EXCEPT !.at = "sidecar", !.want = 0, !.version = v]
AfterManifest(got) ==
  IF got.is = "whole" /\ install.want \in {0, got.version} THEN Versioned(got.version) ELSE Fails

Summed(t) == [install EXCEPT !.at = "check", !.sum = t]
AfterSidecar(got) == IF got.is = "whole" THEN Summed(got.tree) ELSE Fails

AfterCheck(got) ==
  IF got.is = "whole" /\ got.version = install.version /\ got.tree # install.sum
  THEN Fails ELSE Advance("tar")

Verified == [install EXCEPT !.at = "write", !.tree = install.sum, !.todo = Contents(install.sum)]

LEMMA VersionedIs ==
  ASSUME install \in Installs, NEW v \in Nat
  PROVE  /\ Versioned(v) \in Installs /\ Versioned(v).at = "sidecar" /\ Versioned(v).version = v
         /\ Versioned(v).result = install.result /\ Versioned(v).calm = install.calm
         /\ Versioned(v).old = install.old
  BY DEF Versioned, Installs, Versed

LEMMA SummedIs ==
  ASSUME install \in Installs, NEW t \in FileTrees
  PROVE  /\ Summed(t) \in Installs /\ Summed(t).at = "check" /\ Summed(t).sum = t
         /\ Summed(t).version = install.version
         /\ Summed(t).result = install.result /\ Summed(t).calm = install.calm
         /\ Summed(t).old = install.old
  BY DEF Summed, Installs, Versed, Hashed

LEMMA VerifiedIs ==
  ASSUME install \in Installs
  PROVE  /\ Verified \in Installs /\ Verified.at = "write" /\ Verified.sum = install.sum
         /\ Verified.tree = install.sum /\ Verified.version = install.version
         /\ Verified.todo = {f \in Files : Present(install.sum, f)}
         /\ Verified.result = install.result /\ Verified.calm = install.calm
         /\ Verified.old = install.old
<1>1. Contents(install.sum) \in SUBSET Files
  BY DEF Contents
<1>2. install.sum \in FileTrees
  BY DEF Installs
<1> QED BY <1>1, <1>2 DEF Verified, Installs, Versed, Hashed, Placing, Contents

LEMMA ReadIndexIs ==
  ASSUME ReadIndex
  PROVE  \E f : Asks(IndexUrl, f, AfterIndex(f.got))
  BY DEF ReadIndex, Request, Asks, Outdated, AfterIndex, Advance

LEMMA ReadManifestIs ==
  ASSUME ReadManifest
  PROVE  \E f : Asks(ManifestUrl, f, AfterManifest(f.got))
  BY DEF ReadManifest, Request, Asks, Outdated, AfterManifest, Versioned

LEMMA ReadSidecarIs ==
  ASSUME ReadSidecar
  PROVE  \E f : Asks(SidecarUrl(install.version), f, AfterSidecar(f.got))
  BY DEF ReadSidecar, Request, Asks, Outdated, AfterSidecar, Summed

LEMMA CrossCheckIs ==
  ASSUME CrossCheck
  PROVE  \E f : Asks(ManifestUrl, f, AfterCheck(f.got))
  BY DEF CrossCheck, Request, Asks, Outdated, AfterCheck, Advance

LEMMA ReadTarIs ==
  ASSUME ReadTar
  PROVE  \E f : Asks(TarUrl(install.version), f, Accept(f.got))
  BY DEF ReadTar, Request, Asks, Outdated

(***************************************************************************)
(* The producer keeps what an install relies on.                           *)
(***************************************************************************)
Produces == Merge \/ BuildStep \/ BuildStops

\* The site changes at one output of the build, which is torn, or as the build has it.
SiteMoves ==
  \/ site' = site
  \/ \E i \in 1 .. 4, b \in Bodies :
       /\ builder.n \in Commits /\ builder'.n = builder.n
       /\ builder.at = i /\ (b = TornBody \/ b = Outputs(builder.n)[i][2])
       /\ site' = [site EXCEPT ![Outputs(builder.n)[i][1]] = b]

LEMMA AtWorkOnCommit ==
  ASSUME Typed, BuildOrder, builder.at # 0
  PROVE  builder.n \in Commits /\ builder.at \in 1 .. 4 /\ builder.at \in Nat
<1>1. builder.at \in 0 .. 4 /\ builder.n \in 0 .. Len(Releases) /\ built \in 0 .. Len(Releases)
  BY DEF Typed
<1>2. built < builder.n
  BY DEF BuildOrder
<1> QED BY <1>1, <1>2, ReleasesAre DEF Commits

LEMMA MergeMoves ==
  ASSUME Typed, BuildOrder, Merge
  PROVE  Typed' /\ BuildOrder' /\ HubMoves /\ SiteMoves
<1>1. Stirred \in Installs
  BY StirredIs DEF Typed
<1>2. tip \in Nat /\ tip' \in Commits /\ tip <= tip'
  BY ReleasesAre DEF Typed, Merge, Commits
<1>3. builder.n \in Nat /\ built \in Nat
  BY ReleasesAre DEF Typed
<1>4. Typed'
  BY <1>1, <1>2 DEF Typed, Merge, shared
<1>5. BuildOrder'
  BY <1>2, <1>3 DEF BuildOrder, Merge
<1> QED BY <1>3, <1>4, <1>5 DEF Merge, HubMoves, shared, SiteMoves

LEMMA BuildMoves ==
  ASSUME Typed, BuildOrder, Build
  PROVE  Typed' /\ BuildOrder' /\ HubMoves /\ SiteMoves
<1>1. Stirred \in Installs
  BY StirredIs DEF Typed
<1>2. /\ tip \in Nat /\ tip \in 0 .. Len(Releases) /\ builder.n \in Nat /\ built \in Nat
      /\ builder.n <= tip
  BY ReleasesAre DEF Typed, Commits, BuildOrder
<1>3. builder' \in [at : 0 .. 4, n : 0 .. Len(Releases), half : BOOLEAN]
      /\ builder'.n = tip /\ builder'.at = 1
  BY <1>2 DEF Build
<1>4. Typed'
  BY <1>1, <1>3 DEF Typed, Build, shared
<1>5. BuildOrder'
  BY <1>2, <1>3 DEF BuildOrder, Build
<1> QED BY <1>2, <1>3, <1>4, <1>5 DEF Build, HubMoves, shared, SiteMoves

LEMMA TruncateMoves ==
  ASSUME Typed, BuildOrder, Truncate
  PROVE  Typed' /\ BuildOrder' /\ HubMoves /\ SiteMoves
<1>1. Stirred \in Installs
  BY StirredIs DEF Typed
<1>2. builder.n \in Commits /\ builder.at \in 1 .. 4
  BY AtWorkOnCommit DEF Truncate
<1>3. builder.n \in Nat
  BY <1>2, ReleasesAre
<1>4. builder' \in [at : 0 .. 4, n : 0 .. Len(Releases), half : BOOLEAN]
      /\ builder'.n = builder.n /\ builder'.at = builder.at
  BY DEF Truncate, Typed
<1>5. TornBody \in Bodies /\ Outputs(builder.n)[builder.at][1] \in Urls
  BY <1>2, OutputsAre, EmptyRecords
<1>6. site' = [site EXCEPT ![Outputs(builder.n)[builder.at][1]] = TornBody]
  BY DEF Truncate
<1>7. site' \in [Urls -> Bodies]
  BY <1>5, <1>6 DEF Typed
<1>8. Typed'
  BY <1>1, <1>4, <1>7 DEF Typed, Truncate, shared
<1>9. BuildOrder'
  BY <1>4 DEF BuildOrder, Truncate
<1>10. SiteMoves
  BY <1>2, <1>4, <1>5, <1>6 DEF SiteMoves
<1> QED BY <1>3, <1>4, <1>8, <1>9, <1>10 DEF Truncate, HubMoves, shared

LEMMA WriteMoves ==
  ASSUME Typed, BuildOrder, Write
  PROVE  Typed' /\ BuildOrder' /\ HubMoves /\ SiteMoves
<1>1. Stirred \in Installs
  BY StirredIs DEF Typed
<1>2. builder.n \in Commits /\ builder.at \in 1 .. 4 /\ builder.at \in Nat
  BY AtWorkOnCommit DEF Write
<1>3. builder.n \in Nat /\ builder.n \in 0 .. Len(Releases)
  BY <1>2, ReleasesAre DEF Typed
<1>4. Len(Outputs(builder.n)) = 4
  BY <1>2, OutputsAre
<1>5. /\ Outputs(builder.n)[builder.at][2] \in Bodies
      /\ Outputs(builder.n)[builder.at][1] \in Urls
  BY <1>2, OutputsAre
<1>6. site' = [site EXCEPT ![Outputs(builder.n)[builder.at][1]] = Outputs(builder.n)[builder.at][2]]
  BY DEF Write
<1>7. site' \in [Urls -> Bodies]
  BY <1>5, <1>6 DEF Typed
<1>8. CASE builder.at < 4
  <2>1. builder' = [builder EXCEPT !.at = builder.at + 1, !.half = FALSE] /\ built' = built
    BY <1>4, <1>8 DEF Write
  <2>2. builder.at + 1 \in 0 .. 4
    BY <1>2, <1>8
  <2>3. builder' \in [at : 0 .. 4, n : 0 .. Len(Releases), half : BOOLEAN]
        /\ builder'.n = builder.n
    BY <2>1, <2>2 DEF Typed
  <2>4. Typed'
    BY <1>1, <1>7, <2>1, <2>3 DEF Typed, Write, shared
  <2>5. BuildOrder'
    BY <2>1, <2>3 DEF BuildOrder, Write
  <2>6. SiteMoves
    BY <1>2, <1>5, <1>6, <2>3 DEF SiteMoves
  <2> QED BY <1>3, <2>3, <2>4, <2>5, <2>6 DEF Write, HubMoves, shared
<1>9. CASE ~(builder.at < 4)
  <2>1. builder' = [builder EXCEPT !.at = 0, !.half = FALSE] /\ built' = builder.n
    BY <1>4, <1>9 DEF Write
  <2>2. builder' \in [at : 0 .. 4, n : 0 .. Len(Releases), half : BOOLEAN]
        /\ builder'.n = builder.n /\ builder'.at = 0
    <3>1. 0 \in 0 .. 4
      OBVIOUS
    <3> QED BY <2>1, <3>1 DEF Typed
  <2>3. Typed'
    BY <1>1, <1>3, <1>7, <2>1, <2>2 DEF Typed, Write, shared
  <2>4. BuildOrder'
    BY <1>3, <2>1, <2>2 DEF BuildOrder, Write
  <2>5. SiteMoves
    BY <1>2, <1>5, <1>6, <2>2 DEF SiteMoves
  <2> QED BY <1>3, <2>2, <2>3, <2>4, <2>5 DEF Write, HubMoves, shared
<1> QED BY <1>8, <1>9

LEMMA BuildStopsMoves ==
  ASSUME Typed, BuildOrder, BuildStops
  PROVE  Typed' /\ BuildOrder' /\ HubMoves /\ SiteMoves
<1>1. Stirred \in Installs
  BY StirredIs DEF Typed
<1>2. builder.n \in Nat
  BY ReleasesAre DEF Typed
<1>3. builder' \in [at : 0 .. 4, n : 0 .. Len(Releases), half : BOOLEAN]
      /\ builder'.n = builder.n /\ builder'.at = 0
  <2>1. 0 \in 0 .. 4
    OBVIOUS
  <2> QED BY <2>1 DEF BuildStops, Typed
<1>4. faults' \in Nat
  BY DEF BuildStops, Typed
<1>5. Typed'
  BY <1>1, <1>3, <1>4 DEF Typed, BuildStops, shared
<1>6. BuildOrder'
  BY <1>3 DEF BuildOrder, BuildStops
<1> QED BY <1>2, <1>3, <1>5, <1>6 DEF BuildStops, HubMoves, shared, SiteMoves

LEMMA ProducerMoves ==
  ASSUME Typed, BuildOrder, Produces
  PROVE  Typed' /\ BuildOrder' /\ HubMoves /\ SiteMoves
  BY MergeMoves, BuildMoves, TruncateMoves, WriteMoves, BuildStopsMoves DEF Produces, BuildStep

LEMMA GenuineRemains ==
  ASSUME NEW n \in Nat, NEW m \in Nat, n <= m, NEW u, NEW b, Genuine(u, b, n)
  PROVE  Genuine(u, b, m)
  BY ReleasesRemain DEF Genuine

LEMMA ProducerKeepsGenuine ==
  ASSUME GenuineInv, Produces
  PROVE  GenuineInv'
<1>1. Typed' /\ BuildOrder' /\ HubMoves /\ SiteMoves
  BY ProducerMoves DEF GenuineInv
<1>2. builder.n \in Nat /\ builder'.n \in Nat /\ builder.n <= builder'.n
  BY <1>1, ReleasesAre DEF HubMoves, GenuineInv, Typed
<1>3. /\ \A u \in Urls : Genuine(u, cache'[u].body, builder'.n)
      /\ \A o \in pending' : Genuine(o.url, o.body, builder'.n)
  BY <1>1, <1>2, GenuineRemains DEF HubMoves, GenuineInv, BodiesGenuine
<1>4. \A u \in Urls : Genuine(u, site'[u], builder'.n)
  <2>1. CASE site' = site
    BY <1>2, <2>1, GenuineRemains DEF GenuineInv, BodiesGenuine
  <2>2. ASSUME NEW i \in 1 .. 4, NEW b \in Bodies,
               builder.n \in Commits, builder'.n = builder.n,
               b = TornBody \/ b = Outputs(builder.n)[i][2],
               site' = [site EXCEPT ![Outputs(builder.n)[i][1]] = b]
        PROVE  \A u \in Urls : Genuine(u, site'[u], builder'.n)
    <3>1. Outputs(builder.n)[i][1] \in Urls
          /\ Genuine(Outputs(builder.n)[i][1], Outputs(builder.n)[i][2], builder.n)
      BY <2>2, OutputsAre
    <3>2. Genuine(Outputs(builder.n)[i][1], TornBody, builder.n)
      BY EmptyRecords DEF Genuine
    <3> QED BY <2>2, <3>1, <3>2 DEF GenuineInv, BodiesGenuine, Typed
  <2> QED BY <1>1, <2>1, <2>2 DEF SiteMoves
<1>5. SameInstall(install', install) /\ target' = target
  BY <1>1, StirredIs DEF HubMoves, GenuineInv, Typed
<1>6. Knows(builder'.n, install', target')
  BY <1>2, <1>5, ReleasesRemain DEF GenuineInv, Knows, SameInstall
<1>7. install'.result = "done" => Delivered(builder'.n, target')
  BY <1>2, <1>5, ReleasesRemain DEF GenuineInv, Delivered, SameInstall
<1> QED BY <1>1, <1>3, <1>4, <1>6, <1>7 DEF GenuineInv, BodiesGenuine

(***************************************************************************)
(* The client keeps it too.                                                *)
(***************************************************************************)
\* A request keeps it, when what follows belongs together.
LEMMA AskKeepsGenuine ==
  ASSUME GenuineInv, NEW u \in Urls, NEW f, NEW next \in Installs, Asks(u, f, next),
         Knows(builder.n, next, target), next.result # "done"
  PROVE  GenuineInv'
<1>1. Typed
  BY DEF GenuineInv
<1>2. /\ install' \in Installs /\ SameInstall(install', next)
      /\ cache' \in [Urls -> Copies] /\ cache'[u] = f.entry
      /\ \A x \in Urls : x # u => cache'[x] = cache[x]
      /\ behind' \in BOOLEAN /\ faults' \in Nat
  BY <1>1, AskingIs
<1>3. UNCHANGED <<tip, builder, built, site, pending, target>>
  BY DEF Asks, hub
<1>4. Typed'
  BY <1>1, <1>2, <1>3 DEF Typed
<1>5. f.entry.body \in {site[u], cache[u].body, Missing}
  BY <1>1, FetchIs DEF Asks
<1>6. BodiesGenuine'
  <2>1. Genuine(u, Missing, builder.n)
    BY EmptyRecords DEF Genuine
  <2> QED BY <1>2, <1>3, <1>5, <2>1 DEF GenuineInv, BodiesGenuine
<1>7. Knows(builder'.n, install', target')
  BY <1>2, <1>3 DEF Knows, SameInstall
<1>8. install'.result # "done"
  BY <1>2 DEF SameInstall
<1> QED BY <1>3, <1>4, <1>6, <1>7, <1>8 DEF GenuineInv, BuildOrder

LEMMA FailsKnows ==
  ASSUME install \in Installs, NEW n, NEW tgt
  PROVE  Knows(n, Fails, tgt)
  BY FailsIs DEF Knows, Versed, Hashed, Placing

LEMMA InstallIs ==
  ASSUME GenuineInv
  PROVE  /\ install \in Installs /\ Knows(builder.n, install, target)
         /\ install.at # "idle" => install.result # "done"
  BY DEF GenuineInv, Typed, Knows

LEMMA ReadIndexKeepsGenuine ==
  ASSUME GenuineInv, ReadIndex
  PROVE  GenuineInv'
<1>1. PICK f : Asks(IndexUrl, f, AfterIndex(f.got))
  BY ReadIndexIs
<1>2. install \in Installs /\ install.result # "done"
  BY InstallIs DEF ReadIndex, At
<1>3. Fails \in Installs /\ Fails.result # "done" /\ Knows(builder.n, Fails, target)
  BY <1>2, FailsIs, FailsKnows
<1>4. Advance("manifest") \in Installs /\ Advance("manifest").result # "done"
      /\ Knows(builder.n, Advance("manifest"), target)
  <2>1. Advance("manifest") \in Installs /\ Advance("manifest").at = "manifest"
        /\ Advance("manifest").result = install.result
    BY <1>2, AdvanceIs DEF Asking
  <2> QED BY <1>2, <2>1 DEF Knows, Versed, Hashed, Placing
<1>5. AfterIndex(f.got) \in Installs /\ AfterIndex(f.got).result # "done"
      /\ Knows(builder.n, AfterIndex(f.got), target)
  BY <1>3, <1>4 DEF AfterIndex
<1> QED BY <1>1, <1>5, UrlsAre, AskKeepsGenuine

\* A genuine body: a request may get it.
LEMMA GotIsGenuine ==
  ASSUME GenuineInv, NEW u \in Urls, NEW f \in Fetches(u)
  PROVE  f.got \in Bodies /\ Genuine(u, f.got, builder.n)
<1>1. Typed
  BY DEF GenuineInv
<1>2. f.got \in Bodies /\ f.got \in {site[u], cache[u].body}
  BY <1>1, FetchIs
<1> QED BY <1>2 DEF GenuineInv, BodiesGenuine

LEMMA ReleaseIs ==
  ASSUME Typed, NEW v, NEW t, IsRelease(builder.n, v, t)
  PROVE  v \in Versions /\ v \in Nat /\ t \in FileTrees
<1>1. PICK k \in 1 .. builder.n : Releases[k].version = v /\ Releases[k].tree = t
  BY DEF IsRelease
<1>2. k \in Commits
  BY <1>1, ReleasesAre DEF Typed, Commits
<1> QED BY <1>1, <1>2, ReleasesAre

LEMMA ReadManifestKeepsGenuine ==
  ASSUME GenuineInv, ReadManifest
  PROVE  GenuineInv'
<1>1. PICK f : Asks(ManifestUrl, f, AfterManifest(f.got))
  BY ReadManifestIs
<1>2. install \in Installs /\ install.result # "done" /\ Typed
  BY InstallIs DEF ReadManifest, At, GenuineInv
<1>3. Fails \in Installs /\ Fails.result # "done" /\ Knows(builder.n, Fails, target)
  BY <1>2, FailsIs, FailsKnows
<1>4. f.got \in Bodies /\ Genuine(ManifestUrl, f.got, builder.n)
  BY <1>1, UrlsAre, GotIsGenuine DEF Asks
<1>5. CASE f.got.is = "whole"
  <2>1. IsRelease(builder.n, f.got.version, f.got.tree)
    BY <1>4, <1>5 DEF Genuine, ManifestUrl
  <2>2. f.got.version \in Versions /\ f.got.version \in Nat
    BY <1>2, <2>1, ReleaseIs
  <2> DEFINE next == Versioned(f.got.version)
  <2>3. next \in Installs /\ next.at = "sidecar" /\ next.version \in Versions
        /\ next.result # "done"
    BY <1>2, <2>2, VersionedIs
  <2>4. Knows(builder.n, next, target)
    <3> HIDE DEF next
    <3> QED BY <2>3 DEF Knows, Versed, Hashed, Placing
  <2>5. AfterManifest(f.got) \in {next, Fails}
    BY DEF AfterManifest
  <2> HIDE DEF next
  <2> QED BY <1>1, <1>3, <2>3, <2>4, <2>5, UrlsAre, AskKeepsGenuine
<1>6. CASE f.got.is # "whole"
  <2>1. AfterManifest(f.got) = Fails
    BY <1>6 DEF AfterManifest
  <2> QED BY <1>1, <1>3, <2>1, UrlsAre, AskKeepsGenuine
<1> QED BY <1>5, <1>6

LEMMA ReadSidecarKeepsGenuine ==
  ASSUME GenuineInv, ReadSidecar
  PROVE  GenuineInv'
<1> DEFINE u == SidecarUrl(install.version)
<1>1. PICK f : Asks(u, f, AfterSidecar(f.got))
  BY ReadSidecarIs
<1>2. install \in Installs /\ install.result # "done" /\ Typed /\ install.version \in Versions
  BY InstallIs DEF ReadSidecar, At, GenuineInv, Knows, Versed
<1>3. Fails \in Installs /\ Fails.result # "done" /\ Knows(builder.n, Fails, target)
  BY <1>2, FailsIs, FailsKnows
<1>4. u \in Urls /\ u.what = "sidecar" /\ u.v = install.version
  BY <1>2, UrlsAre DEF SidecarUrl
<1>5. f.got \in Bodies /\ Genuine(u, f.got, builder.n)
  BY <1>1, <1>4, GotIsGenuine DEF Asks
<1>6. CASE f.got.is = "whole"
  <2>1. IsRelease(builder.n, install.version, f.got.tree)
    BY <1>4, <1>5, <1>6 DEF Genuine
  <2>2. f.got.tree \in FileTrees
    BY <1>5 DEF Bodies
  <2> DEFINE next == Summed(f.got.tree)
  <2>3. next \in Installs /\ next.at = "check" /\ next.version = install.version
        /\ next.sum = f.got.tree /\ next.result # "done"
    BY <1>2, <2>2, SummedIs
  <2>4. Knows(builder.n, next, target)
    <3> HIDE DEF next
    <3> QED BY <1>2, <2>1, <2>3 DEF Knows, Versed, Hashed, Placing
  <2>5. AfterSidecar(f.got) = next
    BY <1>6 DEF AfterSidecar
  <2> HIDE DEF next
  <2> QED BY <1>1, <1>4, <2>3, <2>4, <2>5, AskKeepsGenuine
<1>7. CASE f.got.is # "whole"
  <2>1. AfterSidecar(f.got) = Fails
    BY <1>7 DEF AfterSidecar
  <2> QED BY <1>1, <1>3, <1>4, <2>1, AskKeepsGenuine
<1> QED BY <1>6, <1>7

LEMMA CrossCheckKeepsGenuine ==
  ASSUME GenuineInv, CrossCheck
  PROVE  GenuineInv'
<1>1. PICK f : Asks(ManifestUrl, f, AfterCheck(f.got))
  BY CrossCheckIs
<1>2. install \in Installs /\ install.result # "done" /\ install.version \in Versions
      /\ IsRelease(builder.n, install.version, install.sum)
  BY InstallIs DEF CrossCheck, At, Knows, Versed, Hashed
<1>3. Fails \in Installs /\ Fails.result # "done" /\ Knows(builder.n, Fails, target)
  BY <1>2, FailsIs, FailsKnows
<1> DEFINE next == Advance("tar")
<1>4. next \in Installs /\ next.at = "tar" /\ next.version = install.version
      /\ next.sum = install.sum /\ next.result = install.result
  BY <1>2, AdvanceIs DEF Versed, Hashed
<1>5. AfterCheck(f.got) \in {next, Fails}
  BY DEF AfterCheck
<1> HIDE DEF next
<1>6. Knows(builder.n, next, target)
  BY <1>2, <1>4 DEF Knows, Versed, Hashed, Placing
<1> QED BY <1>1, <1>2, <1>3, <1>4, <1>5, <1>6, UrlsAre, AskKeepsGenuine

LEMMA ReadTarKeepsGenuine ==
  ASSUME GenuineInv, ReadTar
  PROVE  GenuineInv'
<1> DEFINE u == TarUrl(install.version)
<1>1. PICK f : Asks(u, f, Accept(f.got))
  BY ReadTarIs
<1>2. install \in Installs /\ install.result # "done" /\ install.version \in Versions
      /\ IsRelease(builder.n, install.version, install.sum)
  BY InstallIs DEF ReadTar, At, Knows, Versed, Hashed
<1>3. Fails \in Installs /\ Fails.result # "done" /\ Knows(builder.n, Fails, target)
  BY <1>2, FailsIs, FailsKnows
<1>4. /\ Verified \in Installs /\ Verified.at = "write" /\ Verified.sum = install.sum
      /\ Verified.tree = install.sum /\ Verified.version = install.version
      /\ Verified.todo = {g \in Files : Present(install.sum, g)}
      /\ Verified.result = install.result
  BY <1>2, VerifiedIs
<1>5. Placed(target.files, Verified.sum, Verified.todo)
  BY <1>4 DEF Placed
<1>6. Knows(builder.n, Verified, target)
  BY <1>2, <1>4, <1>5 DEF Knows, Versed, Hashed, Placing
<1>7. Accept(f.got) \in {Verified, Fails}
  BY DEF Accept, Verified
<1>8. u \in Urls
  BY <1>2, UrlsAre
<1> QED BY <1>1, <1>2, <1>3, <1>4, <1>6, <1>7, <1>8, AskKeepsGenuine

\* Steps that change neither hub nor cache, and at most count a fault.
LEMMA LocalKeepsGenuine ==
  ASSUME GenuineInv, UNCHANGED <<hub, shared>>, faults' \in Nat,
         install' \in Installs, target' \in Targets,
         Knows(builder.n, install', target'),
         install'.result = "done" => Delivered(builder.n, target')
  PROVE  GenuineInv'
<1>1. UNCHANGED <<tip, builder, built, site, cache, pending, behind>>
  BY DEF hub, shared
<1>2. Typed'
  BY <1>1 DEF GenuineInv, Typed
<1> QED BY <1>1, <1>2 DEF GenuineInv, BuildOrder, BodiesGenuine

LEMMA StartKeepsGenuine ==
  ASSUME GenuineInv, NEW want \in Versions \union {0}, NEW kindGiven \in BOOLEAN,
         Start(want, kindGiven)
  PROVE  GenuineInv'
<1> DEFINE at == IF kindGiven THEN "manifest" ELSE "index"
           calm == Quiet /\ Aged /\ want \in {0, Releases[tip].version}
<1>1. install' = [Resting EXCEPT !.at = at, !.want = want, !.calm = calm]
  BY DEF Start
<1>2. want \in Nat /\ at \in {"manifest", "index"} /\ calm \in BOOLEAN
  BY ReleasesAre
<1> HIDE DEF at, calm
<1>3. install' \in Installs /\ install'.at \in {"manifest", "index"} /\ install'.result = "none"
  BY <1>1, <1>2, EmptyRecords DEF Installs, Asking
<1>4. Knows(builder.n, install', target)
  BY <1>3 DEF Knows, Versed, Hashed, Placing
<1>5. UNCHANGED <<hub, shared, target, faults>> /\ faults \in Nat /\ target \in Targets
  BY DEF Start, GenuineInv, Typed
<1> QED BY <1>3, <1>4, <1>5, LocalKeepsGenuine

LEMMA WriteFileKeepsGenuine ==
  ASSUME GenuineInv, WriteFile
  PROVE  GenuineInv'
<1>1. install \in Installs /\ install.at = "write" /\ install.result # "done"
      /\ Knows(builder.n, install, target) /\ Placed(target.files, install.sum, install.todo)
      /\ install.tree = install.sum
  BY InstallIs DEF WriteFile, At, Knows, Placing
<1>2. UNCHANGED <<hub, shared, faults>> /\ faults \in Nat /\ target \in Targets
  BY DEF WriteFile, GenuineInv, Typed
<1>3. CASE install.todo = {} /\ install' = Advance("sidecar file") /\ target' = target
  <2>1. install' \in Installs /\ install'.at = "sidecar file" /\ install'.version = install.version
        /\ install'.sum = install.sum /\ install'.tree = install.tree
        /\ install'.result = install.result
    BY <1>1, <1>3, AdvanceIs DEF Versed, Hashed, Placing
  <2>2. Placed(target'.files, install'.sum, {})
    BY <1>1, <1>3, <2>1
  <2>3. Knows(builder.n, install', target')
    BY <1>1, <2>1, <2>2 DEF Knows, Versed, Hashed, Placing
  <2> QED BY <1>1, <1>2, <1>3, <2>1, <2>3, LocalKeepsGenuine
<1>4. ASSUME NEW f \in install.todo,
             target' = [target EXCEPT !.files[f] = install.tree[f]],
             install' = [install EXCEPT !.todo = @ \ {f}]
      PROVE  GenuineInv'
  <2>1. f \in Files /\ install.tree[f] \in Blobs
    BY <1>1 DEF Installs, FileTrees
  <2>2. target.files \in [Files -> Blobs \union {TornFile}]
    BY <1>2 DEF Targets
  <2> DEFINE files == [target.files EXCEPT ![f] = install.tree[f]]
  <2>3. files \in [Files -> Blobs \union {TornFile}] /\ files[f] = install.tree[f]
        /\ \A g \in Files : g # f => files[g] = target.files[g]
    BY <2>1, <2>2
  <2>4. target' = [target EXCEPT !.files = files]
    BY <1>4
  <2> HIDE DEF files
  <2>5. target' \in Targets /\ target'.files = files
    BY <1>2, <2>3, <2>4 DEF Targets
  <2>6. install' \in Installs /\ install'.at = "write" /\ install'.version = install.version
        /\ install'.sum = install.sum /\ install'.tree = install.tree
        /\ install'.result = install.result /\ install'.todo = install.todo \ {f}
    BY <1>1, <1>4 DEF Installs
  <2>7. Placed(target'.files, install'.sum, install'.todo)
    BY <1>1, <2>3, <2>5, <2>6 DEF Placed
  <2>8. Knows(builder.n, install', target')
    BY <1>1, <2>6, <2>7 DEF Knows, Versed, Hashed, Placing
  <2> QED BY <1>1, <1>2, <2>5, <2>6, <2>8, LocalKeepsGenuine
<1> QED BY <1>3, <1>4 DEF WriteFile, Advance

LEMMA WriteSidecarKeepsGenuine ==
  ASSUME GenuineInv, WriteSidecar
  PROVE  GenuineInv'
<1>1. install \in Installs /\ install.at = "sidecar file" /\ install.result # "done"
      /\ Knows(builder.n, install, target) /\ Placed(target.files, install.sum, {})
      /\ install.tree = install.sum
  BY InstallIs DEF WriteSidecar, At, Knows, Placing
<1>2. UNCHANGED <<hub, shared, faults>> /\ faults \in Nat /\ target \in Targets
  BY DEF WriteSidecar, GenuineInv, Typed
<1>3. install' = Advance("marker")
  BY DEF WriteSidecar, Advance
<1>4. install' \in Installs /\ install'.at = "marker" /\ install'.version = install.version
      /\ install'.sum = install.sum /\ install'.tree = install.tree
      /\ install'.result = install.result
  BY <1>1, <1>3, AdvanceIs DEF Versed, Hashed, Placing
<1>5. install.version \in Nat /\ install.sum \in FileTrees
  BY <1>1 DEF Installs
<1>6. target' \in Targets /\ target'.files = target.files
      /\ target'.version = install.version /\ target'.hash = install.sum
  BY <1>2, <1>5 DEF WriteSidecar, Targets
<1>7. Knows(builder.n, install', target')
  BY <1>1, <1>4, <1>6 DEF Knows, Versed, Hashed, Placing
<1> QED BY <1>1, <1>2, <1>4, <1>6, <1>7, LocalKeepsGenuine

LEMMA WriteMarkerKeepsGenuine ==
  ASSUME GenuineInv, WriteMarker
  PROVE  GenuineInv'
<1>1. install \in Installs /\ install.at = "marker" /\ install.result # "done"
      /\ Knows(builder.n, install, target) /\ Placed(target.files, install.sum, {})
      /\ target.version = install.version /\ target.hash = install.sum
      /\ install.tree = install.sum
  BY InstallIs DEF WriteMarker, At, Knows, Placing
<1>2. UNCHANGED <<hub, shared, faults>> /\ faults \in Nat /\ target \in Targets
  BY DEF WriteMarker, GenuineInv, Typed
<1>3. install' = Advance("ignore")
  BY DEF WriteMarker, Advance
<1>4. install' \in Installs /\ install'.at = "ignore" /\ install'.version = install.version
      /\ install'.sum = install.sum /\ install'.tree = install.tree
      /\ install'.result = install.result
  BY <1>1, <1>3, AdvanceIs DEF Versed, Hashed, Placing
<1>5. install.sum \in FileTrees
  BY <1>1 DEF Installs
<1>6. target' \in Targets /\ target'.files = target.files /\ target'.marker = install.sum
      /\ target'.version = target.version /\ target'.hash = target.hash
  BY <1>2, <1>5 DEF WriteMarker, Targets
<1>7. Knows(builder.n, install', target')
  BY <1>1, <1>4, <1>6 DEF Knows, Versed, Hashed, Placing
<1> QED BY <1>1, <1>2, <1>4, <1>6, <1>7, LocalKeepsGenuine

LEMMA FinishKeepsGenuine ==
  ASSUME GenuineInv, Finish
  PROVE  GenuineInv'
<1>1. install \in Installs /\ install.at = "ignore"
      /\ Knows(builder.n, install, target) /\ Placed(target.files, install.sum, {})
      /\ target.version = install.version /\ target.hash = install.sum
      /\ target.marker = install.sum /\ IsRelease(builder.n, install.version, install.sum)
  BY InstallIs DEF Finish, At, Knows, Placing, Hashed
<1>2. UNCHANGED <<hub, shared, faults>> /\ faults \in Nat /\ target \in Targets
  BY DEF Finish, GenuineInv, Typed
<1>3. install' \in Installs /\ install'.at = "idle"
  BY <1>1, EndedIs DEF Finish
<1>4. Knows(builder.n, install', target')
  BY <1>3 DEF Knows, Versed, Hashed, Placing
<1>5. target' \in Targets /\ target'.files = target.files /\ target'.marker = target.marker
      /\ target'.version = target.version /\ target'.hash = target.hash
      /\ target'.ignored = TRUE
  BY <1>2 DEF Finish, Targets
<1>6. Delivered(builder.n, target')
  BY <1>1, <1>5 DEF Delivered
<1> QED BY <1>2, <1>3, <1>4, <1>5, <1>6, LocalKeepsGenuine

LEMMA ExpireKeepsGenuine ==
  ASSUME GenuineInv, NEW u \in Urls, Expire(u)
  PROVE  GenuineInv'
<1>1. /\ cache' = [cache EXCEPT ![u].kept = "stale"]
      /\ UNCHANGED <<hub, pending, behind, install, target, faults>>
  BY DEF Expire
<1>2. cache \in [Urls -> Copies] /\ cache[u] \in Copies
  BY DEF GenuineInv, Typed
<1> DEFINE old == [cache[u] EXCEPT !.kept = "stale"]
<1>3. old \in Copies /\ old.body = cache[u].body
  BY <1>2 DEF Copies, Kept
<1>4. cache' = [cache EXCEPT ![u] = old]
  BY <1>1, <1>2
<1> HIDE DEF old
<1>5. cache' \in [Urls -> Copies] /\ \A x \in Urls : cache'[x].body = cache[x].body
  BY <1>2, <1>3, <1>4
<1>6. UNCHANGED <<tip, builder, built, site, pending, behind, install, target, faults>>
  BY <1>1 DEF hub
<1>7. Typed'
  BY <1>5, <1>6 DEF GenuineInv, Typed
<1> QED BY <1>5, <1>6, <1>7 DEF GenuineInv, BuildOrder, BodiesGenuine

LEMMA AskElsewhereKeepsGenuine ==
  ASSUME GenuineInv, NEW u \in Urls, AskElsewhere(u)
  PROVE  GenuineInv'
<1>1. /\ UNCHANGED <<tip, builder, built, site, cache, behind, install, target>>
      /\ pending' = {[url |-> u, body |-> site[u]]} /\ faults' = faults + 1
  BY DEF AskElsewhere, hub
<1>2. site[u] \in Bodies
  BY DEF GenuineInv, Typed
<1>3. pending' \in SUBSET [url : Urls, body : Bodies]
  BY <1>1, <1>2
<1>4. Typed'
  BY <1>1, <1>3 DEF GenuineInv, Typed
<1>5. \A o \in pending' : Genuine(o.url, o.body, builder.n)
  BY <1>1 DEF GenuineInv, BodiesGenuine
<1> QED BY <1>1, <1>4, <1>5 DEF GenuineInv, BuildOrder, BodiesGenuine

\* What an install elsewhere got is what is then kept.
LEMMA KeepElsewhereIs ==
  ASSUME Typed, KeepElsewhere
  PROVE  \E o \in pending :
           /\ o.url \in Urls /\ o.body \in Bodies
           /\ cache' \in [Urls -> Copies] /\ cache'[o.url].body = o.body
           /\ \A x \in Urls : x # o.url => cache'[x] = cache[x]
           /\ behind' \in BOOLEAN
           /\ behind' = (IF o.url = ManifestUrl THEN o.body # site[o.url] ELSE behind)
           /\ pending' = {} /\ install' = Stirred
           /\ UNCHANGED <<tip, builder, built, site, target, faults>>
<1>1. PICK o \in pending :
        /\ cache' = [cache EXCEPT ![o.url] = Copy(o.url, o.body)]
        /\ behind' = (IF o.url = ManifestUrl THEN o.body # site[o.url] ELSE behind)
  BY DEF KeepElsewhere
<1>2. o.url \in Urls /\ o.body \in Bodies
  BY DEF Typed
<1>3. KeptAs(o.url.what) \in Kept
  BY <1>2, UrlsAre, HeaderAssumption DEF KeptAs, Kept, Kinds
<1>4. Copy(o.url, o.body) \in Copies /\ Copy(o.url, o.body).body = o.body
  BY <1>2, <1>3 DEF Copy, Copies
<1>5. /\ cache' \in [Urls -> Copies] /\ cache'[o.url].body = o.body
      /\ \A x \in Urls : x # o.url => cache'[x] = cache[x]
  BY <1>1, <1>2, <1>4 DEF Typed
<1>6. behind' \in BOOLEAN
  BY <1>1 DEF Typed
<1>7. pending' = {} /\ install' = Stirred /\ UNCHANGED <<tip, builder, built, site, target, faults>>
  BY DEF KeepElsewhere, hub
<1> QED BY <1>1, <1>2, <1>5, <1>6, <1>7

LEMMA KeepElsewhereKeepsGenuine ==
  ASSUME GenuineInv, KeepElsewhere
  PROVE  GenuineInv'
<1>1. Typed /\ install \in Installs
  BY DEF GenuineInv, Typed
<1>2. PICK o \in pending :
        /\ o.url \in Urls
        /\ cache' \in [Urls -> Copies] /\ cache'[o.url].body = o.body
        /\ \A x \in Urls : x # o.url => cache'[x] = cache[x]
        /\ behind' \in BOOLEAN /\ pending' = {} /\ install' = Stirred
        /\ UNCHANGED <<tip, builder, built, site, target, faults>>
  BY <1>1, KeepElsewhereIs
<1>3. install' \in Installs /\ SameInstall(install', install)
  BY <1>1, <1>2, StirredIs
<1>4. Typed'
  BY <1>1, <1>2, <1>3 DEF Typed
<1>5. BodiesGenuine'
  BY <1>2 DEF GenuineInv, BodiesGenuine
<1>6. Knows(builder'.n, install', target')
  BY <1>2, <1>3 DEF GenuineInv, Knows, SameInstall
<1>7. install'.result = "done" => Delivered(builder'.n, target')
  BY <1>2, <1>3 DEF GenuineInv, Delivered, SameInstall
<1> QED BY <1>2, <1>4, <1>5, <1>6, <1>7 DEF GenuineInv, BuildOrder

\* An install that stops leaves a file cut short, or forgets a copy.
StopLeaves ==
  /\ faults' = faults + 1 /\ install' = [Fails EXCEPT !.calm = FALSE]
  /\ \/ cache' = cache
     \/ \E u \in Urls : cache' = [cache EXCEPT ![u] = Uncached]
  /\ \/ target' = target
     \/ \E f \in Files : target' = [target EXCEPT !.files[f] = TornFile]
  /\ UNCHANGED <<hub, pending, behind>>

LEMMA StopsLeaves ==
  ASSUME install \in Installs, Stops
  PROVE  StopLeaves
<1>1. install.todo \subseteq Files
  BY DEF Installs
<1> QED BY <1>1 DEF Stops, StopLeaves, shared

LEMMA StopsIs ==
  ASSUME GenuineInv, Stops
  PROVE  /\ install' \in Installs /\ install'.at = "idle" /\ install'.result = "failed"
         /\ ~install'.calm
         /\ target' \in Targets /\ target'.version = target.version
         /\ cache' \in [Urls -> Copies]
         /\ \A u \in Urls : cache'[u] \in {cache[u], Uncached}
         /\ UNCHANGED <<tip, builder, built, site, pending, behind>> /\ faults' \in Nat
<1>1. install \in Installs /\ target \in Targets /\ cache \in [Urls -> Copies] /\ faults \in Nat
  BY DEF GenuineInv, Typed
<1>2. StopLeaves
  BY <1>1, StopsLeaves
<1>3. install' \in Installs /\ install'.at = "idle" /\ install'.result = "failed" /\ ~install'.calm
  <2>1. Fails \in Installs /\ Fails.at = "idle" /\ Fails.result = "failed"
    BY <1>1, FailsIs
  <2> QED BY <1>2, <2>1, CalmAlone DEF StopLeaves, SameInstall
<1>4. target' \in Targets /\ target'.version = target.version
  <2>1. ASSUME NEW f \in Files, target' = [target EXCEPT !.files[f] = TornFile]
        PROVE  target' \in Targets /\ target'.version = target.version
    <3>1. [target.files EXCEPT ![f] = TornFile] \in [Files -> Blobs \union {TornFile}]
      BY <1>1 DEF Targets
    <3> QED BY <1>1, <2>1, <3>1 DEF Targets
  <2> QED BY <1>1, <1>2, <2>1 DEF StopLeaves
<1>5. cache' \in [Urls -> Copies] /\ \A u \in Urls : cache'[u] \in {cache[u], Uncached}
  BY <1>1, <1>2, EmptyRecords DEF StopLeaves
<1>6. UNCHANGED <<tip, builder, built, site, pending, behind>> /\ faults' \in Nat
  BY <1>1, <1>2 DEF StopLeaves, hub
<1> QED BY <1>3, <1>4, <1>5, <1>6

LEMMA StopsKeepsGenuine ==
  ASSUME GenuineInv, Stops
  PROVE  GenuineInv'
<1>1. /\ install' \in Installs /\ install'.at = "idle" /\ install'.result = "failed"
      /\ target' \in Targets
      /\ cache' \in [Urls -> Copies]
      /\ \A u \in Urls : cache'[u] \in {cache[u], Uncached}
      /\ UNCHANGED <<tip, builder, built, site, pending, behind>> /\ faults' \in Nat
  BY StopsIs
<1>2. Typed'
  BY <1>1 DEF GenuineInv, Typed
<1>3. \A u \in Urls : Genuine(u, Uncached.body, builder.n)
  BY EmptyRecords DEF Genuine
<1>4. BodiesGenuine'
  BY <1>1, <1>3 DEF GenuineInv, BodiesGenuine
<1>5. Knows(builder'.n, install', target')
  BY <1>1 DEF Knows, Versed, Hashed, Placing
<1> QED BY <1>1, <1>2, <1>4, <1>5 DEF GenuineInv, BuildOrder

LEMMA GenuineInit == Init => GenuineInv
<1> SUFFICES ASSUME Init PROVE GenuineInv
  OBVIOUS
<1>1. builder = [at |-> 0, n |-> 0, half |-> FALSE] /\ tip = 1 /\ built = 0 /\ faults = 0
  BY DEF Init
<1>2. site \in [Urls -> Bodies] /\ \A u \in Urls : site[u] = Missing
  BY EmptyRecords DEF Init
<1>3. cache \in [Urls -> Copies] /\ \A u \in Urls : cache[u].body = Missing
  BY EmptyRecords DEF Init
<1>4. /\ install \in Installs /\ install.at = "idle" /\ install.result = "none" /\ target \in Targets
      /\ pending = {} /\ behind = FALSE
  BY EmptyRecords DEF Init
<1>5. Len(Releases) \in Nat /\ tip \in Commits
  BY <1>1, ReleasesAre DEF Commits
<1>6. 0 \in 0 .. Len(Releases) /\ 0 \in 0 .. 4
  BY <1>5
<1>7. Typed
  BY <1>1, <1>2, <1>3, <1>4, <1>5, <1>6 DEF Typed
<1>8. BodiesGenuine
  BY <1>2, <1>3, <1>4, EmptyRecords DEF BodiesGenuine, Genuine
<1>9. Knows(builder.n, install, target)
  BY <1>4 DEF Knows, Versed, Hashed, Placing
<1> QED BY <1>1, <1>4, <1>7, <1>8, <1>9 DEF GenuineInv, BuildOrder

LEMMA StutterKeepsGenuine ==
  ASSUME GenuineInv, UNCHANGED vars
  PROVE  GenuineInv'
  BY DEF GenuineInv, Typed, BuildOrder, BodiesGenuine, vars, hub, client, shared

LEMMA NextKeepsGenuine ==
  ASSUME GenuineInv, [Next]_vars
  PROVE  GenuineInv'
<1>1. CASE Merge \/ BuildStep \/ BuildStops
  BY <1>1, ProducerKeepsGenuine DEF Produces
<1>2. CASE (\E u \in Urls : Expire(u) \/ AskElsewhere(u)) \/ KeepElsewhere
  BY <1>2, ExpireKeepsGenuine, AskElsewhereKeepsGenuine, KeepElsewhereKeepsGenuine
<1>3. CASE \E want \in Versions \union {0}, kindGiven \in BOOLEAN : Start(want, kindGiven)
  BY <1>3, StartKeepsGenuine
<1>4. CASE InstallStep
  BY <1>4, ReadIndexKeepsGenuine, ReadManifestKeepsGenuine, ReadSidecarKeepsGenuine,
     CrossCheckKeepsGenuine, ReadTarKeepsGenuine, WriteFileKeepsGenuine,
     WriteSidecarKeepsGenuine, WriteMarkerKeepsGenuine, FinishKeepsGenuine
     DEF InstallStep
<1>5. CASE Stops
  BY <1>5, StopsKeepsGenuine
<1>6. CASE UNCHANGED vars
  BY <1>6, StutterKeepsGenuine
<1> QED BY <1>1, <1>2, <1>3, <1>4, <1>5, <1>6 DEF Next

(* An install that reports success has put down one tree that the hub released under
   the version it reports, and provenance and marker carry its hash, whatever the
   producer rewrites, the cache holds or stops in between (install.go, runInstall;
   http.go, FetchBundleByKind). *)
THEOREM InstallsAreReleased == Spec => []InstalledIsReleased
<1>1. GenuineInv => InstalledIsReleased
  <2> SUFFICES ASSUME GenuineInv, install.result = "done" PROVE InstalledIsReleased
    BY DEF InstalledIsReleased
  <2>1. Delivered(builder.n, target)
    BY DEF GenuineInv
  <2>2. PICK k \in 1 .. builder.n :
          Releases[k].version = target.version /\ Releases[k].tree = target.hash
    BY <2>1 DEF Delivered, IsRelease
  <2>3. k \in 1 .. tip /\ k \in Commits
    <3>1. builder.n \in Nat /\ tip \in Nat /\ builder.n <= tip /\ builder.n <= Len(Releases)
      BY ReleasesAre DEF GenuineInv, Typed, BuildOrder, Commits
    <3> QED BY <3>1, ReleasesAre DEF Commits
  <2>4. Releases[k] = [version |-> target.version, tree |-> target.hash]
    BY <2>2, <2>3, ReleasesAre
  <2>5. \A f \in Files : Present(target.hash, f) => target.files[f] = target.hash[f]
    BY <2>1 DEF Delivered, Placed
  <2> QED BY <2>1, <2>3, <2>4, <2>5 DEF InstalledIsReleased, Delivered
<1> QED BY <1>1, GenuineInit, NextKeepsGenuine, PTL DEF Spec

(***************************************************************************)
(* Versions only grow.                                                     *)
(***************************************************************************)
LEMMA NewestIs ==
  ASSUME Typed
  PROVE  /\ builder.n \in Nat /\ Newest(builder.n) \in Nat
         /\ \A m \in 0 .. Len(Releases) : builder.n <= m => Newest(builder.n) <= Newest(m)
         /\ \A m \in 0 .. Len(Releases) : Newest(m) \in Nat
<1>1. builder.n \in 0 .. Len(Releases) /\ Len(Releases) \in Nat
  BY ReleasesAre DEF Typed
<1>2. \A m \in 0 .. Len(Releases) : m # 0 => m \in Commits
  BY <1>1 DEF Commits
<1>3. \A m \in 0 .. Len(Releases) : Newest(m) \in Nat
  BY <1>2, ReleasesAre DEF Newest
<1>4. ASSUME NEW m \in 0 .. Len(Releases), builder.n <= m
      PROVE  Newest(builder.n) <= Newest(m)
  <2>1. CASE builder.n = 0
    BY <1>3, <2>1 DEF Newest
  <2>2. CASE builder.n # 0
    <3>1. m # 0 /\ m \in Commits /\ builder.n \in Commits
      BY <1>1, <1>2, <1>4, <2>2
    <3> QED BY <1>4, <2>2, <3>1, ReleasesAre DEF Newest
  <2> QED BY <2>1, <2>2
<1> QED BY <1>1, <1>3, <1>4

\* The manifest, on the site and kept: its numbers.
LEMMA ManifestIs ==
  ASSUME Typed
  PROVE  /\ site[ManifestUrl] \in Bodies /\ site[ManifestUrl].version \in Nat
         /\ cache[ManifestUrl] \in Copies /\ cache[ManifestUrl].body \in Bodies
         /\ cache[ManifestUrl].body.version \in Nat
         /\ install.version \in Nat /\ target.version \in Nat
  BY UrlsAre DEF Typed, Copies, Bodies, Installs, Targets

\* The producer moves the site's manifest up only.
LEMMA ProducerKeepsPublished ==
  ASSUME GenuineInv, Produces, NEW v \in Nat, Published(v, builder.n, site)
  PROVE  Published(v, builder'.n, site')
<1>1. Typed /\ Typed' /\ HubMoves /\ SiteMoves
  BY ProducerMoves DEF GenuineInv
<1>2. v <= Newest(builder'.n)
  <2>1. builder'.n \in 0 .. Len(Releases) /\ builder.n <= builder'.n
    BY <1>1 DEF HubMoves, Typed
  <2> QED BY <1>1, <2>1, NewestIs DEF Published
<1>3. site'[ManifestUrl].is = "whole" => v <= site'[ManifestUrl].version
  <2>1. CASE site' = site
    BY <2>1 DEF Published
  <2>2. ASSUME NEW i \in 1 .. 4, NEW b \in Bodies,
               builder.n \in Commits, b = TornBody \/ b = Outputs(builder.n)[i][2],
               site' = [site EXCEPT ![Outputs(builder.n)[i][1]] = b]
        PROVE  site'[ManifestUrl].is = "whole" => v <= site'[ManifestUrl].version
    <3>1. CASE i # 3
      <4>1. Outputs(builder.n)[i][1] # ManifestUrl /\ ManifestUrl \in Urls
        BY <2>2, <3>1, OutputsAre, UrlsAre
      <4>2. site'[ManifestUrl] = site[ManifestUrl]
        BY <1>1, <2>2, <4>1 DEF Typed
      <4> QED BY <4>2 DEF Published
    <3>2. CASE i = 3
      <4>1. Outputs(builder.n)[i][1] = ManifestUrl /\ ManifestUrl \in Urls
            /\ Outputs(builder.n)[i][2] = Body(Releases[builder.n].version, Releases[builder.n].tree)
        BY <2>2, <3>2, OutputsAre, UrlsAre
      <4>2. site'[ManifestUrl] = b
        BY <1>1, <2>2, <4>1 DEF Typed
      <4>3. b.is = "whole" => b.version = Newest(builder.n)
        <5>1. builder.n # 0
          BY <2>2, ReleasesAre DEF Commits
        <5> QED BY <2>2, <4>1, <5>1, EmptyRecords DEF Body, Newest
      <4> QED BY <4>2, <4>3 DEF Published
    <3> QED BY <3>1, <3>2
  <2> QED BY <1>1, <2>1, <2>2 DEF SiteMoves
<1> QED BY <1>2, <1>3 DEF Published

LEMMA ProducerKeepsGrows ==
  ASSUME GenuineInv, Grows, Produces
  PROVE  Grows'
<1>1. Typed /\ Typed' /\ HubMoves /\ SiteMoves
  BY ProducerMoves DEF GenuineInv
<1>2. /\ UNCHANGED <<cache, pending, behind, target>>
      /\ SameInstall(install', install) /\ install'.old = install.old
  BY <1>1, StirredIs DEF HubMoves, Typed
<1>3. site'[ManifestUrl].is = "whole" => site'[ManifestUrl].version <= Newest(builder'.n)
  <2>1. builder'.n \in 0 .. Len(Releases) /\ builder.n <= builder'.n
    BY <1>1 DEF HubMoves, Typed
  <2>2. Newest(builder.n) <= Newest(builder'.n) /\ Newest(builder.n) \in Nat
        /\ Newest(builder'.n) \in Nat /\ site[ManifestUrl].version \in Nat
    BY <1>1, <2>1, NewestIs, ManifestIs
  <2>3. CASE site' = site
    BY <2>2, <2>3 DEF Grows
  <2>4. ASSUME NEW i \in 1 .. 4, NEW b \in Bodies,
               builder.n \in Commits, b = TornBody \/ b = Outputs(builder.n)[i][2],
               site' = [site EXCEPT ![Outputs(builder.n)[i][1]] = b]
        PROVE  site'[ManifestUrl].is = "whole" =>
                 site'[ManifestUrl].version <= Newest(builder'.n)
    <3>1. CASE i # 3
      <4>1. Outputs(builder.n)[i][1] # ManifestUrl /\ ManifestUrl \in Urls
        BY <2>4, <3>1, OutputsAre, UrlsAre
      <4>2. site'[ManifestUrl] = site[ManifestUrl]
        BY <1>1, <2>4, <4>1 DEF Typed
      <4> QED BY <2>2, <4>2 DEF Grows
    <3>2. CASE i = 3
      <4>1. Outputs(builder.n)[i][1] = ManifestUrl /\ ManifestUrl \in Urls
            /\ Outputs(builder.n)[i][2] = Body(Releases[builder.n].version, Releases[builder.n].tree)
        BY <2>4, <3>2, OutputsAre, UrlsAre
      <4>2. site'[ManifestUrl] = b
        BY <1>1, <2>4, <4>1 DEF Typed
      <4>3. b.is = "whole" => b.version = Newest(builder.n)
        <5>1. builder.n # 0
          BY <2>4, ReleasesAre DEF Commits
        <5> QED BY <2>4, <4>1, <5>1, EmptyRecords DEF Body, Newest
      <4> QED BY <2>2, <4>2, <4>3
    <3> QED BY <3>1, <3>2
  <2> QED BY <1>1, <2>3, <2>4 DEF SiteMoves
<1>4. \A v \in Nat : Published(v, builder.n, site) => Published(v, builder'.n, site')
  BY ProducerKeepsPublished
<1>5. cache'[ManifestUrl].body.is = "whole" =>
        Published(cache'[ManifestUrl].body.version, builder'.n, site')
  BY <1>1, <1>2, <1>4, ManifestIs DEF Grows
<1>6. \A o \in pending' : o.url = ManifestUrl /\ o.body.is = "whole" =>
        Published(o.body.version, builder'.n, site')
  <2> SUFFICES ASSUME NEW o \in pending, o.url = ManifestUrl, o.body.is = "whole"
               PROVE  Published(o.body.version, builder'.n, site')
    BY <1>2
  <2>1. o.body.version \in Nat
    BY <1>1 DEF Typed, Bodies
  <2> QED BY <1>4, <2>1 DEF Grows
<1>7. \A v \in Nat : NotAbove(v, builder.n, site, cache, behind) =>
                     NotAbove(v, builder'.n, site', cache', behind')
  BY <1>2, <1>4 DEF NotAbove
<1>8. NotAbove(target'.version, builder'.n, site', cache', behind')
  BY <1>1, <1>2, <1>7, ManifestIs DEF Grows
<1>9. install'.at \in Versed =>
        /\ NotAbove(install'.version, builder'.n, site', cache', behind')
        /\ target'.version <= install'.version \/ install'.old
  BY <1>1, <1>2, <1>7, ManifestIs DEF Grows, SameInstall
<1> QED BY <1>3, <1>5, <1>6, <1>8, <1>9 DEF Grows

\* A request gets a newer manifest, which is then kept, or the copy is known to be behind.
LEMMA AskKeepsNotAbove ==
  ASSUME GenuineInv, Grows, NEW u \in Urls, NEW f, NEW next \in Installs, Asks(u, f, next),
         NEW v \in Nat, NotAbove(v, builder.n, site, cache, behind)
  PROVE  NotAbove(v, builder.n, site', cache', behind')
<1>1. Typed /\ site' = site
  BY DEF GenuineInv, Asks, hub
<1>2. cache'[u] = f.entry /\ \A x \in Urls : x # u => cache'[x] = cache[x]
  BY <1>1, AskingIs
<1>3. Published(v, builder.n, site')
  BY <1>1 DEF NotAbove
<1>4. CASE u # ManifestUrl
  <2>1. cache'[ManifestUrl] = cache[ManifestUrl] /\ behind' = behind
    BY <1>2, <1>4, UrlsAre DEF Asks
  <2> QED BY <1>3, <2>1 DEF NotAbove
<1>5. CASE u = ManifestUrl
  <2>1. /\ f.how \in {"copy", "host", "down", "unkept"}
        /\ f.how \in {"copy", "down"} => f.entry = cache[u]
        /\ f.how = "host" => \/ f.entry = Copy(u, site[u])
                             \/ f.entry = cache[u] /\ f.got = Missing
        /\ f.how = "unkept" => f.entry \in {cache[u], Uncached} /\ f.got # Missing
    BY <1>1, FetchIs DEF Asks
  <2>2. CASE f.entry = cache[u] /\ behind' = behind
    BY <1>2, <1>3, <1>5, <2>2 DEF NotAbove
  <2>3. CASE f.entry = Copy(u, site[u])
    <3>1. cache'[u].body = site'[u]
      BY <1>1, <1>2, <2>3 DEF Copy
    <3> QED BY <1>3, <1>5, <3>1 DEF NotAbove, Published
  <2>4. CASE f.entry = Uncached
    BY <1>2, <1>3, <1>5, <2>4, EmptyRecords DEF NotAbove
  <2>5. CASE f.how = "unkept" /\ f.entry # Uncached
    <3>1. behind'
      BY <1>5, <2>1, <2>5 DEF Asks
    <3> QED BY <1>3, <3>1 DEF NotAbove
  <2> QED BY <1>5, <2>1, <2>2, <2>3, <2>4, <2>5 DEF Asks
<1> QED BY <1>4, <1>5

LEMMA AskKeepsGrows ==
  ASSUME GenuineInv, Grows, NEW u \in Urls, NEW f, NEW next \in Installs, Asks(u, f, next),
         next.at \in Versed => /\ NotAbove(next.version, builder.n, site, cache', behind')
                               /\ target.version <= next.version \/ next.old \/ Outdated(f)
  PROVE  Grows'
<1>1. Typed /\ UNCHANGED <<site, builder, pending, target>>
  BY DEF GenuineInv, Asks, hub
<1>2. cache'[u] = f.entry /\ (\A x \in Urls : x # u => cache'[x] = cache[x])
      /\ SameInstall(install', next) /\ install'.old = (next.old \/ Outdated(f))
  BY <1>1, AskingIs
<1>3. f.entry.body \in {site[u], cache[u].body, Missing}
  BY <1>1, FetchIs DEF Asks
<1>4. cache'[ManifestUrl].body \in {cache[ManifestUrl].body, site[ManifestUrl], Missing}
  BY <1>2, <1>3, UrlsAre
<1>5. cache'[ManifestUrl].body.is = "whole" =>
        Published(cache'[ManifestUrl].body.version, builder'.n, site')
  <2>1. CASE cache'[ManifestUrl].body = cache[ManifestUrl].body
    BY <1>1, <2>1 DEF Grows
  <2>2. CASE cache'[ManifestUrl].body = site[ManifestUrl]
    BY <1>1, <2>2, ManifestIs DEF Grows, Published
  <2>3. CASE cache'[ManifestUrl].body = Missing
    BY <2>3, EmptyRecords
  <2> QED BY <1>4, <2>1, <2>2, <2>3
<1>6. \A o \in pending' : o.url = ManifestUrl /\ o.body.is = "whole" =>
        Published(o.body.version, builder'.n, site')
  BY <1>1 DEF Grows
<1>7. NotAbove(target'.version, builder'.n, site', cache', behind')
  BY <1>1, ManifestIs, AskKeepsNotAbove DEF Grows
<1>8. install'.at \in Versed =>
        /\ NotAbove(install'.version, builder'.n, site', cache', behind')
        /\ target'.version <= install'.version \/ install'.old
  BY <1>1, <1>2 DEF SameInstall
<1>9. site'[ManifestUrl].is = "whole" => site'[ManifestUrl].version <= Newest(builder'.n)
  BY <1>1 DEF Grows
<1> QED BY <1>5, <1>6, <1>7, <1>8, <1>9 DEF Grows

\* A request that leaves the version of the install as it is.
LEMMA AskOfSameVersion ==
  ASSUME GenuineInv, Grows, NEW u \in Urls, NEW f, NEW next \in Installs, Asks(u, f, next),
         next.at \in Versed => /\ install.at \in Versed
                               /\ next.version = install.version /\ next.old = install.old
  PROVE  Grows'
<1>1. next.version \in Nat
  BY DEF Installs
<1>2. next.at \in Versed => /\ NotAbove(next.version, builder.n, site, cache, behind)
                            /\ target.version <= next.version \/ next.old
  BY DEF Grows
<1>3. builder' = builder /\ site' = site
  BY DEF Asks, hub
<1>4. next.at \in Versed => NotAbove(next.version, builder.n, site, cache', behind')
  BY <1>1, <1>2, <1>3, AskKeepsNotAbove
<1> QED BY <1>2, <1>4, AskKeepsGrows

LEMMA RequestKeepsGrows ==
  ASSUME GenuineInv, Grows, ReadIndex \/ ReadManifest \/ ReadSidecar \/ CrossCheck \/ ReadTar
  PROVE  Grows'
<1>1. Typed /\ install \in Installs
  BY DEF GenuineInv, Typed
<1>2. Fails \in Installs /\ Fails.at \notin Versed
  BY <1>1, FailsIs DEF Versed, Hashed, Placing
<1>3. install.at \in Versed => install.version \in Versions
  BY DEF GenuineInv, Knows
<1>4. CASE ReadIndex
  <2>1. PICK f : Asks(IndexUrl, f, AfterIndex(f.got))
    BY <1>4, ReadIndexIs
  <2>2. Advance("manifest") \in Installs /\ Advance("manifest").at \notin Versed
    <3>1. Advance("manifest") \in Installs /\ Advance("manifest").at = "manifest"
      BY <1>1, AdvanceIs DEF Asking
    <3> QED BY <3>1 DEF Versed, Hashed, Placing
  <2>3. AfterIndex(f.got) \in Installs /\ AfterIndex(f.got).at \notin Versed
    BY <1>2, <2>2 DEF AfterIndex
  <2> QED BY <2>1, <2>3, UrlsAre, AskKeepsGrows
<1>5. CASE ReadManifest
  <2>1. PICK f : Asks(ManifestUrl, f, AfterManifest(f.got))
    BY <1>5, ReadManifestIs
  <2>2. f.got \in Bodies /\ f.got \in {site[ManifestUrl], cache[ManifestUrl].body}
    BY <1>1, <2>1, UrlsAre, FetchIs DEF Asks
  <2>3. CASE f.got.is = "whole"
    <3>1. f.got.version \in Nat
      BY <2>2, <2>3 DEF Bodies
    <3> DEFINE next == Versioned(f.got.version)
    <3>2. next \in Installs /\ next.version = f.got.version
      BY <1>1, <3>1, VersionedIs
    <3>3. AfterManifest(f.got) \in {Fails, next}
      BY DEF AfterManifest
    <3> HIDE DEF next
    <3>4. ASSUME Asks(ManifestUrl, f, next) PROVE Grows'
      <4>1. /\ cache'[ManifestUrl] = f.entry /\ site' = site
            /\ Published(f.got.version, builder.n, site)
        <5>1. site' = site
          BY <3>4 DEF Asks, hub
        <5>2. cache'[ManifestUrl] = f.entry
          BY <1>1, <3>2, <3>4, UrlsAre, AskingIs
        <5>3. CASE f.got = site[ManifestUrl]
          BY <1>1, <2>3, <5>1, <5>2, <5>3, ManifestIs DEF Grows, Published
        <5>4. CASE f.got = cache[ManifestUrl].body
          BY <2>3, <5>1, <5>2, <5>4 DEF Grows
        <5> QED BY <2>2, <5>3, <5>4
      <4>2. /\ f.how \in {"copy", "host", "down", "unkept"}
            /\ f.how \in {"copy", "down"} => f.got = cache[ManifestUrl].body /\ f.entry = cache[ManifestUrl]
            /\ f.how \in {"host", "unkept"} => f.got = site[ManifestUrl]
            /\ f.how = "host" => \/ f.entry = Copy(ManifestUrl, site[ManifestUrl])
                                 \/ f.entry = cache[ManifestUrl] /\ f.got = Missing
            /\ f.how = "unkept" => f.got # Missing
        BY <1>1, <2>1, UrlsAre, FetchIs DEF Asks
      <4>3. CASE f.how \in {"copy", "down"}
        <5>1. NotAbove(f.got.version, builder.n, site, cache', behind')
          BY <3>1, <4>1, <4>2, <4>3 DEF NotAbove
        <5>2. target.version <= f.got.version \/ behind
          BY <2>3, <4>2, <4>3 DEF Grows, NotAbove
        <5>3. behind => Outdated(f)
          BY <1>5, <4>3 DEF Outdated, ReadManifest
        <5> QED BY <3>2, <3>4, <4>1, <5>1, <5>2, <5>3, UrlsAre, AskKeepsGrows
      <4>4. CASE f.how \in {"host", "unkept"}
        <5>1. target.version <= f.got.version
          BY <2>3, <4>2, <4>4 DEF Grows, NotAbove, Published
        <5>2. NotAbove(f.got.version, builder.n, site, cache', behind')
          <6>1. CASE f.how = "host"
            <7>1. cache'[ManifestUrl].body = f.got
              BY <2>3, <4>1, <4>2, <6>1, EmptyRecords DEF Copy
            <7> QED BY <3>1, <4>1, <7>1 DEF NotAbove
          <6>2. CASE f.how = "unkept"
            <7>1. f.entry = Uncached \/ behind'
              BY <3>4, <4>2, <6>2 DEF Asks
            <7> QED BY <4>1, <7>1, EmptyRecords DEF NotAbove
          <6> QED BY <4>4, <6>1, <6>2
        <5> QED BY <3>2, <3>4, <4>1, <5>1, <5>2, UrlsAre, AskKeepsGrows
      <4> QED BY <4>2, <4>3, <4>4
    <3>5. ASSUME Asks(ManifestUrl, f, Fails) PROVE Grows'
      BY <1>2, <3>5, UrlsAre, AskKeepsGrows
    <3> QED BY <2>1, <3>3, <3>4, <3>5
  <2>4. CASE f.got.is # "whole"
    <3>1. AfterManifest(f.got) = Fails
      BY <2>4 DEF AfterManifest
    <3> QED BY <1>2, <2>1, <3>1, UrlsAre, AskKeepsGrows
  <2> QED BY <2>3, <2>4
<1>6. CASE ReadSidecar
  <2> DEFINE u == SidecarUrl(install.version)
  <2>1. PICK f : Asks(u, f, AfterSidecar(f.got))
    BY <1>6, ReadSidecarIs
  <2>2. install.at \in Versed
    BY <1>6 DEF ReadSidecar, At, Versed
  <2>3. u \in Urls
    BY <1>3, <2>2, UrlsAre
  <2>4. f.got.tree \in FileTrees
    BY <1>1, <2>1, <2>3, FetchIs DEF Asks, Bodies
  <2>5. Summed(f.got.tree) \in Installs /\ Summed(f.got.tree).version = install.version
        /\ Summed(f.got.tree).old = install.old
    BY <1>1, <2>4, SummedIs
  <2>6. AfterSidecar(f.got) \in {Fails, Summed(f.got.tree)}
    BY DEF AfterSidecar
  <2> HIDE DEF u
  <2> QED BY <1>2, <1>3, <2>1, <2>2, <2>3, <2>5, <2>6, AskOfSameVersion
<1>7. CASE CrossCheck
  <2>1. PICK f : Asks(ManifestUrl, f, AfterCheck(f.got))
    BY <1>7, CrossCheckIs
  <2>2. install.at \in Versed
    BY <1>7 DEF CrossCheck, At, Versed, Hashed
  <2>3. Advance("tar") \in Installs /\ Advance("tar").version = install.version
        /\ Advance("tar").old = install.old
    BY <1>1, AdvanceIs DEF Versed, Hashed
  <2>4. AfterCheck(f.got) \in {Fails, Advance("tar")}
    BY DEF AfterCheck
  <2> QED BY <1>2, <1>3, <2>1, <2>2, <2>3, <2>4, UrlsAre, AskOfSameVersion
<1>8. CASE ReadTar
  <2> DEFINE u == TarUrl(install.version)
  <2>1. PICK f : Asks(u, f, Accept(f.got))
    BY <1>8, ReadTarIs
  <2>2. install.at \in Versed
    BY <1>8 DEF ReadTar, At, Versed, Hashed
  <2>3. u \in Urls
    BY <1>3, <2>2, UrlsAre
  <2>4. Verified \in Installs /\ Verified.version = install.version
        /\ Verified.old = install.old
    BY <1>1, VerifiedIs
  <2>5. Accept(f.got) \in {Fails, Verified}
    BY DEF Accept, Verified
  <2> HIDE DEF u
  <2> QED BY <1>2, <1>3, <2>1, <2>2, <2>3, <2>4, <2>5, AskOfSameVersion
<1> QED BY <1>4, <1>5, <1>6, <1>7, <1>8

\* A step that touches neither the hub nor what the copy of the manifest says.
LEMMA LocalKeepsGrows ==
  ASSUME GenuineInv, Grows, UNCHANGED <<hub, pending, behind>>,
         cache'[ManifestUrl].body \in {cache[ManifestUrl].body, Missing},
         install'.at \in Versed => /\ install.at \in Versed
                                   /\ install'.version = install.version
                                   /\ install'.old = install.old,
         \/ target'.version = target.version
         \/ install.at \in Versed /\ target'.version = install.version
  PROVE  Grows'
<1>1. UNCHANGED <<site, builder>> /\ Missing.is # "whole"
  BY EmptyRecords DEF hub
<1>2. target.version \in Nat /\ install.version \in Nat
  BY ManifestIs DEF GenuineInv
<1>3. \A v : NotAbove(v, builder.n, site, cache, behind) =>
             NotAbove(v, builder'.n, site', cache', behind')
  BY <1>1 DEF NotAbove
<1>4. cache'[ManifestUrl].body.is = "whole" =>
        Published(cache'[ManifestUrl].body.version, builder'.n, site')
  BY <1>1 DEF Grows
<1>5. NotAbove(target'.version, builder'.n, site', cache', behind')
  BY <1>3 DEF Grows
<1>6. install'.at \in Versed =>
        /\ NotAbove(install'.version, builder'.n, site', cache', behind')
        /\ target'.version <= install'.version \/ install'.old
  BY <1>2, <1>3 DEF Grows
<1>7. \A o \in pending' : o.url = ManifestUrl /\ o.body.is = "whole" =>
        Published(o.body.version, builder'.n, site')
  BY <1>1 DEF Grows
<1>8. site'[ManifestUrl].is = "whole" => site'[ManifestUrl].version <= Newest(builder'.n)
  BY <1>1 DEF Grows
<1> QED BY <1>4, <1>5, <1>6, <1>7, <1>8 DEF Grows

\* The answer that an install elsewhere got may be older than the one it replaces.
LEMMA KeepElsewhereKeepsGrows ==
  ASSUME GenuineInv, Grows, KeepElsewhere
  PROVE  Grows'
<1>1. Typed /\ install \in Installs
  BY DEF GenuineInv, Typed
<1>2. PICK o \in pending :
        /\ o.url \in Urls /\ cache'[o.url].body = o.body
        /\ \A x \in Urls : x # o.url => cache'[x] = cache[x]
        /\ behind' = (IF o.url = ManifestUrl THEN o.body # site[o.url] ELSE behind)
        /\ pending' = {} /\ install' = Stirred
        /\ UNCHANGED <<tip, builder, built, site, target, faults>>
  BY <1>1, KeepElsewhereIs
<1>3. SameInstall(install', install) /\ install'.old = install.old
  BY <1>1, <1>2, StirredIs
<1>4. cache'[ManifestUrl].body.is = "whole" =>
        Published(cache'[ManifestUrl].body.version, builder'.n, site')
  BY <1>2, UrlsAre DEF Grows
<1>5. \A v : NotAbove(v, builder.n, site, cache, behind) =>
             NotAbove(v, builder'.n, site', cache', behind')
  <2> SUFFICES ASSUME NEW v, NotAbove(v, builder.n, site, cache, behind)
               PROVE  NotAbove(v, builder'.n, site', cache', behind')
    OBVIOUS
  <2>1. CASE o.url = ManifestUrl
    BY <1>2, <2>1 DEF NotAbove, Published
  <2>2. CASE o.url # ManifestUrl
    <3>1. cache'[ManifestUrl] = cache[ManifestUrl] /\ behind' = behind
      BY <1>2, <2>2, UrlsAre
    <3> QED BY <1>2, <3>1 DEF NotAbove
  <2> QED BY <2>1, <2>2
<1>6. NotAbove(target'.version, builder'.n, site', cache', behind')
  BY <1>2, <1>5 DEF Grows
<1>7. install'.at \in Versed =>
        /\ NotAbove(install'.version, builder'.n, site', cache', behind')
        /\ target'.version <= install'.version \/ install'.old
  BY <1>2, <1>3, <1>5 DEF Grows, SameInstall
<1>8. site'[ManifestUrl].is = "whole" => site'[ManifestUrl].version <= Newest(builder'.n)
  BY <1>2 DEF Grows
<1> QED BY <1>2, <1>4, <1>6, <1>7, <1>8 DEF Grows

LEMMA AskElsewhereKeepsGrows ==
  ASSUME GenuineInv, Grows, NEW u \in Urls, AskElsewhere(u)
  PROVE  Grows'
<1>1. /\ UNCHANGED <<site, builder, cache, behind, install, target>>
      /\ pending' = {[url |-> u, body |-> site[u]]}
  BY DEF AskElsewhere, hub
<1>2. \A o \in pending' : o.url = ManifestUrl /\ o.body.is = "whole" =>
        Published(o.body.version, builder'.n, site')
  <2>1. site[ManifestUrl].version \in Nat
    BY ManifestIs DEF GenuineInv
  <2> QED BY <1>1, <2>1 DEF Grows, Published
<1> QED BY <1>1, <1>2 DEF Grows

\* What the steps on the project's files do to the versions.
LEMMA FileStepIs ==
  ASSUME GenuineInv, WriteFile \/ WriteSidecar \/ WriteMarker \/ Finish
  PROVE  /\ UNCHANGED <<hub, shared>> /\ install.at \in Versed
         /\ install'.at \in Versed => /\ install'.version = install.version
                                      /\ install'.old = install.old
         /\ \/ target'.version = target.version
            \/ target'.version = install.version
<1>1. install \in Installs /\ target \in Targets
  BY DEF GenuineInv, Typed
<1>2. CASE WriteFile
  <2>1. install.at \in Versed
    BY <1>2 DEF WriteFile, At, Versed, Hashed, Placing
  <2>2. install'.version = install.version /\ install'.old = install.old
    BY <1>1, <1>2 DEF WriteFile, Installs
  <2>3. target'.version = target.version
    BY <1>1, <1>2 DEF WriteFile, Targets
  <2> QED BY <1>2, <2>1, <2>2, <2>3 DEF WriteFile
<1>3. CASE WriteSidecar
  <2>1. install.at \in Versed
    BY <1>3 DEF WriteSidecar, At, Versed, Hashed, Placing
  <2>2. install'.version = install.version /\ install'.old = install.old
        /\ target'.version = install.version
    BY <1>1, <1>3 DEF WriteSidecar, Installs, Targets
  <2> QED BY <1>3, <2>1, <2>2 DEF WriteSidecar
<1>4. CASE WriteMarker
  <2>1. install.at \in Versed
    BY <1>4 DEF WriteMarker, At, Versed, Hashed, Placing
  <2>2. install'.version = install.version /\ install'.old = install.old
        /\ target'.version = target.version
    BY <1>1, <1>4 DEF WriteMarker, Installs, Targets
  <2> QED BY <1>4, <2>1, <2>2 DEF WriteMarker
<1>5. CASE Finish
  <2>1. install.at \in Versed
    BY <1>5 DEF Finish, At, Versed, Hashed, Placing
  <2>2. install'.at = "idle" /\ target'.version = target.version
    BY <1>1, <1>5, EndedIs DEF Finish, Targets
  <2>3. install'.at \notin Versed
    BY <2>2 DEF Versed, Hashed, Placing
  <2> QED BY <1>5, <2>1, <2>2, <2>3 DEF Finish
<1> QED BY <1>2, <1>3, <1>4, <1>5

LEMMA StartIs ==
  ASSUME GenuineInv, NEW want \in Versions \union {0}, NEW kindGiven \in BOOLEAN,
         Start(want, kindGiven)
  PROVE  /\ install'.at \in Asking /\ install'.at \notin Versed /\ install'.at # "idle"
         /\ install'.want = want /\ install'.result = "none"
         /\ install'.calm = (Quiet /\ Aged /\ want \in {0, Releases[tip].version})
         /\ UNCHANGED <<hub, shared, target, faults>>
<1> DEFINE at == IF kindGiven THEN "manifest" ELSE "index"
           calm == Quiet /\ Aged /\ want \in {0, Releases[tip].version}
<1>1. install' = [Resting EXCEPT !.at = at, !.want = want, !.calm = calm]
  BY DEF Start
<1>2. at \in {"manifest", "index"}
  OBVIOUS
<1> HIDE DEF at
<1>3. install'.at = at /\ install'.want = want /\ install'.result = "none"
  BY <1>1, EmptyRecords DEF Installs
<1>4. install'.calm = calm
  <2> HIDE DEF calm
  <2> QED BY <1>1, EmptyRecords DEF Installs
<1>5. at \in Asking /\ at \notin Versed /\ at # "idle"
  BY <1>2 DEF Asking, Versed, Hashed, Placing
<1>6. UNCHANGED <<hub, shared, target, faults>>
  BY DEF Start
<1> QED BY <1>3, <1>4, <1>5, <1>6

LEMMA ExpireIs ==
  ASSUME Typed, NEW u \in Urls, Expire(u)
  PROVE  /\ \A x \in Urls : /\ cache'[x].body = cache[x].body
                            /\ cache'[x].kept = cache[x].kept
                               \/ cache'[x].kept = "stale"
         /\ UNCHANGED <<hub, pending, behind, install, target, faults>>
<1>1. /\ cache' = [cache EXCEPT ![u].kept = "stale"]
      /\ UNCHANGED <<hub, pending, behind, install, target, faults>>
  BY DEF Expire
<1>2. cache \in [Urls -> Copies] /\ cache[u] \in Copies
  BY DEF Typed
<1> DEFINE old == [cache[u] EXCEPT !.kept = "stale"]
<1>3. old.kept = "stale" /\ old.body = cache[u].body
  BY <1>2 DEF Copies
<1>4. cache' = [cache EXCEPT ![u] = old]
  BY <1>1, <1>2
<1> HIDE DEF old
<1> QED BY <1>1, <1>2, <1>3, <1>4

LEMMA ClientKeepsGrows ==
  ASSUME GenuineInv, Grows,
         \/ InstallStep \/ Stops \/ KeepElsewhere \/ \E u \in Urls : Expire(u) \/ AskElsewhere(u)
         \/ \E want \in Versions \union {0}, kindGiven \in BOOLEAN : Start(want, kindGiven)
  PROVE  Grows'
<1>1. CASE WriteFile \/ WriteSidecar \/ WriteMarker \/ Finish
  <2>1. cache' = cache /\ UNCHANGED <<hub, pending, behind>>
    BY <1>1, FileStepIs DEF shared
  <2> QED BY <1>1, <2>1, FileStepIs, LocalKeepsGrows
<1>2. CASE Stops
  <2>1. install'.at \notin Versed /\ target'.version = target.version
    BY <1>2, StopsIs DEF Versed, Hashed, Placing
  <2>2. cache'[ManifestUrl] \in {cache[ManifestUrl], Uncached} /\ UNCHANGED <<hub, pending, behind>>
    BY <1>2, StopsIs, UrlsAre DEF hub
  <2> QED BY <2>1, <2>2, EmptyRecords, LocalKeepsGrows
<1>3. ASSUME NEW u \in Urls, Expire(u) PROVE Grows'
  <2>1. /\ cache'[ManifestUrl].body = cache[ManifestUrl].body
        /\ UNCHANGED <<hub, pending, behind, install, target>>
    BY <1>3, ExpireIs, UrlsAre DEF GenuineInv
  <2> QED BY <2>1, LocalKeepsGrows
<1>4. ASSUME NEW want \in Versions \union {0}, NEW kindGiven \in BOOLEAN, Start(want, kindGiven)
      PROVE  Grows'
  <2>1. install'.at \notin Versed /\ UNCHANGED <<hub, cache, pending, behind, target>>
    BY <1>4, StartIs DEF shared
  <2> QED BY <2>1, LocalKeepsGrows
<1> QED BY <1>1, <1>2, <1>3, <1>4, RequestKeepsGrows, AskElsewhereKeepsGrows,
        KeepElsewhereKeepsGrows DEF InstallStep

LEMMA VersionInit == Init => VersionInv
<1> SUFFICES ASSUME Init PROVE Grows
  BY GenuineInit DEF VersionInv
<1>1. site[ManifestUrl] = Missing /\ cache[ManifestUrl] = Uncached
  BY UrlsAre DEF Init
<1>2. target.version = 0 /\ install.at = "idle" /\ builder.n = 0 /\ pending = {}
  BY EmptyRecords DEF Init
<1> QED BY <1>1, <1>2, EmptyRecords DEF Grows, NotAbove, Published, Newest, Versed, Hashed, Placing

LEMMA NextKeepsVersions ==
  ASSUME VersionInv, [Next]_vars
  PROVE  VersionInv'
<1>1. GenuineInv'
  BY NextKeepsGenuine DEF VersionInv
<1>2. CASE Produces
  BY <1>1, <1>2, ProducerKeepsGrows DEF VersionInv
<1>3. CASE UNCHANGED vars
  BY <1>1, <1>3 DEF VersionInv, Grows, NotAbove, Published, vars, hub, client, shared
<1>4. CASE \/ InstallStep \/ Stops \/ KeepElsewhere
           \/ \E u \in Urls : Expire(u) \/ AskElsewhere(u)
           \/ \E want \in Versions \union {0}, kindGiven \in BOOLEAN : Start(want, kindGiven)
  BY <1>1, <1>4, ClientKeepsGrows DEF VersionInv
<1> QED BY <1>2, <1>3, <1>4 DEF Next, Produces

\* A step leaves the installed version, or puts one in its place that is not older, but
\* for an install that used an outdated copy of the manifest.
LEMMA StepNeverDowngrades ==
  ASSUME VersionInv, [Next]_vars
  PROVE  target'.version < target.version => install.old
<1>1. GenuineInv /\ Grows /\ target.version \in Nat /\ install.version \in Nat
  BY ManifestIs DEF VersionInv, GenuineInv
<1>2. CASE WriteFile \/ WriteSidecar \/ WriteMarker \/ Finish
  BY <1>1, <1>2, FileStepIs DEF Grows
<1>3. CASE Stops
  BY <1>1, <1>3, StopsIs
<1>4. CASE Produces
  <2>1. target' = target
    BY <1>1, <1>4, ProducerMoves DEF HubMoves, GenuineInv
  <2> QED BY <1>1, <2>1
<1>5. CASE ReadIndex \/ ReadManifest \/ ReadSidecar \/ CrossCheck \/ ReadTar
  <2>1. target' = target
    BY <1>5, ReadIndexIs, ReadManifestIs, ReadSidecarIs, CrossCheckIs, ReadTarIs DEF Asks
  <2> QED BY <1>1, <2>1
<1>6. CASE UNCHANGED vars \/ KeepElsewhere \/ \E u \in Urls : Expire(u) \/ AskElsewhere(u)
  <2>1. target' = target
    BY <1>6 DEF vars, client, Expire, AskElsewhere, KeepElsewhere
  <2> QED BY <1>1, <2>1
<1>7. CASE \E want \in Versions \union {0}, kindGiven \in BOOLEAN : Start(want, kindGiven)
  <2>1. target' = target
    BY <1>7 DEF Start
  <2> QED BY <1>1, <2>1
<1> QED BY <1>2, <1>3, <1>4, <1>5, <1>6, <1>7 DEF Next, InstallStep, Produces

(* A version is replaced by an older one only by an install that took the manifest from
   the cache when a newer one had been got and the cache did not hold it, although the
   client falls back on whatever copy it has when the host is down, the manifest is read
   twice, and installs elsewhere write the same cache (http.go, fetchCached). *)
THEOREM VersionsNeverGoBack == Spec => NeverDowngraded
<1>1. VersionInv /\ [Next]_vars => [target'.version < target.version => install.old]_vars
  BY StepNeverDowngrades
<1> QED BY <1>1, VersionInit, NextKeepsVersions, PTL DEF Spec, NeverDowngraded

(***************************************************************************)
(* An undisturbed install.                                                 *)
(***************************************************************************)
\* What the producer has written of its release stays until the release is written.
LEMMA ProducerKeepsWritten ==
  ASSUME Typed, BuildOrder, BuildWritten, Produces
  PROVE  BuildWritten'
<1>1. Typed' /\ BuildOrder'
  BY ProducerMoves
<1>2. CASE Merge
  BY <1>2 DEF Merge, BuildWritten, Written
<1>3. CASE Build
  <2>1. builder' = [at |-> 1, n |-> tip, half |-> FALSE]
    BY <1>3 DEF Build
  <2>2. Written(builder'.n, 1, site')
    BY DEF Written
  <2> QED BY <2>1, <2>2 DEF BuildWritten
<1>4. CASE Truncate
  <2>1. builder.n \in Commits /\ builder.at \in 1 .. 4 /\ builder.at # 0 /\ site \in [Urls -> Bodies]
    BY <1>4, AtWorkOnCommit DEF Truncate, Typed
  <2>2. builder'.n = builder.n /\ builder'.at = builder.at
    BY <1>4 DEF Truncate, Typed
  <2>3. site' = [site EXCEPT ![Outputs(builder.n)[builder.at][1]] = TornBody]
    BY <1>4 DEF Truncate
  <2>4. Written(builder.n, builder.at, site')
    <3> SUFFICES ASSUME NEW i \in 1 .. 4, i < builder.at
                 PROVE  site'[Outputs(builder.n)[i][1]] = Outputs(builder.n)[i][2]
      BY DEF Written
    <3>1. Outputs(builder.n)[i][1] # Outputs(builder.n)[builder.at][1]
          /\ Outputs(builder.n)[i][1] \in Urls
      BY <2>1, OutputsAre
    <3>2. site[Outputs(builder.n)[i][1]] = Outputs(builder.n)[i][2]
      BY <2>1 DEF BuildWritten, Written
    <3> QED BY <2>1, <2>3, <3>1, <3>2
  <2> QED BY <2>1, <2>2, <2>4 DEF BuildWritten
<1>5. CASE Write
  <2>1. builder.n \in Commits /\ builder.at \in 1 .. 4 /\ builder.at \in Nat
        /\ builder.at # 0 /\ site \in [Urls -> Bodies]
    BY <1>5, AtWorkOnCommit DEF Write, Typed
  <2>2. site' = [site EXCEPT ![Outputs(builder.n)[builder.at][1]] = Outputs(builder.n)[builder.at][2]]
    BY <1>5 DEF Write
  <2>3. Written(builder.n, builder.at + 1, site')
    <3> SUFFICES ASSUME NEW i \in 1 .. 4, i < builder.at + 1
                 PROVE  site'[Outputs(builder.n)[i][1]] = Outputs(builder.n)[i][2]
      BY DEF Written
    <3>1. Outputs(builder.n)[i][1] \in Urls
      BY <2>1, OutputsAre
    <3>2. CASE i = builder.at
      BY <2>1, <2>2, <3>1, <3>2
    <3>3. CASE i # builder.at
      <4>1. Outputs(builder.n)[i][1] # Outputs(builder.n)[builder.at][1] /\ i < builder.at
        BY <2>1, <3>3, OutputsAre
      <4>2. site[Outputs(builder.n)[i][1]] = Outputs(builder.n)[i][2]
        BY <2>1, <4>1 DEF BuildWritten, Written
      <4> QED BY <2>1, <2>2, <3>1, <4>1, <4>2
    <3> QED BY <3>2, <3>3
  <2>4. Len(Outputs(builder.n)) = 4
    BY <2>1, OutputsAre
  <2>5. CASE builder.at < 4
    <3>1. builder' = [builder EXCEPT !.at = builder.at + 1, !.half = FALSE]
      BY <1>5, <2>4, <2>5 DEF Write
    <3>2. builder'.at = builder.at + 1 /\ builder'.n = builder.n
      BY <3>1 DEF Typed
    <3>3. builder'.at # 0
      BY <2>1, <3>2
    <3> QED BY <2>3, <3>2, <3>3 DEF BuildWritten
  <2>6. CASE ~(builder.at < 4)
    <3>1. builder' = [builder EXCEPT !.at = 0, !.half = FALSE] /\ built' = builder.n
      BY <1>5, <2>4, <2>6 DEF Write
    <3>2. builder'.at = 0
      BY <3>1 DEF Typed
    <3>3. builder.at + 1 = 5
      BY <2>1, <2>6
    <3>4. Written(built', 5, site')
      BY <2>3, <3>1, <3>3
    <3> QED BY <3>2, <3>4 DEF BuildWritten
  <2> QED BY <2>5, <2>6
<1>6. CASE BuildStops
  <2>1. builder'.at = 0 /\ builder'.n = builder.n /\ built' = built
    BY <1>6 DEF BuildStops, Typed
  <2>2. built < builder.n /\ built \in Nat /\ builder.n \in Nat
    BY <1>6, ReleasesAre DEF BuildStops, BuildOrder, Typed
  <2> QED BY <2>1, <2>2 DEF BuildWritten
<1> QED BY <1>2, <1>3, <1>4, <1>5, <1>6 DEF Produces, BuildStep

\* A registry at rest serves the release of the tip, whole.
LEMMA RestingSite ==
  ASSUME Typed, BuildOrder, BuildWritten, Quiet
  PROVE  LET v == Releases[tip].version  t == Releases[tip].tree IN
         /\ v \in Versions /\ t \in FileTrees
         /\ site[IndexUrl] = Body(0, NoTree) /\ site[ManifestUrl] = Body(v, t)
         /\ site[SidecarUrl(v)] = Body(v, t) /\ site[TarUrl(v)] = Body(v, t)
<1>1. tip \in Commits /\ tip \in Nat /\ tip # 0
  BY ReleasesAre DEF Typed, Commits
<1>2. builder.n = tip /\ built = tip
  BY <1>1, ReleasesAre DEF Quiet, BuildOrder, Typed
<1>3. Written(tip, 5, site)
  BY <1>1, <1>2 DEF BuildWritten, Quiet
<1>4. \A i \in 1 .. 4 : site[Outputs(tip)[i][1]] = Outputs(tip)[i][2]
  <2> SUFFICES ASSUME NEW i \in 1 .. 4
               PROVE  site[Outputs(tip)[i][1]] = Outputs(tip)[i][2]
    OBVIOUS
  <2>1. i < 5
    OBVIOUS
  <2> QED BY <1>3, <2>1 DEF Written
<1>5. /\ site[Outputs(tip)[1][1]] = Outputs(tip)[1][2]
      /\ site[Outputs(tip)[2][1]] = Outputs(tip)[2][2]
      /\ site[Outputs(tip)[3][1]] = Outputs(tip)[3][2]
      /\ site[Outputs(tip)[4][1]] = Outputs(tip)[4][2]
  BY <1>4
<1> DEFINE v == Releases[tip].version
           t == Releases[tip].tree
<1>6. v \in Versions /\ t \in FileTrees
  BY <1>1, ReleasesAre
<1>7. /\ Outputs(tip)[1] = <<TarUrl(v), Body(v, t)>>
      /\ Outputs(tip)[2] = <<SidecarUrl(v), Body(v, t)>>
      /\ Outputs(tip)[3] = <<ManifestUrl, Body(v, t)>>
      /\ Outputs(tip)[4] = <<IndexUrl, Body(0, NoTree)>>
  BY <1>1, OutputsAre
<1> HIDE DEF v, t
<1>8. /\ site[IndexUrl] = Body(0, NoTree) /\ site[ManifestUrl] = Body(v, t)
      /\ site[SidecarUrl(v)] = Body(v, t) /\ site[TarUrl(v)] = Body(v, t)
  BY <1>5, <1>7
<1> QED BY <1>6, <1>8 DEF v, t

LEMMA NewestUrlsAre == ASSUME Typed PROVE NewestUrls \subseteq Urls
<1>1. Releases[tip].version \in Versions
  BY ReleasesAre DEF Typed
<1> QED BY <1>1, UrlsAre DEF NewestUrls

Undisputed(f) == f.how \in {"copy", "host"}

\* A request that is answered, in an install that nothing disturbs, gets what is served.
LEMMA CalmAnswer ==
  ASSUME CalmInv, install.calm, ~Wedged, NEW u \in NewestUrls, NEW f \in Fetches(u), Undisputed(f)
  PROVE  f.got = site[u]
<1>1. Typed /\ u \in Urls
  BY NewestUrlsAre DEF CalmInv, GenuineInv
<1>2. CASE f.how = "copy"
  <2>1. Hit(u) /\ f.got = cache[u].body
    BY <1>1, <1>2, FetchIs
  <2> QED BY <2>1 DEF CalmInv, Undisturbed, CopiesCurrent
<1>3. CASE f.how = "host"
  BY <1>1, <1>3, FetchIs
<1> QED BY <1>2, <1>3 DEF Undisputed

\* A copy that is in the way stays in the way, and none gets in it.
LEMMA AskKeepsCalm ==
  ASSUME CalmInv, NEW u \in Urls, NEW f, NEW next \in Installs, Asks(u, f, next),
         next.calm = install.calm,
         install.calm /\ ~Wedged /\ Undisputed(f) => Follows(Releases[tip], next, target)
  PROVE  Undisturbed'
<1>1. Typed /\ UNCHANGED <<tip, builder, built, site, target>>
  BY DEF CalmInv, GenuineInv, Asks, hub
<1>2. /\ SameInstall(install', next) /\ install'.calm = (next.calm /\ Undisputed(f))
      /\ cache'[u] = f.entry /\ \A x \in Urls : x # u => cache'[x] = cache[x]
  BY <1>1, AskingIs DEF Undisputed
<1>3. NewestUrls \subseteq Urls /\ NewestUrls' = NewestUrls
  BY <1>1, NewestUrlsAre DEF NewestUrls
<1>4. BuildWritten'
  BY <1>1 DEF CalmInv, Undisturbed, BuildWritten
<1>5. ASSUME install'.calm
      PROVE  Quiet' /\ (Wedged' \/ (CopiesCurrent' /\ Follows(Releases[tip'], install', target')))
  <2>1. install.calm /\ Undisputed(f)
    BY <1>2, <1>5
  <2>2. Quiet'
    BY <1>1, <2>1 DEF CalmInv, Undisturbed, Quiet
  <2>3. CASE Wedged
    <3>1. PICK x \in NewestUrls : cache[x].kept = "forever" /\ cache[x].body # site[x]
      BY <2>3 DEF Wedged
    <3>2. x = u => f.entry = cache[u]
      BY <1>1, <3>1, FetchIs DEF Asks, Hit
    <3>3. cache'[x] = cache[x]
      BY <1>2, <1>3, <3>2
    <3>4. Wedged'
      BY <1>1, <1>3, <3>1, <3>3 DEF Wedged
    <3> QED BY <2>2, <3>4
  <2>4. CASE ~Wedged
    <3>1. CopiesCurrent
      BY <2>1, <2>4 DEF CalmInv, Undisturbed
    <3>2. f.how = "copy" => f.entry = cache[u]
      BY <1>1, FetchIs DEF Asks
    <3>3. f.how = "host" => f.entry = cache[u] \/ f.entry.body = site[u]
      <4>1. f.how = "host" => f.entry = Copy(u, site[u]) \/ f.entry = cache[u]
        BY <1>1, FetchIs DEF Asks
      <4>2. Copy(u, site[u]).body = site[u]
        BY DEF Copy
      <4> QED BY <4>1, <4>2
    <3>4. f.entry = cache[u] \/ f.entry.body = site[u]
      BY <2>1, <3>2, <3>3 DEF Undisputed
    <3>5. u \in NewestUrls => (Hit(u)' => cache'[u].body = site'[u])
      BY <1>1, <1>2, <3>1, <3>4 DEF CopiesCurrent, Hit
    <3>6. \A x \in NewestUrls : x # u => (Hit(x)' => cache'[x].body = site'[x])
      BY <1>1, <1>2, <1>3, <3>1 DEF CopiesCurrent, Hit
    <3>7. CopiesCurrent'
      BY <1>3, <3>5, <3>6 DEF CopiesCurrent
    <3>8. Follows(Releases[tip'], install', target')
      BY <1>1, <1>2, <2>1, <2>4 DEF Follows, SameInstall
    <3> QED BY <2>2, <3>7, <3>8
  <2> QED BY <2>3, <2>4
<1> QED BY <1>4, <1>5 DEF Undisturbed

\* The body of a release is whole.
LEMMA BodyIs ==
  ASSUME NEW v, NEW t
  PROVE  Body(v, t).is = "whole" /\ Body(v, t).version = v /\ Body(v, t).tree = t
  BY DEF Body

LEMMA RequestKeepsCalm ==
  ASSUME Wrapped, CalmInv,
         ReadIndex \/ ReadManifest \/ ReadSidecar \/ CrossCheck \/ ReadTar
  PROVE  Undisturbed'
<1> DEFINE v == Releases[tip].version
           t == Releases[tip].tree
<1>1. Typed /\ install \in Installs /\ GenuineInv
  BY DEF CalmInv, GenuineInv, Typed
<1>2. Fails \in Installs /\ Fails.calm = install.calm
  BY <1>1, FailsIs
<1>3. install.at \in Versed => install.version \in Versions
  BY <1>1 DEF GenuineInv, Knows
<1>4. install.calm /\ ~Wedged =>
                      /\ v \in Versions /\ t \in FileTrees
                      /\ site[IndexUrl] = Body(0, NoTree) /\ site[ManifestUrl] = Body(v, t)
                      /\ site[SidecarUrl(v)] = Body(v, t) /\ site[TarUrl(v)] = Body(v, t)
                      /\ Follows(Releases[tip], install, target)
  BY RestingSite DEF CalmInv, GenuineInv, Undisturbed
<1>5. v \in Nat /\ NewestUrls = {IndexUrl, ManifestUrl, SidecarUrl(v), TarUrl(v)}
  BY <1>1, ReleasesAre DEF Typed, NewestUrls
<1> HIDE DEF v, t
<1>6. CASE ReadIndex
  <2>1. PICK f : Asks(IndexUrl, f, AfterIndex(f.got))
    BY <1>6, ReadIndexIs
  <2> DEFINE next == AfterIndex(f.got)
  <2>2. Advance("manifest") \in Installs /\ Advance("manifest").at = "manifest"
        /\ Advance("manifest").want = install.want /\ Advance("manifest").calm = install.calm
    BY <1>1, AdvanceIs DEF Asking
  <2>3. next \in Installs /\ next.calm = install.calm
    BY <1>2, <2>2 DEF AfterIndex
  <2>4. ASSUME install.calm, ~Wedged, Undisputed(f) PROVE Follows(Releases[tip], next, target)
    <3>1. f.got = site[IndexUrl]
      BY <1>5, <2>1, <2>4, CalmAnswer DEF Asks
    <3>2. next = Advance("manifest")
      BY <1>4, <2>4, <3>1, BodyIs DEF AfterIndex
    <3>3. install.at \in Asking
      BY <1>6 DEF ReadIndex, At, Asking
    <3>4. install.want \in {0, v}
      BY <1>4, <2>4, <3>3 DEF Follows, v
    <3> QED BY <2>2, <3>2, <3>4 DEF Follows, Versed, Hashed, Placing, v
  <2> HIDE DEF next
  <2>5. Asks(IndexUrl, f, next)
    BY <2>1 DEF next
  <2> QED BY <2>3, <2>4, <2>5, UrlsAre, AskKeepsCalm
<1>7. CASE ReadManifest
  <2>1. PICK f : Asks(ManifestUrl, f, AfterManifest(f.got))
    BY <1>7, ReadManifestIs
  <2> DEFINE next == AfterManifest(f.got)
  <2>2. f.got.version \in Nat
    BY <1>1, <2>1, UrlsAre, FetchIs DEF Asks, Bodies
  <2>3. /\ Versioned(f.got.version) \in Installs /\ Versioned(f.got.version).at = "sidecar"
        /\ Versioned(f.got.version).version = f.got.version
        /\ Versioned(f.got.version).calm = install.calm
    BY <1>1, <2>2, VersionedIs
  <2>4. next \in Installs /\ next.calm = install.calm
    BY <1>2, <2>3 DEF AfterManifest
  <2>5. ASSUME install.calm, ~Wedged, Undisputed(f) PROVE Follows(Releases[tip], next, target)
    <3>1. f.got = site[ManifestUrl]
      BY <1>5, <2>1, <2>5, CalmAnswer DEF Asks
    <3>2. f.got.is = "whole" /\ f.got.version = v
      BY <1>4, <2>5, <3>1, BodyIs
    <3>3. install.at \in Asking
      BY <1>7 DEF ReadManifest, At, Asking
    <3>4. install.want \in {0, v}
      BY <1>4, <2>5, <3>3 DEF Follows, v
    <3>5. next = Versioned(f.got.version)
      BY <3>2, <3>4 DEF AfterManifest
    <3> QED BY <2>3, <3>2, <3>5 DEF Follows, Asking, Hashed, Placing, v
  <2> HIDE DEF next
  <2>6. Asks(ManifestUrl, f, next)
    BY <2>1 DEF next
  <2> QED BY <2>4, <2>5, <2>6, UrlsAre, AskKeepsCalm
<1>8. CASE ReadSidecar
  <2> DEFINE u == SidecarUrl(install.version)
  <2>1. PICK f : Asks(u, f, AfterSidecar(f.got))
    BY <1>8, ReadSidecarIs
  <2> DEFINE next == AfterSidecar(f.got)
  <2>2. install.at \in Versed
    BY <1>8 DEF ReadSidecar, At, Versed
  <2>3. u \in Urls
    BY <1>3, <2>2, UrlsAre
  <2>4. f.got.tree \in FileTrees
    BY <1>1, <2>1, <2>3, FetchIs DEF Asks, Bodies
  <2>5. /\ Summed(f.got.tree) \in Installs /\ Summed(f.got.tree).at = "check"
        /\ Summed(f.got.tree).sum = f.got.tree
        /\ Summed(f.got.tree).version = install.version
        /\ Summed(f.got.tree).calm = install.calm
    BY <1>1, <2>4, SummedIs
  <2>6. next \in Installs /\ next.calm = install.calm
    BY <1>2, <2>5 DEF AfterSidecar
  <2>7. ASSUME install.calm, ~Wedged, Undisputed(f) PROVE Follows(Releases[tip], next, target)
    <3>1. install.version = v
      BY <1>4, <2>2, <2>7 DEF Follows, v
    <3>2. f.got = site[u]
      BY <1>5, <2>1, <2>7, <3>1, CalmAnswer DEF Asks
    <3>3. f.got.is = "whole" /\ f.got.tree = t
      BY <1>4, <2>7, <3>1, <3>2, BodyIs
    <3>4. next = Summed(f.got.tree)
      BY <3>3 DEF AfterSidecar
    <3> QED BY <2>5, <3>1, <3>3, <3>4 DEF Follows, Asking, v, t
  <2> HIDE DEF next, u
  <2>8. Asks(u, f, next)
    BY <2>1 DEF next
  <2> QED BY <2>3, <2>6, <2>7, <2>8, AskKeepsCalm
<1>9. CASE CrossCheck
  <2>1. PICK f : Asks(ManifestUrl, f, AfterCheck(f.got))
    BY <1>9, CrossCheckIs
  <2> DEFINE next == AfterCheck(f.got)
  <2>2. install.at \in Versed /\ install.at \in Hashed
    BY <1>9 DEF CrossCheck, At, Versed, Hashed
  <2>3. Advance("tar") \in Installs /\ Advance("tar").at = "tar"
        /\ Advance("tar").version = install.version /\ Advance("tar").sum = install.sum
        /\ Advance("tar").calm = install.calm
    BY <1>1, AdvanceIs DEF Versed, Hashed
  <2>4. next \in Installs /\ next.calm = install.calm
    BY <1>2, <2>3 DEF AfterCheck
  <2>5. ASSUME install.calm, ~Wedged, Undisputed(f) PROVE Follows(Releases[tip], next, target)
    <3>1. f.got = site[ManifestUrl]
      BY <1>5, <2>1, <2>5, CalmAnswer DEF Asks
    <3>2. install.version = v /\ install.sum = t
      BY <1>4, <2>2, <2>5 DEF Follows, v, t
    <3>3. f.got.tree = t
      BY <1>4, <2>5, <3>1, BodyIs
    <3>4. next = Advance("tar")
      BY <3>2, <3>3 DEF AfterCheck
    <3> QED BY <2>3, <3>2, <3>4 DEF Follows, Asking, v, t
  <2> HIDE DEF next
  <2>6. Asks(ManifestUrl, f, next)
    BY <2>1 DEF next
  <2> QED BY <2>4, <2>5, <2>6, UrlsAre, AskKeepsCalm
<1>10. CASE ReadTar
  <2> DEFINE u == TarUrl(install.version)
  <2>1. PICK f : Asks(u, f, Accept(f.got))
    BY <1>10, ReadTarIs
  <2> DEFINE next == Accept(f.got)
  <2>2. install.at \in Versed /\ install.at \in Hashed
    BY <1>10 DEF ReadTar, At, Versed, Hashed
  <2>3. u \in Urls
    BY <1>3, <2>2, UrlsAre
  <2>4. /\ Verified \in Installs /\ Verified.at = "write" /\ Verified.sum = install.sum
        /\ Verified.version = install.version /\ Verified.calm = install.calm
    BY <1>1, VerifiedIs
  <2>5. next \in Installs /\ next.calm = install.calm
    BY <1>2, <2>4 DEF Accept, Verified
  <2>6. ASSUME install.calm, ~Wedged, Undisputed(f) PROVE Follows(Releases[tip], next, target)
    <3>1. install.version = v /\ install.sum = t
      BY <1>4, <2>2, <2>6 DEF Follows, v, t
    <3>2. f.got = site[u]
      BY <1>5, <2>1, <2>6, <3>1, CalmAnswer DEF Asks
    <3>3. f.got.is = "whole" /\ f.got.tree = t
      BY <1>4, <2>6, <3>1, <3>2, BodyIs
    <3>4. Located(f.got.tree) = {install.sum}
      BY <3>1, <3>3 DEF Located
    <3>5. next = Verified
      BY <3>3, <3>4 DEF Accept, Verified
    <3> QED BY <2>4, <3>1, <3>5 DEF Follows, Asking, v, t
  <2> HIDE DEF next, u
  <2>7. Asks(u, f, next)
    BY <2>1 DEF next
  <2> QED BY <2>3, <2>5, <2>6, <2>7, AskKeepsCalm
<1> QED BY <1>6, <1>7, <1>8, <1>9, <1>10

\* Steps on the project's files.
LEMMA FileStepKeepsCalm ==
  ASSUME CalmInv, WriteFile \/ WriteSidecar \/ WriteMarker \/ Finish
  PROVE  Undisturbed'
<1>1. Typed /\ install \in Installs /\ target \in Targets
  BY DEF CalmInv, GenuineInv, Typed
<1>2. UNCHANGED <<tip, builder, built, site, cache>>
  BY DEF WriteFile, WriteSidecar, WriteMarker, Finish, hub, shared
<1>3. BuildWritten'
  BY <1>2 DEF CalmInv, Undisturbed, BuildWritten
<1>4. (Quiet => Quiet') /\ (CopiesCurrent => CopiesCurrent') /\ (Wedged => Wedged')
  BY <1>2 DEF Quiet, CopiesCurrent, Hit, NewestUrls, Wedged
<1>5. install'.calm = install.calm
      /\ (Follows(Releases[tip], install, target) => Follows(Releases[tip], install', target'))
  <2>1. CASE WriteFile
    <3>1. install.at = "write" /\ install'.at \in {"write", "sidecar file"}
          /\ install'.calm = install.calm /\ install'.version = install.version
          /\ install'.sum = install.sum
      BY <1>1, <2>1 DEF WriteFile, At, Installs
    <3> QED BY <3>1 DEF Follows, Asking, Versed, Hashed, Placing
  <2>2. CASE WriteSidecar
    <3>1. install.at = "sidecar file" /\ install'.at = "marker"
          /\ install'.calm = install.calm /\ install'.version = install.version
          /\ install'.sum = install.sum
      BY <1>1, <2>2 DEF WriteSidecar, At, Installs
    <3> QED BY <3>1 DEF Follows, Asking, Versed, Hashed, Placing
  <2>3. CASE WriteMarker
    <3>1. install.at = "marker" /\ install'.at = "ignore"
          /\ install'.calm = install.calm /\ install'.version = install.version
          /\ install'.sum = install.sum
      BY <1>1, <2>3 DEF WriteMarker, At, Installs
    <3> QED BY <3>1 DEF Follows, Asking, Versed, Hashed, Placing
  <2>4. CASE Finish
    <3>1. install.at = "ignore" /\ install'.at = "idle" /\ install'.result = "done"
          /\ install'.calm = install.calm
      BY <1>1, <2>4, EndedIs DEF Finish, At
    <3>2. target'.version = target.version /\ target'.hash = target.hash
      BY <1>1, <2>4 DEF Finish, Targets
    <3>3. target.version = install.version /\ target.hash = install.sum
      BY <3>1 DEF CalmInv, GenuineInv, Knows
    <3> QED BY <3>1, <3>2, <3>3 DEF Follows, Asking, Versed, Hashed, Placing
  <2> QED BY <2>1, <2>2, <2>3, <2>4
<1> QED BY <1>2, <1>3, <1>4, <1>5 DEF CalmInv, Undisturbed

LEMMA StartKeepsCalm ==
  ASSUME CalmInv, NEW want \in Versions \union {0}, NEW kindGiven \in BOOLEAN,
         Start(want, kindGiven)
  PROVE  Undisturbed'
<1>1. /\ install'.at \in Asking /\ install'.at \notin Versed /\ install'.at # "idle"
      /\ install'.want = want
      /\ install'.calm = (Quiet /\ Aged /\ want \in {0, Releases[tip].version})
      /\ UNCHANGED <<hub, cache, target>>
  BY StartIs DEF CalmInv, shared
<1>2. UNCHANGED <<tip, builder, built, site, cache>>
  BY <1>1 DEF hub
<1>3. BuildWritten'
  BY <1>2 DEF CalmInv, Undisturbed, BuildWritten
<1>4. ASSUME install'.calm
      PROVE  Quiet' /\ (Wedged' \/ (CopiesCurrent' /\ Follows(Releases[tip'], install', target')))
  <2>1. Quiet /\ Aged /\ want \in {0, Releases[tip].version}
    BY <1>1, <1>4
  <2>2. Quiet'
    BY <1>2, <2>1 DEF Quiet
  <2>3. ~Wedged => CopiesCurrent
    <3>1. NewestUrls \subseteq Urls
      BY NewestUrlsAre DEF CalmInv, GenuineInv
    <3> QED BY <2>1, <3>1 DEF CopiesCurrent, Hit, Aged, Wedged
  <2>4. Wedged' \/ CopiesCurrent'
    BY <1>2, <2>3 DEF CopiesCurrent, Hit, NewestUrls, Wedged
  <2>5. Follows(Releases[tip'], install', target')
    BY <1>1, <1>2, <2>1 DEF Follows, Versed
  <2> QED BY <2>2, <2>4, <2>5
<1> QED BY <1>3, <1>4 DEF Undisturbed

LEMMA ExpireKeepsCalm ==
  ASSUME CalmInv, NEW u \in Urls, Expire(u)
  PROVE  Undisturbed'
<1>1. /\ \A x \in Urls : cache'[x].body = cache[x].body
      /\ \A x \in Urls : cache'[x].kept = cache[x].kept \/ cache'[x].kept = "stale"
      /\ \A x \in Urls : cache[x].kept = "forever" => cache'[x].kept = "forever"
      /\ UNCHANGED <<tip, builder, built, site, install, target>>
  <2>1. cache \in [Urls -> Copies] /\ cache[u].kept = "fresh"
        /\ cache' = [cache EXCEPT ![u].kept = "stale"]
    BY DEF CalmInv, GenuineInv, Typed, Expire
  <2>2. \A x \in Urls : x # u => cache'[x] = cache[x]
    BY <2>1
  <2> QED BY <2>1, <2>2, ExpireIs DEF CalmInv, GenuineInv, hub
<1>2. BuildWritten'
  BY <1>1 DEF CalmInv, Undisturbed, BuildWritten
<1>3. NewestUrls \subseteq Urls /\ NewestUrls' = NewestUrls
  BY <1>1, NewestUrlsAre DEF CalmInv, GenuineInv, NewestUrls
<1>4. (Quiet => Quiet') /\ (CopiesCurrent => CopiesCurrent') /\ (Wedged => Wedged')
  BY <1>1, <1>3 DEF Quiet, CopiesCurrent, Hit, Wedged
<1> QED BY <1>1, <1>2, <1>4 DEF CalmInv, Undisturbed

\* Another install asks: nothing that this one uses changes.
LEMMA AskElsewhereKeepsCalm ==
  ASSUME CalmInv, NEW u \in Urls, AskElsewhere(u)
  PROVE  Undisturbed'
<1>1. UNCHANGED <<tip, builder, built, site, cache, install, target>>
  BY DEF AskElsewhere, hub
<1> QED BY <1>1 DEF CalmInv, Undisturbed, BuildWritten, Quiet, CopiesCurrent, Hit,
        NewestUrls, Wedged

\* It keeps what it got: this one is disturbed.
LEMMA KeepElsewhereKeepsCalm ==
  ASSUME CalmInv, KeepElsewhere
  PROVE  Undisturbed'
<1>1. ~install'.calm
  BY StirredIs DEF KeepElsewhere, CalmInv, GenuineInv, Typed
<1>2. UNCHANGED <<builder, built, site>>
  BY DEF KeepElsewhere, hub
<1> QED BY <1>1, <1>2 DEF CalmInv, Undisturbed, BuildWritten

LEMMA StopsKeepsCalm ==
  ASSUME CalmInv, Stops
  PROVE  Undisturbed'
<1>1. ~install'.calm /\ UNCHANGED <<builder, built, site>>
  BY StopsIs DEF CalmInv
<1> QED BY <1>1 DEF CalmInv, Undisturbed, BuildWritten

LEMMA ProducerKeepsCalm ==
  ASSUME CalmInv, Produces
  PROVE  Undisturbed'
<1>1. HubMoves /\ BuildWritten' /\ ~Stirred.calm
  BY ProducerMoves, ProducerKeepsWritten, StirredIs DEF CalmInv, GenuineInv, Undisturbed, Typed
<1> QED BY <1>1 DEF HubMoves, CalmInv, Undisturbed

LEMMA CalmInit == Init => CalmInv
<1> SUFFICES ASSUME Init PROVE Undisturbed
  BY GenuineInit DEF CalmInv
<1>1. ~install.calm /\ builder.at = 0 /\ built = 0
  BY EmptyRecords DEF Init
<1> QED BY <1>1 DEF Undisturbed, BuildWritten

LEMMA NextKeepsCalm ==
  ASSUME Wrapped, CalmInv, [Next]_vars
  PROVE  CalmInv'
<1>1. GenuineInv'
  BY NextKeepsGenuine DEF CalmInv
<1>2. Undisturbed'
  <2>1. CASE Produces
    BY <2>1, ProducerKeepsCalm
  <2>2. CASE (\E u \in Urls : Expire(u) \/ AskElsewhere(u)) \/ KeepElsewhere
    BY <2>2, ExpireKeepsCalm, AskElsewhereKeepsCalm, KeepElsewhereKeepsCalm
  <2>3. CASE \E want \in Versions \union {0}, kindGiven \in BOOLEAN : Start(want, kindGiven)
    BY <2>3, StartKeepsCalm
  <2>4. CASE InstallStep
    BY <2>4, RequestKeepsCalm, FileStepKeepsCalm DEF InstallStep
  <2>5. CASE Stops
    BY <2>5, StopsKeepsCalm
  <2>6. CASE UNCHANGED vars
    BY <2>6 DEF CalmInv, Undisturbed, BuildWritten, Quiet, CopiesCurrent, Hit, NewestUrls,
       Wedged, vars, hub, client, shared
  <2> QED BY <2>1, <2>2, <2>3, <2>4, <2>5, <2>6 DEF Next, Produces
<1> QED BY <1>1, <1>2 DEF CalmInv

(* With the archives of build-registry, whatever the host declares of what it sends, an
   install that nothing disturbs puts down the release of the tip, whatever earlier
   builds and installs, here and elsewhere, that stopped half-way have left on the site,
   in the cache and in the target: unless the cache holds, for ever, a copy of a file of
   that release that is not what the host has (http.go, fetchCached). *)
THEOREM CalmInstallsSucceed ==
  ASSUME Wrapped
  PROVE  Spec => []CalmInstallSucceeds
<1>1. CalmInv => CalmInstallSucceeds
  BY DEF CalmInv, Undisturbed, Follows, CalmInstallSucceeds
<1>2. CalmInv /\ [Next]_vars => CalmInv'
  BY NextKeepsCalm
<1> QED BY <1>1, <1>2, CalmInit, PTL DEF Spec

(***************************************************************************)
(* The mark in SKILL.md.                                                   *)
(***************************************************************************)
AnyText   == Plain \union Marks
TextLines == [text : AnyText, eol : Ends]
Documents == {doc \in Seq(TextLines) : \A i \in 1 .. Len(doc) - 1 : HasEnd(doc[i])}
Closes(line) == line.text = Fence /\ HasEnd(line)

(* The closing fence is the first line after the opening one that closes. *)
LEMMA CloseAtIs ==
  ASSUME NEW doc \in Seq(TextLines), CloseAt(doc) # 0
  PROVE  /\ CloseAt(doc) \in 2 .. Len(doc)
         /\ Closes(doc[CloseAt(doc)])
         /\ \A i \in 2 .. CloseAt(doc) - 1 : ~Closes(doc[i])
<1> DEFINE I == {i \in 2 .. Len(doc) : Closes(doc[i])}
<1>1. CloseAt(doc) = IF I # {} THEN Min(I) ELSE 0
  BY DEF CloseAt, SelectInSubSeq, Closes
<1>2. I # {} /\ I \in SUBSET Nat
  BY <1>1
<1>3. Min(I) \in I /\ \A x \in I : Min(I) <= x
  BY <1>2, LeastElement
<1>4. CloseAt(doc) \in I /\ \A x \in I : CloseAt(doc) <= x
  BY <1>1, <1>2, <1>3
<1> QED BY <1>4

LEMMA CloseAtFirst ==
  ASSUME NEW doc \in Seq(TextLines), NEW c \in 2 .. Len(doc), Closes(doc[c]),
         \A i \in 2 .. c - 1 : ~Closes(doc[i])
  PROVE  CloseAt(doc) = c
<1> DEFINE I == {i \in 2 .. Len(doc) : Closes(doc[i])}
<1>1. CloseAt(doc) = IF I # {} THEN Min(I) ELSE 0
  BY DEF CloseAt, SelectInSubSeq, Closes
<1>2. c \in I /\ I \in SUBSET Nat
  OBVIOUS
<1>3. Min(I) \in I /\ \A x \in I : Min(I) <= x
  BY <1>2, LeastElement
<1> QED BY <1>1, <1>2, <1>3

(* What it is to put other lines between the fences. *)
LEMMA WithBlockIs ==
  ASSUME NEW doc \in Seq(TextLines), NEW block \in Seq(TextLines), CloseAt(doc) # 0
  PROVE  LET new == WithBlock(doc, block)
             c   == CloseAt(doc)
         IN  /\ new \in Seq(TextLines)
             /\ Len(new) = Len(block) + Len(doc) - c + 2
             /\ new[1] = doc[1]
             /\ \A i \in 1 .. Len(block) : new[i + 1] = block[i]
             /\ \A i \in 0 .. Len(doc) - c : new[Len(block) + 2 + i] = doc[c + i]
<1> DEFINE c == CloseAt(doc)
           rest == SubSeq(doc, c, Len(doc))
           top == <<doc[1]>>
<1>1. c \in 2 .. Len(doc) /\ Len(doc) \in Nat /\ Len(block) \in Nat
  BY CloseAtIs
<1> HIDE DEF c
<1>2. /\ rest \in Seq(TextLines)
      /\ Len(rest) = Len(doc) - c + 1
      /\ \A i \in 1 .. Len(doc) - c + 1 : rest[i] = doc[c + i - 1]
  <2>1. \A i \in c .. Len(doc) : doc[i] \in TextLines
    BY <1>1
  <2> HIDE DEF TextLines
  <2> QED BY <2>1, <1>1, SubSeqProperties
<1>3. top \in Seq(TextLines) /\ Len(top) = 1 /\ top[1] = doc[1]
  BY <1>1
<1> HIDE DEF rest, top
<1>4. /\ top \o block \in Seq(TextLines) /\ Len(top \o block) = 1 + Len(block)
      /\ \A i \in 1 .. 1 + Len(block) :
           (top \o block)[i] = IF i <= 1 THEN top[i] ELSE block[i - 1]
  <2> HIDE DEF TextLines
  <2>1. /\ top \o block \in Seq(TextLines) /\ Len(top \o block) = Len(top) + Len(block)
        /\ \A i \in 1 .. Len(top) + Len(block) :
             (top \o block)[i] = IF i <= Len(top) THEN top[i] ELSE block[i - Len(top)]
    BY <1>3, ConcatProperties
  <2> QED BY <2>1, <1>3
<1> DEFINE front == top \o block
           new == front \o rest
<1>5. /\ new \in Seq(TextLines) /\ Len(new) = Len(front) + Len(rest)
      /\ \A i \in 1 .. Len(front) + Len(rest) :
           new[i] = IF i <= Len(front) THEN front[i] ELSE rest[i - Len(front)]
  <2> HIDE DEF front, TextLines
  <2>1. front \in Seq(TextLines)
    BY <1>4 DEF front
  <2> QED BY <1>2, <2>1, ConcatProperties
<1>6. new = WithBlock(doc, block)
  BY DEF WithBlock, rest, top, c
<1>7. Len(new) = Len(block) + Len(doc) - c + 2
  BY <1>1, <1>2, <1>4, <1>5
<1>8. new[1] = doc[1]
  BY <1>1, <1>2, <1>3, <1>4, <1>5
<1>9. ASSUME NEW i \in 1 .. Len(block) PROVE new[i + 1] = block[i]
  BY <1>1, <1>2, <1>4, <1>5
<1>10. ASSUME NEW i \in 0 .. Len(doc) - c PROVE new[Len(block) + 2 + i] = doc[c + i]
  <2>1. Len(block) + 2 + i \in 1 .. Len(front) + Len(rest) /\ ~(Len(block) + 2 + i <= Len(front))
        /\ Len(block) + 2 + i - Len(front) = i + 1
    BY <1>1, <1>2, <1>4
  <2>2. new[Len(block) + 2 + i] = rest[i + 1]
    BY <2>1, <1>5
  <2>3. i + 1 \in 1 .. Len(doc) - c + 1 /\ c + (i + 1) - 1 = c + i
    BY <1>1
  <2> QED BY <2>2, <2>3, <1>2
<1> HIDE DEF new
<1> QED BY <1>5, <1>6, <1>7, <1>8, <1>9, <1>10 DEF c

LEMMA BlockOfIs ==
  ASSUME NEW doc \in Seq(TextLines), CloseAt(doc) # 0
  PROVE  /\ BlockOf(doc) \in Seq(TextLines)
         /\ Len(BlockOf(doc)) = CloseAt(doc) - 2
         /\ \A i \in 1 .. CloseAt(doc) - 2 : BlockOf(doc)[i] = doc[i + 1]
<1> DEFINE c == CloseAt(doc)
<1>1. c \in 2 .. Len(doc) /\ Len(doc) \in Nat
  BY CloseAtIs
<1> HIDE DEF c
<1>2. \A i \in 2 .. c - 1 : doc[i] \in TextLines
  BY <1>1
<1> HIDE DEF TextLines
<1>3. /\ SubSeq(doc, 2, c - 1) \in Seq(TextLines)
      /\ Len(SubSeq(doc, 2, c - 1)) = IF 2 <= c - 1 THEN (c - 1) - 2 + 1 ELSE 0
      /\ \A i \in 1 .. (c - 1) - 2 + 1 : SubSeq(doc, 2, c - 1)[i] = doc[2 + i - 1]
  BY <1>1, <1>2, SubSeqProperties
<1>4. /\ SubSeq(doc, 2, c - 1) \in Seq(TextLines)
      /\ Len(SubSeq(doc, 2, c - 1)) = c - 2
      /\ \A i \in 1 .. c - 2 : SubSeq(doc, 2, c - 1)[i] = doc[i + 1]
  BY <1>1, <1>3
<1> QED BY <1>4 DEF BlockOf, c

(* The document with other lines between the fences has them between the fences. *)
LEMMA BlockReplaced ==
  ASSUME NEW doc \in Seq(TextLines), CloseAt(doc) # 0,
         NEW block \in Seq(TextLines), \A i \in 1 .. Len(block) : ~Closes(block[i])
  PROVE  LET new == WithBlock(doc, block)
         IN  /\ CloseAt(new) = Len(block) + 2
             /\ BlockOf(new) = block
             /\ \A other \in Seq(TextLines) : WithBlock(new, other) = WithBlock(doc, other)
<1> DEFINE new == WithBlock(doc, block)
           c == CloseAt(doc)
           m == Len(block) + 2
<1>1. c \in 2 .. Len(doc) /\ Closes(doc[c]) /\ Len(doc) \in Nat /\ Len(block) \in Nat
  BY CloseAtIs
<1>2. /\ new \in Seq(TextLines)
      /\ Len(new) = Len(block) + Len(doc) - c + 2
      /\ new[1] = doc[1]
      /\ \A i \in 1 .. Len(block) : new[i + 1] = block[i]
      /\ \A i \in 0 .. Len(doc) - c : new[Len(block) + 2 + i] = doc[c + i]
  BY WithBlockIs
<1> HIDE DEF new, c
<1>3. CloseAt(new) = m
  <2>1. m \in 2 .. Len(new)
    BY <1>1, <1>2
  <2>2. new[m] = doc[c]
    <3>1. 0 \in 0 .. Len(doc) - c /\ m + 0 = m /\ c + 0 = c
      BY <1>1
    <3> QED BY <3>1, <1>2
  <2>3. ASSUME NEW i \in 2 .. m - 1 PROVE ~Closes(new[i])
    <3>1. i - 1 \in 1 .. Len(block) /\ (i - 1) + 1 = i
      BY <1>1
    <3> QED BY <3>1, <1>2
  <2> HIDE DEF m
  <2> QED BY <1>1, <1>2, <2>1, <2>2, <2>3, CloseAtFirst
<1>4. CloseAt(new) # 0
  BY <1>1, <1>3
<1>5. BlockOf(new) = block
  <2>1. /\ BlockOf(new) \in Seq(TextLines)
        /\ Len(BlockOf(new)) = m - 2
        /\ \A i \in 1 .. m - 2 : BlockOf(new)[i] = new[i + 1]
    BY <1>2, <1>3, <1>4, BlockOfIs
  <2>2. Len(BlockOf(new)) = Len(block) /\ \A i \in 1 .. Len(block) : BlockOf(new)[i] = block[i]
    BY <1>1, <1>2, <2>1
  <2> HIDE DEF m, TextLines
  <2> QED BY <2>1, <2>2, SeqEqual
<1>6. ASSUME NEW other \in Seq(TextLines) PROVE WithBlock(new, other) = WithBlock(doc, other)
  <2>1. Len(new) - m = Len(doc) - c
    BY <1>1, <1>2
  <2>2. \A i \in 0 .. Len(doc) - c : new[m + i] = doc[c + i]
    BY <1>2
  <2> DEFINE x == WithBlock(new, other)
             y == WithBlock(doc, other)
  <2>3. /\ x \in Seq(TextLines)
        /\ Len(x) = Len(other) + Len(new) - m + 2
        /\ x[1] = new[1]
        /\ \A i \in 1 .. Len(other) : x[i + 1] = other[i]
        /\ \A i \in 0 .. Len(new) - m : x[Len(other) + 2 + i] = new[m + i]
    <3> DEFINE closing == CloseAt(new)
    <3>1. /\ x \in Seq(TextLines)
          /\ Len(x) = Len(other) + Len(new) - closing + 2
          /\ x[1] = new[1]
          /\ \A i \in 1 .. Len(other) : x[i + 1] = other[i]
          /\ \A i \in 0 .. Len(new) - closing : x[Len(other) + 2 + i] = new[closing + i]
      <4>1. new \in Seq(TextLines) /\ CloseAt(new) # 0
        BY <1>2, <1>4
      <4> QED BY <4>1, WithBlockIs
    <3> HIDE DEF m, x
    <3> QED BY <1>3, <3>1
  <2>4. /\ y \in Seq(TextLines)
        /\ Len(y) = Len(other) + Len(doc) - c + 2
        /\ y[1] = doc[1]
        /\ \A i \in 1 .. Len(other) : y[i + 1] = other[i]
        /\ \A i \in 0 .. Len(doc) - c : y[Len(other) + 2 + i] = doc[c + i]
    BY WithBlockIs DEF c
  <2> HIDE DEF x, y
  <2>5. Len(x) = Len(y) /\ Len(x) \in Nat /\ Len(other) \in Nat /\ m \in Nat /\ Len(new) \in Nat
    <3>1. m \in Nat /\ Len(other) \in Nat /\ Len(new) \in Nat
      BY <1>1, <1>2
    <3> HIDE DEF m
    <3>2. Len(x) = Len(other) + Len(new) - m + 2 /\ Len(y) = Len(other) + Len(doc) - c + 2
      BY <2>3, <2>4
    <3>3. Len(x) \in Nat
      BY <2>3
    <3> QED BY <2>1, <3>1, <3>2, <3>3
  <2> HIDE DEF m
  <2>6. ASSUME NEW i \in 1 .. Len(x) PROVE x[i] = y[i]
    <3>1. CASE i = 1
      BY <3>1, <1>2, <2>3, <2>4
    <3>2. CASE i \in 2 .. Len(other) + 1
      <4>1. i - 1 \in 1 .. Len(other) /\ (i - 1) + 1 = i
        BY <3>2, <2>5
      <4> QED BY <4>1, <2>3, <2>4
    <3>3. CASE i > Len(other) + 1
      <4> DEFINE j == i - Len(other) - 2
      <4>1. j \in 0 .. Len(doc) - c /\ Len(other) + 2 + j = i
        BY <3>3, <2>4, <2>5, <1>1
      <4>2. j \in 0 .. Len(new) - m
        BY <4>1, <2>1
      <4> HIDE DEF j
      <4> QED BY <4>1, <4>2, <2>2, <2>3, <2>4
    <3> QED BY <3>1, <3>2, <3>3, <2>5
  <2>7. x = y
    BY <2>3, <2>4, <2>5, <2>6, SeqEqual
  <2> QED BY <2>7 DEF x, y
<1> QED BY <1>3, <1>5, <1>6 DEF new

(* The first mark among the lines. *)
IsMark(line) == line.text \in Marks
MarkAt(block) == SelectInSeq(block, LAMBDA l : l.text \in Marks)

LEMMA MarkAtIs ==
  ASSUME NEW block \in Seq(TextLines)
  PROVE  \/ MarkAt(block) = 0 /\ \A i \in 1 .. Len(block) : ~IsMark(block[i])
         \/ /\ MarkAt(block) \in 1 .. Len(block) /\ IsMark(block[MarkAt(block)])
            /\ \A i \in 1 .. MarkAt(block) - 1 : ~IsMark(block[i])
<1> DEFINE I == {i \in 1 .. Len(block) : IsMark(block[i])}
<1>1. MarkAt(block) = IF I # {} THEN Min(I) ELSE 0
  BY DEF MarkAt, SelectInSeq, IsMark
<1>2. CASE I = {}
  BY <1>1, <1>2
<1>3. CASE I # {}
  <2>1. I \in SUBSET Nat
    OBVIOUS
  <2>2. Min(I) \in I /\ \A x \in I : Min(I) <= x
    BY <1>3, <2>1, LeastElement
  <2>3. MarkAt(block) \in I /\ \A x \in I : MarkAt(block) <= x
    BY <1>1, <1>3, <2>2
  <2> QED BY <2>3
<1> QED BY <1>2, <1>3

LEMMA MarkAtFirst ==
  ASSUME NEW block \in Seq(TextLines), NEW k \in 1 .. Len(block), IsMark(block[k]),
         \A i \in 1 .. k - 1 : ~IsMark(block[i])
  PROVE  MarkAt(block) = k
<1> USE MarkAtIs
<1>1. k \in Nat /\ Len(block) \in Nat
  OBVIOUS
<1> QED BY <1>1

LEMMA MarkedIs ==
  ASSUME NEW block \in Seq(TextLines), NEW ref \in Refs
  PROVE  LET new == ReplaceOrAppendKey(block, ref)
             k   == MarkAt(block)
         IN  /\ new \in Seq(TextLines)
             /\ k # 0 => /\ new = [block EXCEPT ![k].text = ref]
                         /\ Len(new) = Len(block)
                         /\ \A i \in 1 .. Len(block) :
                              new[i] = IF i = k THEN Line(ref, block[i].eol) ELSE block[i]
             /\ k = 0 => /\ new = Append(block, Line(ref, LineEnding(block)))
                         /\ Len(new) = Len(block) + 1
                         /\ \A i \in 1 .. Len(block) : new[i] = block[i]
                         /\ new[Len(block) + 1] = Line(ref, LineEnding(block))
<1> DEFINE new == ReplaceOrAppendKey(block, ref)
           k   == MarkAt(block)
           last == Line(ref, LineEnding(block))
<1>1. new = IF k # 0 THEN [block EXCEPT ![k].text = ref] ELSE Append(block, last)
  BY DEF ReplaceOrAppendKey, MarkAt
<1>2. CASE k # 0
  <2>1. k \in 1 .. Len(block)
    BY <1>2, MarkAtIs
  <2> HIDE DEF k
  <2>2. block[k] \in TextLines
    BY <2>1
  <2> DEFINE line == [block[k] EXCEPT !.text = ref]
  <2>3. line = Line(ref, block[k].eol) /\ line \in TextLines
    BY <2>2 DEF TextLines, AnyText, Marks, Line
  <2>4. new = [block EXCEPT ![k] = line]
    BY <1>1, <1>2
  <2> HIDE DEF line, TextLines
  <2>5. /\ [block EXCEPT ![k] = line] \in Seq(TextLines)
        /\ Len([block EXCEPT ![k] = line]) = Len(block)
        /\ \A j \in 1 .. Len(block) :
             [block EXCEPT ![k] = line][j] = IF j = k THEN line ELSE block[j]
    BY <2>1, <2>3, ExceptSeq
  <2>6. \A i \in 1 .. Len(block) : new[i] = IF i = k THEN Line(ref, block[i].eol) ELSE block[i]
    BY <2>3, <2>4, <2>5
  <2>7. new \in Seq(TextLines) /\ Len(new) = Len(block)
    BY <2>4, <2>5
  <2>8. new = [block EXCEPT ![k].text = ref]
    BY <1>1, <1>2
  <2> HIDE DEF new
  <2> QED BY <1>2, <2>6, <2>7, <2>8 DEF new, k
<1>3. CASE k = 0
  <2>1. last \in TextLines
    BY DEF Line, LineEnding, TextLines, AnyText, Marks, Ends
  <2> HIDE DEF last, TextLines
  <2>2. new = Append(block, last)
    BY <1>1, <1>3
  <2>3. /\ new \in Seq(TextLines) /\ Len(new) = Len(block) + 1
        /\ \A i \in 1 .. Len(block) : new[i] = block[i]
        /\ new[Len(block) + 1] = last
    BY <2>1, <2>2, AppendProperties
  <2> HIDE DEF new, k
  <2> QED BY <1>3, <2>2, <2>3 DEF last, new, k
<1> QED BY <1>2, <1>3

(* Marking lines again is marking them once. *)
LEMMA MarkedAgain ==
  ASSUME NEW block \in Seq(TextLines), NEW r \in Refs, NEW s \in Refs
  PROVE  ReplaceOrAppendKey(ReplaceOrAppendKey(block, r), s) = ReplaceOrAppendKey(block, s)
<1> DEFINE one   == ReplaceOrAppendKey(block, r)
           two   == ReplaceOrAppendKey(one, s)
           other == ReplaceOrAppendKey(block, s)
           k     == MarkAt(block)
           m     == MarkAt(one)
           end   == LineEnding(block)
<1>1. Line(r, end).eol = end /\ IsMark(Line(r, end)) /\ \A e : Line(r, e).eol = e /\ IsMark(Line(r, e))
  BY DEF Line, IsMark, Marks
<1>2. one \in Seq(TextLines) /\ Len(block) \in Nat
  BY MarkedIs
<1>3. two \in Seq(TextLines) /\ other \in Seq(TextLines)
  <2> HIDE DEF one
  <2> QED BY <1>2, MarkedIs
<1>4. CASE k # 0
  <2>1. /\ Len(one) = Len(block)
        /\ \A i \in 1 .. Len(block) : one[i] = IF i = k THEN Line(r, block[i].eol) ELSE block[i]
    BY <1>4, MarkedIs
  <2>2. /\ Len(other) = Len(block)
        /\ \A i \in 1 .. Len(block) : other[i] = IF i = k THEN Line(s, block[i].eol) ELSE block[i]
    BY <1>4, MarkedIs
  <2>3. k \in 1 .. Len(block) /\ \A i \in 1 .. k - 1 : ~IsMark(block[i])
    BY <1>4, MarkAtIs
  <2> HIDE DEF one, k, other
  <2>4. m = k
    <3>1. k \in 1 .. Len(one) /\ IsMark(one[k]) /\ \A i \in 1 .. k - 1 : ~IsMark(one[i])
      BY <2>1, <2>3, <1>1, <1>2
    <3> QED BY <3>1, <1>2, MarkAtFirst
  <2>5. /\ Len(two) = Len(one)
        /\ \A i \in 1 .. Len(one) : two[i] = IF i = k THEN Line(s, one[i].eol) ELSE one[i]
    <3>1. m # 0 /\ one \in Seq(TextLines)
      BY <2>3, <2>4, <1>2
    <3>2. /\ Len(two) = Len(one)
          /\ \A i \in 1 .. Len(one) : two[i] = IF i = m THEN Line(s, one[i].eol) ELSE one[i]
      BY <3>1, MarkedIs
    <3> HIDE DEF m, two
    <3> QED BY <2>4, <3>2
  <2> HIDE DEF two
  <2>6. Len(two) = Len(other) /\ \A i \in 1 .. Len(two) : two[i] = other[i]
    BY <1>1, <2>1, <2>2, <2>3, <2>5
  <2>7. two = other
    BY <1>3, <2>6, SeqEqual
  <2> QED BY <2>7 DEF one, two, other
<1>5. CASE k = 0
  <2>1. /\ Len(one) = Len(block) + 1
        /\ \A i \in 1 .. Len(block) : one[i] = block[i]
        /\ one[Len(block) + 1] = Line(r, end)
    BY <1>5, MarkedIs
  <2>2. /\ Len(other) = Len(block) + 1
        /\ \A i \in 1 .. Len(block) : other[i] = block[i]
        /\ other[Len(block) + 1] = Line(s, end)
    BY <1>5, MarkedIs
  <2>3. \A i \in 1 .. Len(block) : ~IsMark(block[i])
    BY <1>5, MarkAtIs
  <2> HIDE DEF one, k, other, end
  <2> DEFINE n == Len(block) + 1
  <2>4. m = n
    <3>1. n \in 1 .. Len(one) /\ IsMark(one[n]) /\ \A i \in 1 .. n - 1 : ~IsMark(one[i])
      BY <2>1, <2>3, <1>1, <1>2
    <3> HIDE DEF n
    <3> QED BY <3>1, <1>2, MarkAtFirst
  <2>5. /\ Len(two) = Len(one)
        /\ \A i \in 1 .. Len(one) : two[i] = IF i = n THEN Line(s, one[i].eol) ELSE one[i]
    <3>1. m # 0 /\ one \in Seq(TextLines)
      BY <2>4, <1>2
    <3>2. /\ Len(two) = Len(one)
          /\ \A i \in 1 .. Len(one) : two[i] = IF i = m THEN Line(s, one[i].eol) ELSE one[i]
      BY <3>1, MarkedIs
    <3> HIDE DEF m, n, two
    <3> QED BY <2>4, <3>2
  <2> HIDE DEF two
  <2>6. ASSUME NEW i \in 1 .. Len(two) PROVE two[i] = other[i]
    <3>1. CASE i = n
      <4>1. two[i] = Line(s, one[n].eol) /\ one[n] = Line(r, end) /\ other[i] = Line(s, end)
        BY <3>1, <2>1, <2>2, <2>5, <1>2
      <4> QED BY <4>1, <1>1
    <3>2. CASE i # n
      <4>1. i \in 1 .. Len(block)
        BY <3>2, <2>1, <2>5, <1>2
      <4> QED BY <4>1, <3>2, <2>1, <2>2, <2>5
    <3> QED BY <3>1, <3>2
  <2>7. Len(two) = Len(other)
    BY <2>1, <2>2, <2>5
  <2>8. two = other
    BY <1>3, <2>6, <2>7, SeqEqual
  <2> QED BY <2>8 DEF one, two, other
<1> QED BY <1>4, <1>5

(* A marked block closes where it did, and its lines are ended. *)
LEMMA MarkedLines ==
  ASSUME NEW block \in Seq(TextLines), NEW ref \in Refs,
         \A i \in 1 .. Len(block) : ~Closes(block[i]) /\ HasEnd(block[i])
  PROVE  \A i \in 1 .. Len(ReplaceOrAppendKey(block, ref)) :
           LET line == ReplaceOrAppendKey(block, ref)[i]
           IN  ~Closes(line) /\ HasEnd(line)
<1> DEFINE new == ReplaceOrAppendKey(block, ref)
           k   == MarkAt(block)
<1>1. ref # Fence
  BY TextAssumption DEF Plain, Marks
<1>2. \A e : ~Closes(Line(ref, e))
  BY <1>1 DEF Closes, Line
<1>3. \A e : e # "none" => HasEnd(Line(ref, e))
  BY DEF HasEnd, Line
<1>4. LineEnding(block) # "none" /\ Len(block) \in Nat
  BY DEF LineEnding
<1>5. \A i \in 1 .. Len(block) : block[i].eol # "none"
  BY DEF HasEnd
<1> SUFFICES ASSUME NEW i \in 1 .. Len(new) PROVE ~Closes(new[i]) /\ HasEnd(new[i])
  OBVIOUS
<1>6. CASE k # 0
  <2>1. Len(new) = Len(block) /\ new[i] = IF i = k THEN Line(ref, block[i].eol) ELSE block[i]
    BY <1>6, MarkedIs
  <2> QED BY <2>1, <1>2, <1>3, <1>5
<1>7. CASE k = 0
  <2>1. /\ Len(new) = Len(block) + 1
        /\ \A j \in 1 .. Len(block) : new[j] = block[j]
        /\ new[Len(block) + 1] = Line(ref, LineEnding(block))
    BY <1>7, MarkedIs
  <2> HIDE DEF new
  <2> QED BY <2>1, <1>2, <1>3, <1>4
<1> QED BY <1>6, <1>7

(* Drop, as a table of what is left of the first n lines. *)
DropTable(f, seq, out) ==
  /\ f[0] = <<>>
  /\ \A n \in 1 .. Len(seq) : f[n] = IF seq[n] \in out THEN f[n - 1] ELSE Append(f[n - 1], seq[n])

LEMMA DropIs ==
  ASSUME NEW S, NEW seq \in Seq(S), NEW out
  PROVE  \E f \in [0 .. Len(seq) -> Seq(S)] : DropTable(f, seq, out) /\ Drop(seq, out) = f[Len(seq)]
<1> DEFINE N == Len(seq)
           B == Seq(S)
           H == [n \in 1 .. N |-> [t \in B |-> IF seq[n] \in out THEN t ELSE Append(t, seq[n])]]
           Loop(f) == f = [n \in 0 .. N |-> IF n = 0 THEN <<>>
                             ELSE IF seq[n] \in out THEN f[n - 1] ELSE Append(f[n - 1], seq[n])]
           kept == CHOOSE f : Loop(f)
           start == <<>>
<1>1. Drop(seq, out) = kept[N]
  BY DEF Drop
<1>2. N \in Nat /\ \A n \in 1 .. N : seq[n] \in S
  OBVIOUS
<1>3. H \in [1 .. N -> [B -> B]]
  <2> SUFFICES ASSUME NEW n \in 1 .. N, NEW t \in B
               PROVE  (IF seq[n] \in out THEN t ELSE Append(t, seq[n])) \in B
    OBVIOUS
  <2>1. seq[n] \in S
    BY <1>2
  <2> QED BY <2>1, AppendProperties
<1>4. start \in B
  OBVIOUS
<1> HIDE DEF N, B, H, Loop, kept, start
<1> DEFINE f == Stepping(B, start, N, H)
<1>5. f \in [0 .. N -> B] /\ f[0] = start /\ \A n \in 1 .. N : f[n] = H[n][f[n - 1]]
  BY <1>2, <1>3, <1>4, Stepwise
<1> HIDE DEF f
<1>6. ASSUME NEW n \in 1 .. N
      PROVE  H[n][f[n - 1]] = IF seq[n] \in out THEN f[n - 1] ELSE Append(f[n - 1], seq[n])
  <2>1. f[n - 1] \in B
    BY <1>2, <1>5
  <2> QED BY <2>1 DEF H
<1>7. Loop(f)
  <2>1. \A n \in 0 .. N : f[n] = IF n = 0 THEN <<>>
                                 ELSE IF seq[n] \in out THEN f[n - 1] ELSE Append(f[n - 1], seq[n])
    <3> SUFFICES ASSUME NEW n \in 0 .. N
                 PROVE  f[n] = IF n = 0 THEN <<>>
                               ELSE IF seq[n] \in out THEN f[n - 1] ELSE Append(f[n - 1], seq[n])
      OBVIOUS
    <3>1. CASE n = 0
      BY <3>1, <1>5 DEF start
    <3>2. CASE n # 0
      <4>1. n \in 1 .. N
        BY <3>2, <1>2
      <4>2. f[n] = H[n][f[n - 1]]
        BY <4>1, <1>5
      <4> QED BY <3>2, <4>1, <4>2, <1>6
    <3> QED BY <3>1, <3>2
  <2> QED BY <1>5, <2>1 DEF Loop
<1>8. Loop(kept)
  BY <1>7 DEF kept
<1>9. kept = f
  <2> DEFINE E == {n \in Nat : n <= N => kept[n] = f[n]}
  <2>1. \A n \in 0 .. N : kept[n] = IF n = 0 THEN <<>>
                ELSE IF seq[n] \in out THEN kept[n - 1] ELSE Append(kept[n - 1], seq[n])
    BY <1>8 DEF Loop
  <2>2. \A n \in 0 .. N : f[n] = IF n = 0 THEN <<>>
                ELSE IF seq[n] \in out THEN f[n - 1] ELSE Append(f[n - 1], seq[n])
    BY <1>7 DEF Loop
  <2>3. 0 \in E
    BY <2>1, <2>2, <1>2
  <2>4. ASSUME NEW n \in Nat, n \in E PROVE n + 1 \in E
    <3> SUFFICES ASSUME n + 1 <= N PROVE kept[n + 1] = f[n + 1]
      OBVIOUS
    <3>1. kept[n] = f[n] /\ n + 1 \in 0 .. N /\ n + 1 # 0 /\ (n + 1) - 1 = n
      BY <2>4, <1>2
    <3> QED BY <3>1, <2>1, <2>2
  <2>5. Nat \subseteq E
    <3> HIDE DEF E
    <3> QED BY <2>3, <2>4, InductionOn
  <2>6. \A n \in 0 .. N : kept[n] = f[n]
    BY <2>5, <1>2
  <2>7. kept = [n \in 0 .. N |-> kept[n]]
    BY <1>8 DEF Loop
  <2>8. f = [n \in 0 .. N |-> f[n]]
    BY <1>5
  <2>9. [n \in 0 .. N |-> kept[n]] = [n \in 0 .. N |-> f[n]]
    BY <2>6
  <2> QED BY <2>7, <2>8, <2>9
<1>10. DropTable(f, seq, out)
  BY <1>2, <1>5, <1>6 DEF DropTable, N, start
<1>11. f \in [0 .. Len(seq) -> Seq(S)] /\ Drop(seq, out) = f[Len(seq)]
  BY <1>1, <1>5, <1>9 DEF N, B
<1> QED BY <1>10, <1>11

Agree(f, g, n) == f[n] = g[n]

(* Lines that are dropped do not matter. *)
LEMMA TablesAgree ==
  ASSUME NEW s, NEW t, NEW out, NEW f, NEW g, NEW N \in Nat,
         DropTable(f, s, out), DropTable(g, t, out),
         Len(s) \in Nat, Len(t) \in Nat, N <= Len(s), N <= Len(t),
         \A i \in 1 .. N : s[i] = t[i] \/ (s[i] \in out /\ t[i] \in out)
  PROVE  Agree(f, g, N)
<1> DEFINE E == {n \in Nat : n <= N => f[n] = g[n]}
<1>1. 0 \in E
  BY DEF DropTable
<1>2. ASSUME NEW n \in Nat, n \in E PROVE n + 1 \in E
  <2> SUFFICES ASSUME n + 1 <= N PROVE f[n + 1] = g[n + 1]
    OBVIOUS
  <2>1. f[n] = g[n] /\ n + 1 \in 1 .. N /\ n + 1 \in 1 .. Len(s) /\ n + 1 \in 1 .. Len(t) /\ (n + 1) - 1 = n
    BY <1>2
  <2>2. f[n + 1] = IF s[n + 1] \in out THEN f[n] ELSE Append(f[n], s[n + 1])
    BY <2>1 DEF DropTable
  <2>3. g[n + 1] = IF t[n + 1] \in out THEN g[n] ELSE Append(g[n], t[n + 1])
    BY <2>1 DEF DropTable
  <2>4. s[n + 1] = t[n + 1] \/ (s[n + 1] \in out /\ t[n + 1] \in out)
    BY <2>1
  <2> QED BY <2>1, <2>2, <2>3, <2>4
<1>3. Nat \subseteq E
  <2> HIDE DEF E
  <2> QED BY <1>1, <1>2, InductionOn
<1> QED BY <1>3 DEF Agree

LEMMA DropReplaced ==
  ASSUME NEW S, NEW s \in Seq(S), NEW t \in Seq(S), NEW out, Len(s) = Len(t),
         \A i \in 1 .. Len(s) : s[i] = t[i] \/ (s[i] \in out /\ t[i] \in out)
  PROVE  Drop(s, out) = Drop(t, out)
<1>1. PICK f \in [0 .. Len(s) -> Seq(S)] : DropTable(f, s, out) /\ Drop(s, out) = f[Len(s)]
  BY DropIs
<1>2. PICK g \in [0 .. Len(t) -> Seq(S)] : DropTable(g, t, out) /\ Drop(t, out) = g[Len(t)]
  BY DropIs
<1>3. Len(s) \in Nat
  OBVIOUS
<1>4. f[Len(s)] = g[Len(s)]
  <2> DEFINE m == Len(s)
  <2>1. /\ m \in Nat /\ Len(s) \in Nat /\ Len(t) \in Nat /\ m <= Len(s) /\ m <= Len(t)
        /\ \A i \in 1 .. m : s[i] = t[i] \/ (s[i] \in out /\ t[i] \in out)
    BY <1>3
  <2>2. DropTable(f, s, out) /\ DropTable(g, t, out)
    BY <1>1, <1>2
  <2> HIDE DEF m
  <2>3. Agree(f, g, m)
    BY <2>1, <2>2, TablesAgree
  <2> QED BY <2>3 DEF m, Agree
<1> QED BY <1>1, <1>2, <1>4

LEMMA DropAppended ==
  ASSUME NEW S, NEW s \in Seq(S), NEW t \in Seq(S), NEW out, Len(t) = Len(s) + 1,
         \A i \in 1 .. Len(s) : s[i] = t[i], t[Len(t)] \in out
  PROVE  Drop(t, out) = Drop(s, out)
<1>1. PICK f \in [0 .. Len(s) -> Seq(S)] : DropTable(f, s, out) /\ Drop(s, out) = f[Len(s)]
  BY DropIs
<1>2. PICK g \in [0 .. Len(t) -> Seq(S)] : DropTable(g, t, out) /\ Drop(t, out) = g[Len(t)]
  BY DropIs
<1>3. Len(s) \in Nat /\ Len(t) \in 1 .. Len(t) /\ Len(t) - 1 = Len(s)
  OBVIOUS
<1>4. f[Len(s)] = g[Len(s)]
  <2> DEFINE m == Len(s)
  <2>1. /\ m \in Nat /\ Len(s) \in Nat /\ Len(t) \in Nat /\ m <= Len(s) /\ m <= Len(t)
        /\ \A i \in 1 .. m : s[i] = t[i] \/ (s[i] \in out /\ t[i] \in out)
    BY <1>3
  <2>2. DropTable(f, s, out) /\ DropTable(g, t, out)
    BY <1>1, <1>2
  <2> HIDE DEF m
  <2>3. Agree(f, g, m)
    BY <2>1, <2>2, TablesAgree
  <2> QED BY <2>3 DEF m, Agree
<1>5. g[Len(t)] = g[Len(s)]
  BY <1>2, <1>3 DEF DropTable
<1> QED BY <1>1, <1>2, <1>4, <1>5

(* Without its marks a marked block is what it was. *)
MarkLines == [text : Marks, eol : Ends]

LEMMA MarkedDrops ==
  ASSUME NEW block \in Seq(TextLines), NEW ref \in Refs
  PROVE  Drop(ReplaceOrAppendKey(block, ref), MarkLines) = Drop(block, MarkLines)
<1> DEFINE new == ReplaceOrAppendKey(block, ref)
           k   == MarkAt(block)
           end == LineEnding(block)
<1>1. \A e \in Ends : Line(ref, e) \in MarkLines
  BY DEF Line, MarkLines, Marks
<1>2. end \in Ends
  BY DEF LineEnding, Ends
<1>3. new \in Seq(TextLines)
  BY MarkedIs
<1>4. CASE k # 0
  <2>1. /\ Len(new) = Len(block)
        /\ \A i \in 1 .. Len(block) : new[i] = IF i = k THEN Line(ref, block[i].eol) ELSE block[i]
    BY <1>4, MarkedIs
  <2>2. k \in 1 .. Len(block) /\ IsMark(block[k])
    BY <1>4, MarkAtIs
  <2> HIDE DEF new, k
  <2>3. block[k] \in TextLines
    BY <2>2
  <2>4. block[k] \in MarkLines /\ block[k].eol \in Ends
    BY <2>2, <2>3 DEF TextLines, MarkLines, IsMark
  <2>5. \A i \in 1 .. Len(block) : block[i] = new[i] \/ (block[i] \in MarkLines /\ new[i] \in MarkLines)
    BY <2>1, <2>4, <1>1
  <2> HIDE DEF TextLines
  <2>6. Drop(block, MarkLines) = Drop(new, MarkLines)
    BY <1>3, <2>1, <2>5, DropReplaced
  <2> QED BY <2>6 DEF new
<1>5. CASE k = 0
  <2>1. /\ Len(new) = Len(block) + 1
        /\ \A i \in 1 .. Len(block) : block[i] = new[i]
        /\ new[Len(block) + 1] = Line(ref, end)
    BY <1>5, MarkedIs
  <2>2. new[Len(new)] \in MarkLines
    BY <2>1, <1>1, <1>2
  <2> HIDE DEF new, TextLines
  <2>3. Drop(new, MarkLines) = Drop(block, MarkLines)
    BY <1>3, <2>1, <2>2, DropAppended
  <2> QED BY <2>3 DEF new
<1> QED BY <1>4, <1>5

LEMMA BlockLines ==
  ASSUME NEW doc \in Documents, CloseAt(doc) # 0
  PROVE  \A i \in 1 .. Len(BlockOf(doc)) : ~Closes(BlockOf(doc)[i]) /\ HasEnd(BlockOf(doc)[i])
<1>1. doc \in Seq(TextLines) /\ \A i \in 1 .. Len(doc) - 1 : HasEnd(doc[i])
  BY DEF Documents
<1>2. CloseAt(doc) \in 2 .. Len(doc) /\ \A i \in 2 .. CloseAt(doc) - 1 : ~Closes(doc[i])
  BY <1>1, CloseAtIs
<1>3. /\ Len(BlockOf(doc)) = CloseAt(doc) - 2
      /\ \A i \in 1 .. CloseAt(doc) - 2 : BlockOf(doc)[i] = doc[i + 1]
  BY <1>1, BlockOfIs
<1> SUFFICES ASSUME NEW i \in 1 .. Len(BlockOf(doc))
             PROVE  ~Closes(BlockOf(doc)[i]) /\ HasEnd(BlockOf(doc)[i])
  OBVIOUS
<1>4. i + 1 \in 2 .. CloseAt(doc) - 1 /\ i + 1 \in 1 .. Len(doc) - 1 /\ i \in 1 .. CloseAt(doc) - 2
  BY <1>2, <1>3
<1> QED BY <1>1, <1>2, <1>3, <1>4

(* What a mark makes of a document with a closed frontmatter. *)
LEMMA ClosedIsMarked ==
  ASSUME NEW doc \in Documents, NEW ref \in Refs, HasFrontmatter(doc), CloseAt(doc) # 0
  PROVE  LET new   == Marked(doc, ref)
             block == ReplaceOrAppendKey(BlockOf(doc), ref)
         IN  /\ new = WithBlock(doc, block)
             /\ new \in Documents /\ HasFrontmatter(new)
             /\ block \in Seq(TextLines)
             /\ CloseAt(new) = Len(block) + 2 /\ CloseAt(new) # 0
             /\ BlockOf(new) = block
             /\ \A other \in Seq(TextLines) : WithBlock(new, other) = WithBlock(doc, other)
<1> DEFINE new   == Marked(doc, ref)
           old   == BlockOf(doc)
           block == ReplaceOrAppendKey(old, ref)
           c     == CloseAt(doc)
<1>1. new = WithBlock(doc, block)
  BY DEF Marked
<1>2. doc \in Seq(TextLines) /\ old \in Seq(TextLines) /\ c \in 2 .. Len(doc) /\ Len(doc) \in Nat
  BY BlockOfIs, CloseAtIs DEF Documents
<1>3. \A i \in 1 .. Len(old) : ~Closes(old[i]) /\ HasEnd(old[i])
  BY BlockLines
<1> HIDE DEF old
<1>4. block \in Seq(TextLines)
  BY <1>2, MarkedIs
<1>5. \A i \in 1 .. Len(block) : ~Closes(block[i]) /\ HasEnd(block[i])
  BY <1>2, <1>3, MarkedLines
<1> HIDE DEF block, new
<1>6. /\ CloseAt(new) = Len(block) + 2
      /\ BlockOf(new) = block
      /\ \A other \in Seq(TextLines) : WithBlock(new, other) = WithBlock(doc, other)
  BY <1>1, <1>2, <1>4, <1>5, BlockReplaced
<1>7. /\ new \in Seq(TextLines)
      /\ Len(new) = Len(block) + Len(doc) - c + 2
      /\ new[1] = doc[1]
      /\ \A i \in 1 .. Len(block) : new[i + 1] = block[i]
      /\ \A i \in 0 .. Len(doc) - c : new[Len(block) + 2 + i] = doc[c + i]
  <2>1. doc \in Seq(TextLines) /\ block \in Seq(TextLines) /\ CloseAt(doc) # 0
    BY <1>2, <1>4
  <2> DEFINE whole == WithBlock(doc, block)
  <2>2. /\ whole \in Seq(TextLines)
        /\ Len(whole) = Len(block) + Len(doc) - c + 2
        /\ whole[1] = doc[1]
        /\ \A i \in 1 .. Len(block) : whole[i + 1] = block[i]
        /\ \A i \in 0 .. Len(doc) - c : whole[Len(block) + 2 + i] = doc[c + i]
    BY <2>1, WithBlockIs
  <2> QED BY <1>1, <2>2
<1>8. Len(block) \in Nat
  BY <1>4
<1> HIDE DEF c
<1>9. HasFrontmatter(new)
  <2>1. new # <<>>
    BY <1>2, <1>7, <1>8
  <2> QED BY <2>1, <1>7 DEF HasFrontmatter
<1>10. \A i \in 1 .. Len(new) - 1 : HasEnd(new[i])
  <2> SUFFICES ASSUME NEW i \in 1 .. Len(new) - 1 PROVE HasEnd(new[i])
    OBVIOUS
  <2>1. CASE i = 1
    BY <2>1, <1>7 DEF HasFrontmatter
  <2>2. CASE i \in 2 .. Len(block) + 1
    <3>1. i - 1 \in 1 .. Len(block) /\ (i - 1) + 1 = i
      BY <2>2, <1>8
    <3> QED BY <3>1, <1>5, <1>7
  <2>3. CASE i > Len(block) + 1
    <3> DEFINE j == i - Len(block) - 2
    <3>1. j \in 0 .. Len(doc) - c /\ Len(block) + 2 + j = i /\ c + j \in 1 .. Len(doc) - 1
      BY <2>3, <1>2, <1>7, <1>8
    <3> HIDE DEF j
    <3>2. HasEnd(doc[c + j])
      BY <3>1 DEF Documents
    <3> QED BY <3>1, <3>2, <1>7
  <2> QED BY <2>1, <2>2, <2>3, <1>8
<1>11. new \in Documents /\ CloseAt(new) # 0
  BY <1>6, <1>7, <1>8, <1>10 DEF Documents
<1> QED BY <1>1, <1>4, <1>6, <1>9, <1>11 DEF new, block, old

(* A document without a frontmatter gets one that is only a mark. *)
LEMMA FreshIs ==
  ASSUME NEW doc \in Seq(TextLines), NEW ref \in Refs
  PROVE  LET new == Fresh(ref) \o doc
         IN  /\ new \in Seq(TextLines)
             /\ Len(new) = 3 + Len(doc)
             /\ new[1] = Line(Fence, "lf") /\ new[2] = Line(ref, "lf") /\ new[3] = Line(Fence, "lf")
             /\ \A i \in 1 .. Len(doc) : new[3 + i] = doc[i]
<1> DEFINE top == Fresh(ref)
           new == top \o doc
<1>1. Line(Fence, "lf") \in TextLines /\ Line(ref, "lf") \in TextLines
  BY DEF Line, TextLines, AnyText, Plain, Marks, Ends
<1>2. /\ top \in Seq(TextLines) /\ Len(top) = 3
      /\ top[1] = Line(Fence, "lf") /\ top[2] = Line(ref, "lf") /\ top[3] = Line(Fence, "lf")
  BY <1>1 DEF Fresh
<1> HIDE DEF top, TextLines
<1>3. /\ new \in Seq(TextLines) /\ Len(new) = Len(top) + Len(doc)
      /\ \A i \in 1 .. Len(top) + Len(doc) :
           new[i] = IF i <= Len(top) THEN top[i] ELSE doc[i - Len(top)]
  BY <1>2, ConcatProperties
<1>4. Len(doc) \in Nat
  OBVIOUS
<1> HIDE DEF new
<1>5. new[1] = top[1] /\ new[2] = top[2] /\ new[3] = top[3]
  BY <1>2, <1>3, <1>4
<1>6. ASSUME NEW i \in 1 .. Len(doc) PROVE new[3 + i] = doc[i]
  BY <1>2, <1>3, <1>4
<1> QED BY <1>2, <1>3, <1>5, <1>6 DEF new, top

LEMMA FreshIsReplaced ==
  ASSUME NEW doc \in Seq(TextLines), NEW r \in Refs, NEW s \in Refs
  PROVE  Marked(Fresh(r) \o doc, s) = Fresh(s) \o doc
<1> DEFINE new   == Fresh(r) \o doc
           other == Fresh(s) \o doc
           fence == Line(Fence, "lf")
           mark  == Line(r, "lf")
           next  == Line(s, "lf")
<1>1. /\ new \in Seq(TextLines) /\ Len(new) = 3 + Len(doc)
      /\ new[1] = fence /\ new[2] = mark /\ new[3] = fence
      /\ \A i \in 1 .. Len(doc) : new[3 + i] = doc[i]
  BY FreshIs
<1>2. /\ other \in Seq(TextLines) /\ Len(other) = 3 + Len(doc)
      /\ other[1] = fence /\ other[2] = next /\ other[3] = fence
      /\ \A i \in 1 .. Len(doc) : other[3 + i] = doc[i]
  BY FreshIs
<1>3. Len(doc) \in Nat /\ Closes(fence) /\ ~Closes(mark) /\ IsMark(mark) /\ mark.eol = "lf"
      /\ next \in TextLines /\ mark \in TextLines
  BY TextAssumption DEF Closes, Line, HasEnd, IsMark, TextLines, AnyText, Plain, Marks, Ends
<1>4. HasFrontmatter(new)
  <2>1. new # <<>>
    <3> HIDE DEF new
    <3> QED BY <1>1, <1>3
  <2>2. fence.text = Fence /\ HasEnd(fence)
    BY <1>3 DEF Closes
  <2> QED BY <2>1, <2>2, <1>1 DEF HasFrontmatter
<1> HIDE DEF new, other, fence, mark, next, TextLines
<1>5. CloseAt(new) = 3
  <2>1. 3 \in 2 .. Len(new) /\ Closes(new[3]) /\ \A i \in 2 .. 3 - 1 : ~Closes(new[i])
    <3>1. \A i \in 2 .. 3 - 1 : i = 2
      OBVIOUS
    <3> QED BY <3>1, <1>1, <1>3
  <2> QED BY <1>1, <2>1, CloseAtFirst
<1> DEFINE block == BlockOf(new)
           two   == ReplaceOrAppendKey(block, s)
<1>6. block \in Seq(TextLines) /\ Len(block) = 1 /\ block[1] = mark
  <2>1. CloseAt(new) # 0
    BY <1>5
  <2>2. /\ block \in Seq(TextLines) /\ Len(block) = CloseAt(new) - 2
        /\ \A i \in 1 .. CloseAt(new) - 2 : block[i] = new[i + 1]
    BY <1>1, <2>1, BlockOfIs
  <2> HIDE DEF block
  <2> QED BY <2>2, <1>1, <1>5
<1> HIDE DEF block
<1>7. two \in Seq(TextLines) /\ Len(two) = 1 /\ two[1] = next
  <2>1. MarkAt(block) = 1
    <3>1. 1 \in 1 .. Len(block) /\ IsMark(block[1]) /\ \A i \in 1 .. 1 - 1 : ~IsMark(block[i])
      BY <1>3, <1>6
    <3> QED BY <1>6, <3>1, MarkAtFirst
  <2>2. /\ two \in Seq(TextLines) /\ Len(two) = Len(block)
        /\ \A i \in 1 .. Len(block) : two[i] = IF i = 1 THEN Line(s, block[i].eol) ELSE block[i]
    <3>1. MarkAt(block) # 0
      BY <2>1
    <3>2. /\ two \in Seq(TextLines) /\ Len(two) = Len(block)
          /\ \A i \in 1 .. Len(block) :
               two[i] = IF i = MarkAt(block) THEN Line(s, block[i].eol) ELSE block[i]
      BY <1>6, <3>1, MarkedIs
    <3> HIDE DEF two
    <3> QED BY <2>1, <3>2
  <2> HIDE DEF two
  <2>3. two[1] = Line(s, mark.eol)
    BY <2>2, <1>6
  <2> QED BY <2>2, <2>3, <1>3, <1>6 DEF next
<1> HIDE DEF two
<1>8. Marked(new, s) = WithBlock(new, two)
  BY <1>4, <1>5 DEF Marked, block, two
<1> DEFINE again == WithBlock(new, two)
<1>9. /\ again \in Seq(TextLines)
      /\ Len(again) = Len(two) + Len(new) - 3 + 2
      /\ again[1] = new[1]
      /\ \A i \in 1 .. Len(two) : again[i + 1] = two[i]
      /\ \A i \in 0 .. Len(new) - 3 : again[Len(two) + 2 + i] = new[3 + i]
  <2>1. CloseAt(new) # 0
    BY <1>5
  <2>2. /\ again \in Seq(TextLines)
        /\ Len(again) = Len(two) + Len(new) - CloseAt(new) + 2
        /\ again[1] = new[1]
        /\ \A i \in 1 .. Len(two) : again[i + 1] = two[i]
        /\ \A i \in 0 .. Len(new) - CloseAt(new) : again[Len(two) + 2 + i] = new[CloseAt(new) + i]
    BY <1>1, <1>7, <2>1, WithBlockIs
  <2> HIDE DEF again
  <2> QED BY <1>5, <2>2
<1> HIDE DEF again
<1>10. Len(again) = Len(other)
  BY <1>1, <1>2, <1>3, <1>7, <1>9
<1>11. ASSUME NEW i \in 1 .. Len(again) PROVE again[i] = other[i]
  <2>1. CASE i = 1
    BY <2>1, <1>1, <1>2, <1>9
  <2>2. CASE i = 2
    <3>1. again[1 + 1] = two[1]
      BY <1>7, <1>9
    <3> QED BY <2>2, <3>1, <1>2, <1>7
  <2>3. CASE i >= 3
    <3>1. i - 3 \in 0 .. Len(new) - 3 /\ Len(two) + 2 + (i - 3) = i /\ 3 + (i - 3) = i
      BY <2>3, <1>1, <1>2, <1>3, <1>7, <1>10
    <3>2. again[i] = new[i]
      BY <3>1, <1>9
    <3>3. new[i] = other[i]
      <4>1. CASE i = 3
        BY <4>1, <1>1, <1>2
      <4>2. CASE i # 3
        <5>1. i - 3 \in 1 .. Len(doc) /\ 3 + (i - 3) = i
          BY <4>2, <2>3, <1>2, <1>3, <1>10
        <5> QED BY <5>1, <1>1, <1>2
      <4> QED BY <4>1, <4>2
    <3> QED BY <3>2, <3>3
  <2> QED BY <2>1, <2>2, <2>3, <1>2, <1>3, <1>10
<1>12. again = other
  BY <1>2, <1>9, <1>10, <1>11, SeqEqual
<1> QED BY <1>8, <1>12 DEF again, new, other

(* Marks do not pile up, and leave the rest as it was. *)
LEMMA MarkIsReplaced ==
  ASSUME NEW doc \in Documents, NEW r \in Refs, NEW s \in Refs
  PROVE  LET new == Marked(doc, r)
         IN  /\ Marked(new, s) = Marked(doc, s)
             /\ HasFrontmatter(doc) => Unmarked(new) = Unmarked(doc)
<1>1. CASE ~HasFrontmatter(doc)
  BY <1>1, FreshIsReplaced DEF Marked, Documents
<1>2. CASE HasFrontmatter(doc) /\ CloseAt(doc) = 0
  BY <1>2 DEF Marked
<1>3. CASE HasFrontmatter(doc) /\ CloseAt(doc) # 0
  <2> DEFINE new   == Marked(doc, r)
             old   == BlockOf(doc)
             block == ReplaceOrAppendKey(old, r)
  <2>1. /\ HasFrontmatter(new) /\ CloseAt(new) # 0 /\ BlockOf(new) = block
        /\ \A other \in Seq(TextLines) : WithBlock(new, other) = WithBlock(doc, other)
    BY <1>3, ClosedIsMarked
  <2>2. old \in Seq(TextLines)
    BY <1>3, BlockOfIs DEF Documents
  <2> HIDE DEF new, old
  <2>3. Marked(new, s) = Marked(doc, s)
    <3>1. Marked(new, s) = WithBlock(new, ReplaceOrAppendKey(block, s))
      BY <2>1 DEF Marked
    <3>2. ReplaceOrAppendKey(block, s) = ReplaceOrAppendKey(old, s)
      BY <2>2, MarkedAgain
    <3>3. ReplaceOrAppendKey(old, s) \in Seq(TextLines)
      BY <2>2, MarkedIs
    <3>4. Marked(doc, s) = WithBlock(doc, ReplaceOrAppendKey(old, s))
      BY <1>3 DEF Marked, old
    <3> QED BY <3>1, <3>2, <3>3, <3>4, <2>1
  <2>4. Unmarked(new) = Unmarked(doc)
    <3>1. Unmarked(new) = WithBlock(new, Drop(block, MarkLines))
      BY <2>1 DEF Unmarked, MarkLines
    <3>2. Drop(block, MarkLines) = Drop(old, MarkLines)
      BY <2>2, MarkedDrops
    <3>3. Drop(old, MarkLines) \in Seq(TextLines)
      <4>1. PICK f \in [0 .. Len(old) -> Seq(TextLines)] :
                DropTable(f, old, MarkLines) /\ Drop(old, MarkLines) = f[Len(old)]
        <5> HIDE DEF TextLines
        <5> QED BY <2>2, DropIs
      <4>2. Len(old) \in 0 .. Len(old)
        BY <2>2
      <4> QED BY <4>1, <4>2
    <3>4. Unmarked(doc) = WithBlock(doc, Drop(old, MarkLines))
      BY <1>3 DEF Unmarked, MarkLines, old
    <3> QED BY <3>1, <3>2, <3>3, <3>4, <2>1
  <2> QED BY <2>3, <2>4 DEF new
<1> QED BY <1>1, <1>2, <1>3

(***************************************************************************)
(* Documents as the publisher's checks read them.                          *)
(***************************************************************************)
LEMMA ParsedCloseIs ==
  ASSUME NEW doc \in Documents, CloseAt(doc) # 0
  PROVE  ParsedClose(doc) = CloseAt(doc)
<1> DEFINE I == {i \in 2 .. Len(doc) : doc[i].text = Fence}
           c == CloseAt(doc)
<1>1. ParsedClose(doc) = IF I # {} THEN Min(I) ELSE 0
  BY DEF ParsedClose, SelectInSubSeq
<1>2. /\ c \in 2 .. Len(doc) /\ Closes(doc[c]) /\ \A i \in 2 .. c - 1 : ~Closes(doc[i])
      /\ Len(doc) \in Nat /\ \A i \in 1 .. Len(doc) - 1 : HasEnd(doc[i])
  BY CloseAtIs DEF Documents
<1> HIDE DEF c
<1>3. c \in I /\ I \in SUBSET Nat
  BY <1>2 DEF Closes
<1>4. Min(I) \in I /\ \A x \in I : Min(I) <= x
  BY <1>3, LeastElement
<1>5. ASSUME NEW i \in 2 .. c - 1 PROVE doc[i].text # Fence
  <2>1. i \in 1 .. Len(doc) - 1
    BY <1>2
  <2> QED BY <1>2, <2>1 DEF Closes
<1>6. Min(I) = c
  <2>1. Min(I) \in 2 .. Len(doc) /\ doc[Min(I)].text = Fence /\ Min(I) <= c
    BY <1>3, <1>4
  <2> HIDE DEF I
  <2> QED BY <1>2, <1>5, <2>1
<1> QED BY <1>1, <1>3, <1>6 DEF c

LEMMA TextsAre ==
  ASSUME NEW lines \in Seq(TextLines)
  PROVE  /\ Texts(lines) \in Seq(AnyText) /\ Len(Texts(lines)) = Len(lines)
         /\ DOMAIN Texts(lines) = 1 .. Len(lines)
         /\ \A i \in 1 .. Len(lines) : Texts(lines)[i] = lines[i].text
<1>1. Len(lines) \in Nat /\ DOMAIN lines = 1 .. Len(lines)
  OBVIOUS
<1>2. ASSUME NEW i \in 1 .. Len(lines) PROVE lines[i].text \in AnyText
  <2>1. lines[i] \in TextLines
    OBVIOUS
  <2> QED BY <2>1 DEF TextLines
<1>3. Texts(lines) = [i \in 1 .. Len(lines) |-> lines[i].text]
  BY <1>1 DEF Texts
<1>4. Texts(lines) \in [1 .. Len(lines) -> AnyText]
  BY <1>2, <1>3
<1>5. Texts(lines) \in Seq(AnyText) /\ Len(Texts(lines)) = Len(lines)
  BY <1>1, <1>4
<1> QED BY <1>3, <1>5

\* The texts of a frontmatter that was marked: a mark has another reference, or the last
\* text is the only mark.
MarkedText(old, new, ref) ==
  /\ old \in Seq(AnyText) /\ new \in Seq(AnyText)
  /\ \/ /\ Len(new) = Len(old)
        /\ \A i \in 1 .. Len(old) : new[i] = old[i] \/ (old[i] \in Marks /\ new[i] = ref)
        /\ \E i \in 1 .. Len(old) : new[i] = ref
     \/ /\ Len(new) = Len(old) + 1
        /\ \A i \in 1 .. Len(old) : new[i] = old[i] /\ old[i] \notin Marks
        /\ new[Len(old) + 1] = ref

LEMMA MarkedTexts ==
  ASSUME NEW block \in Seq(TextLines), NEW ref \in Refs
  PROVE  MarkedText(Texts(block), Texts(ReplaceOrAppendKey(block, ref)), ref)
<1> DEFINE new == ReplaceOrAppendKey(block, ref)
           k   == MarkAt(block)
<1>1. new \in Seq(TextLines) /\ Len(block) \in Nat
  BY MarkedIs
<1>2. /\ Texts(block) \in Seq(AnyText) /\ Len(Texts(block)) = Len(block)
      /\ \A i \in 1 .. Len(block) : Texts(block)[i] = block[i].text
  BY TextsAre
<1>3. /\ Texts(new) \in Seq(AnyText) /\ Len(Texts(new)) = Len(new)
      /\ \A i \in 1 .. Len(new) : Texts(new)[i] = new[i].text
  <2> HIDE DEF new
  <2> QED BY <1>1, TextsAre
<1>4. \A e : Line(ref, e).text = ref
  BY DEF Line
<1>5. CASE k # 0
  <2>1. /\ Len(new) = Len(block)
        /\ \A i \in 1 .. Len(block) : new[i] = IF i = k THEN Line(ref, block[i].eol) ELSE block[i]
    BY <1>5, MarkedIs
  <2>2. k \in 1 .. Len(block) /\ block[k].text \in Marks
    BY <1>5, MarkAtIs DEF IsMark
  <2> HIDE DEF new, k
  <2>3. Texts(new)[k] = ref /\ Texts(block)[k] \in Marks
    BY <2>1, <2>2, <1>2, <1>3, <1>4
  <2>4. \A i \in 1 .. Len(block) :
          Texts(new)[i] = Texts(block)[i] \/ (Texts(block)[i] \in Marks /\ Texts(new)[i] = ref)
    BY <2>1, <2>3, <1>2, <1>3
  <2>5. MarkedText(Texts(block), Texts(new), ref)
    BY <2>1, <2>2, <2>3, <2>4, <1>2, <1>3 DEF MarkedText
  <2> QED BY <2>5 DEF new
<1>6. CASE k = 0
  <2>1. /\ Len(new) = Len(block) + 1
        /\ \A i \in 1 .. Len(block) : new[i] = block[i]
        /\ new[Len(block) + 1] = Line(ref, LineEnding(block))
    BY <1>6, MarkedIs
  <2>2. \A i \in 1 .. Len(block) : block[i].text \notin Marks
    BY <1>6, MarkAtIs DEF IsMark
  <2> HIDE DEF new
  <2>3. \A i \in 1 .. Len(block) : Texts(new)[i] = Texts(block)[i] /\ Texts(block)[i] \notin Marks
    BY <2>1, <2>2, <1>1, <1>2, <1>3
  <2>4. Texts(new)[Len(block) + 1] = ref
    BY <2>1, <1>1, <1>3, <1>4
  <2>5. MarkedText(Texts(block), Texts(new), ref)
    BY <2>1, <2>3, <2>4, <1>2, <1>3 DEF MarkedText
  <2> QED BY <2>5 DEF new
<1> QED BY <1>5, <1>6

LEMMA KeyIs ==
  /\ \A t \in Refs : Key(t) = "installed_from" /\ t \notin Plain
  /\ \A t \in Plain : Key(t) = t /\ Key(t) # "installed_from" /\ t \notin Refs /\ t # Held
  /\ Held \notin Refs
BY TextAssumption DEF Key, Marks

(* What a mark does to the texts that the checks look at. *)
LEMMA MarkedTextIs ==
  ASSUME NEW old, NEW new, NEW ref \in Refs, MarkedText(old, new, ref), ~Contains(old, Held)
  PROVE  /\ \A t \in Plain : Contains(new, t) <=> Contains(old, t)
         /\ Contains(new, ref) /\ ~Contains(new, Held)
         /\ Drop(new, Refs) = Drop(old, Refs)
         /\ (\A i \in 1 .. Len(old) : Key(old[i]) \in PortableKeys)
              => \A i \in 1 .. Len(new) : Key(new[i]) \in PortableKeys
         /\ (\A i, j \in 1 .. Len(old) : Key(old[i]) = Key(old[j]) => i = j)
              => \A i, j \in 1 .. Len(new) : Key(new[i]) = Key(new[j]) => i = j
<1>1. /\ old \in Seq(AnyText) /\ new \in Seq(AnyText) /\ Len(old) \in Nat
      /\ \A i \in 1 .. Len(old) : old[i] \in Plain \union Refs
  <2>1. /\ old \in Seq(AnyText) /\ new \in Seq(AnyText) /\ Len(old) \in Nat
        /\ \A i \in 1 .. Len(old) : old[i] \in AnyText
    BY DEF MarkedText
  <2>2. \A i \in 1 .. Len(old) : old[i] # Held
    BY DEF Contains
  <2> QED BY <2>1, <2>2 DEF AnyText, Marks
<1>2. Key(ref) = "installed_from" /\ ref \notin Plain /\ ref # Held
  BY KeyIs
<1> USE DEF Marks
<1>3. CASE /\ Len(new) = Len(old)
           /\ \A i \in 1 .. Len(old) : new[i] = old[i] \/ (old[i] \in Marks /\ new[i] = ref)
           /\ \E i \in 1 .. Len(old) : new[i] = ref
  <2>0. \A i \in 1 .. Len(old) : new[i] = old[i] \/ (old[i] \in Refs /\ new[i] = ref)
    BY <1>1, <1>3, KeyIs
  <2>1. \A t \in Plain : Contains(new, t) <=> Contains(old, t)
    BY <1>2, <1>3, <2>0, KeyIs DEF Contains
  <2>2. Contains(new, ref) /\ ~Contains(new, Held)
    BY <1>2, <1>3 DEF Contains
  <2>3. Drop(old, Refs) = Drop(new, Refs)
    <3>1. \A i \in 1 .. Len(old) : old[i] = new[i] \/ (old[i] \in Refs /\ new[i] \in Refs)
      BY <2>0
    <3> QED BY <1>1, <1>3, <3>1, DropReplaced
  <2>4. \A i \in 1 .. Len(old) : Key(new[i]) = Key(old[i])
    BY <1>2, <2>0, KeyIs
  <2> QED BY <1>3, <2>1, <2>2, <2>3, <2>4
<1>4. CASE /\ Len(new) = Len(old) + 1
           /\ \A i \in 1 .. Len(old) : new[i] = old[i] /\ old[i] \notin Marks
           /\ new[Len(old) + 1] = ref
  <2> DEFINE n == Len(old) + 1
  <2>1. \A i \in 1 .. Len(new) : i = n \/ (i \in 1 .. Len(old) /\ i # n)
    BY <1>1, <1>4
  <2>2. n \in 1 .. Len(new) /\ \A i \in 1 .. Len(old) : i \in 1 .. Len(new)
    BY <1>1, <1>4
  <2>3. new[n] = ref
    BY <1>4
  <2> HIDE DEF n
  <2>4. \A t \in Plain : Contains(new, t) <=> Contains(old, t)
    BY <1>2, <1>4, <2>1, <2>2, <2>3 DEF Contains
  <2>5. Contains(new, ref) /\ ~Contains(new, Held)
    BY <1>2, <1>4, <2>1, <2>2, <2>3 DEF Contains
  <2>6. Drop(new, Refs) = Drop(old, Refs)
    <3>1. \A i \in 1 .. Len(old) : old[i] = new[i]
      BY <1>4
    <3>2. new[Len(new)] \in Refs
      BY <1>4
    <3> QED BY <1>1, <1>4, <3>1, <3>2, DropAppended
  <2>7. \A i \in 1 .. Len(old) : Key(new[i]) = Key(old[i]) /\ Key(new[i]) # "installed_from"
    <3> SUFFICES ASSUME NEW i \in 1 .. Len(old)
                 PROVE  Key(new[i]) = Key(old[i]) /\ Key(new[i]) # "installed_from"
      OBVIOUS
    <3>1. new[i] = old[i] /\ old[i] \in Plain
      BY <1>1, <1>4
    <3> QED BY <3>1, KeyIs
  <2>8. Key(new[n]) = "installed_from"
    BY <1>2, <2>3
  <2>9. (\A i \in 1 .. Len(old) : Key(old[i]) \in PortableKeys)
          => \A i \in 1 .. Len(new) : Key(new[i]) \in PortableKeys
    BY <2>1, <2>7, <2>8 DEF PortableKeys
  <2>10. (\A i, j \in 1 .. Len(old) : Key(old[i]) = Key(old[j]) => i = j)
           => \A i, j \in 1 .. Len(new) : Key(new[i]) = Key(new[j]) => i = j
    BY <2>1, <2>7, <2>8
  <2> QED BY <2>4, <2>5, <2>6, <2>9, <2>10
<1> QED BY <1>3, <1>4 DEF MarkedText

LEMMA BodyTextsAre ==
  ASSUME NEW doc \in Seq(TextLines), CloseAt(doc) # 0
  PROVE  LET body == SubSeq(doc, CloseAt(doc) + 1, Len(doc))
         IN  /\ body \in Seq(TextLines) /\ Len(body) = Len(doc) - CloseAt(doc)
             /\ \A i \in 1 .. Len(doc) - CloseAt(doc) : body[i] = doc[CloseAt(doc) + i]
<1> DEFINE c == CloseAt(doc)
           body == SubSeq(doc, c + 1, Len(doc))
<1>1. c \in 2 .. Len(doc) /\ Len(doc) \in Nat
  BY CloseAtIs
<1> HIDE DEF c
<1>2. \A i \in c + 1 .. Len(doc) : doc[i] \in TextLines
  BY <1>1
<1> HIDE DEF TextLines
<1>3. /\ body \in Seq(TextLines)
      /\ Len(body) = IF c + 1 <= Len(doc) THEN Len(doc) - (c + 1) + 1 ELSE 0
      /\ \A i \in 1 .. Len(doc) - (c + 1) + 1 : body[i] = doc[(c + 1) + i - 1]
  BY <1>1, <1>2, SubSeqProperties
<1> HIDE DEF body
<1>4. Len(body) = Len(doc) - c
  BY <1>1, <1>3
<1>5. ASSUME NEW i \in 1 .. Len(doc) - c PROVE body[i] = doc[c + i]
  <2>1. i \in 1 .. Len(doc) - (c + 1) + 1 /\ (c + 1) + i - 1 = c + i
    BY <1>1
  <2> QED BY <1>3, <2>1
<1> QED BY <1>3, <1>4, <1>5 DEF body, c

(* What was published can be published again, marked. *)
LEMMA MarkedIsPublishable ==
  ASSUME NEW doc \in Documents, NEW ref \in Refs, Publishable(doc),
         ~Contains(Frontmatter(doc), Held)
  PROVE  LET new == Marked(doc, ref)
         IN  /\ Publishable(new)
             /\ BodyTexts(new) = BodyTexts(doc)
             /\ Drop(Frontmatter(new), Refs) = Drop(Frontmatter(doc), Refs)
             /\ CloseAt(doc) # 0 => Contains(Frontmatter(new), ref)
<1> DEFINE new   == Marked(doc, ref)
           old   == BlockOf(doc)
           block == ReplaceOrAppendKey(old, ref)
<1>1. HasFrontmatter(doc)
  <2> SUFFICES ASSUME ~HasFrontmatter(doc) PROVE FALSE
    OBVIOUS
  <2>1. Frontmatter(doc) = <<>> /\ Contains(Frontmatter(doc), Named)
    BY DEF Frontmatter, Publishable
  <2> QED BY <2>1 DEF Contains
<1>2. CASE CloseAt(doc) = 0
  BY <1>1, <1>2 DEF Marked
<1>3. CASE CloseAt(doc) # 0
  <2>1. doc \in Seq(TextLines) /\ old \in Seq(TextLines) /\ CloseAt(doc) \in 2 .. Len(doc)
    BY <1>3, BlockOfIs, CloseAtIs DEF Documents
  <2>2. /\ new = WithBlock(doc, block)
        /\ new \in Documents /\ HasFrontmatter(new)
        /\ block \in Seq(TextLines)
        /\ CloseAt(new) = Len(block) + 2 /\ CloseAt(new) # 0
        /\ BlockOf(new) = block
    BY <1>1, <1>3, ClosedIsMarked
  <2> HIDE DEF new, old
  <2>3. Frontmatter(doc) = Texts(old) /\ ParsedClose(doc) = CloseAt(doc)
    BY <1>1, <1>3, ParsedCloseIs DEF Frontmatter, old, BlockOf
  <2>4. Frontmatter(new) = Texts(block) /\ ParsedClose(new) = CloseAt(new)
    BY <2>2, ParsedCloseIs DEF Frontmatter, BlockOf
  <2>5. MarkedText(Texts(old), Texts(block), ref)
    BY <2>1, MarkedTexts
  <2> HIDE DEF block
  <2> DEFINE f == Frontmatter(doc)
             g == Frontmatter(new)
  <2>6. DOMAIN f = 1 .. Len(f) /\ DOMAIN g = 1 .. Len(g)
    BY <2>1, <2>2, <2>3, <2>4, TextsAre
  <2>7. /\ \A t \in Plain : Contains(g, t) <=> Contains(f, t)
        /\ Contains(g, ref) /\ ~Contains(g, Held)
        /\ Drop(g, Refs) = Drop(f, Refs)
        /\ (\A i \in 1 .. Len(f) : Key(f[i]) \in PortableKeys)
             => \A i \in 1 .. Len(g) : Key(g[i]) \in PortableKeys
        /\ (\A i, j \in 1 .. Len(f) : Key(f[i]) = Key(f[j]) => i = j)
             => \A i, j \in 1 .. Len(g) : Key(g[i]) = Key(g[j]) => i = j
    <3>1. MarkedText(f, g, ref) /\ ~Contains(f, Held)
      BY <2>3, <2>4, <2>5
    <3> HIDE DEF f, g
    <3> QED BY <3>1, MarkedTextIs
  <2>8. BodyTexts(new) = BodyTexts(doc)
    <3> DEFINE c == CloseAt(doc)
               d == CloseAt(new)
               b == SubSeq(doc, c + 1, Len(doc))
               a == SubSeq(new, d + 1, Len(new))
    <3>1. /\ b \in Seq(TextLines) /\ Len(b) = Len(doc) - c
          /\ \A i \in 1 .. Len(doc) - c : b[i] = doc[c + i]
      BY <1>3, <2>1, BodyTextsAre
    <3>2. /\ a \in Seq(TextLines) /\ Len(a) = Len(new) - d
          /\ \A i \in 1 .. Len(new) - d : a[i] = new[d + i]
      <4>1. new \in Seq(TextLines)
        BY <2>2 DEF Documents
      <4> QED BY <4>1, <2>2, BodyTextsAre
    <3>3. /\ Len(new) = Len(block) + Len(doc) - c + 2
          /\ \A i \in 0 .. Len(doc) - c : new[Len(block) + 2 + i] = doc[c + i]
      BY <1>3, <2>1, <2>2, WithBlockIs
    <3>4. BodyTexts(doc) = Texts(b) /\ BodyTexts(new) = Texts(a)
      <4>1. ParsedClose(doc) # 0 /\ ParsedClose(new) # 0
        BY <1>3, <2>2, <2>3, <2>4
      <4> QED BY <1>1, <2>2, <2>3, <2>4, <4>1 DEF BodyTexts
    <3>5. d = Len(block) + 2 /\ c \in 2 .. Len(doc) /\ Len(doc) \in Nat /\ Len(block) \in Nat
      BY <2>1, <2>2
    <3> HIDE DEF a, b, c, d, TextLines
    <3>6. Len(a) = Len(b)
      BY <3>1, <3>2, <3>3, <3>5
    <3>7. ASSUME NEW i \in 1 .. Len(a) PROVE a[i] = b[i]
      <4>1. i \in 1 .. Len(new) - d /\ i \in 1 .. Len(doc) - c /\ i \in 0 .. Len(doc) - c
        BY <3>1, <3>2, <3>5, <3>6
      <4> QED BY <4>1, <3>1, <3>2, <3>3, <3>5
    <3>8. a = b
      BY <3>1, <3>2, <3>6, <3>7, SeqEqual
    <3> QED BY <3>4, <3>8
  <2>9. Parsed(new)
    <3>1. \A i \in 1 .. Len(f) : f[i] \notin {Substitution, Prose, Fence}
      <4>1. \A i \in DOMAIN f : f[i] \notin {Substitution, Prose, Fence}
        BY DEF Publishable, Parsed
      <4> HIDE DEF f
      <4> QED BY <4>1, <2>6
    <3>2. \A i, j \in 1 .. Len(f) : Key(f[i]) = Key(f[j]) => i = j
      BY <2>6 DEF Publishable, Parsed
    <3>3. \A t \in {Substitution, Prose, Fence} : t \in Plain /\ ~Contains(f, t)
      BY <3>1 DEF Contains, Plain
    <3>4. \A t \in {Substitution, Prose, Fence} : ~Contains(g, t)
      BY <3>3, <2>7
    <3>5. \A i \in 1 .. Len(g) : g[i] \notin {Substitution, Prose, Fence}
      BY <3>4 DEF Contains
    <3>6. \A i, j \in 1 .. Len(g) : Key(g[i]) = Key(g[j]) => i = j
      BY <3>2, <2>7
    <3>7. \A i \in 1 .. Len(g) : g[i] # Held
      BY <2>7 DEF Contains
    <3> HIDE DEF f
    <3> QED BY <3>5, <3>6, <3>7, <2>6 DEF Parsed
  <2>10. Contains(g, Named)
    BY <2>7 DEF Publishable, Plain
  <2>11. LintsClean(new)
    <3>1. Closed \in Plain /\ Compat \in Plain
      BY DEF Plain
    <3>2. Portable(new) <=> Portable(doc)
      BY <3>1, <2>7 DEF Portable
    <3>3. LintsClean(doc)
      BY DEF Publishable
    <3>4. CASE Portable(doc)
      <4>1. (\A i \in 1 .. Len(f) : Key(f[i]) \in PortableKeys) /\ ~Contains(BodyTexts(doc), Substitution)
        BY <3>3, <3>4, <2>6 DEF LintsClean
      <4>2. \A i \in 1 .. Len(g) : Key(g[i]) \in PortableKeys
        BY <4>1, <2>7
      <4> QED BY <3>2, <3>4, <4>1, <4>2, <2>6, <2>8 DEF LintsClean
    <3>5. CASE ~Portable(doc)
      BY <3>1, <3>2, <3>3, <3>5, <2>7 DEF LintsClean
    <3> QED BY <3>4, <3>5
  <2> QED BY <2>7, <2>8, <2>9, <2>10, <2>11 DEF Publishable, new
<1> QED BY <1>2, <1>3

(* The documents that are enumerated are documents. *)
LEMMA DocsAreDocuments ==
  ASSUME NEW n \in Nat
  PROVE  Docs(n) \subseteq Documents
<1> DEFINE Shapes  == BoundedSeq(AnyText, 2) \union {<<Fence>> \o rest : rest \in BoundedSeq(AnyText, n)}
           Turns   == {<<"lf", "lf">>, <<"crlf", "crlf">>, <<"crlf", "lf">>}
           Ending(texts, e) == [i \in DOMAIN texts |-> Line(texts[i], e[1 + (i % 2)])]
           Cut(doc) == IF doc = <<>> THEN doc ELSE [doc EXCEPT ![Len(doc)].eol = "none"]
           Whole   == {Ending(texts, e) : texts \in Shapes, e \in Turns}
<1>1. Docs(n) = Whole \union {Cut(doc) : doc \in Whole}
  BY DEF Docs, AnyText
<1>2. ASSUME NEW texts \in Shapes PROVE texts \in Seq(AnyText)
  <2>1. ASSUME NEW m \in Nat, NEW s \in BoundedSeq(AnyText, m) PROVE s \in Seq(AnyText)
    BY <2>1, BoundedSeqElements
  <2>2. CASE texts \in BoundedSeq(AnyText, 2)
    BY <2>1, <2>2
  <2>3. CASE \E rest \in BoundedSeq(AnyText, n) : texts = <<Fence>> \o rest
    <3>1. PICK rest \in BoundedSeq(AnyText, n) : texts = <<Fence>> \o rest
      BY <2>3
    <3>2. Fence \in AnyText
      BY DEF AnyText, Plain
    <3>3. rest \in Seq(AnyText)
      BY <2>1
    <3>4. <<Fence>> \in Seq(AnyText)
      BY <3>2
    <3> QED BY <3>1, <3>3, <3>4, ConcatProperties
  <2> QED BY <2>2, <2>3
<1>3. ASSUME NEW texts \in Seq(AnyText), NEW e \in Turns
      PROVE  Ending(texts, e) \in Seq(TextLines) /\ \A i \in DOMAIN texts : HasEnd(Ending(texts, e)[i])
  <2>1. DOMAIN texts = 1 .. Len(texts) /\ Len(texts) \in Nat
    OBVIOUS
  <2>2. ASSUME NEW i \in 1 .. Len(texts)
        PROVE  Line(texts[i], e[1 + (i % 2)]) \in TextLines /\ HasEnd(Line(texts[i], e[1 + (i % 2)]))
    <3>1. i % 2 \in {0, 1}
      OBVIOUS
    <3>2. e[1 + (i % 2)] \in {"lf", "crlf"}
      BY <3>1
    <3>3. texts[i] \in AnyText
      OBVIOUS
    <3> QED BY <3>2, <3>3 DEF Line, HasEnd, TextLines, Ends
  <2>3. Ending(texts, e) \in [1 .. Len(texts) -> TextLines]
    BY <2>1, <2>2
  <2>4. Ending(texts, e) \in Seq(TextLines)
    BY <2>1, <2>3
  <2> QED BY <2>1, <2>2, <2>4
<1> HIDE DEF Shapes, Turns, Ending, Cut, TextLines
<1>4. ASSUME NEW doc \in Whole
      PROVE  doc \in Seq(TextLines) /\ \A i \in DOMAIN doc : HasEnd(doc[i])
  <2>1. PICK texts \in Shapes, e \in Turns : doc = Ending(texts, e)
    OBVIOUS
  <2>2. texts \in Seq(AnyText)
    BY <1>2
  <2>3. DOMAIN doc = DOMAIN texts
    BY <2>1 DEF Ending
  <2> QED BY <2>1, <2>2, <2>3, <1>3
<1> HIDE DEF Whole
<1>5. ASSUME NEW doc \in Whole PROVE doc \in Documents
  <2>1. doc \in Seq(TextLines) /\ \A i \in DOMAIN doc : HasEnd(doc[i])
    BY <1>4
  <2> QED BY <2>1 DEF Documents
<1>6. ASSUME NEW doc \in Whole PROVE Cut(doc) \in Documents
  <2>1. doc \in Seq(TextLines) /\ \A i \in DOMAIN doc : HasEnd(doc[i])
    BY <1>4
  <2>2. CASE doc = <<>>
    BY <1>5, <2>2 DEF Cut
  <2>3. CASE doc # <<>>
    <3> DEFINE m == Len(doc)
               line == [doc[m] EXCEPT !.eol = "none"]
               cut == [doc EXCEPT ![m] = line]
    <3>1. m \in 1 .. Len(doc) /\ Len(doc) \in Nat /\ doc[m] \in TextLines
      BY <2>1, <2>3
    <3>2. line \in TextLines
      BY <3>1 DEF TextLines, Ends
    <3> HIDE DEF line, m
    <3>3. /\ cut \in Seq(TextLines) /\ Len(cut) = Len(doc)
          /\ \A j \in 1 .. Len(doc) : cut[j] = IF j = m THEN line ELSE doc[j]
      BY <2>1, <3>1, <3>2, ExceptSeq
    <3> HIDE DEF cut
    <3>4. \A j \in 1 .. Len(cut) - 1 : HasEnd(cut[j])
      <4> SUFFICES ASSUME NEW j \in 1 .. Len(cut) - 1 PROVE HasEnd(cut[j])
        OBVIOUS
      <4>1. j \in 1 .. Len(doc) /\ j # m /\ j \in DOMAIN doc
        BY <2>1, <3>1, <3>3 DEF m
      <4>2. cut[j] = doc[j]
        BY <3>3, <4>1
      <4> QED BY <2>1, <4>1, <4>2
    <3>5. Cut(doc) = cut
      BY <2>3 DEF line, Cut, m, cut
    <3> QED BY <3>3, <3>4, <3>5 DEF Documents
  <2> QED BY <2>2, <2>3
<1> QED BY <1>1, <1>5, <1>6

(* A mark leaves a frontmatter a frontmatter. *)
LEMMA MarkedHasFrontmatter ==
  ASSUME NEW doc \in Documents, NEW ref \in Refs, HasFrontmatter(doc)
  PROVE  HasFrontmatter(Marked(doc, ref))
<1>1. CASE CloseAt(doc) = 0
  BY <1>1 DEF Marked
<1>2. CASE CloseAt(doc) # 0
  BY <1>2, ClosedIsMarked
<1> QED BY <1>1, <1>2

(* The files: a byte order mark matters only where there is no frontmatter. *)
LEMMA InjectIs ==
  ASSUME NEW file, file = [bom |-> file.bom, lines |-> file.lines], NEW ref,
         file.bom => HasFrontmatter(file.lines)
  PROVE  InjectBreadcrumb(file, ref) = [bom |-> file.bom, lines |-> Marked(file.lines, ref)]
<1>1. ~(file.bom /\ ~HasFrontmatter(file.lines))
  OBVIOUS
<1>2. InjectBreadcrumb(file, ref) = [file EXCEPT !.lines = Marked(file.lines, ref)]
  BY <1>1 DEF InjectBreadcrumb
<1> QED BY <1>2

LEMMA SkillsAre ==
  ASSUME NEW n \in Nat, NEW file \in Skills(n)
  PROVE  file = [bom |-> file.bom, lines |-> file.lines] /\ file.lines \in Documents
<1>1. Docs(n) \subseteq Documents
  BY DocsAreDocuments
<1>2. file \in [bom : BOOLEAN, lines : Docs(n)]
  BY DEF Skills
<1> QED BY <1>1, <1>2

(* MarksReplaceMarks, for documents of any length, with a byte order mark or without: an
   install that marks a skill again leaves what marking the original would have, and
   taking the marks out gives the original back, but for a skill with a byte order mark
   and no frontmatter (provenance.go, InjectBreadcrumb and StripBreadcrumb). *)
THEOREM MarksAlwaysReplace == \A n \in Nat : MarksReplaceMarks(n)
<1> SUFFICES ASSUME NEW n \in Nat, NEW file \in Skills(n), NEW r \in Refs, NEW s \in Refs,
                    file.bom => HasFrontmatter(file.lines)
             PROVE  LET new == InjectBreadcrumb(file, r)
                    IN  /\ InjectBreadcrumb(new, s) = InjectBreadcrumb(file, s)
                        /\ HasFrontmatter(file.lines) => Unmarked(new.lines) = Unmarked(file.lines)
  BY DEF MarksReplaceMarks
<1> DEFINE doc == file.lines
           new == [bom |-> file.bom, lines |-> Marked(doc, r)]
<1>1. file = [bom |-> file.bom, lines |-> doc] /\ doc \in Documents
  BY SkillsAre
<1>2. InjectBreadcrumb(file, r) = new /\ InjectBreadcrumb(file, s) = [bom |-> file.bom, lines |-> Marked(doc, s)]
  BY <1>1, InjectIs
<1>3. Marked(Marked(doc, r), s) = Marked(doc, s)
      /\ (HasFrontmatter(doc) => Unmarked(Marked(doc, r)) = Unmarked(doc))
  BY <1>1, MarkIsReplaced
<1>4. new.bom => HasFrontmatter(new.lines)
  BY <1>1, MarkedHasFrontmatter
<1>5. InjectBreadcrumb(new, s) = [bom |-> new.bom, lines |-> Marked(new.lines, s)]
  <2>1. new = [bom |-> new.bom, lines |-> new.lines]
    OBVIOUS
  <2> HIDE DEF new
  <2> QED BY <1>4, <2>1, InjectIs
<1> QED BY <1>2, <1>3, <1>5

(* MarkedStaysPublishable, for documents of any length: a mark breaks none of the checks
   that a skill must pass to be published, unless another key holds an installed_from
   (provenance.go, InjectBreadcrumb; skillmd.go, ParseSkillMD; portability.go, Lint). *)
THEOREM MarkedAlwaysPublishable == \A n \in Nat : MarkedStaysPublishable(n)
<1> SUFFICES ASSUME NEW n \in Nat, NEW file \in Skills(n), NEW r \in Refs,
                    Publishable(file.lines), ~Contains(Frontmatter(file.lines), Held)
             PROVE  LET doc == file.lines
                        new == InjectBreadcrumb(file, r).lines
                        Others(d) == Drop(Frontmatter(d), Refs)
                    IN  /\ Publishable(new)
                        /\ BodyTexts(new) = BodyTexts(doc) /\ Others(new) = Others(doc)
                        /\ CloseAt(doc) # 0 => Contains(Frontmatter(new), r)
  BY DEF MarkedStaysPublishable
<1>1. file = [bom |-> file.bom, lines |-> file.lines] /\ file.lines \in Documents
  BY SkillsAre
<1>2. HasFrontmatter(file.lines)
  <2> SUFFICES ASSUME ~HasFrontmatter(file.lines) PROVE FALSE
    OBVIOUS
  <2>1. Frontmatter(file.lines) = <<>> /\ Contains(Frontmatter(file.lines), Named)
    BY DEF Frontmatter, Publishable
  <2> QED BY <2>1 DEF Contains
<1>3. InjectBreadcrumb(file, r).lines = Marked(file.lines, r)
  BY <1>1, <1>2, InjectIs
<1> QED BY <1>1, <1>3, MarkedIsPublishable

(* MarksAreSound, for any numbers of lines. *)
THEOREM MarksStaySound == Spec => []MarksAreSound
<1>1. MarksReplaceMarks(MaxMarked) /\ MarkedStaysPublishable(MaxPublished)
  BY MarksAlwaysReplace, MarkedAlwaysPublishable, TextBoundAssumption
<1>2. MarksAreSound
  BY <1>1 DEF MarksAreSound
<1> QED BY <1>2, PTL

(***************************************************************************)
(* The managed block of .gitignore.                                        *)
(***************************************************************************)
Sentinels == {Begin, End}
Free(text) == \A i \in 1 .. Len(text) : text[i] \notin Sentinels

\* A text with LF alone, the lines of which are ended.
LfEnded(text) == \A i \in 1 .. Len(text) - 1 : NL \in {text[i], text[i + 1]}

LEMMA TokensDiffer == NL # Begin /\ NL # End /\ Begin # End
BY DEF NL, Begin, End

(* The first place of a token. *)
LEMMA FindIs ==
  ASSUME NEW S, NEW text \in Seq(S), NEW token
  PROVE  \/ Find(text, token) = 0 /\ \A i \in 1 .. Len(text) : text[i] # token
         \/ /\ Find(text, token) \in 1 .. Len(text) /\ text[Find(text, token)] = token
            /\ \A i \in 1 .. Find(text, token) - 1 : text[i] # token
<1> DEFINE I == {i \in 1 .. Len(text) : text[i] = token}
<1>1. Find(text, token) = IF I # {} THEN Min(I) ELSE 0
  BY DEF Find, SelectInSeq
<1>2. CASE I = {}
  BY <1>1, <1>2
<1>3. CASE I # {}
  <2>1. I \in SUBSET Nat
    OBVIOUS
  <2>2. Min(I) \in I /\ \A x \in I : Min(I) <= x
    BY <1>3, <2>1, LeastElement
  <2>3. Find(text, token) \in I /\ \A x \in I : Find(text, token) <= x
    BY <1>1, <1>3, <2>2
  <2> QED BY <2>3
<1> QED BY <1>2, <1>3

LEMMA FindFirst ==
  ASSUME NEW S, NEW text \in Seq(S), NEW token, NEW k \in 1 .. Len(text), text[k] = token,
         \A i \in 1 .. k - 1 : text[i] # token
  PROVE  Find(text, token) = k
<1>1. k \in Nat /\ Len(text) \in Nat
  OBVIOUS
<1>2. \/ Find(text, token) = 0 /\ \A i \in 1 .. Len(text) : text[i] # token
      \/ /\ Find(text, token) \in 1 .. Len(text) /\ text[Find(text, token)] = token
         /\ \A i \in 1 .. Find(text, token) - 1 : text[i] # token
  BY FindIs
<1> QED BY <1>1, <1>2

(* A text that ends in a blank line. *)
EndsBlank(text) == Len(text) >= 2 /\ text[Len(text)] = NL /\ text[Len(text) - 1] = NL

LEMMA BlankSuffix ==
  ASSUME NEW S, NEW text \in Seq(S)
  PROVE  IsSuffix(<<NL, NL>>, text) <=> EndsBlank(text)
<1> DEFINE n == Len(text)
           two == Reverse(<<NL, NL>>)
           back == Reverse(text)
<1>1. n \in Nat
  OBVIOUS
<1>2. two = <<NL, NL>>
  BY DEF Reverse
<1>3. Len(back) = n /\ \A i \in 1 .. n : back[i] = text[(n - i) + 1]
  BY <1>1 DEF Reverse
<1>4. back \in Seq(S)
  <2>1. \A i \in 1 .. n : text[(n - i) + 1] \in S
    BY <1>1
  <2>2. back \in [1 .. n -> S]
    BY <2>1 DEF Reverse
  <2> QED BY <1>1, <2>2
<1> HIDE DEF back, two
<1>5. IsSuffix(<<NL, NL>>, text) <=> (2 <= n /\ SubSeq(two, 1, 2) = SubSeq(back, 1, 2))
  BY <1>2, <1>3 DEF IsSuffix, IsPrefix, two, back
<1>6. ASSUME 2 <= n PROVE SubSeq(two, 1, 2) = SubSeq(back, 1, 2) <=> back[1] = NL /\ back[2] = NL
  <2> DEFINE T == S \union {NL}
             x == SubSeq(two, 1, 2)
             y == SubSeq(back, 1, 2)
  <2>1. /\ two[1] = NL /\ two[2] = NL /\ \A i \in 1 .. 2 : two[i] \in T
        /\ \A i \in 1 .. 2 : back[i] \in T
    <3>1. \A i \in 1 .. 2 : i = 1 \/ i = 2
      OBVIOUS
    <3>2. two[1] = NL /\ two[2] = NL
      BY <1>2
    <3>3. \A i \in 1 .. 2 : back[i] \in S
      BY <1>1, <1>3, <1>4, <1>6
    <3> QED BY <3>1, <3>2, <3>3
  <2> HIDE DEF T
  <2>2. x \in Seq(T) /\ Len(x) = 2 /\ \A i \in 1 .. 2 : x[i] = two[i]
    <3>1. /\ SubSeq(two, 1, 2) \in Seq(T)
          /\ Len(SubSeq(two, 1, 2)) = IF 1 <= 2 THEN 2 - 1 + 1 ELSE 0
          /\ \A i \in 1 .. 2 - 1 + 1 : SubSeq(two, 1, 2)[i] = two[1 + i - 1]
      BY <2>1, SubSeqProperties
    <3> HIDE DEF x
    <3>2. \A i \in 1 .. 2 : i \in 1 .. 2 - 1 + 1 /\ 1 + i - 1 = i
      OBVIOUS
    <3> QED BY <3>1, <3>2 DEF x
  <2>3. y \in Seq(T) /\ Len(y) = 2 /\ \A i \in 1 .. 2 : y[i] = back[i]
    <3>1. /\ SubSeq(back, 1, 2) \in Seq(T)
          /\ Len(SubSeq(back, 1, 2)) = IF 1 <= 2 THEN 2 - 1 + 1 ELSE 0
          /\ \A i \in 1 .. 2 - 1 + 1 : SubSeq(back, 1, 2)[i] = back[1 + i - 1]
      BY <2>1, SubSeqProperties
    <3>2. \A i \in 1 .. 2 : i \in 1 .. 2 - 1 + 1 /\ 1 + i - 1 = i
      OBVIOUS
    <3> QED BY <3>1, <3>2 DEF y
  <2> HIDE DEF x, y
  <2>4. ASSUME back[1] = NL, back[2] = NL PROVE x = y
    <3>1. \A i \in 1 .. Len(x) : i = 1 \/ i = 2
      BY <2>2
    <3>2. \A i \in 1 .. Len(x) : x[i] = y[i]
      BY <3>1, <2>1, <2>2, <2>3, <2>4
    <3> QED BY <2>2, <2>3, <3>2, SeqEqual
  <2>5. ASSUME x = y PROVE back[1] = NL /\ back[2] = NL
    BY <2>1, <2>2, <2>3, <2>5
  <2> QED BY <2>4, <2>5 DEF x, y
<1>7. ASSUME 2 <= n PROVE back[1] = text[n] /\ back[2] = text[n - 1]
  <2>1. 1 \in 1 .. n /\ 2 \in 1 .. n /\ (n - 1) + 1 = n /\ (n - 2) + 1 = n - 1
    BY <1>1, <1>7
  <2>2. back[1] = text[(n - 1) + 1] /\ back[2] = text[(n - 2) + 1]
    BY <1>3, <2>1
  <2> QED BY <2>1, <2>2
<1> QED BY <1>1, <1>5, <1>6, <1>7 DEF EndsBlank

(* A text without the blank line that ends it. *)
Unblanked(text) == IF IsSuffix(<<NL, NL>>, text) THEN Front(text) ELSE text

LEMMA UnblankedIs ==
  ASSUME NEW S, NEW text \in Seq(S)
  PROVE  /\ Unblanked(text) \in Seq(S)
         /\ ~EndsBlank(text) => Unblanked(text) = text
         /\ EndsBlank(text) => /\ Len(Unblanked(text)) = Len(text) - 1
                               /\ \A i \in 1 .. Len(text) - 1 : Unblanked(text)[i] = text[i]
<1>1. CASE ~EndsBlank(text)
  BY <1>1, BlankSuffix DEF Unblanked
<1>2. CASE EndsBlank(text)
  <2>1. Unblanked(text) = SubSeq(text, 1, Len(text) - 1)
    BY <1>2, BlankSuffix DEF Unblanked, Front
  <2>2. Len(text) \in Nat /\ Len(text) >= 2 /\ \A i \in 1 .. Len(text) - 1 : text[i] \in S
    BY <1>2 DEF EndsBlank
  <2>3. /\ SubSeq(text, 1, Len(text) - 1) \in Seq(S)
        /\ Len(SubSeq(text, 1, Len(text) - 1))
             = IF 1 <= Len(text) - 1 THEN (Len(text) - 1) - 1 + 1 ELSE 0
        /\ \A i \in 1 .. (Len(text) - 1) - 1 + 1 : SubSeq(text, 1, Len(text) - 1)[i] = text[1 + i - 1]
    BY <2>2, SubSeqProperties
  <2>4. Len(Unblanked(text)) = Len(text) - 1
    BY <2>1, <2>2, <2>3
  <2>5. ASSUME NEW i \in 1 .. Len(text) - 1 PROVE Unblanked(text)[i] = text[i]
    <3>1. i \in 1 .. (Len(text) - 1) - 1 + 1 /\ 1 + i - 1 = i
      BY <2>2
    <3> QED BY <3>1, <2>1, <2>3
  <2> QED BY <1>2, <2>1, <2>3, <2>4, <2>5
<1> QED BY <1>1, <1>2

(* What Drop leaves. *)
LEMMA DropContents ==
  ASSUME NEW S, NEW seq \in Seq(S), NEW out
  PROVE  /\ Drop(seq, out) \in Seq(S)
         /\ \A t : Contains(Drop(seq, out), t) <=> Contains(seq, t) /\ t \notin out
<1> DEFINE N == Len(seq)
<1>1. PICK f \in [0 .. N -> Seq(S)] : DropTable(f, seq, out) /\ Drop(seq, out) = f[N]
  BY DropIs
<1>2. N \in Nat /\ \A i \in 1 .. N : seq[i] \in S
  OBVIOUS
<1> DEFINE Left(k) == \A t : Contains(f[k], t) <=> (t \notin out /\ \E i \in 1 .. k : seq[i] = t)
           E == {k \in Nat : k <= N => Left(k)}
<1> HIDE DEF N
<1>3. 0 \in E
  BY <1>1 DEF DropTable, Contains
<1>4. ASSUME NEW k \in Nat, k \in E PROVE k + 1 \in E
  <2> SUFFICES ASSUME k + 1 <= N, NEW t
               PROVE  Contains(f[k + 1], t) <=> (t \notin out /\ \E i \in 1 .. k + 1 : seq[i] = t)
    OBVIOUS
  <2>1. Left(k) /\ k + 1 \in 1 .. N /\ (k + 1) - 1 = k /\ k \in 0 .. N
    BY <1>2, <1>4
  <2>2. f[k + 1] = IF seq[k + 1] \in out THEN f[k] ELSE Append(f[k], seq[k + 1])
    BY <1>1, <2>1 DEF DropTable, N
  <2>3. f[k] \in Seq(S) /\ seq[k + 1] \in S
    BY <1>1, <1>2, <2>1
  <2>4. (\E i \in 1 .. k + 1 : seq[i] = t) <=> (seq[k + 1] = t \/ \E i \in 1 .. k : seq[i] = t)
    <3>1. \A i \in 1 .. k + 1 : i = k + 1 \/ i \in 1 .. k
      OBVIOUS
    <3>2. k + 1 \in 1 .. k + 1 /\ \A i \in 1 .. k : i \in 1 .. k + 1
      OBVIOUS
    <3> QED BY <3>1, <3>2
  <2>5. CASE seq[k + 1] \in out
    BY <2>1, <2>2, <2>4, <2>5
  <2>6. CASE seq[k + 1] \notin out
    <3> DEFINE g == f[k]
               h == Append(g, seq[k + 1])
    <3>1. Len(h) = Len(g) + 1 /\ Len(g) \in Nat /\ h[Len(g) + 1] = seq[k + 1]
          /\ \A i \in 1 .. Len(g) : h[i] = g[i]
      BY <2>3, AppendProperties
    <3> HIDE DEF g, h
    <3>2. Contains(h, t) <=> (Contains(g, t) \/ seq[k + 1] = t)
      <4>1. \A i \in 1 .. Len(h) : i = Len(g) + 1 \/ i \in 1 .. Len(g)
        BY <3>1
      <4>2. Len(g) + 1 \in 1 .. Len(h) /\ \A i \in 1 .. Len(g) : i \in 1 .. Len(h)
        BY <3>1
      <4> QED BY <4>1, <4>2, <3>1 DEF Contains
    <3>3. Contains(g, t) <=> (t \notin out /\ \E i \in 1 .. k : seq[i] = t)
      BY <2>1 DEF g
    <3>4. f[k + 1] = h
      BY <2>2, <2>6 DEF h, g
    <3> QED BY <2>4, <2>6, <3>2, <3>3, <3>4
  <2> QED BY <2>5, <2>6
<1>5. Left(N)
  <2>1. N \in E
    <3> HIDE DEF E
    <3> QED BY <1>2, <1>3, <1>4, InductionOn
  <2> QED BY <1>2, <2>1
<1>6. Drop(seq, out) \in Seq(S)
  BY <1>1, <1>2
<1>7. \A t : Contains(seq, t) <=> \E i \in 1 .. N : seq[i] = t
  BY DEF Contains, N
<1> QED BY <1>1, <1>5, <1>6, <1>7

AppendsToEnd(s, t, x) == Append(s \o t, x) = s \o Append(t, x)

LEMMA AppendToConcat ==
  ASSUME NEW S, NEW s \in Seq(S), NEW t \in Seq(S), NEW x \in S
  PROVE  AppendsToEnd(s, t, x)
<1> DEFINE st == s \o t
           tx == Append(t, x)
           l == Append(st, x)
           r == s \o tx
           m == Len(s)
           n == Len(t)
<1>1. m \in Nat /\ n \in Nat
  OBVIOUS
<1>2. st \in Seq(S) /\ Len(st) = m + n
      /\ \A i \in 1 .. m + n : st[i] = IF i <= m THEN s[i] ELSE t[i - m]
  BY ConcatProperties
<1>3. tx \in Seq(S) /\ Len(tx) = n + 1 /\ tx[n + 1] = x /\ \A i \in 1 .. n : tx[i] = t[i]
  BY AppendProperties
<1> HIDE DEF st, tx
<1>4. l \in Seq(S) /\ Len(l) = Len(st) + 1 /\ l[Len(st) + 1] = x
      /\ \A i \in 1 .. Len(st) : l[i] = st[i]
  <2>1. st \in Seq(S)
    BY <1>2
  <2> QED BY <2>1
<1>5. r \in Seq(S) /\ Len(r) = m + Len(tx)
      /\ \A i \in 1 .. m + Len(tx) : r[i] = IF i <= m THEN s[i] ELSE tx[i - m]
  BY <1>3, ConcatProperties
<1> HIDE DEF l, r, m, n
<1>6. Len(l) = m + n + 1 /\ Len(r) = m + n + 1
  BY <1>1, <1>2, <1>3, <1>4, <1>5
<1>7. ASSUME NEW i \in 1 .. Len(l) PROVE l[i] = r[i]
  <2>1. CASE i = m + n + 1
    <3>1. l[i] = x
      BY <2>1, <1>2, <1>4
    <3>2. i \in 1 .. m + Len(tx) /\ ~(i <= m) /\ i - m = n + 1
      BY <2>1, <1>1, <1>3
    <3> QED BY <3>1, <3>2, <1>3, <1>5
  <2>2. CASE i \in 1 .. m
    BY <2>2, <1>1, <1>2, <1>3, <1>4, <1>5
  <2>3. CASE i \in m + 1 .. m + n
    <3>1. i \in 1 .. Len(st) /\ i \in 1 .. m + Len(tx) /\ ~(i <= m) /\ i - m \in 1 .. n
      BY <2>3, <1>1, <1>2, <1>3
    <3> QED BY <3>1, <1>2, <1>3, <1>4, <1>5
  <2> QED BY <2>1, <2>2, <2>3, <1>1, <1>6
<1>8. l = r
  BY <1>4, <1>5, <1>6, <1>7, SeqEqual
<1> QED BY <1>8 DEF l, r, st, tx, AppendsToEnd

Continues(h, base, g, M, N) == h[M + N] = base \o g[N]

(* The table of a text goes on where that of its first part ended. *)
LEMMA TablesContinue ==
  ASSUME NEW S, NEW t, NEW st, NEW out, NEW g, NEW h, NEW M \in Nat, NEW N \in Nat,
         DropTable(h, st, out), DropTable(g, t, out), Len(st) = M + N, Len(t) = N,
         \A i \in 1 .. N : st[M + i] = t[i] /\ t[i] \in S,
         NEW base \in Seq(S), h[M] = base, \A k \in 0 .. N : g[k] \in Seq(S)
  PROVE  Continues(h, base, g, M, N)
<1> DEFINE E == {k \in Nat : k <= N => h[M + k] = base \o g[k]}
<1>1. 0 \in E
  <2>1. g[0] = <<>> /\ base \o <<>> = base /\ M + 0 = M
    BY ConcatEmptySeq DEF DropTable
  <2> QED BY <2>1
<1>2. ASSUME NEW k \in Nat, k \in E PROVE k + 1 \in E
  <2> SUFFICES ASSUME k + 1 <= N PROVE h[M + (k + 1)] = base \o g[k + 1]
    OBVIOUS
  <2>1. h[M + k] = base \o g[k]
    BY <1>2
  <2>2. /\ M + (k + 1) \in 1 .. Len(st) /\ (M + (k + 1)) - 1 = M + k
        /\ k + 1 \in 1 .. N /\ (k + 1) - 1 = k /\ k \in 0 .. N
    OBVIOUS
  <2>3. st[M + (k + 1)] = t[k + 1] /\ t[k + 1] \in S /\ g[k] \in Seq(S)
    BY <2>2
  <2>4. h[M + (k + 1)] = IF t[k + 1] \in out THEN h[M + k] ELSE Append(h[M + k], t[k + 1])
    BY <2>2, <2>3 DEF DropTable
  <2>5. g[k + 1] = IF t[k + 1] \in out THEN g[k] ELSE Append(g[k], t[k + 1])
    BY <2>2 DEF DropTable
  <2>6. Append(base \o g[k], t[k + 1]) = base \o Append(g[k], t[k + 1])
    <3> DEFINE left == g[k]
               line == t[k + 1]
    <3>1. left \in Seq(S) /\ line \in S
      BY <2>3
    <3> HIDE DEF left, line
    <3>2. AppendsToEnd(base, left, line)
      BY <3>1, AppendToConcat
    <3> QED BY <3>2 DEF left, line, AppendsToEnd
  <2> QED BY <2>1, <2>4, <2>5, <2>6
<1>3. N \in E
  <2> HIDE DEF E
  <2> QED BY <1>1, <1>2, InductionOn
<1> QED BY <1>3 DEF Continues

DropsApart(s, t, out) == Drop(s \o t, out) = Drop(s, out) \o Drop(t, out)

LEMMA DropConcat ==
  ASSUME NEW S, NEW s \in Seq(S), NEW t \in Seq(S), NEW out
  PROVE  DropsApart(s, t, out)
<1> DEFINE st == s \o t
<1>1. st \in Seq(S) /\ Len(st) = Len(s) + Len(t) /\ Len(s) \in Nat /\ Len(t) \in Nat
      /\ \A i \in 1 .. Len(s) + Len(t) : st[i] = IF i <= Len(s) THEN s[i] ELSE t[i - Len(s)]
  BY ConcatProperties
<1> HIDE DEF st
<1>2. PICK a \in [0 .. Len(s) -> Seq(S)] : DropTable(a, s, out) /\ Drop(s, out) = a[Len(s)]
  BY DropIs
<1>3. PICK b \in [0 .. Len(t) -> Seq(S)] : DropTable(b, t, out) /\ Drop(t, out) = b[Len(t)]
  BY DropIs
<1>4. PICK c \in [0 .. Len(st) -> Seq(S)] : DropTable(c, st, out) /\ Drop(st, out) = c[Len(st)]
  <2>1. st \in Seq(S)
    BY <1>1
  <2> QED BY <2>1, DropIs
<1> DEFINE m == Len(s)
           n == Len(t)
           first == a[m]
<1>5. m \in Nat /\ n \in Nat /\ Len(st) = m + n /\ m <= Len(st) /\ Len(st) \in Nat
  BY <1>1
<1>6. first \in Seq(S) /\ \A k \in 0 .. n : b[k] \in Seq(S)
  <2>1. m \in 0 .. Len(s)
    BY <1>1
  <2>2. first \in Seq(S)
    BY <1>2, <2>1
  <2>3. \A k \in 0 .. n : b[k] \in Seq(S)
    BY <1>3
  <2> QED BY <2>2, <2>3
<1>7. \A i \in 1 .. n : st[m + i] = t[i] /\ t[i] \in S
  <2> SUFFICES ASSUME NEW i \in 1 .. n PROVE st[m + i] = t[i] /\ t[i] \in S
    OBVIOUS
  <2>1. t[i] \in S
    OBVIOUS
  <2>2. m + i \in 1 .. Len(s) + Len(t) /\ ~(m + i <= Len(s)) /\ (m + i) - Len(s) = i
    BY <1>1
  <2> QED BY <1>1, <2>1, <2>2
<1>8. \A i \in 1 .. m : s[i] = st[i] \/ (s[i] \in out /\ st[i] \in out)
  BY <1>1
<1>9. Len(s) \in Nat /\ m <= Len(s) /\ Len(t) = n
  BY <1>1
<1>10. DropTable(a, s, out) /\ DropTable(b, t, out) /\ DropTable(c, st, out)
  BY <1>2, <1>3, <1>4
<1> HIDE DEF m, n
<1>11. Agree(a, c, m)
  BY <1>5, <1>8, <1>9, <1>10, TablesAgree
<1>12. c[m] = first
  BY <1>11 DEF Agree
<1> HIDE DEF first
<1>13. Continues(c, first, b, m, n)
  BY <1>5, <1>6, <1>7, <1>9, <1>10, <1>12, TablesContinue
<1>14. Drop(st, out) = c[m + n] /\ Drop(s, out) = first /\ Drop(t, out) = b[n]
  BY <1>2, <1>3, <1>4, <1>5 DEF m, n, first
<1> QED BY <1>13, <1>14 DEF st, Continues, DropsApart

Toks == Paths \union UserLines \union Negations \union {NL, Begin, End}

LEMMA LinesDiffer ==
  /\ Negations \cap ({NL} \union Sentinels) = {}
  /\ Paths \cap ({NL} \union Sentinels) = {}
  /\ Negations \cap Paths = {}
<1>1. Negations \cap ({NL} \union Sentinels) = {}
  BY DEF Negations, NL, Begin, End, Sentinels
<1> QED BY <1>1, LineAssumption DEF Sentinels

(* A part of a text. *)
IsPart(s, S, t, a, n) ==
  /\ s \in Seq(S) /\ Len(s) = n
  /\ \A i \in 1 .. n : s[i] = t[a + i]
  /\ LfEnded(t) => LfEnded(s)

LEMMA SliceIs ==
  ASSUME NEW S, NEW t \in Seq(S), NEW a \in Nat, NEW n \in Nat, a + n <= Len(t)
  PROVE  IsPart(SubSeq(t, a + 1, a + n), S, t, a, n)
<1> DEFINE s == SubSeq(t, a + 1, a + n)
<1>1. Len(t) \in Nat
  OBVIOUS
<1>2. \A i \in a + 1 .. a + n : t[i] \in S
  BY <1>1
<1>3. /\ s \in Seq(S)
      /\ Len(s) = IF a + 1 <= a + n THEN (a + n) - (a + 1) + 1 ELSE 0
      /\ \A i \in 1 .. (a + n) - (a + 1) + 1 : s[i] = t[(a + 1) + i - 1]
  <2> DEFINE from == a + 1
             to   == a + n
  <2>1. from \in Int /\ to \in Int /\ \A i \in from .. to : t[i] \in S
    BY <1>2
  <2> HIDE DEF from, to
  <2>2. /\ SubSeq(t, from, to) \in Seq(S)
        /\ Len(SubSeq(t, from, to)) = IF from <= to THEN to - from + 1 ELSE 0
        /\ \A i \in 1 .. to - from + 1 : SubSeq(t, from, to)[i] = t[from + i - 1]
    BY <2>1, SubSeqProperties
  <2> QED BY <2>2 DEF from, to
<1> HIDE DEF s
<1>4. Len(s) = n
  BY <1>3
<1>5. \A i \in 1 .. n : s[i] = t[a + i]
  <2> SUFFICES ASSUME NEW i \in 1 .. n PROVE s[i] = t[a + i]
    OBVIOUS
  <2>1. i \in 1 .. (a + n) - (a + 1) + 1 /\ (a + 1) + i - 1 = a + i
    OBVIOUS
  <2> QED BY <2>1, <1>3
<1>6. ASSUME LfEnded(t) PROVE LfEnded(s)
  <2> SUFFICES ASSUME NEW i \in 1 .. n - 1 PROVE NL \in {s[i], s[i + 1]}
    BY <1>4 DEF LfEnded
  <2>1. i \in 1 .. n /\ i + 1 \in 1 .. n /\ a + i \in 1 .. Len(t) - 1 /\ a + (i + 1) = (a + i) + 1
    BY <1>1
  <2> QED BY <2>1, <1>5, <1>6 DEF LfEnded
<1>7. IsPart(s, S, t, a, n)
  BY <1>3, <1>4, <1>5, <1>6 DEF IsPart
<1> QED BY <1>7 DEF s

Slice(t, a, n) == SubSeq(t, a + 1, a + n)

LEMMA SliceFound ==
  ASSUME NEW S, NEW t \in Seq(S), NEW s \in Seq(S), NEW a \in Nat, a + Len(s) <= Len(t),
         \A i \in 1 .. Len(s) : t[a + i] = s[i]
  PROVE  Slice(t, a, Len(s)) = s
<1> DEFINE n == Len(s)
           x == SubSeq(t, a + 1, a + n)
<1>1. n \in Nat /\ a + n <= Len(t) /\ \A i \in 1 .. n : t[a + i] = s[i]
  OBVIOUS
<1> HIDE DEF n
<1>2. x \in Seq(S) /\ Len(x) = n /\ \A i \in 1 .. n : x[i] = t[a + i]
  <2>1. IsPart(x, S, t, a, n)
    BY <1>1, SliceIs
  <2> QED BY <2>1 DEF IsPart
<1> HIDE DEF x
<1>3. Len(x) = Len(s) /\ \A i \in 1 .. Len(x) : x[i] = s[i]
  BY <1>1, <1>2 DEF n
<1>4. x = s
  BY <1>2, <1>3, SeqEqual
<1> QED BY <1>4 DEF Slice, x, n

(* Two texts, one after the other. *)
LEMMA EndedConcat ==
  ASSUME NEW S, NEW s \in Seq(S), NEW t \in Seq(S), LfEnded(s), LfEnded(t),
         \/ Len(s) = 0 \/ Len(t) = 0 \/ s[Len(s)] = NL \/ t[1] = NL
  PROVE  LfEnded(s \o t)
<1> DEFINE st == s \o t
           m == Len(s)
           n == Len(t)
<1>1. /\ Len(st) = m + n /\ m \in Nat /\ n \in Nat
      /\ \A i \in 1 .. m + n : st[i] = IF i <= m THEN s[i] ELSE t[i - m]
  BY ConcatProperties
<1>2. /\ \A i \in 1 .. m - 1 : NL \in {s[i], s[i + 1]}
      /\ \A i \in 1 .. n - 1 : NL \in {t[i], t[i + 1]}
      /\ m = 0 \/ n = 0 \/ s[m] = NL \/ t[1] = NL
  BY DEF LfEnded
<1> HIDE DEF st, m, n
<1>3. ASSUME NEW i \in 1 .. Len(st) - 1 PROVE NL \in {st[i], st[i + 1]}
  <2>1. i \in 1 .. m + n /\ i + 1 \in 1 .. m + n
    BY <1>1
  <2>2. CASE i < m
    <3>1. st[i] = s[i] /\ st[i + 1] = s[i + 1] /\ i \in 1 .. m - 1
      BY <2>1, <2>2, <1>1
    <3> QED BY <3>1, <1>2
  <2>3. CASE i = m
    <3>1. st[i] = s[m] /\ st[i + 1] = t[1] /\ m # 0 /\ n # 0
      BY <2>1, <2>3, <1>1
    <3> QED BY <3>1, <1>2
  <2>4. CASE i > m
    <3>1. st[i] = t[i - m] /\ st[i + 1] = t[(i - m) + 1] /\ i - m \in 1 .. n - 1
      <4>0. m \in Nat /\ n \in Nat /\ i \in Nat /\ i <= m + n - 1
        BY <2>1, <1>1
      <4>1. ~(i <= m) /\ ~(i + 1 <= m) /\ (i + 1) - m = (i - m) + 1 /\ i - m \in 1 .. n - 1
        BY <4>0, <2>4
      <4>2. st[i + 1] = t[(i + 1) - m]
        BY <4>1, <2>1, <1>1
      <4> QED BY <4>1, <4>2, <2>1, <1>1
    <3> QED BY <3>1, <1>2
  <2> QED BY <2>2, <2>3, <2>4, <1>1
<1> QED BY <1>3 DEF LfEnded, st

(* What the block is. *)
IsBlock(B, P) ==
  /\ B \in Seq(Toks) /\ Len(B) >= 4
  /\ B[1] = Begin /\ B[Len(B) - 1] = End /\ B[Len(B)] = NL
  /\ \A i \in 2 .. Len(B) - 2 : B[i] \notin Sentinels
  /\ LfEnded(B)
  /\ \A t \in Paths : (\E i \in 2 .. Len(B) - 2 : B[i] = t) <=> t \in P

LEMMA EachEndedIs ==
  ASSUME NEW lines \in Seq(Toks)
  PROVE  /\ EachEnded(lines) \in Seq(Toks) /\ Len(EachEnded(lines)) = 2 * Len(lines)
         /\ \A i \in 1 .. Len(lines) : /\ EachEnded(lines)[2 * i] = NL
                                       /\ EachEnded(lines)[2 * i - 1] = lines[i]
<1> DEFINE m == Len(lines)
           B == EachEnded(lines)
<1>1. m \in Nat /\ NL \in Toks /\ \A i \in 1 .. m : lines[i] \in Toks
  BY DEF Toks
<1>2. B = [i \in 1 .. 2 * m |-> IF i % 2 = 0 THEN NL ELSE lines[(i + 1) \div 2]]
  BY DEF EachEnded
<1> HIDE DEF m, B
<1>3. ASSUME NEW i \in 1 .. 2 * m
      PROVE  (IF i % 2 = 0 THEN NL ELSE lines[(i + 1) \div 2]) \in Toks
  <2>1. (i + 1) \div 2 \in 1 .. m
    BY <1>1
  <2> QED BY <2>1, <1>1
<1>4. B \in [1 .. 2 * m -> Toks]
  BY <1>2, <1>3
<1>5. 2 * m \in Nat
  BY <1>1
<1>6. B \in Seq(Toks) /\ Len(B) = 2 * m
  BY <1>4, <1>5
<1>7. ASSUME NEW i \in 1 .. m PROVE B[2 * i] = NL /\ B[2 * i - 1] = lines[i]
  <2>1. 2 * i \in 1 .. 2 * m /\ (2 * i) % 2 = 0
    BY <1>1
  <2>2. 2 * i - 1 \in 1 .. 2 * m /\ (2 * i - 1) % 2 # 0 /\ ((2 * i - 1) + 1) \div 2 = i
    BY <1>1
  <2> QED BY <2>1, <2>2, <1>2
<1> QED BY <1>6, <1>7 DEF m, B

LEMMA BlockIs ==
  ASSUME NEW P \in SUBSET Paths
  PROVE  IsBlock(Block(P), P)
<1> DEFINE S == Sorted(P)
           N == NegationsFor(P)
           one == <<Begin>>
           last == <<End>>
           head == one \o S
           mid == head \o N
           lines == mid \o last
           p == Len(S)
           q == Len(N)
           m == p + q + 2
           B == EachEnded(lines)
<1>1. /\ S \in Seq(Toks)
      /\ \A t : Contains(S, t) <=> Contains(PathOrder, t) /\ t \notin Paths \ P
  <2>1. /\ S \in Seq(Paths)
        /\ \A t : Contains(S, t) <=> Contains(PathOrder, t) /\ t \notin Paths \ P
    BY PathAssumption, DropContents DEF Sorted
  <2>2. S \in Seq(Toks)
    BY <2>1 DEF Toks
  <2> QED BY <2>1, <2>2
<1>2. N \in Seq(Toks) /\ \A i \in 1 .. Len(N) : N[i] \in Negations
  <2> DEFINE x == "!.fdh/manifest.yaml"
             y == "!.fdh/lock.yaml"
  <2>1. x \in Negations /\ y \in Negations
    BY DEF Negations
  <2>2. N = <<x, y>> \/ N = <<>>
    BY DEF NegationsFor
  <2> HIDE DEF x, y, N
  <2>3. N \in Seq(Negations)
    <3>1. <<x, y>> \in Seq(Negations) /\ <<>> \in Seq(Negations)
      BY <2>1
    <3> QED BY <2>2, <3>1
  <2>4. N \in Seq(Toks)
    BY <2>3 DEF Toks
  <2> QED BY <2>3, <2>4
<1>3. one \in Seq(Toks) /\ last \in Seq(Toks) /\ Len(one) = 1 /\ Len(last) = 1
      /\ one[1] = Begin /\ last[1] = End
  BY DEF Toks
<1> HIDE DEF S, N, one, last
<1>4. /\ head \in Seq(Toks) /\ Len(head) = Len(one) + Len(S)
      /\ \A i \in 1 .. Len(one) + Len(S) : head[i] = IF i <= Len(one) THEN one[i] ELSE S[i - Len(one)]
  BY <1>1, <1>3, ConcatProperties
<1> HIDE DEF head
<1>5. /\ mid \in Seq(Toks) /\ Len(mid) = Len(head) + Len(N)
      /\ \A i \in 1 .. Len(head) + Len(N) : mid[i] = IF i <= Len(head) THEN head[i] ELSE N[i - Len(head)]
  <2>1. head \in Seq(Toks) /\ N \in Seq(Toks)
    BY <1>2, <1>4
  <2> QED BY <2>1, ConcatProperties
<1> HIDE DEF mid
<1>6. /\ lines \in Seq(Toks) /\ Len(lines) = Len(mid) + Len(last)
      /\ \A i \in 1 .. Len(mid) + Len(last) : lines[i] = IF i <= Len(mid) THEN mid[i] ELSE last[i - Len(mid)]
  BY <1>3, <1>5, ConcatProperties
<1> HIDE DEF lines
<1>7. p \in Nat /\ q \in Nat /\ Len(head) = p + 1 /\ Len(mid) = p + q + 1 /\ Len(lines) = m
  BY <1>1, <1>2, <1>3, <1>4, <1>5, <1>6
<1>8. lines[1] = Begin
  <2>1. /\ 1 \in 1 .. Len(mid) + Len(last) /\ 1 <= Len(mid)
        /\ 1 \in 1 .. Len(head) + Len(N) /\ 1 <= Len(head)
        /\ 1 \in 1 .. Len(one) + Len(S) /\ 1 <= Len(one)
    BY <1>3, <1>7
  <2>2. lines[1] = mid[1]
    BY <2>1, <1>6
  <2>3. mid[1] = head[1]
    BY <2>1, <1>5
  <2>4. head[1] = one[1]
    BY <2>1, <1>4
  <2> QED BY <2>2, <2>3, <2>4, <1>3
<1>9. lines[m] = End
  <2>1. m \in 1 .. Len(mid) + Len(last) /\ ~(m <= Len(mid)) /\ m - Len(mid) = 1
    BY <1>3, <1>7
  <2> QED BY <2>1, <1>3, <1>6
<1>10. ASSUME NEW i \in 1 .. p PROVE lines[i + 1] = S[i]
  <2>1. i + 1 \in 1 .. Len(mid) + Len(last) /\ i + 1 <= Len(mid)
    BY <1>3, <1>7
  <2>2. i + 1 \in 1 .. Len(head) + Len(N) /\ i + 1 <= Len(head)
    BY <1>7
  <2>3. i + 1 \in 1 .. Len(one) + Len(S) /\ ~(i + 1 <= Len(one)) /\ (i + 1) - Len(one) = i
    BY <1>3, <1>7
  <2> QED BY <2>1, <2>2, <2>3, <1>4, <1>5, <1>6
<1>11. ASSUME NEW i \in 1 .. q PROVE lines[i + p + 1] = N[i]
  <2>1. i + p + 1 \in 1 .. Len(mid) + Len(last) /\ i + p + 1 <= Len(mid)
    BY <1>3, <1>7
  <2>2. i + p + 1 \in 1 .. Len(head) + Len(N) /\ ~(i + p + 1 <= Len(head)) /\ (i + p + 1) - Len(head) = i
    BY <1>7
  <2> QED BY <2>1, <2>2, <1>5, <1>6
<1>12. \A t : Contains(S, t) <=> \E i \in 1 .. p : S[i] = t
  BY DEF Contains
<1>13. \A t \in Paths : Contains(PathOrder, t)
  BY PathAssumption DEF Paths, Contains
<1> HIDE DEF p, q
<1>14. ASSUME NEW i \in 2 .. m - 1
       PROVE  (lines[i] \in Paths /\ lines[i] \in P) \/ lines[i] \in Negations
  <2>1. CASE i - 1 \in 1 .. p
    <3>1. lines[(i - 1) + 1] = S[i - 1] /\ (i - 1) + 1 = i
      BY <2>1, <1>10
    <3>2. Contains(S, lines[i])
      BY <2>1, <3>1, <1>12
    <3>3. Contains(PathOrder, lines[i]) /\ lines[i] \notin Paths \ P
      BY <3>2, <1>1
    <3>4. lines[i] \in Paths
      BY <3>3, PathAssumption DEF Paths, Contains
    <3> QED BY <3>3, <3>4
  <2>2. CASE i - 1 \notin 1 .. p
    <3> DEFINE j == i - p - 1
    <3>1. j \in 1 .. q /\ j + p + 1 = i
      BY <2>2, <1>7
    <3>2. lines[j + p + 1] = N[j]
      BY <3>1, <1>11
    <3>3. N[j] \in Negations
      BY <3>1, <1>2 DEF q
    <3> HIDE DEF j
    <3> QED BY <3>1, <3>2, <3>3
  <2> QED BY <2>1, <2>2
<1> HIDE DEF m
<1>15. m \in Nat /\ m >= 2
  BY <1>7 DEF m
<1>16. /\ B \in Seq(Toks) /\ Len(B) = 2 * m
       /\ \A i \in 1 .. m : B[2 * i] = NL /\ B[2 * i - 1] = lines[i]
  BY <1>6, <1>7, EachEndedIs
<1> HIDE DEF B
<1>17. ASSUME NEW k \in 1 .. 2 * m
       PROVE  \/ \E i \in 1 .. m : k = 2 * i /\ B[k] = NL
              \/ \E i \in 1 .. m : k = 2 * i - 1 /\ B[k] = lines[i]
  <2>1. \E i \in 1 .. m : k = 2 * i \/ k = 2 * i - 1
    <3>1. (k + 1) \div 2 \in 1 .. m /\ (k = 2 * ((k + 1) \div 2) \/ k = 2 * ((k + 1) \div 2) - 1)
      BY <1>15
    <3> QED BY <3>1
  <2> QED BY <2>1, <1>16
<1>18. B[1] = Begin /\ B[Len(B) - 1] = End /\ B[Len(B)] = NL
  <2>1. 1 \in 1 .. m /\ 2 * 1 - 1 = 1 /\ m \in 1 .. m
    BY <1>15
  <2>2. B[2 * 1 - 1] = lines[1] /\ B[2 * m - 1] = lines[m] /\ B[2 * m] = NL
    BY <2>1, <1>16
  <2> QED BY <2>1, <2>2, <1>8, <1>9, <1>16
<1>19. ASSUME NEW k \in 2 .. Len(B) - 2
       PROVE  B[k] = NL \/ \E i \in 2 .. m - 1 : k = 2 * i - 1 /\ B[k] = lines[i]
  <2>1. k \in 1 .. 2 * m
    BY <1>15, <1>16
  <2>2. \A i \in 1 .. m : k = 2 * i - 1 => i \in 2 .. m - 1
    BY <1>15, <1>16
  <2> QED BY <2>1, <2>2, <1>17
<1>20. ASSUME NEW k \in 2 .. Len(B) - 2 PROVE B[k] \notin Sentinels
  BY <1>14, <1>19, LinesDiffer, TokensDiffer DEF Sentinels
<1>21. LfEnded(B)
  <2> SUFFICES ASSUME NEW k \in 1 .. Len(B) - 1 PROVE NL \in {B[k], B[k + 1]}
    BY DEF LfEnded
  <2>1. k \in 1 .. 2 * m /\ k + 1 \in 1 .. 2 * m
    BY <1>15, <1>16
  <2>2. CASE \E i \in 1 .. m : k = 2 * i /\ B[k] = NL
    BY <2>2
  <2>3. CASE \E i \in 1 .. m : k = 2 * i - 1 /\ B[k] = lines[i]
    <3>1. PICK i \in 1 .. m : k = 2 * i - 1
      BY <2>3
    <3>2. k + 1 = 2 * i
      BY <3>1
    <3> QED BY <3>2, <1>16
  <2> QED BY <2>1, <2>2, <2>3, <1>17
<1>22. ASSUME NEW t \in Paths PROVE (\E k \in 2 .. Len(B) - 2 : B[k] = t) <=> t \in P
  <2>1. ASSUME NEW k \in 2 .. Len(B) - 2, B[k] = t PROVE t \in P
    BY <2>1, <1>14, <1>19, LinesDiffer
  <2>2. ASSUME t \in P PROVE \E k \in 2 .. Len(B) - 2 : B[k] = t
    <3>1. Contains(S, t)
      BY <2>2, <1>1, <1>13
    <3>2. PICK i \in 1 .. p : S[i] = t
      BY <3>1, <1>12
    <3>3. i + 1 \in 1 .. m /\ 2 * (i + 1) - 1 \in 2 .. Len(B) - 2
      BY <1>7, <1>16 DEF m
    <3>4. B[2 * (i + 1) - 1] = lines[i + 1]
      BY <3>3, <1>16
    <3>5. lines[i + 1] = t
      BY <3>2, <1>10
    <3> QED BY <3>3, <3>4, <3>5
  <2> QED BY <2>1, <2>2
<1>23. Len(B) >= 4
  BY <1>15, <1>16
<1>24. B = Block(P)
  BY DEF Block, B, lines, mid, head, one, last, S, N
<1>25. IsBlock(B, P)
  BY <1>16, <1>18, <1>20, <1>21, <1>22, <1>23 DEF IsBlock
<1> QED BY <1>24, <1>25

(* A text that fdh has written: the block between two parts without a sentinel, the
   first of which ends its last line. *)
Surrounds(L, R) ==
  /\ L \in Seq(Toks) /\ R \in Seq(Toks)
  /\ Free(L) /\ Free(R) /\ LfEnded(L) /\ LfEnded(R)
  /\ Len(L) = 0 \/ L[Len(L)] = NL

WrittenText(new, L, B, R) ==
  /\ new \in Seq(Toks) /\ Len(new) = Len(L) + Len(B) + Len(R)
  /\ \A i \in 1 .. Len(L) : new[i] = L[i]
  /\ \A i \in 1 .. Len(B) : new[Len(L) + i] = B[i]
  /\ \A i \in 1 .. Len(R) : new[Len(L) + Len(B) + i] = R[i]
  /\ LfEnded(new)

LEMMA WrittenIs ==
  ASSUME NEW P \in SUBSET Paths, NEW B, NEW L, NEW R, IsBlock(B, P), Surrounds(L, R)
  PROVE  WrittenText((L \o B) \o R, L, B, R)
<1> DEFINE LB == L \o B
           new == LB \o R
           l == Len(L)
           b == Len(B)
           r == Len(R)
<1>1. L \in Seq(Toks) /\ B \in Seq(Toks) /\ R \in Seq(Toks)
  BY DEF Surrounds, IsBlock
<1>2. l \in Nat /\ b \in Nat /\ r \in Nat /\ b >= 4
  BY <1>1 DEF IsBlock
<1>3. /\ LB \in Seq(Toks) /\ Len(LB) = l + b
      /\ \A i \in 1 .. l + b : LB[i] = IF i <= l THEN L[i] ELSE B[i - l]
  BY <1>1, ConcatProperties
<1> HIDE DEF LB
<1>4. /\ new \in Seq(Toks) /\ Len(new) = Len(LB) + r
      /\ \A i \in 1 .. Len(LB) + r : new[i] = IF i <= Len(LB) THEN LB[i] ELSE R[i - Len(LB)]
  <2>1. LB \in Seq(Toks) /\ R \in Seq(Toks)
    BY <1>1, <1>3
  <2> QED BY <2>1, ConcatProperties
<1>5. LfEnded(LB)
  <2>1. LfEnded(L) /\ LfEnded(B) /\ (Len(L) = 0 \/ L[Len(L)] = NL)
    BY DEF Surrounds, IsBlock
  <2> QED BY <1>1, <2>1, EndedConcat DEF LB
<1>6. LfEnded(new)
  <2>1. LB[Len(LB)] = NL
    <3>1. l + b \in 1 .. l + b /\ ~(l + b <= l) /\ (l + b) - l = b
      BY <1>2
    <3>2. B[b] = NL
      BY DEF IsBlock
    <3> QED BY <3>1, <3>2, <1>3
  <2>2. LfEnded(R)
    BY DEF Surrounds
  <2> QED BY <1>1, <1>3, <1>5, <2>1, <2>2, EndedConcat
<1> HIDE DEF new, l, b, r
<1>7. ASSUME NEW i \in 1 .. l PROVE new[i] = L[i]
  <2>1. i \in 1 .. Len(LB) + r /\ i <= Len(LB) /\ i \in 1 .. l + b /\ i <= l
    BY <1>2, <1>3
  <2> QED BY <2>1, <1>3, <1>4
<1>8. ASSUME NEW i \in 1 .. b PROVE new[l + i] = B[i]
  <2>1. l + i \in 1 .. Len(LB) + r /\ l + i <= Len(LB) /\ l + i \in 1 .. l + b /\ ~(l + i <= l)
        /\ (l + i) - l = i
    BY <1>2, <1>3
  <2> QED BY <2>1, <1>3, <1>4
<1>9. ASSUME NEW i \in 1 .. r PROVE new[l + b + i] = R[i]
  <2>1. l + b + i \in 1 .. Len(LB) + r /\ ~(l + b + i <= Len(LB)) /\ (l + b + i) - Len(LB) = i
    BY <1>2, <1>3
  <2> QED BY <2>1, <1>4
<1>10. new \in Seq(Toks) /\ Len(new) = l + b + r
  BY <1>3, <1>4
<1>11. WrittenText(new, L, B, R)
  BY <1>6, <1>7, <1>8, <1>9, <1>10 DEF WrittenText, l, b, r
<1> QED BY <1>11 DEF new, LB

(* What Apply reads in such a text. *)
Reads(new, L, R, B, P) ==
  /\ Find(new, Begin) = Len(L) + 1
  /\ Find(new, End) = Len(L) + Len(B) - 1
  /\ ~Malformed(new) /\ HasSection(new)
  /\ Before(new) = Unblanked(L) /\ After(new) = R
  /\ {t \in Paths : Contains(Listed(new), t)} = P

LEMMA WrittenReads ==
  ASSUME NEW P \in SUBSET Paths, NEW B, NEW L, NEW R, NEW new, IsBlock(B, P), Surrounds(L, R),
         new = (L \o B) \o R
  PROVE  Reads(new, L, R, B, P)
<1> DEFINE l == Len(L)
           b == Len(B)
           r == Len(R)
<1>1. L \in Seq(Toks) /\ B \in Seq(Toks) /\ R \in Seq(Toks)
  BY DEF Surrounds, IsBlock
<1>2. l \in Nat /\ b \in Nat /\ r \in Nat /\ b >= 4
  BY <1>1 DEF IsBlock
<1>3. /\ new \in Seq(Toks) /\ Len(new) = l + b + r
      /\ \A i \in 1 .. l : new[i] = L[i]
      /\ \A i \in 1 .. b : new[l + i] = B[i]
      /\ \A i \in 1 .. r : new[l + b + i] = R[i]
  <2>1. WrittenText(new, L, B, R)
    BY WrittenIs
  <2> QED BY <2>1 DEF WrittenText
<1>4. /\ B[1] = Begin /\ B[b - 1] = End /\ B[b] = NL
      /\ \A i \in 2 .. b - 2 : B[i] \notin Sentinels
      /\ \A t \in Paths : (\E i \in 2 .. b - 2 : B[i] = t) <=> t \in P
      /\ \A i \in 1 .. l : L[i] \notin Sentinels
  BY DEF IsBlock, Surrounds, Free
<1> HIDE DEF l, b, r
<1>5. new[l + 1] = Begin
  <2>1. 1 \in 1 .. b
    BY <1>2
  <2>2. new[l + 1] = B[1]
    BY <2>1, <1>3
  <2> QED BY <2>2, <1>4
<1>6. \A i \in 1 .. l : new[i] # Begin /\ new[i] # End
  BY <1>3, <1>4 DEF Sentinels
<1>7. Find(new, Begin) = l + 1
  <2> DEFINE k == l + 1
  <2>1. k \in 1 .. Len(new) /\ new[k] = Begin /\ \A i \in 1 .. k - 1 : new[i] # Begin
    <3>1. k \in 1 .. Len(new) /\ k - 1 = l
      BY <1>2, <1>3
    <3> QED BY <3>1, <1>5, <1>6
  <2> HIDE DEF k
  <2>2. Find(new, Begin) = k
    BY <1>3, <2>1, FindFirst
  <2> QED BY <2>2 DEF k
<1>8. Find(new, End) = l + b - 1
  <2> DEFINE k == l + b - 1
  <2>1. k \in 1 .. Len(new)
    BY <1>2, <1>3
  <2>2. new[k] = End
    <3>1. b - 1 \in 1 .. b /\ l + (b - 1) = k
      BY <1>2
    <3> QED BY <3>1, <1>3, <1>4
  <2>3. ASSUME NEW i \in 1 .. k - 1 PROVE new[i] # End
    <3>1. CASE i \in 1 .. l
      BY <3>1, <1>6
    <3>2. CASE i = l + 1
      BY <3>2, <1>5, TokensDiffer
    <3>3. CASE i > l + 1
      <4> DEFINE j == i - l
      <4>1. j \in 2 .. b - 2 /\ j \in 1 .. b /\ l + j = i
        BY <3>3, <1>2
      <4> HIDE DEF j
      <4>2. new[l + j] = B[j]
        BY <4>1, <1>3
      <4>3. B[j] # End
        BY <4>1, <1>4 DEF Sentinels
      <4> QED BY <4>1, <4>2, <4>3
    <3>4. i \in Nat /\ (i \in 1 .. l \/ i = l + 1 \/ i > l + 1)
      BY <1>2
    <3> QED BY <3>1, <3>2, <3>3, <3>4
  <2> HIDE DEF k
  <2>4. Find(new, End) = k
    BY <1>3, <2>1, <2>2, <2>3, FindFirst
  <2> QED BY <2>4 DEF k
<1>9. ~Malformed(new) /\ HasSection(new)
  BY <1>2, <1>7, <1>8 DEF Malformed, HasSection
<1>10. Before(new) = Unblanked(L)
  <2>1. 0 + l <= Len(new) /\ \A i \in 1 .. l : new[0 + i] = L[i]
    BY <1>2, <1>3
  <2>2. Slice(new, 0, Len(L)) = L
    BY <1>1, <1>3, <2>1, SliceFound DEF l
  <2>3. (l + 1) - 1 = l /\ 0 + 1 = 1 /\ 0 + l = l
    BY <1>2
  <2>4. SubSeq(new, 1, Find(new, Begin) - 1) = L
    BY <1>7, <2>2, <2>3 DEF Slice, l
  <2> QED BY <2>4 DEF Before, Unblanked
<1>11. After(new) = R
  <2> DEFINE a == l + b
             e == Find(new, End)
  <2>1. a \in Nat /\ a + Len(R) <= Len(new) /\ \A i \in 1 .. Len(R) : new[a + i] = R[i]
    <3>1. a \in Nat /\ a + r <= Len(new)
      BY <1>2, <1>3
    <3>2. \A i \in 1 .. r : new[a + i] = R[i]
      BY <1>3
    <3> QED BY <3>1, <3>2 DEF r
  <2> HIDE DEF a
  <2>2. Slice(new, a, Len(R)) = R
    BY <1>1, <1>3, <2>1, SliceFound
  <2>3. e + 1 = a /\ e + 2 = a + 1 /\ e < Len(new) /\ a + Len(R) = Len(new)
    BY <1>2, <1>3, <1>8 DEF a, r
  <2>4. new[a] = NL
    <3>1. b \in 1 .. b
      BY <1>2
    <3>2. new[l + b] = B[b]
      BY <3>1, <1>3
    <3> QED BY <3>2, <1>4 DEF a
  <2> HIDE DEF e
  <2>5. After(new) = SubSeq(new, a + 1, a + Len(R))
    BY <2>3, <2>4 DEF After, e
  <2> QED BY <2>2, <2>5 DEF Slice
<1>12. {t \in Paths : Contains(Listed(new), t)} = P
  <2> DEFINE a == l + 1
             n == b - 3
             inside == SubSeq(new, a + 1, a + n)
  <2>1. a \in Nat /\ n \in Nat /\ a + n <= Len(new)
    BY <1>2, <1>3
  <2>2. a + 1 = Find(new, Begin) + 1 /\ a + n = Find(new, End) - 1
    BY <1>2, <1>7, <1>8
  <2> HIDE DEF a, n
  <2>3. inside \in Seq(Toks) /\ Len(inside) = n /\ \A i \in 1 .. n : inside[i] = new[a + i]
    <3>1. new \in Seq(Toks)
      BY <1>3
    <3>2. IsPart(inside, Toks, new, a, n)
      BY <2>1, <3>1, SliceIs
    <3> QED BY <3>2 DEF IsPart
  <2>4. Listed(new) = Drop(inside, {NL})
    BY <1>9, <2>2 DEF Listed
  <2> HIDE DEF inside
  <2>5. \A t : Contains(Drop(inside, {NL}), t) <=> Contains(inside, t) /\ t \notin {NL}
    BY <2>3, DropContents
  <2>6. ASSUME NEW t \in Paths PROVE Contains(Listed(new), t) <=> t \in P
    <3>1. t # NL
      BY LinesDiffer
    <3>2. Contains(inside, t) <=> \E i \in 2 .. b - 2 : B[i] = t
      <4>1. ASSUME NEW i \in 1 .. n PROVE i + 1 \in 2 .. b - 2 /\ inside[i] = B[i + 1]
        <5> DEFINE j == i + 1
        <5>1. j \in 1 .. b /\ j \in 2 .. b - 2 /\ l + j = a + i
          BY <1>2, <2>1 DEF a, n
        <5> HIDE DEF j
        <5>2. new[l + j] = B[j] /\ inside[i] = new[a + i]
          BY <5>1, <1>3, <2>3
        <5> QED BY <5>1, <5>2 DEF j
      <4>2. ASSUME NEW i \in 2 .. b - 2 PROVE i - 1 \in 1 .. n /\ inside[i - 1] = B[i]
        <5> DEFINE j == i - 1
        <5>1. i \in 1 .. b /\ j \in 1 .. n /\ l + i = a + j
          BY <1>2, <2>1 DEF a, n
        <5> HIDE DEF j
        <5>2. new[l + i] = B[i] /\ inside[j] = new[a + j]
          BY <5>1, <1>3, <2>3
        <5> QED BY <5>1, <5>2 DEF j
      <4>3. ASSUME Contains(inside, t) PROVE \E i \in 2 .. b - 2 : B[i] = t
        <5>1. PICK i \in 1 .. n : inside[i] = t
          BY <4>3, <2>3 DEF Contains
        <5> QED BY <5>1, <4>1
      <4>4. ASSUME NEW i \in 2 .. b - 2, B[i] = t PROVE Contains(inside, t)
        <5>1. i - 1 \in 1 .. Len(inside) /\ inside[i - 1] = t
          BY <4>2, <4>4, <2>3
        <5> QED BY <5>1 DEF Contains
      <4> QED BY <4>3, <4>4
    <3> QED BY <3>1, <3>2, <2>4, <2>5, <1>4
  <2> QED BY <2>6
<1> QED BY <1>7, <1>8, <1>9, <1>10, <1>11, <1>12 DEF Reads, l, b

LEMMA BlankKept ==
  ASSUME NEW L \in Seq(Toks), Free(L), LfEnded(L), Len(L) = 0 \/ L[Len(L)] = NL
  PROVE  LET U == Unblanked(L)
         IN  /\ U \in Seq(Toks) /\ Free(U) /\ LfEnded(U) /\ (Len(U) = 0 \/ U[Len(U)] = NL)
             /\ Drop(U, {NL}) = Drop(L, {NL})
<1> DEFINE U == Unblanked(L)
<1>1. /\ U \in Seq(Toks)
      /\ ~EndsBlank(L) => U = L
      /\ EndsBlank(L) => Len(U) = Len(L) - 1 /\ \A i \in 1 .. Len(L) - 1 : U[i] = L[i]
  BY UnblankedIs
<1> HIDE DEF U
<1>2. CASE ~EndsBlank(L)
  BY <1>1, <1>2 DEF U
<1>3. CASE EndsBlank(L)
  <2> DEFINE n == Len(L) - 1
  <2>1. n \in Nat /\ n >= 1 /\ Len(L) = n + 1 /\ L[n] = NL /\ L[n + 1] = NL
    BY <1>3 DEF EndsBlank
  <2>2. Len(U) = n /\ \A i \in 1 .. n : U[i] = L[i]
    BY <1>1, <1>3
  <2> HIDE DEF n
  <2>3. Free(U)
    BY <2>1, <2>2 DEF Free
  <2>4. LfEnded(U)
    <3> SUFFICES ASSUME NEW i \in 1 .. n - 1 PROVE NL \in {U[i], U[i + 1]}
      BY <2>2 DEF LfEnded
    <3>1. i \in 1 .. n /\ i + 1 \in 1 .. n /\ i \in 1 .. Len(L) - 1
      BY <2>1
    <3>2. U[i] = L[i] /\ U[i + 1] = L[i + 1]
      BY <3>1, <2>2
    <3> QED BY <3>1, <3>2 DEF LfEnded
  <2>5. U[Len(U)] = NL
    BY <2>1, <2>2
  <2>6. Drop(L, {NL}) = Drop(U, {NL})
    <3>1. Len(L) = Len(U) + 1 /\ (\A i \in 1 .. Len(U) : U[i] = L[i]) /\ L[Len(L)] \in {NL}
      BY <2>1, <2>2
    <3> QED BY <1>1, <3>1, DropAppended
  <2> QED BY <1>1, <2>3, <2>4, <2>5, <2>6 DEF U
<1> QED BY <1>2, <1>3

(* Doing it again. *)
BlankLineAbove(text) ==
  Find(text, Begin) # 0 /\ IsSuffix(<<NL, NL>>, SubSeq(text, 1, Find(text, Begin) - 1))
Again(new, P) ==
  \/ BlankLineAbove(new) /\ Rewrite(new, P) # new /\ Rewrite(new, P) = RemoveAt(new, Find(new, Begin) - 1)
  \/ ~BlankLineAbove(new) /\ Rewrite(new, P) = new

LEMMA WrittenAgain ==
  ASSUME NEW P \in SUBSET Paths, P # {}, NEW L, NEW R, NEW new, Surrounds(L, R),
         new = (L \o Block(P)) \o R
  PROVE  Again(new, P)
<1> DEFINE B == Block(P)
           U == Unblanked(L)
           again == Rewrite(new, P)
<1>1. IsBlock(B, P)
  BY BlockIs
<1>2. L \in Seq(Toks) /\ B \in Seq(Toks) /\ R \in Seq(Toks)
  BY <1>1 DEF Surrounds, IsBlock
<1> HIDE DEF B
<1>3. Reads(new, L, R, B, P)
  BY <1>1, WrittenReads DEF B
<1>4. /\ U \in Seq(Toks) /\ Free(U) /\ LfEnded(U) /\ (Len(U) = 0 \/ U[Len(U)] = NL)
  BY <1>2, BlankKept DEF Surrounds
<1> HIDE DEF U
<1>5. again = (U \o B) \o R
  <2>1. Foreign(new) = U \o R
    BY <1>3 DEF Foreign, Reads, U
  <2>2. again = IF U \o R = <<>> THEN B ELSE (U \o B) \o R
    BY <1>3, <2>1 DEF Rewrite, Reads, U, B
  <2>3. ASSUME U \o R = <<>> PROVE (U \o B) \o R = B
    <3>1. U = <<>> /\ R = <<>>
      BY <1>2, <1>4, <2>3, ConcatEqualIffEmpty
    <3>2. <<>> \o B = B /\ B \o <<>> = B
      BY <1>2, ConcatEmptySeq
    <3> QED BY <3>1, <3>2
  <2> QED BY <2>2, <2>3
<1> HIDE DEF again
<1>6. /\ U \in Seq(Toks)
      /\ ~EndsBlank(L) => U = L
      /\ EndsBlank(L) => Len(U) = Len(L) - 1 /\ \A i \in 1 .. Len(L) - 1 : U[i] = L[i]
  BY <1>2, UnblankedIs DEF U
<1>0. BlankLineAbove(new) <=> EndsBlank(L)
  <2>1. WrittenText(new, L, B, R)
    BY <1>1, WrittenIs DEF B
  <2>2. Slice(new, 0, Len(L)) = L
    <3>1. new \in Seq(Toks) /\ 0 + Len(L) <= Len(new) /\ \A i \in 1 .. Len(L) : new[0 + i] = L[i]
      <4>1. Len(L) \in Nat /\ Len(B) \in Nat /\ Len(R) \in Nat
        BY <1>2
      <4> QED BY <2>1, <4>1 DEF WrittenText
    <3> QED BY <1>2, <3>1, SliceFound
  <2>3. Find(new, Begin) = Len(L) + 1 /\ Len(L) \in Nat
    BY <1>2, <1>3 DEF Reads
  <2>4. SubSeq(new, 1, Find(new, Begin) - 1) = L
    <3>1. 0 + 1 = 1 /\ 0 + Len(L) = Find(new, Begin) - 1
      BY <2>3
    <3> QED BY <2>2, <3>1 DEF Slice
  <2>5. BlankLineAbove(new) <=> IsSuffix(<<NL, NL>>, L)
    <3> DEFINE begin == Find(new, Begin)
               lead  == SubSeq(new, 1, begin - 1)
    <3>1. begin # 0 /\ lead = L
      BY <2>3, <2>4
    <3>2. BlankLineAbove(new) <=> (begin # 0 /\ IsSuffix(<<NL, NL>>, lead))
      BY DEF BlankLineAbove
    <3> HIDE DEF lead, begin
    <3> QED BY <3>1, <3>2
  <2> QED BY <1>2, <2>5, BlankSuffix
<1>7. CASE ~EndsBlank(L)
  <2>1. again = new
    BY <1>5, <1>6, <1>7 DEF B
  <2> QED BY <1>0, <1>7, <2>1 DEF Again, again
<1>8. CASE EndsBlank(L)
  <2> DEFINE l == Len(L)
             b == Len(B)
             r == Len(R)
             cut == RemoveAt(new, l)
             k == l - 1
             n == b + r
             x == SubSeq(new, 1, k)
             y == SubSeq(new, l + 1, l + n)
  <2>1. l \in Nat /\ l >= 2 /\ b \in Nat /\ r \in Nat
    BY <1>2, <1>8 DEF EndsBlank
  <2>2. Surrounds(U, R)
    BY <1>4 DEF Surrounds
  <2>3. WrittenText(again, U, B, R)
    BY <1>1, <1>5, <2>2, WrittenIs
  <2>4. WrittenText(new, L, B, R)
    BY <1>1, WrittenIs DEF B
  <2>5. Len(U) = k /\ \A i \in 1 .. k : U[i] = L[i]
    BY <1>6, <1>8
  <2> HIDE DEF l, b, r, k
  <2>6. k \in Nat /\ l = k + 1
    BY <2>1 DEF k, l
  <2>7. /\ again \in Seq(Toks) /\ Len(again) = k + b + r
        /\ \A i \in 1 .. k : again[i] = U[i]
        /\ \A i \in 1 .. b : again[k + i] = B[i]
        /\ \A i \in 1 .. r : again[k + b + i] = R[i]
    BY <2>3, <2>5 DEF WrittenText, b, r
  <2>8. /\ new \in Seq(Toks) /\ Len(new) = l + b + r
        /\ \A i \in 1 .. l : new[i] = L[i]
        /\ \A i \in 1 .. b : new[l + i] = B[i]
        /\ \A i \in 1 .. r : new[l + b + i] = R[i]
    BY <2>4 DEF WrittenText, l, b, r
  <2>9. n \in Nat /\ l + n <= Len(new) /\ Len(new) = l + n /\ Len(again) = k + n
    BY <2>1, <2>6, <2>7, <2>8
  <2>10. ASSUME NEW i \in 1 .. n PROVE again[k + i] = new[l + i]
    <3>1. CASE i \in 1 .. b
      BY <3>1, <2>7, <2>8
    <3>2. CASE i \notin 1 .. b
      <4> DEFINE j == i - b
      <4>1. j \in 1 .. r /\ i = b + j /\ k + b + j = k + i /\ l + b + j = l + i
        BY <3>2, <2>1, <2>6
      <4> HIDE DEF j
      <4>2. again[k + b + j] = R[j] /\ new[l + b + j] = R[j]
        BY <4>1, <2>7, <2>8
      <4> QED BY <4>1, <4>2
    <3> QED BY <3>1, <3>2
  <2> HIDE DEF n
  <2>11. ASSUME NEW i \in 1 .. k PROVE again[i] = new[i]
    <3>1. i \in 1 .. l
      BY <2>6
    <3> QED BY <3>1, <2>5, <2>7, <2>8
  <2>12. y \in Seq(Toks) /\ Len(y) = n /\ \A i \in 1 .. n : y[i] = new[l + i]
    <3>1. new \in Seq(Toks) /\ l \in Nat /\ n \in Nat /\ l + n <= Len(new)
      BY <2>1, <2>8, <2>9
    <3>2. IsPart(y, Toks, new, l, n)
      BY <3>1, SliceIs
    <3> QED BY <3>2 DEF IsPart
  <2>13. x \in Seq(Toks) /\ Len(x) = k /\ \A i \in 1 .. k : x[i] = new[i]
    <3> DEFINE z == SubSeq(new, 0 + 1, 0 + k)
    <3>1. 0 \in Nat /\ 0 + k <= Len(new) /\ 0 + 1 = 1 /\ 0 + k = k
      BY <2>6, <2>9
    <3>2. z \in Seq(Toks) /\ Len(z) = k /\ \A i \in 1 .. k : z[i] = new[0 + i]
      <4>1. 0 \in Nat /\ k \in Nat /\ 0 + k <= Len(new) /\ new \in Seq(Toks)
        BY <2>6, <2>8, <3>1
      <4>2. IsPart(z, Toks, new, 0, k)
        BY <4>1, SliceIs
      <4> QED BY <4>2 DEF IsPart
    <3>3. x = z
      BY <3>1
    <3>4. \A i \in 1 .. k : 0 + i = i
      BY <2>6
    <3> HIDE DEF x, z
    <3>5. \A i \in 1 .. k : z[i] = new[i]
      BY <3>2, <3>4
    <3> QED BY <3>2, <3>3, <3>5
  <2>14. cut = x \o y
    BY <2>6, <2>9 DEF RemoveAt
  <2> HIDE DEF cut, x, y
  <2>15. /\ x \o y \in Seq(Toks) /\ Len(x \o y) = Len(x) + Len(y)
         /\ \A i \in 1 .. Len(x) + Len(y) : (x \o y)[i] = IF i <= Len(x) THEN x[i] ELSE y[i - Len(x)]
    BY <2>12, <2>13, ConcatProperties
  <2>16. /\ cut \in Seq(Toks) /\ Len(cut) = k + n
         /\ \A i \in 1 .. k + n : cut[i] = IF i <= k THEN x[i] ELSE y[i - k]
    BY <2>12, <2>13, <2>14, <2>15
  <2>17. ASSUME NEW i \in 1 .. Len(again) PROVE again[i] = cut[i]
    <3>1. i \in 1 .. k + n
      BY <2>9
    <3>2. CASE i <= k
      <4>1. i \in 1 .. k
        BY <3>2, <2>6, <2>9
      <4>2. cut[i] = x[i]
        BY <3>1, <3>2, <2>16
      <4>3. x[i] = new[i]
        BY <4>1, <2>13
      <4>4. again[i] = new[i]
        BY <4>1, <2>11
      <4> QED BY <4>2, <4>3, <4>4
    <3>3. CASE ~(i <= k)
      <4> DEFINE j == i - k
      <4>1. j \in 1 .. n /\ k + j = i
        BY <3>1, <3>3, <2>6, <2>9
      <4>2. cut[i] = y[j]
        BY <3>1, <3>3, <2>16
      <4> HIDE DEF j
      <4>3. y[j] = new[l + j] /\ again[k + j] = new[l + j]
        BY <4>1, <2>10, <2>12
      <4> QED BY <4>1, <4>2, <4>3
    <3> QED BY <3>2, <3>3
  <2>18. Len(again) = Len(cut)
    BY <2>9, <2>16
  <2>19. again = cut
    BY <2>7, <2>16, <2>17, <2>18, SeqEqual
  <2>20. Find(new, Begin) - 1 = l
    BY <1>3, <2>1 DEF Reads, l
  <2>21. again # new
    BY <2>6, <2>9
  <2> QED BY <1>0, <1>8, <2>19, <2>20, <2>21 DEF Again, again, cut
<1> QED BY <1>7, <1>8

(* What a developer has made of a text with a block in it. *)
LEMMA SplitIs ==
  ASSUME NEW text \in Seq(Toks), HasSection(text), ~Malformed(text), LfEnded(text), OneOfEach(text)
  PROVE  Surrounds(Before(text), After(text))
<1> DEFINE b == Find(text, Begin)
           e == Find(text, End)
           k == b - 1
           lead == SubSeq(text, 0 + 1, 0 + k)
           n == Len(text)
           a == IF e < n /\ text[e + 1] = NL THEN e + 1 ELSE e
           m == n - a
           R == SubSeq(text, a + 1, a + m)
<1>1. n \in Nat /\ b # 0
  BY DEF HasSection
<1>2. b \in 1 .. n /\ text[b] = Begin /\ \A i \in 1 .. b - 1 : text[i] # Begin
  BY <1>1, FindIs
<1>3. e # 0 /\ b <= e
  <2>1. /\ b = 0 \/ b \in Nat
        /\ e = 0 \/ e \in Nat
    BY FindIs
  <2>2. ~((b = 0) # (e = 0)) /\ ~(e < b)
    BY DEF Malformed
  <2> HIDE DEF b, e
  <2> QED BY <2>1, <2>2, <1>1
<1>4. e \in 1 .. n /\ text[e] = End /\ \A i \in 1 .. e - 1 : text[i] # End
  BY <1>3, FindIs
<1>5. Before(text) = Unblanked(lead)
  <2>1. 0 + 1 = 1 /\ 0 + k = b - 1
    BY <1>2
  <2> HIDE DEF b, k
  <2> QED BY <2>1 DEF Before, Unblanked, b
<1> HIDE DEF b, e
<1>6. b < e
  BY <1>2, <1>3, <1>4, TokensDiffer
<1>7. /\ a \in Nat /\ m \in Nat /\ a + m = n /\ e <= a
      /\ a + 1 = (IF e < n /\ text[e + 1] = NL THEN e + 2 ELSE e + 1)
  BY <1>1, <1>4
<1>8. After(text) = R
  BY <1>7 DEF After, e
<1> HIDE DEF a, m
<1>9. k \in Nat /\ 0 + k <= n /\ 0 + 1 = 1
  BY <1>1, <1>2
<1> HIDE DEF k
<1>10. /\ lead \in Seq(Toks) /\ Len(lead) = k
       /\ \A i \in 1 .. k : lead[i] = text[0 + i]
       /\ LfEnded(lead)
  <2>1. 0 \in Nat /\ 0 + k <= Len(text)
    BY <1>9
  <2> HIDE DEF n
  <2>2. IsPart(lead, Toks, text, 0, k)
    BY <2>1, <1>9, SliceIs
  <2> QED BY <2>2 DEF IsPart
<1>11. /\ R \in Seq(Toks) /\ Len(R) = m
       /\ \A i \in 1 .. m : R[i] = text[a + i]
       /\ LfEnded(R)
  <2>1. a \in Nat /\ m \in Nat /\ a + m <= Len(text)
    BY <1>1, <1>7
  <2> HIDE DEF n
  <2>2. IsPart(R, Toks, text, a, m)
    BY <2>1, SliceIs
  <2> QED BY <2>2 DEF IsPart
<1> HIDE DEF lead, R, n
<1>12. \A i \in 1 .. k : lead[i] = text[i]
  <2>1. \A i \in 1 .. k : 0 + i = i
    BY <1>9
  <2> QED BY <2>1, <1>10
<1>13. Free(lead)
  <2>1. ASSUME NEW i \in 1 .. k PROVE lead[i] \notin Sentinels
    <3>1. i \in 1 .. b - 1 /\ i \in 1 .. e - 1
      BY <1>2, <1>4, <1>6 DEF k
    <3> QED BY <3>1, <1>2, <1>4, <1>12 DEF Sentinels
  <2> QED BY <2>1, <1>10 DEF Free
<1>14. Len(lead) = 0 \/ lead[Len(lead)] = NL
  <2> SUFFICES ASSUME k # 0 PROVE lead[k] = NL
    BY <1>10
  <2>1. k \in 1 .. k /\ k \in 1 .. Len(text) - 1 /\ k + 1 = b
    BY <1>1, <1>2, <1>9 DEF k, n
  <2>2. NL \in {text[k], text[k + 1]}
    BY <2>1 DEF LfEnded
  <2>3. text[k] = NL
    BY <2>1, <2>2, <1>2, TokensDiffer
  <2> QED BY <2>1, <2>3, <1>12
<1>15. Free(R)
  <2>1. ASSUME NEW i \in 1 .. m PROVE R[i] \notin Sentinels
    <3> DEFINE j == a + i
    <3>1. j \in DOMAIN text /\ b \in DOMAIN text /\ e \in DOMAIN text /\ j # b /\ j # e
      BY <1>1, <1>2, <1>4, <1>6, <1>7 DEF n
    <3>2. R[i] = text[j]
      BY <1>11
    <3> HIDE DEF j
    <3>3. \A x, y \in DOMAIN text : text[x] = text[y] /\ text[x] \in {Begin, End} => x = y
      BY DEF OneOfEach
    <3>4. text[j] # text[b] /\ text[j] # text[e]
      BY <3>1, <3>3, <1>2, <1>4
    <3> QED BY <3>2, <3>4, <1>2, <1>4 DEF Sentinels
  <2> QED BY <2>1, <1>11 DEF Free
<1>16. /\ Unblanked(lead) \in Seq(Toks) /\ Free(Unblanked(lead)) /\ LfEnded(Unblanked(lead))
       /\ Len(Unblanked(lead)) = 0 \/ Unblanked(lead)[Len(Unblanked(lead))] = NL
  BY <1>10, <1>13, <1>14, BlankKept
<1> QED BY <1>5, <1>8, <1>11, <1>15, <1>16 DEF Surrounds

(* One written text keeps what another had. *)
Keeps(text, new, P) ==
  /\ new \in Seq(Toks) /\ ~Malformed(new)
  /\ Drop(Foreign(new), {NL}) = Drop(Foreign(text), {NL})
  /\ LfEnded(new)
  /\ {t \in Paths : Contains(Listed(new), t)} = P
  /\ Again(new, P)

LEMMA WrittenKeeps ==
  ASSUME NEW P \in SUBSET Paths, P # {}, NEW L, NEW R, NEW new, NEW text, Surrounds(L, R),
         new = (L \o Block(P)) \o R, Drop(L \o R, {NL}) = Drop(Foreign(text), {NL})
  PROVE  Keeps(text, new, P)
<1> DEFINE B == Block(P)
           U == Unblanked(L)
<1>1. IsBlock(B, P)
  BY BlockIs
<1> HIDE DEF B
<1>2. Reads(new, L, R, B, P) /\ WrittenText(new, L, B, R)
  BY <1>1, WrittenReads, WrittenIs DEF B
<1>3. L \in Seq(Toks) /\ R \in Seq(Toks)
  BY DEF Surrounds
<1>4. U \in Seq(Toks) /\ Drop(U, {NL}) = Drop(L, {NL})
  BY BlankKept DEF Surrounds
<1>5. Foreign(new) = U \o R
  BY <1>2 DEF Foreign, Reads
<1> HIDE DEF U
<1>6. Drop(U \o R, {NL}) = Drop(L \o R, {NL})
  <2>1. Drop(U \o R, {NL}) = Drop(U, {NL}) \o Drop(R, {NL})
    <3>1. U \in Seq(Toks) /\ R \in Seq(Toks)
      BY <1>3, <1>4
    <3>2. DropsApart(U, R, {NL})
      BY <3>1, DropConcat
    <3> QED BY <3>2 DEF DropsApart
  <2>2. Drop(L \o R, {NL}) = Drop(L, {NL}) \o Drop(R, {NL})
    <3>1. DropsApart(L, R, {NL})
      BY <1>3, DropConcat
    <3> QED BY <3>1 DEF DropsApart
  <2> QED BY <2>1, <2>2, <1>4
<1>7. Again(new, P)
  BY WrittenAgain
<1> QED BY <1>2, <1>5, <1>6, <1>7 DEF Keeps, Reads, WrittenText

LEMMA EmptiedKeeps ==
  ASSUME NEW text, NEW new \in Seq(Toks), new = Foreign(text), Free(new), LfEnded(new)
  PROVE  Keeps(text, new, {})
<1>1. Find(new, Begin) = 0 /\ Find(new, End) = 0
  <2>1. \A i \in 1 .. Len(new) : new[i] # Begin /\ new[i] # End
    BY DEF Free, Sentinels
  <2> QED BY <2>1, FindIs
<1>2. ~Malformed(new) /\ ~HasSection(new)
  BY <1>1 DEF Malformed, HasSection
<1>3. Foreign(new) = new /\ Listed(new) = <<>>
  BY <1>2 DEF Foreign, Listed
<1>4. Rewrite(new, {}) = new /\ ~BlankLineAbove(new)
  BY <1>1, <1>2, <1>3 DEF Rewrite, BlankLineAbove
<1>5. \A t : ~Contains(<<>>, t)
  BY DEF Contains
<1> QED BY <1>2, <1>3, <1>4, <1>5 DEF Keeps, Again

(* The block after a text without one. *)
LEMMA SeparatedIs ==
  ASSUME NEW text \in Seq(Toks), text # <<>>, Free(text), LfEnded(text)
  PROVE  /\ Surrounds(text \o Separator(text), <<>>)
         /\ Drop((text \o Separator(text)) \o <<>>, {NL}) = Drop(text, {NL})
<1> DEFINE D == Separator(text)
           L == text \o D
           l == Len(text)
           d == Len(D)
<1>1. /\ D \in Seq(Toks) /\ d \in {1, 2} /\ \A i \in 1 .. d : D[i] = NL
  <2>1. NL \in Toks
    BY DEF Toks
  <2>2. D = <<NL>> \/ D = <<NL, NL>>
    BY DEF Separator
  <2> HIDE DEF D
  <2>3. CASE D = <<NL>>
    BY <2>1, <2>3
  <2>4. CASE D = <<NL, NL>>
    <3>1. D \in Seq(Toks) /\ d = 2 /\ D[1] = NL /\ D[2] = NL
      BY <2>1, <2>4
    <3>2. \A i \in 1 .. 2 : i = 1 \/ i = 2
      OBVIOUS
    <3> QED BY <3>1, <3>2
  <2> QED BY <2>2, <2>3, <2>4
<1> HIDE DEF D
<1>2. /\ L \in Seq(Toks) /\ Len(L) = l + d
      /\ \A i \in 1 .. l + d : L[i] = IF i <= l THEN text[i] ELSE D[i - l]
  BY <1>1, ConcatProperties
<1>3. l \in Nat /\ d \in Nat /\ d >= 1
  <2>1. l \in Nat
    OBVIOUS
  <2> HIDE DEF l, d
  <2> QED BY <2>1, <1>1
<1>4. LfEnded(D)
  BY <1>1 DEF LfEnded
<1>5. LfEnded(L)
  <2>1. D[1] = NL
    BY <1>1, <1>3
  <2> QED BY <1>1, <1>4, <2>1, EndedConcat
<1> HIDE DEF L, l, d
<1>6. ASSUME NEW i \in 1 .. l + d PROVE L[i] \notin Sentinels
  <2>1. CASE i <= l
    <3>1. i \in 1 .. l /\ L[i] = text[i]
      BY <2>1, <1>2, <1>3
    <3> QED BY <3>1 DEF Free, l
  <2>2. CASE ~(i <= l)
    <3>1. i - l \in 1 .. d /\ L[i] = D[i - l]
      BY <2>2, <1>2, <1>3
    <3> QED BY <3>1, <1>1, TokensDiffer DEF Sentinels, d
  <2> QED BY <2>1, <2>2
<1>7. L[Len(L)] = NL
  <2>1. l + d \in 1 .. l + d /\ ~(l + d <= l) /\ (l + d) - l = d /\ d \in 1 .. d
    BY <1>3
  <2>2. D[d] = NL
    BY <1>1, <2>1 DEF d
  <2> QED BY <2>1, <2>2, <1>2
<1>8. Surrounds(L, <<>>)
  <2>1. <<>> \in Seq(Toks) /\ Free(<<>>) /\ LfEnded(<<>>)
    BY DEF Free, LfEnded
  <2> QED BY <1>2, <1>5, <1>6, <1>7, <2>1 DEF Surrounds, Free
<1>9. Drop(D, {NL}) = <<>>
  <2> DEFINE K == Drop(D, {NL})
  <2>1. K \in Seq(Toks) /\ \A t : Contains(K, t) <=> Contains(D, t) /\ t \notin {NL}
    BY <1>1, DropContents
  <2>2. \A t : Contains(D, t) => t = NL
    BY <1>1 DEF Contains, d
  <2> HIDE DEF K
  <2>3. \A t : ~Contains(K, t)
    BY <2>1, <2>2
  <2>4. ASSUME Len(K) # 0 PROVE FALSE
    <3>1. 1 \in 1 .. Len(K)
      BY <2>1, <2>4
    <3>2. Contains(K, K[1])
      BY <3>1 DEF Contains
    <3> QED BY <3>2, <2>3
  <2>5. K = <<>>
    BY <2>1, <2>4
  <2> QED BY <2>5 DEF K
<1>10. Drop(L, {NL}) = Drop(text, {NL}) \o <<>>
  <2>1. Drop(text \o D, {NL}) = Drop(text, {NL}) \o Drop(D, {NL})
    <3>1. DropsApart(text, D, {NL})
      BY <1>1, DropConcat
    <3> QED BY <3>1 DEF DropsApart
  <2> QED BY <2>1, <1>9 DEF L
<1>11. Drop(text, {NL}) \in Seq(Toks)
  BY DropContents
<1>12. Drop(L, {NL}) = Drop(text, {NL})
  BY <1>10, <1>11, ConcatEmptySeq
<1>13. L \o <<>> = L
  BY <1>2, ConcatEmptySeq
<1> QED BY <1>8, <1>12, <1>13 DEF L, D

LEMMA CarriageReturns == CRLF \notin Toks
<1>1. CRLF \notin Negations /\ CRLF \notin {NL, Begin, End}
  BY DEF Negations, CRLF, NL, Begin, End
<1>2. CRLF \notin Paths \union UserLines
  BY LineAssumption
<1> QED BY <1>1, <1>2 DEF Toks

LEMMA NormalIs ==
  ASSUME NEW text \in Seq(Toks)
  PROVE  Normalized(text) = text
<1>1. DOMAIN text = 1 .. Len(text) /\ \A i \in 1 .. Len(text) : text[i] # CRLF
  BY CarriageReturns
<1>2. Normalized(text) = [i \in 1 .. Len(text) |-> text[i]]
  BY <1>1 DEF Normalized
<1>3. text = [i \in 1 .. Len(text) |-> text[i]]
  BY <1>1
<1> QED BY <1>2, <1>3

LEMMA LfLinesAreEnded ==
  ASSUME NEW text, LfEnded(text)
  PROVE  LinesEnded(text)
BY DEF LfEnded, LinesEnded

LEMMA IgnoresAreTexts ==
  ASSUME NEW n \in Nat, NEW text \in Ignores(n)
  PROVE  LET t == Normalized(text)
         IN  t \in Seq(Toks) /\ LfEnded(t) /\ OneOfEach(t)
<1> DEFINE S == UserLines \union {NL, CRLF, Begin, End}
           t == Normalized(text)
<1>1. text \in BoundedSeq(S, n) /\ LinesEnded(text) /\ OneOfEach(text)
  BY DEF Ignores
<1>2. \A x \in S : x = CRLF \/ x \in Toks
  BY DEF Toks
<1> HIDE DEF S
<1>3. PICK m \in 0 .. n : text \in [1 .. m -> S]
  BY <1>1, BoundedSeqElements
<1>4. m \in Nat /\ Len(text) = m /\ DOMAIN text = 1 .. m
  BY <1>3
<1>5. /\ t \in [1 .. m -> Toks]
      /\ \A i \in 1 .. m : t[i] = IF text[i] = CRLF THEN NL ELSE text[i]
  <2>1. NL \in Toks
    BY DEF Toks
  <2>2. t = [i \in 1 .. m |-> IF text[i] = CRLF THEN NL ELSE text[i]]
    BY <1>4 DEF Normalized
  <2>3. \A i \in 1 .. m : text[i] \in S
    BY <1>3
  <2> QED BY <1>2, <2>1, <2>2, <2>3
<1> HIDE DEF t
<1>6. t \in Seq(Toks) /\ Len(t) = m /\ DOMAIN t = 1 .. m
  BY <1>4, <1>5
<1>7. LfEnded(t)
  <2> SUFFICES ASSUME NEW i \in 1 .. m - 1 PROVE NL \in {t[i], t[i + 1]}
    BY <1>6 DEF LfEnded
  <2>1. i \in 1 .. m /\ i + 1 \in 1 .. m
    BY <1>4
  <2>2. {NL, CRLF} \cap {text[i], text[i + 1]} # {}
    BY <1>1, <1>4 DEF LinesEnded
  <2> QED BY <1>5, <2>1, <2>2
<1>8. OneOfEach(t)
  <2> SUFFICES ASSUME NEW i \in 1 .. m, NEW j \in 1 .. m, t[i] = t[j], t[i] \in {Begin, End}
               PROVE  i = j
    BY <1>6 DEF OneOfEach
  <2>1. text[i] = t[i] /\ text[j] = t[j]
    BY <1>5, TokensDiffer
  <2> QED BY <2>1, <1>1, <1>4 DEF OneOfEach
<1> QED BY <1>6, <1>7, <1>8 DEF t

LEMMA RewriteKeeps ==
  ASSUME NEW text \in Seq(Toks), LfEnded(text), OneOfEach(text), ~Malformed(text),
         NEW P \in SUBSET Paths
  PROVE  Keeps(text, Rewrite(text, P), P)
<1> DEFINE new == Rewrite(text, P)
           F == Foreign(text)
           E == <<>>
<1>1. new = Rewrite(text, P)
  OBVIOUS
<1>2. Surrounds(E, E) /\ E \in Seq(Toks)
  BY DEF Surrounds, Free, LfEnded
<1>3. E \o E = E /\ (E \o Block(P)) \o E = Block(P)
  <2>1. Block(P) \in Seq(Toks)
    BY BlockIs DEF IsBlock
  <2>2. E \o Block(P) = Block(P) /\ Block(P) \o E = Block(P)
    BY <2>1, ConcatEmptySeq
  <2>3. E \o E = E
    BY <1>2, ConcatEmptySeq
  <2> QED BY <2>2, <2>3
<1>4. CASE HasSection(text)
  <2> DEFINE L == Before(text)
             R == After(text)
  <2>1. Surrounds(L, R)
    BY <1>4, SplitIs
  <2>2. L \in Seq(Toks) /\ R \in Seq(Toks)
    BY <2>1 DEF Surrounds
  <2>3. F = L \o R
    BY <1>4 DEF Foreign
  <2>4. CASE P = {}
    <3>1. new = F
      BY <1>1, <2>4 DEF Rewrite
    <3> HIDE DEF L, R
    <3>2. /\ L \o R \in Seq(Toks) /\ Len(L \o R) = Len(L) + Len(R)
          /\ \A i \in 1 .. Len(L) + Len(R) : (L \o R)[i] = IF i <= Len(L) THEN L[i] ELSE R[i - Len(L)]
      BY <2>2, ConcatProperties
    <3>3. Free(L \o R)
      <4> DEFINE l == Len(L)
                 r == Len(R)
      <4>1. /\ l \in Nat /\ r \in Nat
            /\ \A i \in 1 .. l : L[i] \notin Sentinels
            /\ \A i \in 1 .. r : R[i] \notin Sentinels
        BY <2>1, <2>2 DEF Surrounds, Free
      <4> HIDE DEF l, r
      <4>2. ASSUME NEW i \in 1 .. l + r PROVE (L \o R)[i] \notin Sentinels
        <5>1. CASE i <= l
          <6>1. i \in 1 .. l
            BY <5>1, <4>1
          <6>2. (L \o R)[i] = L[i]
            BY <5>1, <3>2 DEF l, r
          <6> QED BY <6>1, <6>2, <4>1
        <5>2. CASE ~(i <= l)
          <6>1. i - l \in 1 .. r
            BY <5>2, <4>1
          <6>2. (L \o R)[i] = R[i - l]
            BY <5>2, <3>2 DEF l, r
          <6> QED BY <6>1, <6>2, <4>1
        <5> QED BY <5>1, <5>2
      <4> QED BY <4>2, <3>2 DEF Free, l, r
    <3>4. LfEnded(L \o R)
      <4>1. LfEnded(L) /\ LfEnded(R) /\ (Len(L) = 0 \/ L[Len(L)] = NL)
        BY <2>1 DEF Surrounds
      <4> QED BY <2>2, <4>1, EndedConcat
    <3>5. Keeps(text, new, {})
      BY <2>3, <3>1, <3>2, <3>3, <3>4, EmptiedKeeps
    <3> QED BY <2>4, <3>5
  <2>5. CASE P # {}
    <3>1. new = (L \o Block(P)) \o R
      <4>1. CASE F # E
        BY <1>1, <1>4, <2>5, <4>1 DEF Rewrite
      <4>2. CASE F = E
        <5>1. L = E /\ R = E
          <6> HIDE DEF L, R
          <6>1. L \o R = <<>> => L = <<>> /\ R = <<>>
            BY <2>2, ConcatEqualIffEmpty
          <6> QED BY <6>1, <2>3, <4>2
        <5>2. new = Block(P)
          BY <1>1, <2>5, <4>2 DEF Rewrite
        <5> QED BY <5>1, <5>2, <1>3
      <4> QED BY <4>1, <4>2
    <3> HIDE DEF L, R, new
    <3>2. Drop(L \o R, {NL}) = Drop(Foreign(text), {NL})
      BY <2>3
    <3>3. Keeps(text, new, P)
      BY <2>1, <2>5, <3>1, <3>2, WrittenKeeps
    <3> QED BY <3>3 DEF new
  <2> QED BY <2>4, <2>5
<1>5. CASE ~HasSection(text)
  <2>1. F = text
    BY <1>5 DEF Foreign
  <2>2. Free(text)
    <3>1. Find(text, Begin) = 0 /\ Find(text, End) = 0
      BY <1>5 DEF HasSection, Malformed
    <3>2. \A i \in 1 .. Len(text) : text[i] # Begin /\ text[i] # End
      BY <3>1, FindIs
    <3> QED BY <3>2 DEF Free, Sentinels
  <2>3. CASE P = {}
    <3>1. new = text
      BY <1>1, <2>1, <2>3 DEF Rewrite
    <3>2. Keeps(text, new, {})
      BY <2>1, <2>2, <3>1, EmptiedKeeps
    <3> QED BY <2>3, <3>2
  <2>4. CASE P # {} /\ text = E
    <3>1. new = Block(P)
      BY <1>1, <2>1, <2>4 DEF Rewrite
    <3>2. new = (E \o Block(P)) \o E
      BY <3>1, <1>3
    <3>3. Drop(E \o E, {NL}) = Drop(Foreign(text), {NL})
      BY <1>3, <2>1, <2>4
    <3> HIDE DEF new, E
    <3>4. Keeps(text, new, P)
      BY <1>2, <2>4, <3>2, <3>3, WrittenKeeps
    <3> QED BY <3>4 DEF new
  <2>5. CASE P # {} /\ text # E
    <3> DEFINE L == text \o Separator(text)
    <3>1. Surrounds(L, E) /\ Drop(L \o E, {NL}) = Drop(Foreign(text), {NL})
      BY <2>1, <2>2, <2>5, SeparatedIs
    <3>2. new = (L \o Block(P)) \o E
      <4>1. new = L \o Block(P)
        BY <1>1, <1>5, <2>1, <2>5 DEF Rewrite
      <4>2. Block(P) \in Seq(Toks) /\ L \in Seq(Toks)
        BY <3>1, BlockIs DEF IsBlock, Surrounds
      <4> HIDE DEF L
      <4>3. L \o Block(P) \in Seq(Toks)
        BY <4>2, ConcatProperties
      <4>4. (L \o Block(P)) \o E = L \o Block(P)
        BY <4>3, ConcatEmptySeq
      <4> QED BY <4>1, <4>4
    <3> HIDE DEF new, E, L
    <3>3. Keeps(text, new, P)
      BY <2>5, <3>1, <3>2, WrittenKeeps
    <3> QED BY <3>3 DEF new
  <2> QED BY <2>3, <2>4, <2>5
<1> QED BY <1>4, <1>5

(* ForeignLinesKept, for texts of any length: Apply leaves the block listing exactly the
   paths and keeps the text of every other line, with LF at the end of every line unless
   nothing changes, and repeating it removes the blank line above the block, if there is
   one, and changes nothing else (gitignore.go, Apply). *)
THEOREM ForeignLinesAlwaysKept == \A n \in Nat : ForeignLinesKept(n)
<1> SUFFICES ASSUME NEW n \in Nat, NEW text \in Ignores(n), NEW P \in SUBSET Paths,
                    ~Malformed(Normalized(text))
             PROVE  LET new    == Apply(text, P)
                        normal == Normalized(new)
                        Words(t) == Drop(Foreign(t), {NL})
                        begin  == Find(normal, Begin)
                        BlankAbove == begin # 0 /\ IsSuffix(<<NL, NL>>, SubSeq(normal, 1, begin - 1))
                    IN  /\ ~Malformed(normal)
                        /\ Words(normal) = Words(Normalized(text))
                        /\ LinesEnded(normal) /\ new \in {text, normal}
                        /\ {t \in Paths : Contains(Listed(normal), t)} = P
                        /\ Apply(new, P) = IF BlankAbove THEN RemoveAt(normal, begin - 1) ELSE new
  BY DEF ForeignLinesKept
<1> DEFINE old == Normalized(text)
           new == Rewrite(old, P)
<1>1. old \in Seq(Toks) /\ LfEnded(old) /\ OneOfEach(old)
  BY IgnoresAreTexts
<1>2. Apply(text, P) = IF new = old THEN text ELSE new
  BY DEF Apply
<1> HIDE DEF old, new
<1>3. Keeps(old, new, P)
  BY <1>1, RewriteKeeps DEF old, new
<1>4. LinesEnded(new) /\ Normalized(new) = new
  BY <1>3, LfLinesAreEnded, NormalIs DEF Keeps
<1>5. CASE new = old
  <2>1. Rewrite(new, P) = new
    BY <1>5 DEF new
  <2>2. ~BlankLineAbove(new)
    BY <1>3, <2>1 DEF Keeps, Again
  <2>3. Apply(text, P) = text /\ Normalized(text) = new
    BY <1>2, <1>5 DEF old
  <2> QED BY <1>3, <1>4, <1>5, <2>2, <2>3 DEF Keeps, BlankLineAbove
<1>6. CASE new # old
  <2>1. Apply(text, P) = new
    BY <1>2, <1>6
  <2>2. Apply(new, P) = Rewrite(new, P)
    BY <1>3, <1>4 DEF Apply, Keeps
  <2>3. Rewrite(new, P) = IF BlankLineAbove(new) THEN RemoveAt(new, Find(new, Begin) - 1) ELSE new
    BY <1>3 DEF Keeps, Again
  <2> QED BY <1>3, <1>4, <2>1, <2>2, <2>3 DEF Keeps, BlankLineAbove, old
<1> QED BY <1>5, <1>6

(* IgnoreKeepsForeign, for any number of tokens. *)
THEOREM IgnoreStaysForeign == Spec => []IgnoreKeepsForeign
<1>1. ForeignLinesKept(MaxIgnored)
  BY ForeignLinesAlwaysKept, TextBoundAssumption
<1>2. IgnoreKeepsForeign
  BY <1>1 DEF IgnoreKeepsForeign
<1> QED BY <1>2, PTL
=============================================================================
