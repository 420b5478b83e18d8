-------------------------- MODULE RegistryInstall --------------------------
(***************************************************************************)
(* `fdh install <namespace>/<name>` from a registry served over HTTP: the  *)
(* producer that writes the registry tree in place, the host that serves   *)
(* it, the client's cache of what it downloaded, the install itself, and   *)
(* installs in other projects of the machine, which use the same cache.    *)
(*                                                                         *)
(* One component stands for the registry.  A tree gives each file its      *)
(* content; the canonical hash of a tree is the tree, and the object a     *)
(* cache entry points at is the body it is the digest of.                  *)
(***************************************************************************)
EXTENDS Naturals, Sequences, FiniteSets

CONSTANTS
  Releases,  \* commits of the hub: [version, tree], oldest first
  Files,     \* the files of the component
  Blobs,     \* what a file of a release can be, Absent included
  Absent, TornFile, \* a file that is not there, one that was cut short
  Nested,    \* the files in the component's one subdirectory
  Wrapped,   \* whether archives hold one top-level directory
  Header,    \* Header[what]: the Cache-Control the host sends with a body
  Elsewhere, \* what installs in other projects ask the host for
  MaxFaults  \* bound: answers not kept, requests elsewhere, builds and installs that stop

Versions == {Releases[n].version : n \in DOMAIN Releases}

ASSUME ReleaseAssumption ==
  /\ Releases \in Seq([version : Nat \ {0}, tree : [Files -> Blobs]]) /\ Releases # <<>>
  /\ \A n, k \in DOMAIN Releases : n <= k => Releases[n].version <= Releases[k].version
ASSUME FileAssumption   ==
  Nested \subseteq Files /\ Wrapped \in BOOLEAN /\ Absent \in Blobs
ASSUME HeaderAssumption ==
  Header \in [{"index", "manifest", "sidecar", "tar"} -> {"none", "max-age", "immutable"}]
ASSUME ElsewhereAssumption == Elsewhere \subseteq {"index", "manifest", "sidecar", "tar"}
ASSUME FaultAssumption  == MaxFaults \in Nat

VARIABLES
  tip,     \* the commit of the hub that the next build takes
  builder, \* the build: its commit, the next file, whether that is half written
  built,   \* the commit of the last build that ended
  site,    \* site[u]: what the host serves at a URL
  cache,   \* cache[u]: what the client keeps of it, and for how long
  pending, \* an install elsewhere: the URL it asked for and the answer it got
  behind,  \* history: the manifest in the cache is not the last one that was got
  install, \* the step of `fdh install` and what it has read
  target,  \* the install directory: files, provenance sidecar, marker, ignore rule
  faults

hub    == <<tip, builder, built, site>>
shared == <<cache, pending, behind>>
client == <<shared, install, target>>
vars   == <<hub, client, faults>>

NoTree == [f \in Files |-> Absent]

\* The URLs: the index and the manifest have one, each version has two more.
Urls == {[what |-> w, v |-> 0] : w \in {"index", "manifest"}} \union
        {[what |-> w, v |-> v] : w \in {"sidecar", "tar"}, v \in Versions}
IndexUrl    == [what |-> "index", v |-> 0]
ManifestUrl == [what |-> "manifest", v |-> 0]
SidecarUrl(v) == [what |-> "sidecar", v |-> v]
TarUrl(v)     == [what |-> "tar", v |-> v]

Missing == [is |-> "missing", version |-> 0, tree |-> NoTree]
TornBody == [Missing EXCEPT !.is = "torn"]
Body(version, tree) == [is |-> "whole", version |-> version, tree |-> tree]

Uncached == [kept |-> "no", body |-> Missing]
Resting == [at |-> "idle", want |-> 0, version |-> 0, sum |-> NoTree, tree |-> NoTree,
            todo |-> {}, old |-> FALSE, calm |-> FALSE, result |-> "none"]
Untouched == [files |-> NoTree, version |-> 0, hash |-> NoTree, marker |-> NoTree,
              ignored |-> FALSE]

Init ==
  /\ tip = 1 /\ builder = [at |-> 0, n |-> 0, half |-> FALSE] /\ built = 0
  /\ site = [u \in Urls |-> Missing]
  /\ cache = [u \in Urls |-> Uncached] /\ pending = {} /\ behind = FALSE
  /\ install = Resting /\ target = Untouched /\ faults = 0

\* What happens outside an install under way disturbs it.
Stirred == [install EXCEPT !.calm = FALSE]

-----------------------------------------------------------------------------
(* The producer: for a component the archive, the sidecar and the manifest, then
   the index, each truncated and written over what is there. *)

Outputs(n) ==
  LET v == Releases[n].version
      b == Body(v, Releases[n].tree)
  IN  << <<TarUrl(v), b>>, <<SidecarUrl(v), b>>, <<ManifestUrl, b>>,
         <<IndexUrl, Body(0, NoTree)>> >>

Merge ==
  /\ tip < Len(Releases)
  /\ tip' = tip + 1 /\ install' = Stirred
  /\ UNCHANGED <<builder, built, site, shared, target, faults>>

Build ==
  /\ builder.at = 0 /\ built < tip
  /\ builder' = [at |-> 1, n |-> tip, half |-> FALSE] /\ install' = Stirred
  /\ UNCHANGED <<tip, built, site, shared, target, faults>>

Truncate ==
  /\ builder.at # 0 /\ ~builder.half
  /\ site' = [site EXCEPT ![Outputs(builder.n)[builder.at][1]] = TornBody]
  /\ builder' = [builder EXCEPT !.half = TRUE] /\ install' = Stirred
  /\ UNCHANGED <<tip, built, shared, target, faults>>

Write ==
  /\ builder.at # 0 /\ builder.half
  /\ LET out == Outputs(builder.n)[builder.at] IN site' = [site EXCEPT ![out[1]] = out[2]]
  /\ IF builder.at < Len(Outputs(builder.n))
     THEN builder' = [builder EXCEPT !.at = @ + 1, !.half = FALSE] /\ UNCHANGED built
     ELSE builder' = [builder EXCEPT !.at = 0, !.half = FALSE] /\ built' = builder.n
  /\ install' = Stirred
  /\ UNCHANGED <<tip, shared, target, faults>>

\* The directory of a component is not there, the disk is full, the job is killed.
BuildStops ==
  /\ builder.at # 0 /\ faults < MaxFaults
  /\ builder' = [builder EXCEPT !.at = 0, !.half = FALSE]
  /\ faults' = faults + 1 /\ install' = Stirred
  /\ UNCHANGED <<tip, built, site, shared, target>>

-----------------------------------------------------------------------------
(* The client's cache. *)

\* No Cache-Control is "always revalidate"; an immutable body is never asked for again.
KeptAs(what) == CASE Header[what] = "none" -> "stale"
                  [] Header[what] = "max-age" -> "fresh"
                  [] Header[what] = "immutable" -> "forever"

\* Time passes.
Expire(u) ==
  /\ cache[u].kept = "fresh"
  /\ cache' = [cache EXCEPT ![u].kept = "stale"]
  /\ UNCHANGED <<hub, pending, behind, install, target, faults>>

\* Mutant: a max-age never runs out.
HitsAlways(u) == cache[u].kept # "no"

Hit(u)      == cache[u].kept \in {"fresh", "forever"}
Copy(u, b)  == [kept |-> KeptAs(u.what), body |-> b]
Answered(u) == IF site[u] = Missing THEN cache[u] ELSE Copy(u, site[u])

\* Mutant: a body that changed is returned but the entry stays as it was.
FetchesOnce(u) ==
  IF Hit(u) THEN {[got |-> cache[u].body, entry |-> cache[u], how |-> "copy"]}
  ELSE {[got |-> site[u], entry |-> IF cache[u] = Uncached THEN Answered(u) ELSE cache[u],
         how |-> "host"],
        [got |-> cache[u].body, entry |-> cache[u], how |-> "down"]}

(* The ways fetchCached can end at a URL: a fresh copy; the host's answer, which is
   cached before anybody looks at it (304 and 200 leave the same entry); that answer,
   when its metadata cannot be written, which leaves those that were there or a part of
   the new; or, after three attempts, the cached copy however old it is. *)
Fetches(u) ==
  IF Hit(u) THEN {[got |-> cache[u].body, entry |-> cache[u], how |-> "copy"]}
  ELSE {[got |-> site[u], entry |-> Answered(u), how |-> "host"],
        [got |-> cache[u].body, entry |-> cache[u], how |-> "down"]}
       \union {[got |-> site[u], entry |-> e, how |-> "unkept"] :
                 e \in IF site[u] = Missing THEN {} ELSE {cache[u], Uncached}}

\* Another project's install asks the host and, some time later, keeps the answer.
AskElsewhere(u) ==
  /\ u.what \in Elsewhere /\ pending = {} /\ ~Hit(u) /\ site[u] # Missing
  /\ faults < MaxFaults /\ faults' = faults + 1
  /\ pending' = {[url |-> u, body |-> site[u]]}
  /\ UNCHANGED <<hub, cache, behind, install, target>>

KeepElsewhere ==
  /\ \E o \in pending :
       /\ cache' = [cache EXCEPT ![o.url] = Copy(o.url, o.body)]
       /\ behind' = IF o.url = ManifestUrl THEN o.body # site[o.url] ELSE behind
  /\ pending' = {} /\ install' = Stirred
  /\ UNCHANGED <<hub, target, faults>>

-----------------------------------------------------------------------------
(* The install. *)

At(step) == install.at = step
Ended(result) == [Resting EXCEPT !.calm = install.calm, !.result = result]
Fails == Ended("failed")

(* One request of the install: Outcome(got) is the install after it has the body. *)
Request(u, Outcome(_)) ==
  \E f \in Fetches(u) :
    /\ f.how = "unkept" => faults < MaxFaults
    /\ faults' = IF f.how = "unkept" THEN faults + 1 ELSE faults
    /\ cache' = [cache EXCEPT ![u] = f.entry]
    /\ behind' = IF u # ManifestUrl \/ f.how \in {"copy", "down"} \/ f.got = Missing THEN behind
                 ELSE f.entry # Uncached /\ f.how = "unkept"
    /\ install' = [Outcome(f.got) EXCEPT
                     !.calm = @ /\ f.how \in {"copy", "host"},
                     !.old = @ \/ (At("manifest") /\ f.how \in {"copy", "down"} /\ behind)]
    /\ UNCHANGED <<hub, pending, target>>

\* Nothing is being built; every max-age has run out.
Quiet == builder.at = 0 /\ built = tip
Aged  == \A u \in Urls : cache[u].kept # "fresh"

\* want = 0 asks for the latest version; --kind skips the index.
Start(want, kindGiven) ==
  /\ At("idle")
  /\ install' = [Resting EXCEPT !.at = IF kindGiven THEN "manifest" ELSE "index", !.want = want,
                                !.calm = Quiet /\ Aged /\ want \in {0, Releases[tip].version}]
  /\ UNCHANGED <<hub, shared, target, faults>>

\* The index tells the kind of the component.
ReadIndex ==
  /\ At("index")
  /\ Request(IndexUrl, LAMBDA got :
       IF got.is = "whole" THEN [install EXCEPT !.at = "manifest"] ELSE Fails)

\* The producer's manifest lists the one version it was built with.
ReadManifest ==
  /\ At("manifest")
  /\ Request(ManifestUrl, LAMBDA got :
       IF got.is = "whole" /\ install.want \in {0, got.version}
       THEN [install EXCEPT !.at = "sidecar", !.want = 0, !.version = got.version] ELSE Fails)

ReadSidecar ==
  /\ At("sidecar")
  /\ Request(SidecarUrl(install.version), LAMBDA got :
       IF got.is = "whole" THEN [install EXCEPT !.at = "check", !.sum = got.tree] ELSE Fails)

\* The sidecar must agree with the manifest, when there is one that lists the version.
CrossCheck ==
  /\ At("check")
  /\ Request(ManifestUrl, LAMBDA got :
       IF got.is = "whole" /\ got.version = install.version /\ got.tree # install.sum
       THEN Fails ELSE [install EXCEPT !.at = "tar"])

\* The one top-level directory of an extracted archive.
Located(tree) ==
  IF Wrapped THEN {tree}
  ELSE LET inside == [f \in Files |-> IF f \in Nested THEN tree[f] ELSE Absent]
       IN  IF inside = NoTree THEN {} ELSE {inside}

Present(tree, f) == tree[f] # Absent
Contents(tree) == {f \in Files : Present(tree, f)}

\* Mutant: the extracted archive is not hashed.
AcceptUnhashed(got) ==
  IF got.is = "whole" /\ Located(got.tree) = {got.tree}
  THEN [install EXCEPT !.at = "write", !.tree = got.tree, !.todo = Contents(got.tree)]
  ELSE Fails

Accept(got) ==
  IF got.is = "whole" /\ Located(got.tree) = {install.sum}
  THEN [install EXCEPT !.at = "write", !.tree = install.sum, !.todo = Contents(install.sum)]
  ELSE Fails

\* Extracted and hashed in a temporary directory.
ReadTar ==
  /\ At("tar")
  /\ Request(TarUrl(install.version), Accept)

(* Files are written over those that are there, which stay when the bundle has no
   file of their name; in whatever order, for nothing depends on that of the walk. *)
WriteFile ==
  /\ At("write")
  /\ \/ /\ install.todo = {}
        /\ install' = [install EXCEPT !.at = "sidecar file"]
        /\ UNCHANGED target
     \/ \E f \in install.todo :
          /\ target' = [target EXCEPT !.files[f] = install.tree[f]]
          /\ install' = [install EXCEPT !.todo = @ \ {f}]
  /\ UNCHANGED <<hub, shared, faults>>

WriteSidecar ==
  /\ At("sidecar file")
  /\ target' = [target EXCEPT !.version = install.version, !.hash = install.sum]
  /\ install' = [install EXCEPT !.at = "marker"]
  /\ UNCHANGED <<hub, shared, faults>>

WriteMarker ==
  /\ At("marker")
  /\ target' = [target EXCEPT !.marker = install.sum]
  /\ install' = [install EXCEPT !.at = "ignore"]
  /\ UNCHANGED <<hub, shared, faults>>

Finish ==
  /\ At("ignore")
  /\ target' = [target EXCEPT !.ignored = TRUE]
  /\ install' = Ended("done")
  /\ UNCHANGED <<hub, shared, faults>>

\* Killed, out of time or out of disk: a file may be cut short, and so may the
\* metadata of the URL that was being fetched.
Stops ==
  /\ ~At("idle") /\ faults < MaxFaults
  /\ faults' = faults + 1
  /\ install' = [Fails EXCEPT !.calm = FALSE]
  /\ \/ UNCHANGED <<shared, target>>
     \/ /\ At("write")
        /\ \E f \in install.todo : target' = [target EXCEPT !.files[f] = TornFile]
        /\ UNCHANGED shared
     \/ \E u \in Urls :
          /\ \/ At("index") /\ u = IndexUrl
             \/ (At("manifest") \/ At("check")) /\ u = ManifestUrl
             \/ At("sidecar") /\ u = SidecarUrl(install.version)
             \/ At("tar") /\ u = TarUrl(install.version)
          /\ ~Hit(u) /\ cache' = [cache EXCEPT ![u] = Uncached]
          /\ UNCHANGED <<pending, behind, target>>
  /\ UNCHANGED hub

-----------------------------------------------------------------------------
BuildStep == Build \/ Truncate \/ Write

InstallStep ==
  \/ ReadIndex \/ ReadManifest \/ ReadSidecar \/ CrossCheck \/ ReadTar
  \/ WriteFile \/ WriteSidecar \/ WriteMarker \/ Finish

Next ==
  \/ Merge \/ BuildStep \/ BuildStops
  \/ \E u \in Urls : Expire(u) \/ AskElsewhere(u)
  \/ KeepElsewhere
  \/ \E want \in Versions \union {0}, kindGiven \in BOOLEAN : Start(want, kindGiven)
  \/ InstallStep \/ Stops

Spec == Init /\ [][Next]_vars

-----------------------------------------------------------------------------
(* An install that reports success has put down one tree that the hub released
   under the version it reports, and provenance and marker carry the hash of that
   tree, although the producer rewrites the files of a version while they are
   being downloaded (http.go, FetchBundleByKind; install.go, runInstall). *)
InstalledIsReleased ==
  install.result = "done" =>
    /\ target.marker = target.hash /\ target.ignored
    /\ \E n \in 1 .. tip :
         /\ Releases[n] = [version |-> target.version, tree |-> target.hash]
         /\ \A f \in Files : Present(target.hash, f) => target.files[f] = target.hash[f]

\* What an install of the newest version asks for.
NewestUrls == {IndexUrl, ManifestUrl, SidecarUrl(Releases[tip].version),
               TarUrl(Releases[tip].version)}

\* A copy of one of these that is never asked for again, and is not what the host has.
Wedged == \E u \in NewestUrls : cache[u].kept = "forever" /\ cache[u].body # site[u]

(* An install that starts when the registry is built and at rest and the max-ages of
   what the cache holds have run out, and that meets no fault, does not fail, whatever
   earlier installs, installs elsewhere and builds that stopped half-way have left in
   the cache and in the target; unless the host declares the files of a version
   immutable and one was cached torn, or before it was rebuilt (http.go, fetchCached). *)
CalmInstallSucceeds ==
  install.calm /\ install.at = "idle" /\ ~Wedged =>
    install.result = "done" /\ target.version = Releases[tip].version
                            /\ target.hash = Releases[tip].tree

(* A version is replaced by an older one only by an install that took the manifest from
   the cache when a newer one had been got and the cache did not hold it: the metadata
   could not be written, or an install elsewhere wrote an older answer over them
   (http.go, fetchCached and writeMeta). *)
NeverDowngraded == [][target'.version < target.version => install.old]_vars

(* In a registry whose build has ended, what the client extracts from an archive
   hashes to the sidecar beside it (docs/portal-api.md:43). *)
ArchiveMatchesSidecar ==
  Quiet => \A v \in Versions : site[TarUrl(v)].is = "whole" =>
             Located(site[TarUrl(v)].tree) = {site[SidecarUrl(v)].tree}

=============================================================================
