----------------------------- MODULE FdhReports -----------------------------
(***************************************************************************)
(* What `fdh doctor` says of the installs it finds (managed_drift).  It    *)
(* only reads: its report is a function of a state of FdhProject.          *)
(***************************************************************************)
EXTENDS FdhProject

\* Mutant: the content of a directory is not compared with its marker.
StatusOfMarker(l) == IF marker[l] = Nothing THEN "user" ELSE "ok"

\* Locations with a marker that managed.Read makes something of.
Parsed == {l \in Managed : marker[l].kept # "garbled"}

\* scanDriftDirectory and scanDriftFlat: a directory without a marker is the
\* developer's own, one that differs from its marker's hash has drifted; a flat
\* install and a marker without a hash are not compared.
Differs(l) ==
  \/ marker[l].kept = "part"
  \/ HasHash(marker[l]) /\ disk[l] # marker[l].hash
DriftStatus(l) ==
  IF l \notin Parsed THEN "user"
  ELSE IF IsDir(l) /\ Differs(l) THEN "drift" ELSE "ok"

\* computeManagedDrift: what is listed, with its status.
ManagedDrift ==
  {[loc |-> l, status |-> DriftStatus(l)] :
     l \in {k \in Locs : IF IsDir(k) THEN k \in Managed \/ disk[k] # NoFiles ELSE k \in Parsed}}

\* A directory that doctor calls ok holds, file by file, what the hub published
\* for the component at the commit the marker names, whatever was edited, deleted,
\* interrupted or refreshed before; or its marker was cut in front of the hash,
\* and doctor has nothing to compare with.  For one command at a time (doctor.go,
\* scanDriftDirectory).
OkIsPublished ==
  \A r \in ManagedDrift : r.status = "ok" /\ IsDir(r.loc) =>
    \/ disk[r.loc] = HubTree[marker[r.loc].commit][Comp(r.loc)]
    \/ marker[r.loc].kept \in {"nothing", "name", "commit"}
=============================================================================
