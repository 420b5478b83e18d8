------------------------- MODULE MCRegistryInstall -------------------------
(* Instances of RegistryInstall for TLC: a release, a change of its content under
   the same version, and a second release that drops a file. *)
EXTENDS InstalledTexts, TLC

CONSTANTS absent, torn, guide, tool, text1, text2
CONSTANTS skills, rules  \* managed paths

MCReleases ==
  <<[version |-> 1, tree |-> (guide :> text1 @@ tool :> text1)],
    [version |-> 1, tree |-> (guide :> text1 @@ tool :> text2)],
    [version |-> 2, tree |-> (guide :> text2 @@ tool :> absent)]>>
\* The wire protocol: a max-age for what changes, the files of a version never do.
MCHeader == [what \in {"index", "manifest", "sidecar", "tar"} |->
               IF what \in {"index", "manifest"} THEN "max-age" ELSE "immutable"]

MCPathOrder == <<rules, skills>>
=============================================================================
