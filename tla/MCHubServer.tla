---------------------------- MODULE MCHubServer ----------------------------
(* Instances of HubServer for TLC: a release, a second one that drops a file, and, for
   the refreshes, a change that brings it back without a new version.  The checkout that
   leaves the first release behind removes a file while a request may hash the tree. *)
EXTENDS HubServer

CONSTANTS risky, gone, loop, forced, q1, q2

MCReleases == <<[doc |-> 1, data |-> risky], [doc |-> 2, data |-> gone]>>
MCHistory  == Append(MCReleases, [doc |-> 2, data |-> risky])
MCTagOf    == <<1, 2>>
MCVerdict  == [t \in [doc : 0 .. 2, data : {risky, gone}] |->
                 IF t.data = risky THEN "fail" ELSE "pass"]
=============================================================================
