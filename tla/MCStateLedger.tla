-------------------------- MODULE MCStateLedger ----------------------------
(* Two commands; a bundle with a malformed entry and a duplicate; instincts of
   two domains, with and without a tag, with words in common or not.          *)
EXTENDS InstinctDrafts

CONSTANTS word1, word2

ABundle == <<[id |-> "b1", body |-> "x"], [id |-> "b2", body |-> NoBody], [id |-> "b3", body |-> "y"]>>

MCSample == [domain : {"go", "web"}, tags : {{}, {"t"}}, words : {{"lock"}, {"lock", "file"}, {"cache"}},
             conf : {3, 9}]
MCSlugs == {<<word1>>, <<word2>>, <<word1, word2>>}
=============================================================================
