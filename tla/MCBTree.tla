--------------------------------- MODULE MCBTree ---------------------------------
(* The B-tree with small words: near keys lie within half the range of a word,   *)
(* far keys are spread over all of it.                                           *)
EXTENDS BTree

NearKeys == -5 .. 4
FarKeys == {-10, -5, 0, 5, 9}
=============================================================================
