----------------------------- MODULE MCContentSeen -----------------------------
(* ContentSeen with an int that has eight values.  Two of the hashes have the    *)
(* low words of others.                                                          *)
EXTENDS ContentSeen

HashValues == (-4 .. 3) \cup {8, 10}
=============================================================================
