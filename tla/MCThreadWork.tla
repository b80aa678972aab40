----------------------------- MODULE MCThreadWork -----------------------------
(* Workers on a web of two hosts.  One port is written out in an absolute link,  *)
(* which hashes to something else than the same URL without it.  The hash is the *)
(* length of the file, so that some links share it.                              *)
EXTENDS ThreadWork, TLC

CONSTANTS w1, w2, w3

Absolute(host, port, f) ==
  [kind |-> "absolute", javascript |-> FALSE, host |-> host, port |-> port, file |-> f]
Script    == [kind |-> "absolute", javascript |-> TRUE]
Rooted(f) == [kind |-> "rooted", file |-> f]
Plain(f)  == [kind |-> "plain", file |-> f]
Dotted(dots, f) == [kind |-> "dotted", dots |-> dots, file |-> f]

At(host, port, f) == [host |-> host, port |-> port, file |-> f]

Root == <<>>
Deep == <<"a", "/", "b", "/", "c">>
Side == <<"a", "/", "&">>

SmallWeb ==
  At("h", 80, Root) :> <<Absolute("other", NoPort, Root), Rooted(Deep)>> @@
  At("h", 80, Deep) :> <<Dotted(<<"../">>, <<"&amp;">>), Plain(<<"x", "/", "x">>),
                         Dotted(<<"../", "../">>, Root), Dotted(<<"bad">>, Root), Rooted(Side)>> @@
  At("h", 80, Side) :> <<Dotted(<<"./">>, <<"b", "/", "c">>), Absolute("h", 80, Root),
                         Rooted(Root), Script, Rooted(Side)>>

TwoLines == <<PageLink("h", NoPort, Root, 80), PageLink("h", NoPort, Root, 80)>>

Sum3(host, tail, f) == <<tail, Len(f)>>
Hashes == {<<t, n>> : t \in {NoPort, 80}, n \in 0 .. 8}
Stray == <<NoPort, 8>>
SeedOrStray(s) == {Hash(s), Stray}

OtherHost(pl) == pl.host = "other"
ByLength(hash) == CASE hash[2] % 3 = 0 -> w1 [] hash[2] % 3 = 1 -> w2 [] OTHER -> w3
=============================================================================
