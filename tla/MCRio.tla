--------------------------------- MODULE MCRio ---------------------------------
(* Rio for two chunks of up to three characters before the last one.  The data   *)
(* hold line ends and characters that could be a size, some sizes fill tmp or    *)
(* have more digits, and two chunks of three characters overrun the buffer.      *)
EXTENDS Rio

Chunk(digits, ext, data) == [digits |-> digits, ext |-> ext, data |-> data]

Datas  == {<<"1">>, <<"CR">>, <<"LF">>, <<"x", "CR">>, <<"CR", "LF">>, <<"LF", "LF">>,
           <<"CR", "LF", "1">>, <<"0", "CR", "LF">>}
Ends   == {Chunk(<<"0">>, FALSE, <<>>), Chunk(<<"0", "0">>, TRUE, <<>>)}

Sized(zeros, ext, data) == Chunk(zeros \o <<HexDigits[Len(data) + 1]>>, ext, data)

Chunks == {Sized(zeros, ext, data) : zeros \in {<<>>, <<"0">>}, ext \in BOOLEAN, data \in Datas}

(* Sizes of four and of five digits.                                             *)
LongSizes == {Sized(zeros, ext, data) :
                zeros \in {<<"0", "0", "0">>, <<"0", "0", "0", "0">>}, ext \in BOOLEAN,
                data \in {<<"1">>, <<"CR", "LF">>, <<"0", "CR", "LF">>}}
LongEnd   == Chunk(<<"0", "0", "0", "0">>, FALSE, <<>>)

Short  == {<<end>> : end \in Ends} \cup {<<c1, end>> : c1 \in Chunks, end \in Ends}
Long   == {<<c1, Sized(<<>>, ext, data), Chunk(<<"0">>, FALSE, <<>>)>> :
             c1 \in Chunks, ext \in BOOLEAN,
             data \in {<<"1">>, <<"x", "CR">>, <<"CR", "LF", "1">>, <<"0", "CR", "LF">>}}
Filled == {<<c1, c2, LongEnd>> : c1 \in LongSizes, c2 \in LongSizes}

AllResponses    == Short \cup Long \cup Filled

Digits0to1 == {<<>>, <<"1">>}
=============================================================================
