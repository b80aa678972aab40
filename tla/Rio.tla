---------------------------------- MODULE Rio ----------------------------------
(* The loops of util/rio around read and write: the request is written, and the  *)
(* body of a chunked response is read and put together.  The network takes and   *)
(* delivers bytes in pieces of any size, and a signal may interrupt a call.      *)
(*                                                                               *)
(* The response is complete here.  After its end, or an error of the socket, the *)
(* searches for a line end go on for ever: HttpModule has that helper, and how   *)
(* it is ended at its deadline.                                                  *)
(*                                                                               *)
(* The names that begin with Rio leave the short ones to ThreadWork, so that one *)
(* module of proofs can extend both.                                             *)
(*                                                                               *)
(* A definition named ...Fault is its original with one plausible bug.           *)
EXTENDS Integers, Sequences

CONSTANTS Responses,     \* responses: sequences of chunks, the last one empty
          RequestLen,    \* bytes of the request
          MAX_BUFFER,    \* bytes of the body that are asked for
          TmpLen,        \* characters of a size that are looked at (4)
          Behind         \* the hex digits that may be in the memory behind them

(* A chunk is the digits of its size, whether an extension follows them, and the *)
(* data.  "x" is any character that means nothing here.                          *)
HexDigits == <<"0", "1", "2", "3", "4", "5", "6", "7", "8", "9", "a", "b", "c", "d", "e", "f">>
HexValue(x) == (CHOOSE i \in DOMAIN HexDigits : HexDigits[i] = x) - 1

Digit == {HexDigits[i] : i \in DOMAIN HexDigits}
Char  == Digit \cup {"CR", "LF", ";", "x"}

ValueOf(digits) == LET v[i \in 0 .. Len(digits)] ==
                         IF i = 0 THEN 0 ELSE v[i - 1] * 16 + HexValue(digits[i])
                   IN  v[Len(digits)]

ASSUME RioAssumption ==
  /\ RequestLen \in Nat /\ MAX_BUFFER \in Nat /\ TmpLen \in Nat \ {0}
  /\ Behind \subseteq Seq(Digit)
  /\ \A chunks \in Responses :
       /\ chunks \in Seq([digits : Seq(Digit), ext : BOOLEAN, data : Seq(Char)]) \ {<<>>}
       /\ \A i \in 1 .. Len(chunks) :
            /\ chunks[i].digits # <<>>
            /\ Len(chunks[i].data) = ValueOf(chunks[i].digits)
            /\ chunks[i].data = <<>> <=> i = Len(chunks)

Line(chunk) == chunk.digits \o (IF chunk.ext THEN <<";", "x">> ELSE <<>>) \o <<"CR", "LF">>

(* What the server sends, and what it means by it.                               *)
Sent(chunks) == LET s[i \in 0 .. Len(chunks)] ==
                      IF i = 0 THEN <<>>
                      ELSE s[i - 1] \o Line(chunks[i]) \o chunks[i].data \o <<"CR", "LF">>
                IN  s[Len(chunks)]

Meant(chunks) == LET b[i \in 0 .. Len(chunks)] ==
                       IF i = 0 THEN <<>> ELSE b[i - 1] \o chunks[i].data
                 IN  b[Len(chunks)]

VARIABLES response,    \* the response of this exchange
          written,     \* bytes of the request written
          taken,       \* bytes of it that read has returned
          rioPc,
          tmp,         \* the size read so far, and what sscanf finds behind it
          chunksize,   \* the size of the chunk
          nleft,       \* bytes of it still to come
          c, rn,       \* the search for CR LF: the last character, how much is found
          usrbuf,      \* the body
          astray       \* a size was misread or a search ended early: history

rioVars == <<response, written, taken, rioPc, tmp, chunksize, nleft, c, rn, usrbuf, astray>>
net  == <<response, written>>

Stream == Sent(response)

RioInit == /\ response \in Responses
           /\ written = 0 /\ taken = 0
           /\ rioPc = "writen"
           /\ tmp = <<>> /\ chunksize = 0 /\ nleft = 0
           /\ c = "x"
           /\ rn = 0
           /\ usrbuf = <<>>
           /\ astray = FALSE

-----------------------------------------------------------------------------
(* rio_writen, one call of write.                                                *)
Writen ==
  /\ rioPc = "writen"
  /\ \E n \in 1 .. RequestLen - written :
       /\ written' = written + n
       /\ rioPc' = IF written' = RequestLen THEN "size" ELSE "writen"
  /\ UNCHANGED <<response, taken, tmp, chunksize, nleft, c, rn, usrbuf, astray>>

(* read(fd, ..., 1) that returns x.  Where it has to wait, nothing happens until *)
(* the next byte has arrived.                                                    *)
Read(x) == taken < Len(Stream) /\ taken' = taken + 1 /\ x = Stream[taken + 1]

(* A search begins with a character that is not initialised, or is the LF of the *)
(* search before it.                                                             *)
BeginSearch == rn' = 0 /\ c' \in {"CR", "LF", "x"}

(* sscanf with %x reads the digits at the beginning, behind line feeds; without  *)
(* one it leaves chunksize as it is.                                             *)
Scanned(t) ==
  LET spans == {s \in (0 .. Len(t)) \X (0 .. Len(t)) :
                  /\ \A i \in 1 .. s[1] : t[i] = "LF"
                  /\ \A i \in s[1] + 1 .. s[2] : t[i] \in Digit}
      span  == CHOOSE s \in spans : \A r \in spans : r[2] <= s[2]
  IN  SubSeq(t, span[1] + 1, span[2])

(* With the size known: the last chunk ends the call, another one is read.       *)
StartChunk ==
  /\ chunksize' = IF Scanned(tmp) = <<>> THEN chunksize ELSE ValueOf(Scanned(tmp))
  /\ nleft' = chunksize'
  /\ rioPc' = IF chunksize' = 0 THEN "done" ELSE "readn"

(* The size fills tmp: the byte behind tmp, which is not its own, is tested.  It *)
(* may look like a CR; otherwise the digits there, if any, count with the size,  *)
(* and whatever follows it in the line is skipped, more digits too.              *)
FullTmp(t) ==
  \/ /\ tmp' = t /\ rioPc' = "sizeLF"
     /\ UNCHANGED <<c, rn, astray>>
  \/ \E more \in Behind :
       /\ tmp' = t \o more /\ rioPc' = "extension"
       /\ BeginSearch
       /\ astray' = (\/ astray \/ more # <<>>
                     \/ taken + 2 \in 1 .. Len(Stream) /\ Stream[taken + 2] \in Digit)

(* The size of a chunk, character by character.                                  *)
ReadSize ==
  /\ rioPc = "size"
  /\ \E x \in Char :
       /\ Read(x)
       /\ \/ /\ x \notin {"CR", ";"} /\ Len(tmp) + 1 < TmpLen
             /\ tmp' = Append(tmp, x)
             /\ UNCHANGED <<rioPc, c, rn, astray>>
          \/ /\ x \notin {"CR", ";"} /\ Len(tmp) + 1 = TmpLen
             /\ FullTmp(Append(tmp, x))
          \/ /\ x = "CR" /\ rioPc' = "sizeLF"
             /\ UNCHANGED <<tmp, c, rn, astray>>
          \/ /\ x = ";" /\ rioPc' = "extension"
             /\ BeginSearch
             /\ UNCHANGED <<tmp, astray>>
  /\ UNCHANGED <<net, chunksize, nleft, usrbuf>>

ReadSizeLF ==
  /\ rioPc = "sizeLF"
  /\ \E x \in Char : /\ Read(x)
                     /\ IF x = "LF" THEN StartChunk
                        ELSE rioPc' = "failed" /\ UNCHANGED <<chunksize, nleft>>
  /\ UNCHANGED <<net, tmp, c, rn, usrbuf, astray>>

(* rio_readn, one call of read.  What is left of the buffer is not looked at:    *)
(* behind the byte that ends the text, the memory is somebody else's, and the    *)
(* model goes no further.                                                        *)
Fits(n) == Len(usrbuf) + n <= MAX_BUFFER + 1

Readn ==
  /\ rioPc = "readn"
  /\ \E n \in 1 .. Len(Stream) - taken :
       /\ n <= nleft
       /\ taken' = taken + n
       /\ nleft' = nleft - n
       /\ IF ~Fits(n) THEN rioPc' = "overrun" /\ UNCHANGED <<c, rn, usrbuf>>
          ELSE /\ usrbuf' = usrbuf \o SubSeq(Stream, taken + 1, taken + n)
               /\ IF n = nleft THEN rioPc' = "boundary" /\ BeginSearch
                  ELSE UNCHANGED <<rioPc, c, rn>>
  /\ UNCHANGED <<net, tmp, chunksize, astray>>

(* A search for CR LF, after an extension or at the end of a chunk.  What read   *)
(* returned is not looked at: interrupted, the character before counts again.    *)
FoundFault(x) == IF x = "CR" THEN 1 ELSE rn + 1
Found(x) == IF x = "CR" THEN 1 ELSE IF x = "LF" THEN rn + 1 ELSE 0

Search(x) ==
  /\ rioPc \in {"extension", "boundary"}
  /\ c' = x
  /\ rn' = Found(x)
  /\ IF rn' # 2 THEN UNCHANGED <<rioPc, tmp, chunksize, nleft>>
     ELSE IF rioPc = "extension" THEN StartChunk /\ UNCHANGED tmp
     ELSE rioPc' = "size" /\ tmp' = <<>> /\ UNCHANGED <<chunksize, nleft>>
  /\ UNCHANGED <<net, usrbuf>>

SearchNext == \E x \in Char : Read(x) /\ Search(x) /\ UNCHANGED astray

(* A signal interrupts a call.  rio_readn and rio_writen try again, the size     *)
(* cannot be read, and a search goes on with the character it has.  Interrupted  *)
(* twice, it may take the LF of the search before it for a line end.             *)
InterruptSize ==
  /\ rioPc \in {"size", "sizeLF"}
  /\ rioPc' = "failed"
  /\ UNCHANGED <<net, taken, tmp, chunksize, nleft, c, rn, usrbuf, astray>>

InterruptSearch ==
  /\ Search(c)
  /\ astray' = (astray \/ Found(c) = 2)
  /\ UNCHANGED taken

RioStep == Writen \/ ReadSize \/ ReadSizeLF \/ Readn \/ SearchNext
RioNext == RioStep \/ InterruptSize \/ InterruptSearch

(* The network delivers what was sent, and the thread goes on.                   *)
RioSpec == RioInit /\ [][RioNext]_rioVars /\ WF_rioVars(RioStep)
-----------------------------------------------------------------------------
(* However the stream is cut into reads, and whatever the data look like, line   *)
(* ends and digits included, a response that is decoded is decoded right, and    *)
(* fits the buffer; a failure leaves the beginning of it, and only one that is   *)
(* larger than the buffer runs over its end.  This is so until a size is misread *)
(* for what follows it, in memory or in the line, or interruptions end a search. *)
DecodesChunks ==
  ~astray => /\ rioPc = "done" => usrbuf = Meant(response)
             /\ SubSeq(Meant(response), 1, Len(usrbuf)) = usrbuf
             /\ Len(usrbuf) <= MAX_BUFFER + 1
             /\ rioPc = "overrun" => Len(Meant(response)) > MAX_BUFFER + 1

(* A complete response is read to its end, or fails, or runs over the end of the *)
(* buffer: no search for a line end runs past it and waits for bytes that the    *)
(* server does not send, unless a size was misread or a search ended early.      *)
DecodeReturns == <>(rioPc \in {"done", "failed", "overrun"} \/ astray)
=============================================================================
