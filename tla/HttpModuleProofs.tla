--------------------------- MODULE HttpModuleProofs ---------------------------
(* Proofs about HttpModule, for any hosts and any number of fetches.              *)
EXTENDS HttpModule, TLAPS

HelperStep(h) == Helping(h) \/ Signal(h) \/ Killed(h)

(* What every step of a helper leaves alone: the helper was alive, it moves, and  *)
(* the worker at most wakes up.                                                   *)
LEMMA HelperMoves ==
  ASSUME NEW h \in Fetches, HelperStep(h)
  PROVE  /\ Alive(h)
         /\ \E x \in Ended \cup Points : x # "none" /\ hpc' = [hpc EXCEPT ![h] = x]
         /\ fpc' = fpc \/ (fpc = "wait" /\ fpc' = "test")
         /\ UNCHANGED workerVars
<1>1. CASE Resolve(h) BY <1>1 DEF Resolve, Hit, Query, Go, Alive, Ended, Points
<1>2. CASE Answer(h) BY <1>2 DEF Answer, Go, Alive, Ended, Points
<1>3. CASE CacheDomain(h) BY <1>3 DEF CacheDomain, Go, Alive, Ended, Points
<1>4. CASE CacheAddr(h) BY <1>4 DEF CacheAddr, Go, Alive, Ended, Points
<1>5. CASE CacheNoAddr(h) BY <1>5 DEF CacheNoAddr, Go, Alive, Ended, Points
<1>6. CASE Connect(h) BY <1>6 DEF Connect, Go, Alive, Ended, Points
<1>7. CASE Send(h) BY <1>7 DEF Send, Go, Alive, Ended, Points
<1>8. CASE Head(h) BY <1>8 DEF Head, Go, Alive, Ended, Points
<1>9. CASE Body(h) BY <1>9 DEF Body, Go, Alive, Ended, Points
<1>10. CASE SetFlag(h) BY <1>10 DEF SetFlag, Go, Alive, Ended, Points
<1>11. CASE Signal(h) BY <1>11 DEF Signal, Woken, Move, Go, Alive, Ended, Points
<1>12. CASE Killed(h) BY <1>12 DEF Killed, Alive, Ended, Points
<1>13. CASE Wild(h) BY <1>13 DEF Wild, Alive, Ended, Points
<1> QED BY <1>1, <1>2, <1>3, <1>4, <1>5, <1>6, <1>7, <1>8, <1>9, <1>10, <1>11, <1>12,
           <1>13 DEF HelperStep, Helping

(* The types of the records, and of their fields.                                 *)
LEMMA Fields ==
  ASSUME TypeOK
  PROVE  /\ frame.host \in Hosts \cup {NoHost} /\ frame.flag \in Flags
         /\ sock.peer \in Addresses /\ sock.url \in 0 .. MaxFetches
         /\ ris.head \subseteq Bytes /\ ris.body \subseteq Bytes
         /\ dns.domain \in Hosts \cup {NoHost} /\ dns.ip \in Addresses
         /\ \A h \in Fetches : mine[h] \in Bytes /\ mine[h].from \in Addresses
BY DEF TypeOK, Frames, Sockets, Buffers, Bytes, Entries

(* An update of a field keeps the type of its record.                             *)
LEMMA Updates ==
  ASSUME TypeOK
  PROVE  /\ \A f \in Flags : [frame EXCEPT !.flag = f] \in Frames
         /\ \A p \in Addresses : [sock EXCEPT !.peer = p] \in Sockets
         /\ \A u \in 0 .. MaxFetches : [sock EXCEPT !.url = u] \in Sockets
         /\ \A b \in Bytes : /\ [ris EXCEPT !.head = @ \cup {b}] \in Buffers
                             /\ [ris EXCEPT !.body = @ \cup {b}] \in Buffers
         /\ \A d \in Hosts \cup {NoHost} : [dns EXCEPT !.domain = d] \in Entries
         /\ \A a \in Addresses : [dns EXCEPT !.ip = a] \in Entries
<1>1. \A f \in Flags : [frame EXCEPT !.flag = f] \in Frames BY DEF TypeOK, Frames
<1>2. \A p \in Addresses : [sock EXCEPT !.peer = p] \in Sockets BY DEF TypeOK, Sockets
<1>3. \A u \in 0 .. MaxFetches : [sock EXCEPT !.url = u] \in Sockets
  BY DEF TypeOK, Sockets
<1>4. \A b \in Bytes : /\ [ris EXCEPT !.head = @ \cup {b}] \in Buffers
                       /\ [ris EXCEPT !.body = @ \cup {b}] \in Buffers
  BY DEF TypeOK, Buffers
<1>5. \A d \in Hosts \cup {NoHost} : [dns EXCEPT !.domain = d] \in Entries
  BY DEF TypeOK, Entries
<1>6. \A a \in Addresses : [dns EXCEPT !.ip = a] \in Entries BY DEF TypeOK, Entries
<1> QED BY <1>1, <1>2, <1>3, <1>4, <1>5, <1>6

(* What comes from a socket is typed by it.                                       *)
LEMMA SocketBytes ==
  ASSUME TypeOK
  PROVE  /\ OnSocket \subseteq Bytes
         /\ \A page \in OnSocket : page.url = sock.url /\ page.from = sock.peer
BY DEF TypeOK, OnSocket, Sockets, Bytes

(* What is built from nothing has its type.                                       *)
LEMMA Constructed ==
  /\ Closed \in Sockets /\ Opened \in Sockets /\ Empty \in Buffers
  /\ \A host \in Hosts : NewFrame(host) \in Frames
BY HttpAssumption
   DEF Closed, Opened, Empty, NewFrame, Sockets, Buffers, Frames, Flags, Addresses

(* Steps keep the types.                                                          *)
LEMMA TypeStep ==
  ASSUME IInv, [Next]_vars
  PROVE  TypeOK'
<1> USE DEF IInv
<1>1. CASE FetchOpen
  <2>1. frame' \in Frames BY <1>1, Constructed DEF FetchOpen
  <2>2. sock' \in Sockets /\ fpc' \in {"create", "clear"}
    BY <1>1, Constructed DEF FetchOpen, Move, TypeOK
  <2>3. n' \in 0 .. MaxFetches
    BY <1>1, HttpAssumption DEF FetchOpen, Move, TypeOK
  <2>4. expired' \in BOOLEAN BY <1>1 DEF FetchOpen
  <2> QED BY <1>1, <2>1, <2>2, <2>3, <2>4 DEF TypeOK, FetchOpen, helperVars
<1>2. CASE FetchCreate
  <2>1. n \in Fetches BY <1>2, HttpAssumption DEF FetchCreate, Move, HelpersOK, TypeOK, Fetches
  <2> QED BY <1>2, <2>1, Constructed
          DEF TypeOK, FetchCreate, Move, helperVars, Points
<1>3. CASE Test BY <1>3 DEF TypeOK, Test, Move, helperVars
<1>4. CASE EnterWait BY <1>4 DEF TypeOK, EnterWait, Move, helperVars
<1>5. CASE Spurious BY <1>5 DEF TypeOK, Spurious, Woken, Move, helperVars
<1>6. CASE Timeout BY <1>6 DEF TypeOK, Timeout, Woken, Move, helperVars
<1>7. CASE ReturnTrue BY <1>7, Constructed DEF TypeOK, ReturnTrue, helperVars
<1>8. CASE ReturnFalse BY <1>8, Constructed DEF TypeOK, ReturnFalse, helperVars
<1>9. CASE GiveUp
  <2>1. n \in Fetches BY <1>9, HttpAssumption DEF GiveUp, Move, HelpersOK, TypeOK, Fetches
  <2> QED BY <1>9, <2>1, Constructed DEF TypeOK, GiveUp, Move, helperVars
<1>10. CASE Release
  BY <1>10, Constructed, HttpAssumption DEF TypeOK, Release, Cleared, helperVars
<1>11. ASSUME NEW h \in Fetches, HelperStep(h)
       PROVE  TypeOK'
  <2>1. hpc' \in [Fetches -> Ended \cup Points] BY <1>11, HelperMoves DEF TypeOK
  <2>2. UNCHANGED workerVars BY <1>11, HelperMoves
  <2>3. fpc' = fpc \/ fpc' = "test" BY <1>11, HelperMoves
  <2>4. frame' \in Frames /\ sock' \in Sockets /\ ris' \in Buffers
        /\ mine' \in [Fetches -> Bytes] /\ dns' \in Entries /\ ip' \in Addresses
    <3>1. CASE Resolve(h)
      <4>1. [url |-> 0, from |-> frame.host] \in Bytes
        BY Fields, HttpAssumption DEF Bytes, Addresses
      <4> QED BY <3>1, <4>1, Fields DEF Resolve, Hit, Query, TypeOK
    <3>2. CASE Answer(h) BY <3>2, Fields DEF Answer, Answers, TypeOK, Addresses
    <3>3. CASE CacheDomain(h) BY <3>3, Fields, Updates DEF CacheDomain, TypeOK
    <3>4. CASE CacheAddr(h) BY <3>4, Updates DEF CacheAddr, TypeOK
    <3>5. CASE CacheNoAddr(h) BY <3>5, Updates DEF CacheNoAddr, TypeOK, Addresses
    <3>6. CASE Connect(h) BY <3>6, Updates DEF Connect, TypeOK
    <3>7. CASE Send(h)
      <4>1. (IF sock.url = 0 THEN n ELSE sock.url) \in 0 .. MaxFetches
        BY Fields DEF TypeOK
      <4> QED BY <3>7, <4>1, Updates DEF Send, TypeOK
    <3>8. CASE Head(h) BY <3>8, SocketBytes, Updates DEF Head, TypeOK
    <3>9. CASE Body(h) BY <3>9, SocketBytes, Fields, Updates DEF Body, TypeOK
    <3>10. CASE SetFlag(h) BY <3>10, Updates DEF SetFlag, TypeOK, Flags
    <3>11. CASE Signal(h) BY <3>11 DEF Signal, TypeOK
    <3>12. CASE Killed(h) BY <3>12 DEF Killed, TypeOK
    <3>13. CASE Wild(h) BY <3>13 DEF Wild, TypeOK
    <3> QED BY <1>11, <3>1, <3>2, <3>3, <3>4, <3>5, <3>6, <3>7, <3>8, <3>9, <3>10,
               <3>11, <3>12, <3>13 DEF HelperStep, Helping
  <2> QED BY <2>1, <2>2, <2>3, <2>4 DEF TypeOK, workerVars
<1>12. CASE UNCHANGED vars BY <1>12 DEF TypeOK, vars
<1> QED BY <1>1, <1>2, <1>3, <1>4, <1>5, <1>6, <1>7, <1>8, <1>9, <1>10, <1>11, <1>12
        DEF Next, Working, HelperStep

(* Steps keep HelpersOK: only FetchCreate starts a helper, only Release forgets one.*)
LEMMA HelpersStep ==
  ASSUME IInv, [Next]_vars
  PROVE  HelpersOK'
<1> USE HttpAssumption DEF IInv, TypeOK, HelpersOK, Quiet, AnyAlive, Alive, Fetches
<1>1. CASE FetchOpen BY <1>1 DEF FetchOpen, Move
<1>2. CASE FetchCreate BY <1>2 DEF FetchCreate, Move, Ended
<1>3. CASE Test BY <1>3 DEF Test, Move
<1>4. CASE EnterWait BY <1>4 DEF EnterWait, Move
<1>5. CASE Spurious BY <1>5 DEF Spurious, Woken, Move
<1>6. CASE Timeout BY <1>6 DEF Timeout, Woken, Move
<1>7. CASE ReturnTrue BY <1>7 DEF ReturnTrue
<1>8. CASE ReturnFalse BY <1>8 DEF ReturnFalse
<1>9. CASE GiveUp BY <1>9 DEF GiveUp, Move
<1>10. CASE Release BY <1>10 DEF Release
<1>11. ASSUME NEW h \in Fetches, HelperStep(h)
       PROVE  HelpersOK'
  BY <1>11, HelperMoves DEF workerVars, Ended
<1>12. CASE UNCHANGED vars BY <1>12 DEF vars
<1> QED BY <1>1, <1>2, <1>3, <1>4, <1>5, <1>6, <1>7, <1>8, <1>9, <1>10, <1>11, <1>12
        DEF Next, Working, HelperStep

(* Steps keep SocketOK: of the helpers' only connect and send touch the socket.   *)
LEMMA SocketStep ==
  ASSUME IInv, [Next]_vars
  PROVE  SocketOK'
<1> USE DEF IInv, SocketOK, InFetch
<1>1. CASE FetchOpen BY <1>1 DEF FetchOpen, Opened, Closed, Move
<1>2. CASE FetchCreate BY <1>2 DEF FetchCreate, Closed, Move
<1>3. CASE Test BY <1>3 DEF Test, Move
<1>4. CASE EnterWait BY <1>4 DEF EnterWait, Move
<1>5. CASE Spurious BY <1>5 DEF Spurious, Woken, Move
<1>6. CASE Timeout BY <1>6 DEF Timeout, Woken, Move
<1>7. CASE ReturnTrue BY <1>7 DEF ReturnTrue, Closed
<1>8. CASE ReturnFalse BY <1>8 DEF ReturnFalse, Closed
<1>9. CASE GiveUp BY <1>9 DEF GiveUp, Closed
<1>10. CASE Release BY <1>10 DEF Release
<1>11. ASSUME NEW h \in Fetches, HelperStep(h)
       PROVE  SocketOK'
  <2>1. n' = n /\ (InFetch' <=> InFetch) BY <1>11, HelperMoves DEF workerVars
  <2>2. CASE Connect(h)
    <3>1. InFetch BY <2>2 DEF Connect
    <3>2. sock'.url = sock.url /\ (sock'.peer = sock.peer \/ sock.peer = NoHost)
      BY <2>2 DEF Connect, TypeOK, Sockets
    <3> QED BY <2>1, <3>1, <3>2
  <2>3. CASE Send(h)
    <3>1. InFetch BY <2>3 DEF Send
    <3>2. /\ sock'.peer = sock.peer
          /\ sock'.url = sock.url \/ (sock'.url = n /\ sock.peer # NoHost)
      BY <2>3 DEF Send, TypeOK, Sockets
    <3> QED BY <2>1, <3>1, <3>2
  <2>4. CASE ~(Connect(h) \/ Send(h))
    <3>1. sock' = sock
      BY <1>11, <2>4 DEF HelperStep, Helping, Resolve, Answer, CacheDomain, CacheAddr,
         CacheNoAddr, Head, Body, SetFlag, Signal, Killed, Wild
    <3> QED BY <2>1, <3>1
  <2> QED BY <2>2, <2>3, <2>4
<1>12. CASE UNCHANGED vars BY <1>12 DEF vars
<1> QED BY <1>1, <1>2, <1>3, <1>4, <1>5, <1>6, <1>7, <1>8, <1>9, <1>10, <1>11, <1>12
        DEF Next, Working, HelperStep

(* Steps keep NothingUnexpected: what was true at the test stays true.            *)
LEMMA UnexpectedStep ==
  ASSUME IInv, [Next]_vars
  PROVE  NothingUnexpected'
<1> USE DEF IInv, NothingUnexpected
<1>1. CASE FetchOpen BY <1>1 DEF FetchOpen, Move
<1>2. CASE FetchCreate BY <1>2 DEF FetchCreate, Move
<1>3. CASE Test BY <1>3 DEF Test, Move
<1>4. CASE EnterWait BY <1>4 DEF EnterWait, Move
<1>5. CASE Spurious BY <1>5 DEF Spurious, Woken, Move
<1>6. CASE Timeout BY <1>6 DEF Timeout, Woken, Move
<1>7. CASE ReturnTrue BY <1>7 DEF ReturnTrue
<1>8. CASE ReturnFalse BY <1>8 DEF ReturnFalse, FlagOK, Quiet
<1>9. CASE GiveUp BY <1>9 DEF GiveUp, Move
<1>10. CASE Release BY <1>10 DEF Release
<1>11. ASSUME NEW h \in Fetches, HelperStep(h)
       PROVE  NothingUnexpected'
  BY <1>11, HelperMoves DEF workerVars
<1>12. CASE UNCHANGED vars BY <1>12 DEF vars
<1> QED BY <1>1, <1>2, <1>3, <1>4, <1>5, <1>6, <1>7, <1>8, <1>9, <1>10, <1>11, <1>12
        DEF Next, Working, HelperStep

(* What comes from the socket, seen from a fetch that no older helper disturbs.   *)
LEMMA OwnBytes ==
  ASSUME IInv
  PROVE  \A page \in OnSocket : page.url = n /\ page.from # NoHost
BY DEF IInv, SocketOK, OnSocket

(* Steps keep BuffersOK: what is read comes from the current socket.              *)
LEMMA BuffersStep ==
  ASSUME IInv, [Next]_vars
  PROVE  BuffersOK'
<1> USE HttpAssumption DEF IInv, TypeOK, HelpersOK, SocketOK, BuffersOK, Quiet,
    AnyAlive, Alive, Ended, Empty, InFetch, Pages, Fetches
<1>1. CASE FetchOpen BY <1>1 DEF FetchOpen, NewFrame, Opened, Move, helperVars
<1>2. CASE FetchCreate BY <1>2 DEF FetchCreate, Closed, Move, helperVars
<1>3. CASE Test BY <1>3 DEF Test, Move, helperVars
<1>4. CASE EnterWait BY <1>4 DEF EnterWait, Move, helperVars
<1>5. CASE Spurious BY <1>5 DEF Spurious, Woken, Move, helperVars
<1>6. CASE Timeout BY <1>6 DEF Timeout, Woken, Move, helperVars
<1>7. CASE ReturnTrue BY <1>7 DEF ReturnTrue, helperVars
<1>8. CASE ReturnFalse BY <1>8 DEF ReturnFalse, helperVars
<1>9. CASE GiveUp BY <1>9 DEF GiveUp, Move, helperVars
<1>10. CASE Release BY <1>10 DEF Release, Cleared, helperVars
<1>11. ASSUME NEW h \in Fetches, HelperStep(h)
       PROVE  BuffersOK'
  <2>1. CASE Resolve(h) BY <2>1 DEF Resolve, Go, Hit, Query, workerVars
  <2>2. CASE Answer(h) BY <2>2 DEF Answer, Go, workerVars
  <2>3. CASE CacheDomain(h) BY <2>3 DEF CacheDomain, Go, workerVars
  <2>4. CASE CacheAddr(h) BY <2>4 DEF CacheAddr, Go, workerVars
  <2>5. CASE CacheNoAddr(h) BY <2>5 DEF CacheNoAddr, Go, workerVars
  <2>6. CASE Connect(h) BY <2>6 DEF Connect, Go, workerVars
  <2>7. CASE Send(h) BY <2>7 DEF Send, Go, workerVars
  <2>8. CASE Head(h)
    <3>1. fpc # "idle" /\ UNCHANGED <<n, fpc, late>> BY <2>8 DEF Head, workerVars
    <3>2. SUFFICES ASSUME Quiet, h = n
                   PROVE  /\ \A page \in Pages' : page.url = n
                          /\ hpc'[n] = "body" => mine'[n].url = n /\ ris'.head # {}
                          /\ hpc'[n] # "yes"
      BY <2>8, <3>1 DEF Head, Go
    <3>3. hpc[n] = "head" /\ hpc'[n] \in {"no", "body"} BY <2>8, <3>2 DEF Head, Go
    <3>4. CASE UNCHANGED ris /\ hpc'[n] = "no" BY <3>2, <3>4
    <3>5. ASSUME NEW page \in OnSocket, ris' = [ris EXCEPT !.head = @ \cup {page}]
          PROVE  /\ \A q \in Pages' : q.url = n
                 /\ ris'.head # {}
      <4>1. Pages' = Pages \cup {page} /\ page \in ris'.head BY <3>5 DEF Buffers
      <4> QED BY <3>2, <4>1, OwnBytes
    <3>6. hpc'[n] = "body" => \E page \in OnSocket : mine'[n] = page
      BY <2>8, <3>2, <3>3 DEF Head, Go
    <3> QED BY <2>8, <3>3, <3>4, <3>5, <3>6, OwnBytes DEF Head, Go
  <2>9. CASE Body(h)
    <3>1. UNCHANGED <<n, fpc, late, mine>> /\ hpc[h] = "body" /\ hpc'[h] \in {"yes", "no"}
      BY <2>9 DEF Body, Go, workerVars
    <3>2. SUFFICES ASSUME Quiet, h = n
                   PROVE  /\ \A page \in Pages' : page.url = n
                          /\ hpc'[n] = "yes" => ris'.head # {} /\ ris'.body # {}
      BY <3>1
    <3>3. CASE UNCHANGED ris /\ hpc'[n] = "no" BY <3>2, <3>3
    <3>4. ASSUME NEW page \in {mine[n]} \cup OnSocket,
                 ris' = [ris EXCEPT !.body = @ \cup {page}]
          PROVE  /\ \A q \in Pages' : q.url = n
                 /\ ris'.head # {} /\ ris'.body # {}
      <4>1. /\ Pages' = Pages \cup {page}
            /\ page \in ris'.body /\ ris'.head = ris.head
        BY <3>4 DEF Buffers
      <4>2. page.url = n BY <3>1, <3>2, OwnBytes
      <4> QED BY <3>1, <3>2, <4>1, <4>2
    <3> QED BY <2>9, <3>1, <3>2, <3>3, <3>4 DEF Body, Go
  <2>10. CASE SetFlag(h) BY <2>10 DEF SetFlag, Go, workerVars
  <2>11. CASE Signal(h) BY <2>11 DEF Signal, Go, Woken, Move, workerVars
  <2>12. CASE Killed(h) BY <2>12 DEF Killed, workerVars
  <2>13. CASE Wild(h) BY <2>13 DEF Wild, workerVars
  <2> QED BY <1>11, <2>1, <2>2, <2>3, <2>4, <2>5, <2>6, <2>7, <2>8, <2>9, <2>10,
             <2>11, <2>12, <2>13 DEF HelperStep, Helping
<1>12. CASE UNCHANGED vars BY <1>12 DEF vars
<1> QED BY <1>1, <1>2, <1>3, <1>4, <1>5, <1>6, <1>7, <1>8, <1>9, <1>10, <1>11, <1>12
        DEF Next, Working, HelperStep

(* Steps keep FlagOK: a helper sets the flag once, after the page is there.       *)
LEMMA FlagStep ==
  ASSUME IInv, [Next]_vars
  PROVE  FlagOK'
<1> USE HttpAssumption DEF IInv, TypeOK, HelpersOK, BuffersOK, FlagOK, Quiet, Alive,
    Ended, InFetch, Flags, Fetches
<1>1. CASE FetchOpen BY <1>1 DEF FetchOpen, NewFrame, Opened, Move, helperVars
<1>2. CASE FetchCreate BY <1>2 DEF FetchCreate, Closed, Move, helperVars
<1>3. CASE Test BY <1>3 DEF Test, Move, helperVars
<1>4. CASE EnterWait BY <1>4 DEF EnterWait, Move, helperVars
<1>5. CASE Spurious BY <1>5 DEF Spurious, Woken, Move, helperVars
<1>6. CASE Timeout BY <1>6 DEF Timeout, Woken, Move, helperVars
<1>7. CASE ReturnTrue BY <1>7, Fields DEF ReturnTrue, helperVars
<1>8. CASE ReturnFalse BY <1>8 DEF ReturnFalse, helperVars
<1>9. CASE GiveUp BY <1>9 DEF GiveUp, Move, helperVars
<1>10. CASE Release BY <1>10 DEF Release, Cleared, helperVars
<1>11. ASSUME NEW h \in Fetches, HelperStep(h)
       PROVE  FlagOK'
  <2>1. CASE Resolve(h) BY <2>1 DEF Resolve, Go, Hit, Query, workerVars
  <2>2. CASE Answer(h) BY <2>2 DEF Answer, Go, workerVars
  <2>3. CASE CacheDomain(h) BY <2>3 DEF CacheDomain, Go, workerVars
  <2>4. CASE CacheAddr(h) BY <2>4 DEF CacheAddr, Go, workerVars
  <2>5. CASE CacheNoAddr(h) BY <2>5 DEF CacheNoAddr, Go, workerVars
  <2>6. CASE Connect(h) BY <2>6 DEF Connect, Go, workerVars
  <2>7. CASE Send(h) BY <2>7 DEF Send, Go, workerVars
  <2>8. CASE Head(h) BY <2>8 DEF Head, Go, OnSocket, workerVars
  <2>9. CASE Body(h) BY <2>9 DEF Body, Go, OnSocket, workerVars
  <2>10. CASE SetFlag(h)
    <3>1. fpc # "idle" /\ UNCHANGED <<n, fpc, late, ris, expired>>
      BY <2>10 DEF SetFlag, workerVars
    <3>2. \/ hpc[h] = "yes" /\ frame'.flag = "RETURN_TRUE" /\ hpc'[h] = "signal"
          \/ hpc[h] = "no" /\ frame'.flag = "RETURN_FALSE" /\ hpc'[h] = "signal"
      BY <2>10 DEF SetFlag, Go, Frames
    <3> QED BY <2>10, <3>1, <3>2 DEF SetFlag
  <2>11. CASE Signal(h) BY <2>11 DEF Signal, Go, Woken, Move, workerVars
  <2>12. CASE Killed(h) BY <2>12 DEF Killed, workerVars
  <2>13. CASE Wild(h) BY <2>13 DEF Wild, workerVars
  <2> QED BY <1>11, <2>1, <2>2, <2>3, <2>4, <2>5, <2>6, <2>7, <2>8, <2>9, <2>10,
             <2>11, <2>12, <2>13 DEF HelperStep, Helping
<1>12. CASE UNCHANGED vars BY <1>12 DEF vars
<1> QED BY <1>1, <1>2, <1>3, <1>4, <1>5, <1>6, <1>7, <1>8, <1>9, <1>10, <1>11, <1>12
        DEF Next, Working, HelperStep

(* Steps keep AddressOK.                                                          *)
LEMMA AddressStep ==
  ASSUME IInv, [Next]_vars
  PROVE  AddressOK'
<1> USE HttpAssumption DEF IInv, TypeOK, HelpersOK, SocketOK, AddressOK, NoneTorn,
    Quiet, AnyAlive, Alive, Ended, Empty, InFetch, Pages, Fetches
<1>1. CASE FetchOpen
  <2>1. SUFFICES ASSUME late = {}, NoneTorn
                 PROVE  /\ dns'.ip \in {NoHost, dns'.domain}
                        /\ hpc'[n'] = "none"
                        /\ sock'.peer = NoHost /\ Pages' = {}
    BY <1>1 DEF FetchOpen, helperVars
  <2>2. fpc = "idle" /\ n \in Nat /\ n' = n + 1 /\ n' \in Fetches BY <1>1 DEF FetchOpen, Move
  <2>3. UNCHANGED <<hpc, dns, ris>> /\ sock' \in {sock, Opened}
    BY <1>1 DEF FetchOpen, Move, helperVars
  <2>4. ~AnyAlive /\ ris = Empty BY <2>1, <2>2 DEF BuffersOK
  <2>5. dns.ip \in {NoHost, dns.domain} BY <2>1, <2>4
  <2>6. hpc[n'] = "none" BY <2>2
  <2>7. sock'.peer = NoHost BY <2>2, <2>3 DEF Opened, Closed
  <2>8. Pages' = {} BY <2>3, <2>4
  <2> QED BY <2>3, <2>5, <2>6, <2>7, <2>8
<1>2. CASE FetchCreate BY <1>2 DEF FetchCreate, Closed, Move, helperVars
<1>3. CASE Test BY <1>3 DEF Test, Move, helperVars
<1>4. CASE EnterWait BY <1>4 DEF EnterWait, Move, helperVars
<1>5. CASE Spurious BY <1>5 DEF Spurious, Woken, Move, helperVars
<1>6. CASE Timeout BY <1>6 DEF Timeout, Woken, Move, helperVars
<1>7. CASE ReturnTrue BY <1>7 DEF ReturnTrue, Closed, helperVars
<1>8. CASE ReturnFalse BY <1>8 DEF ReturnFalse, Closed, helperVars
<1>9. CASE GiveUp BY <1>9 DEF GiveUp, Closed, Move, helperVars
<1>10. CASE Release BY <1>10 DEF Release, Cleared, helperVars
<1>11. ASSUME NEW h \in Fetches, HelperStep(h)
       PROVE  AddressOK'
  <2>1. CASE Resolve(h)
    <3>1. UNCHANGED <<n, fpc, late, frame, sock, ris, dns>> /\ fpc # "idle"
      BY <2>1 DEF Resolve, workerVars
    <3>2. SUFFICES ASSUME late = {}, NoneTorn, h = n
                   PROVE  /\ dns.ip \in {NoHost, dns.domain}
                          /\ hpc'[n] \in {"answer", "body"} => mine'[n].from = frame.host
                          /\ hpc'[n] \notin {"domain", "addr"}
                          /\ hpc'[n] = "connect" => ip' = frame.host
      BY <2>1, <3>1 DEF Resolve, Hit, Query, Go
    <3>3. dns.ip \in {NoHost, dns.domain} BY <2>1, <3>1, <3>2 DEF Resolve, Hit, Query, Go
    <3>4. CASE Hit(h) BY <3>2, <3>3, <3>4 DEF Hit, Go
    <3>5. CASE Query(h) BY <3>2, <3>3, <3>5 DEF Query, Go
    <3> QED BY <2>1, <3>4, <3>5 DEF Resolve
  <2>2. CASE Answer(h) BY <2>2 DEF Answer, Answers, Go, workerVars
  <2>3. CASE CacheDomain(h) BY <2>3 DEF CacheDomain, Go, workerVars
  <2>4. CASE CacheAddr(h) BY <2>4 DEF CacheAddr, Go, workerVars
  <2>5. CASE CacheNoAddr(h) BY <2>5 DEF CacheNoAddr, Go, workerVars
  <2>6. CASE Connect(h)
    <3>1. sock'.peer = sock.peer \/ sock'.peer = ip BY <2>6 DEF Connect, Sockets
    <3>2. hpc[h] = "connect" /\ hpc' = [hpc EXCEPT ![h] = hpc'[h]]
          /\ hpc'[h] \in {"no", "send"}
      BY <2>6 DEF Connect, Go
    <3> QED BY <2>6, <3>1, <3>2 DEF Connect, workerVars
  <2>7. CASE Send(h)
    <3>1. sock'.peer = sock.peer BY <2>7 DEF Send, Sockets
    <3>2. hpc[h] = "send" /\ hpc' = [hpc EXCEPT ![h] = hpc'[h]]
          /\ hpc'[h] \in {"no", "head"}
      BY <2>7 DEF Send, Go
    <3> QED BY <2>7, <3>1, <3>2 DEF Send, workerVars
  <2>8. CASE Head(h)
    <3>1. UNCHANGED <<n, fpc, late, frame, sock, dns, ip>> /\ fpc # "idle"
      BY <2>8 DEF Head, workerVars
    <3>2. hpc[h] = "head" /\ hpc' = [hpc EXCEPT ![h] = hpc'[h]] /\ hpc'[h] \in {"no", "body"}
      BY <2>8 DEF Head, Go
    <3>3. SUFFICES ASSUME late = {}, NoneTorn, h = n
                   PROVE  /\ hpc'[n] = "body" => mine'[n].from = frame.host
                          /\ \A page \in Pages' : page.from = frame.host
      BY <2>8, <3>1, <3>2
    <3>4. \A page \in OnSocket : page.from = frame.host
      BY <3>1, <3>3, OwnBytes, SocketBytes
    <3>5. ASSUME NEW page \in OnSocket, ris' = [ris EXCEPT !.head = @ \cup {page}]
          PROVE  \A q \in Pages' : q.from = frame.host
      <4>1. Pages' = Pages \cup {page} BY <3>5 DEF Buffers
      <4> QED BY <3>1, <3>3, <3>4, <4>1
    <3>6. hpc'[n] = "body" => \E page \in OnSocket : mine'[n] = page
      BY <2>8, <3>3, <3>2 DEF Head, Go
    <3>7. CASE UNCHANGED ris BY <3>1, <3>3, <3>4, <3>6, <3>7
    <3> QED BY <2>8, <3>4, <3>5, <3>6, <3>7 DEF Head
  <2>9. CASE Body(h)
    <3>1. UNCHANGED <<n, fpc, late, frame, sock, mine, dns, ip>> BY <2>9 DEF Body, workerVars
    <3>2. hpc[h] = "body" /\ hpc' = [hpc EXCEPT ![h] = hpc'[h]] /\ hpc'[h] \in {"no", "yes"}
      BY <2>9 DEF Body, Go
    <3>3. SUFFICES ASSUME late = {}, NoneTorn, h = n, fpc # "idle"
                   PROVE  \A page \in Pages' : page.from = frame.host
      BY <2>9, <3>1, <3>2
    <3>4. \A page \in {mine[n]} \cup OnSocket : page.from = frame.host
      BY <3>1, <3>2, <3>3, OwnBytes, SocketBytes
    <3>5. ASSUME NEW page \in {mine[n]} \cup OnSocket,
                 ris' = [ris EXCEPT !.body = @ \cup {page}]
          PROVE  \A q \in Pages' : q.from = frame.host
      <4>1. Pages' = Pages \cup {page} BY <3>5 DEF Buffers
      <4> QED BY <3>1, <3>3, <3>4, <4>1
    <3>6. CASE UNCHANGED ris BY <3>1, <3>3, <3>6
    <3> QED BY <2>9, <3>3, <3>5, <3>6 DEF Body
  <2>10. CASE SetFlag(h)
    <3>1. frame'.host = frame.host BY <2>10 DEF SetFlag, Frames
    <3>2. hpc[h] \in {"yes", "no"} /\ hpc' = [hpc EXCEPT ![h] = "signal"]
      BY <2>10 DEF SetFlag, Go
    <3> QED BY <2>10, <3>1, <3>2 DEF SetFlag, workerVars
  <2>11. CASE Signal(h) BY <2>11 DEF Signal, Go, Woken, Move, workerVars
  <2>12. CASE Killed(h) BY <2>12 DEF Killed, workerVars
  <2>13. CASE Wild(h) BY <2>13 DEF Wild, workerVars
  <2> QED BY <1>11, <2>1, <2>2, <2>3, <2>4, <2>5, <2>6, <2>7, <2>8, <2>9, <2>10,
             <2>11, <2>12, <2>13 DEF HelperStep, Helping
<1>12. CASE UNCHANGED vars BY <1>12 DEF vars
<1> QED BY <1>1, <1>2, <1>3, <1>4, <1>5, <1>6, <1>7, <1>8, <1>9, <1>10, <1>11, <1>12
        DEF Next, Working, HelperStep
-----------------------------------------------------------------------------
(* The invariant holds at the start.                                              *)
LEMMA Start == Init => IInv
<1> SUFFICES ASSUME Init PROVE IInv
  OBVIOUS
<1>1. TypeOK
  <2>1. n \in 0 .. MaxFetches /\ late \subseteq 1 .. MaxFetches + 1
    BY HttpAssumption DEF Init
  <2>2. frame \in Frames /\ sock \in Sockets /\ ris \in Buffers /\ dns \in Entries
    BY Constructed DEF Init, Frames, Flags, Entries, Addresses
  <2>3. hpc \in [Fetches -> Ended \cup Points] BY DEF Init, Ended
  <2>4. mine \in [Fetches -> Bytes] BY HttpAssumption DEF Init, Bytes, Addresses
  <2> QED BY <2>1, <2>2, <2>3, <2>4 DEF Init, TypeOK, Addresses
<1>2. HelpersOK /\ SocketOK /\ BuffersOK /\ FlagOK /\ NothingUnexpected
  BY DEF Init, HelpersOK, SocketOK, BuffersOK, FlagOK, NothingUnexpected, Quiet,
         AnyAlive, Alive, Ended, InFetch, Closed
<1>3. AddressOK BY DEF Init, AddressOK
<1> QED BY <1>1, <1>2, <1>3 DEF IInv

(* The inductive invariant.                                                       *)
THEOREM InductiveInvariant == Spec => []IInv
<1>1. ASSUME IInv, [Next]_vars PROVE IInv'
  BY <1>1, TypeStep, HelpersStep, SocketStep, BuffersStep, FlagStep, AddressStep,
     UnexpectedStep DEF IInv
<1> QED BY Start, <1>1, PTL DEF Spec

(* Every variable keeps its type.                                                 *)
THEOREM TypeCorrect == Spec => []TypeOK
<1>1. IInv => TypeOK BY DEF IInv
<1> QED BY <1>1, InductiveInvariant, PTL

(* A page handed to the worker is whole and all its own, for any number of        *)
(* fetches before it.                                                             *)
THEOREM PageIsItsOwn == Spec => []OwnPage
<1>1. IInv => OwnPage BY DEF IInv, BuffersOK, FlagOK, OwnPage, Quiet
<1> QED BY <1>1, InductiveInvariant, PTL

(* A page comes from the host of its URL: the cache never answers for another.    *)
THEOREM PageFromItsHost == Spec => []FromItsHost
<1>1. IInv => FromItsHost BY DEF IInv, AddressOK, FromItsHost
<1> QED BY <1>1, InductiveInvariant, PTL

(* No path through fetch leaves its socket open.                                  *)
THEOREM NoSocketLeft == Spec => []SocketClosed
<1>1. IInv => SocketClosed BY DEF IInv, SocketOK, SocketClosed, Closed
<1> QED BY <1>1, InductiveInvariant, PTL

(* The branch of fetch for the unexpected needs a helper that outlived its fetch. *)
THEOREM UnexpectedNeedsOldHelper == Spec => []NothingUnexpected
<1>1. IInv => NothingUnexpected BY DEF IInv
<1> QED BY <1>1, InductiveInvariant, PTL
=============================================================================
