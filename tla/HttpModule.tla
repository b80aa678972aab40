------------------------------ MODULE HttpModule ------------------------------
(* The HttpModule of one worker, with its TinyDNSResolver and the worker's page   *)
(* buffer (RIS).  fetch starts a detached helper thread for each URL, waits for   *)
(* its flag with a deadline, and at the deadline sends it SIGALRM and returns.    *)
(* The helper works through pointers: into the stack frame of fetch (thread_para),*)
(* into the buffer, and to the module's one socket, address and DNS cache.  The   *)
(* frame of the next fetch is at the same place, so a helper that is still alive  *)
(* by then works on the next fetch's data.  Between two fetches its pointers lead *)
(* nowhere, and the model does not say what such a helper does ("wild").          *)
(*                                                                                *)
(* The program is built with DEBUG (global.h), without which no signal is sent.   *)
(* Addresses are named by their hosts; the network may fail at each call.         *)
(*                                                                                *)
(* A definition named ...Fault is its original with one plausible bug, to see     *)
(* that the properties notice it.                                                 *)
EXTENDS Naturals

CONSTANTS Hosts,      \* hosts of the URLs
          NoHost,     \* the empty string
          Portal,     \* the address a name server gives for names it does not know
          MaxFetches  \* bound: fetches of one run

ASSUME HttpAssumption == /\ NoHost \notin Hosts /\ Portal \notin Hosts
                         /\ NoHost # Portal
                         /\ MaxFetches \in Nat

VARIABLES n,         \* fetches begun; the current one, its helper and its URL
          fpc,       \* where the worker is
          frame,     \* thread_para: the host of the URL and the flag
          expired,   \* res = ETIMEDOUT
          sock,      \* sockfd: open?, connected to, the URL asked for (0: none yet)
          ris,       \* the pages whose bytes are in the head and in the file buffer
          hpc,       \* where each helper is
          mine,      \* what it is waiting for: a lookup (url = 0) or a page
          signalled, \* helpers with a SIGALRM sent to them
          dns,       \* the one entry of the DNS cache
          ip,        \* the address in HttpModule
          late       \* fetches that began, or whose buffer was cleared, while an
                     \* older helper was alive
vars == <<n, fpc, frame, expired, sock, ris, hpc, mine, signalled, dns, ip, late>>

Fetches   == 1 .. MaxFetches
Addresses == Hosts \cup {NoHost, Portal}
Flags     == {"NOTRETURN", "RETURN_TRUE", "RETURN_FALSE"}
InFetch   == fpc \notin {"idle", "use", "clear"}

Ended     == {"none", "done", "killed", "torn", "wild"}
Points    == {"start", "answer", "domain", "noDomain", "addr", "noAddr", "connect",
              "send", "head", "body", "yes", "no", "signal"}
Alive(h)  == hpc[h] \notin Ended
AnyAlive  == \E h \in Fetches : Alive(h)

Empty     == [head |-> {}, body |-> {}]
Closed    == [open |-> FALSE, peer |-> NoHost, url |-> 0]
Opened    == [open |-> TRUE, peer |-> NoHost, url |-> 0]

Init == /\ n = 0 /\ fpc = "idle"
        /\ frame = [host |-> NoHost, flag |-> "NOTRETURN"]
        /\ expired = FALSE
        /\ sock = Closed /\ ris = Empty
        /\ hpc = [h \in Fetches |-> "none"]
        /\ mine = [h \in Fetches |-> [url |-> 0, from |-> NoHost]]
        /\ signalled = {}
        /\ dns = [domain |-> NoHost, ip |-> NoHost]
        /\ ip = NoHost
        /\ late = {}
-----------------------------------------------------------------------------
(* The worker in fetch.                                                          *)
helperVars == <<mine, dns, ip>>

Move(from, to) == fpc = from /\ fpc' = to

NewFrameFault(host) ==  \* the flag is left as it was
  [host |-> host, flag |-> frame.flag]

NewFrame(host) == [host |-> host, flag |-> "NOTRETURN"]

(* A socket that cannot be made ends fetch at once.                              *)
FetchOpen ==
  /\ n < MaxFetches
  /\ n' = n + 1
  /\ \E host \in Hosts : frame' = NewFrame(host)
  /\ expired' = FALSE
  /\ \/ Move("idle", "create") /\ sock' = Opened
     \/ Move("idle", "clear") /\ UNCHANGED sock
  /\ UNCHANGED <<helperVars, ris, hpc, signalled, late>>

FetchCreate ==
  /\ \/ Move("create", "test") /\ hpc' = [hpc EXCEPT ![n] = "start"] /\ UNCHANGED sock
     \/ Move("create", "clear") /\ sock' = Closed /\ UNCHANGED hpc
  /\ UNCHANGED <<helperVars, n, frame, expired, ris, signalled, late>>

(* The loop around the wait.  The helper sets the flag without the mutex, so it  *)
(* may do so after the test and before the wait.                                 *)
Test ==
  /\ Move("test", IF frame.flag = "NOTRETURN" /\ ~expired THEN "enter" ELSE "true?")
  /\ UNCHANGED <<helperVars, n, frame, expired, sock, ris, hpc, signalled, late>>

EnterWait ==
  /\ Move("enter", "wait")
  /\ UNCHANGED <<helperVars, n, frame, expired, sock, ris, hpc, signalled, late>>

WokenFault == Move("wait", "true?")  \* the wait is not in a loop

Woken == Move("wait", "test")

Spurious ==
  /\ Woken
  /\ UNCHANGED <<helperVars, n, frame, expired, sock, ris, hpc, signalled, late>>

TimeoutFault ==  \* the result of the wait is not kept
  /\ Woken
  /\ UNCHANGED <<helperVars, n, frame, expired, sock, ris, hpc, signalled, late>>

Timeout ==
  /\ Woken
  /\ expired' = TRUE
  /\ UNCHANGED <<helperVars, n, frame, sock, ris, hpc, signalled, late>>

(* fetch looks at the flag once more for each result, closes and returns.        *)
ReturnTrue ==
  /\ fpc = "true?"
  /\ IF frame.flag = "RETURN_TRUE" THEN fpc' = "use" /\ sock' = Closed
                                   ELSE fpc' = "false?" /\ UNCHANGED sock
  /\ UNCHANGED <<helperVars, n, frame, expired, ris, hpc, signalled, late>>

ReturnFalseFault ==  \* keeps the socket when the helper failed
  /\ fpc = "false?"
  /\ fpc' = IF frame.flag = "RETURN_FALSE" THEN "clear" ELSE "expired?"
  /\ UNCHANGED <<helperVars, n, frame, expired, sock, ris, hpc, signalled, late>>

ReturnFalse ==
  /\ fpc = "false?"
  /\ IF frame.flag = "RETURN_FALSE" THEN fpc' = "clear" /\ sock' = Closed
                                    ELSE fpc' = "expired?" /\ UNCHANGED sock
  /\ UNCHANGED <<helperVars, n, frame, expired, ris, hpc, signalled, late>>

(* At the deadline the helper is sent SIGALRM; nobody waits for it to arrive.    *)
GiveUpFault ==  \* the program built without DEBUG
  /\ Move("expired?", "clear")
  /\ sock' = Closed
  /\ UNCHANGED <<helperVars, n, frame, expired, ris, hpc, signalled, late>>

GiveUp ==
  /\ Move("expired?", "clear")
  /\ signalled' = IF expired THEN signalled \cup {n} ELSE signalled
  /\ sock' = Closed
  /\ UNCHANGED <<helperVars, n, frame, expired, ris, hpc, late>>

(* The worker is done with the page, or with the failure, and calls clearself.   *)
ClearedFault == ris  \* clearself is not called

Cleared == Empty

Release ==
  /\ fpc \in {"use", "clear"}
  /\ fpc' = "idle"
  /\ ris' = Cleared
  /\ late' = IF AnyAlive THEN late \cup {n + 1} ELSE late
  /\ UNCHANGED <<helperVars, n, frame, expired, sock, hpc, signalled>>
-----------------------------------------------------------------------------
(* A helper, threadtofetch.                                                      *)
workerVars == <<n, expired, signalled, late>>

Go(h, from, to) == hpc[h] = from /\ hpc' = [hpc EXCEPT ![h] = to]

(* resolve.  A hit may be the memory of a failed lookup; a query that cannot be  *)
(* sent fails and leaves no memory.                                              *)
HitFault(h) ==  \* does not compare the names
  /\ IF dns.ip = NoHost THEN Go(h, "start", "no") /\ UNCHANGED ip
                        ELSE Go(h, "start", "connect") /\ ip' = dns.ip
  /\ UNCHANGED mine

Hit(h) ==
  /\ dns.domain = frame.host
  /\ IF dns.ip = NoHost THEN Go(h, "start", "no") /\ UNCHANGED ip
                        ELSE Go(h, "start", "connect") /\ ip' = dns.ip
  /\ UNCHANGED mine

Query(h) ==
  /\ dns.domain # frame.host
  /\ \/ Go(h, "start", "no") /\ UNCHANGED mine
     \/ /\ Go(h, "start", "answer")
        /\ mine' = [mine EXCEPT ![h] = [url |-> 0, from |-> frame.host]]
  /\ UNCHANGED ip

Resolve(h) ==
  /\ InFetch
  /\ Hit(h) \/ Query(h)
  /\ UNCHANGED <<workerVars, fpc, frame, sock, ris, dns>>

(* The answer, or none within five seconds.                                      *)
Answers(h) == {mine[h].from, Portal}

Answer(h) ==
  /\ \/ Go(h, "answer", "noDomain") /\ UNCHANGED ip
     \/ /\ Go(h, "answer", "domain")
        /\ \E a \in Answers(h) : ip' = a
  /\ UNCHANGED <<workerVars, fpc, frame, sock, ris, mine, dns>>

(* The entry is written in two steps, the name first.                            *)
CacheDomain(h) ==
  /\ InFetch
  /\ \/ Go(h, "domain", IF ip = Portal THEN "noAddr" ELSE "addr")
     \/ Go(h, "noDomain", "noAddr")
  /\ dns' = [dns EXCEPT !.domain = frame.host]
  /\ UNCHANGED <<workerVars, fpc, frame, sock, ris, mine, ip>>

CacheAddr(h) ==
  /\ Go(h, "addr", "connect")
  /\ dns' = [dns EXCEPT !.ip = ip]
  /\ UNCHANGED <<workerVars, fpc, frame, sock, ris, mine, ip>>

CacheNoAddr(h) ==
  /\ Go(h, "noAddr", "no")
  /\ dns' = [dns EXCEPT !.ip = NoHost]
  /\ UNCHANGED <<workerVars, fpc, frame, sock, ris, mine, ip>>

(* connect on the socket of the current fetch.  An older helper may have its     *)
(* connection from before, and then go on with the new socket.                   *)
Connect(h) ==
  /\ InFetch
  /\ \/ Go(h, "connect", "no") /\ UNCHANGED sock
     \/ Go(h, "connect", "send") /\ h # n /\ UNCHANGED sock
     \/ /\ Go(h, "connect", "send")
        /\ sock.open /\ sock.peer = NoHost
        /\ sock' = [sock EXCEPT !.peer = ip]
  /\ UNCHANGED <<workerVars, fpc, frame, ris, mine, dns, ip>>

(* The request is for the URL in the frame; a server answers the first one.      *)
Send(h) ==
  /\ InFetch
  /\ \/ Go(h, "send", "no") /\ UNCHANGED sock
     \/ /\ Go(h, "send", "head")
        /\ sock.peer # NoHost
        /\ sock' = [sock EXCEPT !.url = IF @ = 0 THEN n ELSE @]
  /\ UNCHANGED <<workerVars, fpc, frame, ris, mine, dns, ip>>

(* Reading what comes from the socket: bytes in the buffer, and an end, an error *)
(* or too much of it.  While it reads the head the helper goes through the frame *)
(* for every byte; the body is read with the pointer and the descriptor it has,  *)
(* which by then may be that of the next socket.                                 *)
OnSocket == IF sock.url = 0 THEN {} ELSE {[url |-> sock.url, from |-> sock.peer]}

Head(h) ==
  /\ InFetch
  /\ \/ Go(h, "head", "no") /\ UNCHANGED <<ris, mine>>
     \/ \E page \in OnSocket :
          /\ ris' = [ris EXCEPT !.head = @ \cup {page}]
          /\ \/ Go(h, "head", "no") /\ UNCHANGED mine
             \/ Go(h, "head", "body") /\ mine' = [mine EXCEPT ![h] = page]
  /\ UNCHANGED <<workerVars, fpc, frame, sock, dns, ip>>

Body(h) ==
  /\ \/ Go(h, "body", "no") /\ UNCHANGED ris
     \/ /\ Go(h, "body", "no") \/ Go(h, "body", "yes")
        /\ \E page \in {mine[h]} \cup OnSocket : ris' = [ris EXCEPT !.body = @ \cup {page}]
  /\ UNCHANGED <<workerVars, fpc, frame, sock, mine, dns, ip>>

SetFlag(h) ==
  /\ InFetch
  /\ \/ Go(h, "yes", "signal") /\ frame' = [frame EXCEPT !.flag = "RETURN_TRUE"]
     \/ Go(h, "no", "signal") /\ frame' = [frame EXCEPT !.flag = "RETURN_FALSE"]
  /\ UNCHANGED <<workerVars, fpc, sock, ris, mine, dns, ip>>

(* The signal is lost unless the worker is waiting.                              *)
Signal(h) ==
  /\ Go(h, "signal", "done")
  /\ Woken \/ (fpc # "wait" /\ UNCHANGED fpc)
  /\ UNCHANGED <<workerVars, frame, sock, ris, mine, dns, ip>>

(* SIGALRM arrives: alrm_handler ends the thread wherever it is, in particular   *)
(* between the two halves of the cache entry ("torn").                           *)
Killed(h) ==
  /\ h \in signalled /\ Alive(h)
  /\ hpc' = [hpc EXCEPT ![h] = IF @ \in {"addr", "noAddr"} THEN "torn" ELSE "killed"]
  /\ UNCHANGED <<workerVars, fpc, frame, sock, ris, mine, dns, ip>>

(* A helper uses the frame of a fetch that has returned.                         *)
Wild(h) ==
  /\ ~InFetch
  /\ hpc[h] \in {"start", "domain", "noDomain", "connect", "send", "head", "yes", "no"}
  /\ hpc' = [hpc EXCEPT ![h] = "wild"]
  /\ UNCHANGED <<workerVars, fpc, frame, sock, ris, mine, dns, ip>>
-----------------------------------------------------------------------------
Working == \/ FetchCreate \/ Test \/ EnterWait \/ ReturnTrue \/ ReturnFalse
           \/ GiveUp \/ Release

Helping(h) == \/ Resolve(h) \/ Answer(h) \/ CacheDomain(h) \/ CacheAddr(h)
              \/ CacheNoAddr(h) \/ Connect(h) \/ Send(h) \/ Head(h) \/ Body(h)
              \/ SetFlag(h) \/ Wild(h)

Next == \/ FetchOpen \/ Working \/ Spurious \/ Timeout
        \/ \E h \in Fetches : Helping(h) \/ Signal(h) \/ Killed(h)

Spec == Init /\ [][Next]_vars

(* The worker goes on, signals arrive, and a wait whose deadline is absolute     *)
(* times out in the end however often it is woken before.  Nothing makes the     *)
(* network answer: a helper may be stuck in any call, or loop in the decoder of  *)
(* chunks, for ever.                                                             *)
FairSpec == Spec /\ WF_vars(Working) /\ SF_vars(Timeout)
                 /\ \A h \in Fetches : WF_vars(Signal(h)) /\ WF_vars(Killed(h))
-----------------------------------------------------------------------------
Frames  == [host : Hosts \cup {NoHost}, flag : Flags]
Sockets == [open : BOOLEAN, peer : Addresses, url : 0 .. MaxFetches]
Bytes   == [url : 0 .. MaxFetches, from : Addresses]
Buffers == [head : SUBSET Bytes, body : SUBSET Bytes]
Entries == [domain : Hosts \cup {NoHost}, ip : Addresses]

TypeOK ==
  /\ n \in 0 .. MaxFetches
  /\ fpc \in {"idle", "create", "test", "enter", "wait", "true?", "false?",
              "expired?", "use", "clear"}
  /\ frame \in Frames
  /\ expired \in BOOLEAN
  /\ sock \in Sockets
  /\ ris \in Buffers
  /\ hpc \in [Fetches -> Ended \cup Points]
  /\ mine \in [Fetches -> Bytes]
  /\ signalled \subseteq Fetches
  /\ dns \in Entries
  /\ ip \in Addresses
  /\ late \subseteq 1 .. MaxFetches + 1

NoneWild == \A h \in Fetches : hpc[h] # "wild"

NoneTorn == \A h \in Fetches : hpc[h] # "torn"

Pages == ris.head \cup ris.body

(* When fetch returns true the worker has the head and the body of the URL it    *)
(* asked for and no byte of another page, if no older helper is still at work:   *)
(* earlier fetches that failed or timed out leave nothing behind.                *)
OwnPage ==
  fpc = "use" /\ n \notin late /\ NoneWild =>
    /\ ris.head # {} /\ ris.body # {}
    /\ \A page \in Pages : page.url = n

(* That page comes from the host of the URL: the one-entry cache never gives the *)
(* address of another host, unless a helper was ended between its two halves.    *)
FromItsHost ==
  fpc = "use" /\ late = {} /\ NoneWild /\ NoneTorn =>
    \A page \in Pages : page.from = frame.host

(* Whatever way fetch returns, its socket is closed.                             *)
SocketClosed == ~InFetch => ~sock.open

(* The branch of fetch for situations its author did not expect is only taken    *)
(* when an older helper is at work.                                              *)
NothingUnexpected == fpc = "expired?" /\ ~expired => n \in late

(* The inductive invariant behind these.                                         *)
Quiet == fpc # "idle" /\ n \notin late

(* No helper has run yet beyond the current one, and older ones make it late.    *)
HelpersOK ==
  /\ fpc # "idle" => n > 0
  /\ \A h \in Fetches : h > n => hpc[h] = "none"
  /\ fpc = "create" => hpc[n] = "none"
  /\ fpc = "idle" /\ n + 1 \notin late => ~AnyAlive
  /\ Quiet => \A h \in Fetches : Alive(h) => h = n

SocketOK ==
  /\ ~InFetch => sock = Closed
  /\ sock.url \in {0, n}
  /\ sock.url # 0 => sock.peer # NoHost

(* Bytes in the buffers are those of the current URL; the flag, once set, stays. *)
BuffersOK ==
  /\ fpc = "idle" /\ n + 1 \notin late => ris = Empty
  /\ Quiet => /\ \A page \in Pages : page.url = n
              /\ hpc[n] = "body" => mine[n].url = n
              /\ hpc[n] \in {"body", "yes"} => ris.head # {}
              /\ hpc[n] = "yes" => ris.body # {}

FlagOK ==
  Quiet => /\ frame.flag = "RETURN_TRUE" => ris.head # {} /\ ris.body # {}
           /\ frame.flag # "NOTRETURN" =>
                hpc[n] \in {"signal", "done", "killed", "torn", "wild"}
           /\ fpc = "use" => frame.flag = "RETURN_TRUE"
           /\ fpc = "true?" => expired \/ frame.flag # "NOTRETURN"
           /\ fpc = "false?" => expired \/ frame.flag = "RETURN_FALSE"

(* The address in use and the one in the cache are those of the host.            *)
AddressOK ==
  late = {} /\ NoneTorn =>
    /\ \/ dns.ip \in {NoHost, dns.domain}
       \/ \E h \in Fetches : hpc[h] \in {"addr", "noAddr"}
    /\ fpc # "idle" =>
         /\ hpc[n] \in {"answer", "body"} => mine[n].from = frame.host
         /\ hpc[n] = "domain" => ip \in {frame.host, Portal}
         /\ hpc[n] \in {"addr", "connect"} => ip = frame.host
         /\ hpc[n] = "addr" => dns.domain = frame.host
         /\ sock.peer \in {NoHost, frame.host}
         /\ \A page \in Pages : page.from = frame.host

IInv == /\ TypeOK /\ HelpersOK /\ SocketOK /\ BuffersOK /\ FlagOK /\ AddressOK
        /\ NothingUnexpected

(* Every fetch returns, whatever the network and its helper do.                  *)
EveryFetchReturns == InFetch ~> ~InFetch

(* No helper stays behind for ever: it ends by itself or by its signal, if its   *)
(* fetch was not disturbed by an older one.                                      *)
EveryHelperEnds ==
  \A h \in Fetches : Alive(h) ~> (~Alive(h) \/ h \in late)

(* HttpModule.h, line 40: unless it times out, the wait is woken up and goes on. *)
(* So a fetch that waits with the flag set has a signal coming.                  *)
AnswerWakesFetch ==
  fpc = "wait" /\ frame.flag # "NOTRETURN" => \E h \in Fetches : hpc[h] = "signal"
=============================================================================
