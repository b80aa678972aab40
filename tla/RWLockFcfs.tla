------------------------------- MODULE RWLockFcfs -------------------------------
(* The first-come-first-served readers-writer lock of util/rwlock_fcfs.  Threads *)
(* that cannot be let in at once wait in packs, all readers or all writers, in a *)
(* queue; whoever releases the lock lets in the pack at the head, or one writer  *)
(* of it.  Everything a call does while it holds rwlock->mutex is one step.      *)
(*                                                                               *)
(* The code does not repeat a condition wait that ends without a signal.  Here a *)
(* wait ends by its signal or by its time-out, never spuriously; what POSIX      *)
(* permits beyond that breaks the lock, and is not modelled.                     *)
(*                                                                               *)
(* A definition named ...Fault is no part of the specification: it is its        *)
(* original with one plausible bug.                                              *)
EXTENDS Integers, Sequences, FiniteSets

CONSTANTS Threads,    \* the threads that share the lock
          Destroyer,  \* the one that may call pthread_rwlock_fcfs_destroy
          MaxPacks    \* bound: nobody starts to wait behind this many packs

(* Packs that everybody has left stay in the queue until they are at its head,   *)
(* so that it has no bound of its own.                                           *)
ASSUME RWLockAssumption ==
  IsFiniteSet(Threads) /\ Destroyer \in Threads /\ MaxPacks \in Nat

VARIABLES queue,                \* the waiting packs, the oldest first
          num_readers,
          num_pending_readers,  \* readers let in that have not woken up yet
          status,               \* what the lock says of itself: unlocked, readers, writer
          is_destroyed,
          pc,                   \* where each thread is
          role,                 \* what it asked for last
          lostGrant,            \* TRUE once the lock was given to one that had timed out
          gone                  \* TRUE once freed memory is used: nothing is defined then

lock == <<queue, num_readers, num_pending_readers, status, is_destroyed>>
vars == <<lock, pc, role, lostGrant, gone>>

Init == /\ queue = <<>>
        /\ num_readers = 0 /\ num_pending_readers = 0
        /\ status = "unlocked"
        /\ is_destroyed = FALSE
        /\ pc = [t \in Threads |-> "idle"]
        /\ role = [t \in Threads |-> "reader"]
        /\ lostGrant = FALSE /\ gone = FALSE

(* A timed wait that has timed out is late until it has the mutex again.         *)
Waits == {"waiting", "timedWaiting", "late"}

Goto(t, from, to) == pc[t] = from /\ pc' = [pc EXCEPT ![t] = to]

(* destroy asks for the lock with is_destroyed set, where others are refused.    *)
Asks(t) == IF t = Destroyer /\ is_destroyed THEN pc[t] = "destroying"
           ELSE pc[t] = "idle" /\ ~is_destroyed

-----------------------------------------------------------------------------
(* Packs that everybody has left are removed from the head of the queue.         *)
DropJunk(q) ==
  LET junk == Cardinality({i \in 1 .. Len(q) : \A j \in 1 .. i : q[j].num_threads = 0})
  IN  SubSeq(q, junk + 1, Len(q))

NewPack(t, as) == [is_writer |-> as = "writer", num_threads |-> 1,
                   was_first_thr_accepted |-> FALSE, members |-> {t}]

JoinLast(q, t) == [q EXCEPT ![Len(q)].num_threads = @ + 1, ![Len(q)].members = @ \cup {t}]

(* A writer joins the last pack even when that has begun to be let in.           *)
WriterJoinsFault(q, t) ==
  IF q # <<>> /\ q[Len(q)].is_writer
  THEN JoinLast(q, t) ELSE Append(q, NewPack(t, "writer"))

WriterJoins(q, t) ==
  IF q # <<>> /\ q[Len(q)].is_writer /\ ~q[Len(q)].was_first_thr_accepted
  THEN JoinLast(q, t) ELSE Append(q, NewPack(t, "writer"))

(* A reader joins the last pack although writers wait in it.                     *)
ReaderJoinsFault(q, t) ==
  IF q # <<>> THEN JoinLast(q, t) ELSE Append(q, NewPack(t, "reader"))

ReaderJoins(q, t) ==
  IF q # <<>> /\ ~q[Len(q)].is_writer
  THEN JoinLast(q, t) ELSE Append(q, NewPack(t, "reader"))

Enter(t, as) == /\ pc' = [pc EXCEPT ![t] = "inside"]
                /\ role' = [role EXCEPT ![t] = as]

Wait(t, as) == /\ \E how \in IF t = Destroyer /\ is_destroyed THEN {"waiting"}
                             ELSE {"waiting", "timedWaiting"} :
                    pc' = [pc EXCEPT ![t] = how]
               /\ role' = [role EXCEPT ![t] = as]

(* gain_write_generic; try_gain_write differs only in that it does not wait.     *)
GainWrite(t) ==
  /\ Asks(t)
  /\ status = "unlocked"
  /\ status' = "writer"
  /\ Enter(t, "writer")
  /\ UNCHANGED <<queue, num_readers, num_pending_readers, is_destroyed, lostGrant, gone>>

WaitToWrite(t) ==
  /\ Asks(t)
  /\ status # "unlocked"
  /\ Len(queue) < MaxPacks
  /\ queue' = WriterJoins(queue, t)
  /\ Wait(t, "writer")
  /\ UNCHANGED <<num_readers, num_pending_readers, status, is_destroyed, lostGrant, gone>>

(* A reader is let in beside readers although others wait.                       *)
ReadersMayEnterFault == status # "writer"

(* gain_read_generic.  A reader that enters a free lock leaves status as it is.  *)
ReadersMayEnter == status # "writer" /\ DropJunk(queue) = <<>>

GainRead(t) ==
  /\ pc[t] = "idle" /\ ~is_destroyed
  /\ ReadersMayEnter
  /\ queue' = DropJunk(queue)
  /\ num_readers' = num_readers + 1
  /\ Enter(t, "reader")
  /\ UNCHANGED <<num_pending_readers, status, is_destroyed, lostGrant, gone>>

WaitToRead(t) ==
  /\ pc[t] = "idle" /\ ~is_destroyed
  /\ ~ReadersMayEnter
  /\ Len(queue) < MaxPacks
  /\ queue' = ReaderJoins(DropJunk(queue), t)
  /\ Wait(t, "reader")
  /\ UNCHANGED <<num_readers, num_pending_readers, status, is_destroyed, lostGrant, gone>>

(* A try that fails has still cleared the head of the queue.                     *)
TryReadInVain(t) ==
  /\ pc[t] = "idle" /\ ~is_destroyed
  /\ ~ReadersMayEnter
  /\ queue' = DropJunk(queue)
  /\ UNCHANGED <<num_readers, num_pending_readers, status, is_destroyed, pc, role,
                 lostGrant, gone>>

-----------------------------------------------------------------------------
(* The pack at the head is let in: signal wakes one of the writers that still    *)
(* wait on it, broadcast all the readers; a late one is not woken any more.      *)
(* "among" is where the threads are, the releaser being idle already.            *)
AcceptWriter(q, among) ==
  LET pack  == Head(q)
      awake == {m \in pack.members : among[m] # "late"}
      Left(woken) == [pack EXCEPT !.num_threads = @ - 1, !.was_first_thr_accepted = TRUE,
                                  !.members = @ \ woken]
  IN  \E woken \in IF awake = {} THEN {{}} ELSE {{m} : m \in awake} :
        /\ queue' = DropJunk(<<Left(woken)>> \o Tail(q))
        /\ pc' = [m \in Threads |-> IF m \in woken THEN "granted" ELSE among[m]]
        /\ status' = "writer"
        /\ lostGrant' = (lostGrant \/ woken = {})
        /\ UNCHANGED num_pending_readers

AcceptReaders(q, among) ==
  LET pack  == Head(q)
      awake == {m \in pack.members : among[m] # "late"}
  IN  /\ queue' = DropJunk(Tail(q))
      /\ pc' = [m \in Threads |-> IF m \in awake THEN "granted" ELSE among[m]]
      /\ status' = "readers"
      /\ num_pending_readers' = pack.num_threads
      /\ lostGrant' = (lostGrant \/ pack.num_threads # Cardinality(awake))

AcceptPendingItems(among) ==
  LET q == DropJunk(queue)
  IN  IF q = <<>> THEN /\ queue' = q /\ pc' = among
                       /\ status' = "unlocked"
                       /\ UNCHANGED <<num_pending_readers, lostGrant>>
      ELSE IF Head(q).is_writer THEN AcceptWriter(q, among)
      ELSE AcceptReaders(q, among)

(* Readers on their way in are forgotten.                                        *)
LastReaderLeavesFault == num_readers = 1

LastReaderLeaves == num_readers = 1 /\ num_pending_readers = 0

(* release: status decides whether a writer or a reader is leaving.              *)
Release(t) ==
  LET left == [pc EXCEPT ![t] = IF t = Destroyer /\ is_destroyed THEN "freeing" ELSE "idle"]
  IN  /\ pc[t] = "inside"
      /\ num_readers' = IF status = "writer" THEN num_readers ELSE num_readers - 1
      /\ IF status = "writer" \/ LastReaderLeaves \/ (status = "unlocked")
         THEN AcceptPendingItems(left)
         ELSE /\ pc' = left
              /\ UNCHANGED <<queue, status, num_pending_readers, lostGrant>>
      /\ UNCHANGED <<is_destroyed, role, gone>>

(* The thread that was let in has the mutex again and returns 0.                 *)
Wake(t) ==
  /\ Goto(t, "granted", "inside")
  /\ IF role[t] = "reader" THEN /\ num_pending_readers' = num_pending_readers - 1
                                /\ num_readers' = num_readers + 1
     ELSE UNCHANGED <<num_pending_readers, num_readers>>
  /\ UNCHANGED <<queue, status, is_destroyed, role, lostGrant, gone>>

(* The time is up: from now on no signal reaches the thread.                     *)
TimeOut(t) ==
  /\ Goto(t, "timedWaiting", "late")
  /\ UNCHANGED <<lock, role, lostGrant, gone>>

InQueue(t) == \E i \in 1 .. Len(queue) : t \in queue[i].members

(* The thread that gives up stays in the count of its pack.                      *)
LeavePackFault(t) ==
  queue' = [i \in 1 .. Len(queue) |->
              IF t \in queue[i].members
              THEN [queue[i] EXCEPT !.members = @ \ {t}]
              ELSE queue[i]]

LeavePack(t) ==
  queue' = [i \in 1 .. Len(queue) |->
              IF t \in queue[i].members
              THEN [queue[i] EXCEPT !.num_threads = @ - 1, !.members = @ \ {t}]
              ELSE queue[i]]

(* With the mutex again, continue_callback says whether to wait on or to give    *)
(* up.  Either way the thread uses its pack, which may have been freed.          *)
WaitOn(t) ==
  /\ InQueue(t)
  /\ Goto(t, "late", "timedWaiting")
  /\ UNCHANGED <<lock, role, lostGrant, gone>>

GiveUp(t) ==
  /\ InQueue(t)
  /\ Goto(t, "late", "idle")
  /\ LeavePack(t)
  /\ UNCHANGED <<num_readers, num_pending_readers, status, is_destroyed, role, lostGrant, gone>>

UseFreedPack(t) ==
  /\ ~InQueue(t)
  /\ pc[t] = "late"
  /\ gone' = TRUE
  /\ UNCHANGED <<lock, pc, role, lostGrant>>

-----------------------------------------------------------------------------
(* destroy: is_destroyed is set without the mutex, the lock gained for writing   *)
(* and released as above, then freed.                                            *)
Destroy(t) ==
  /\ t = Destroyer /\ ~is_destroyed
  /\ Goto(t, "idle", "destroying")
  /\ is_destroyed' = TRUE
  /\ UNCHANGED <<queue, num_readers, num_pending_readers, status, role, lostGrant, gone>>

Free(t) ==
  /\ Goto(t, "freeing", "idle")
  /\ gone' = TRUE
  /\ UNCHANGED <<lock, role, lostGrant>>

Late(t) == WaitOn(t) \/ GiveUp(t) \/ UseFreedPack(t)

Inside(t) == Wake(t) \/ Release(t) \/ Free(t)

Gain(t) == \/ GainWrite(t) \/ WaitToWrite(t)
           \/ GainRead(t) \/ WaitToRead(t) \/ TryReadInVain(t)

Next == ~gone /\ \E t \in Threads : Gain(t) \/ TimeOut(t) \/ Late(t) \/ Inside(t) \/ Destroy(t)

(* A thread the system has woken goes on, and who holds the lock releases it.    *)
Fairness == \A t \in Threads : WF_vars(~gone /\ Inside(t)) /\ WF_vars(~gone /\ Late(t))

Spec == Init /\ [][Next]_vars /\ Fairness
-----------------------------------------------------------------------------
TypeOK ==
  /\ queue \in Seq([is_writer : BOOLEAN, num_threads : Int,
                    was_first_thr_accepted : BOOLEAN, members : SUBSET Threads])
  /\ num_readers \in Int /\ num_pending_readers \in Int
  /\ status \in {"unlocked", "readers", "writer"}
  /\ is_destroyed \in BOOLEAN /\ lostGrant \in BOOLEAN /\ gone \in BOOLEAN
  /\ pc \in [Threads -> Waits \cup {"idle", "granted", "inside", "destroying", "freeing"}]
  /\ role \in [Threads -> {"reader", "writer"}]

LetIn         == {t \in Threads : pc[t] \in {"granted", "inside"}}
ReadersToWake == {t \in Threads : pc[t] = "granted" /\ role[t] = "reader"}
Waiting       == {t \in Threads : pc[t] \in Waits}

(* Even where a reader and a writer are let in together, the counters and the    *)
(* status stand for exactly the threads that are in or on their way in, each     *)
(* pack counts the threads that wait in it, and nobody waits for a lock that is  *)
(* free. So the assertion in release never fails, whichever of its branches a    *)
(* thread takes. This is so until the lock is granted to a thread that has       *)
(* timed out: of the counters after that it says nothing, and they are off.      *)
CountsAreHolders ==
  ~lostGrant =>
    /\ num_readers + num_pending_readers + (IF status = "writer" THEN 1 ELSE 0)
         = Cardinality(LetIn)
    /\ num_pending_readers = Cardinality(ReadersToWake)
    /\ num_pending_readers > 0 => status = "readers"
    /\ status = "readers" => num_readers + num_pending_readers > 0
    /\ \A i \in 1 .. Len(queue) : queue[i].num_threads = Cardinality(queue[i].members)
    /\ Waiting = UNION {queue[i].members : i \in 1 .. Len(queue)}
    /\ Waiting # {} => status # "unlocked"

(* What makes it inductive: a thread waits in one pack, of the kind it asked for. *)
PacksOfOneRole ==
  \A i \in 1 .. Len(queue) : \A t \in queue[i].members :
    role[t] = IF queue[i].is_writer THEN "writer" ELSE "reader"

PacksApart ==
  \A i, j \in 1 .. Len(queue) : i # j => queue[i].members \cap queue[j].members = {}

(* The inductive invariant: right counters, until a grant is lost.               *)
IInv == /\ TypeOK
        /\ CountsAreHolders
        /\ ~lostGrant => PacksOfOneRole /\ PacksApart

(* First come, first served: while a thread waits, no other is let in without    *)
(* waiting behind it, however the readers of the lock come and go.               *)
NobodyOvertakes ==
  [][Waiting # {} /\ ~lostGrant =>
       ~\E t \in Threads : pc[t] \in {"idle", "destroying"} /\ pc'[t] = "inside"]_vars

(* A thread that waits is let in, or gives up after its time-out: neither        *)
(* readers nor writers starve, unless a grant is lost or the lock is freed.      *)
EveryWaiterGetsIn ==
  \A t \in Threads : pc[t] \in Waits ~> (pc[t] \notin Waits \/ lostGrant \/ gone)

(* destroy frees the lock only after every reader that waited for it has been    *)
(* let in and has woken up.  (Not so writers that share the destroyer's pack, or *)
(* a reader it was let in beside, which StatusTellsWhoReleases is about.)        *)
DestroyOutwaitsReaders ==
  gone /\ ~lostGrant => \A t \in Waiting \cup LetIn : role[t] = "writer" \/ pc[t] = "inside"

(* What makes it inductive: the destroyer waits in the last pack, where nobody    *)
(* joins any more, so that only writers are left when its turn has come.         *)
OnlyWritersAway ==
  \A t \in Threads : pc[t] \in Waits \cup {"granted"} => role[t] = "writer"

DestroyInv ==
  ~lostGrant =>
    /\ \A t \in Threads : pc[t] = "freeing" => t = Destroyer /\ is_destroyed
    /\ gone => is_destroyed
    /\ is_destroyed =>
         \/ pc[Destroyer] = "destroying" /\ ~gone
         \/ /\ pc[Destroyer] = "waiting" /\ role[Destroyer] = "writer" /\ ~gone
            /\ queue # <<>> /\ Destroyer \in queue[Len(queue)].members
         \/ (pc[Destroyer] \in {"granted", "inside", "freeing"} \/ gone) /\ OnlyWritersAway

(* rwlock.c, lines 373 to 376: the state of the lock tells whether the thread    *)
(* that releases it is a reader or a writer.  It can only if readers and a       *)
(* writer are never in together.                                                 *)
StatusTellsWhoReleases ==
  \A t \in Threads : pc[t] = "inside" => (role[t] = "writer" <=> status = "writer")
=============================================================================
