------------------------------- MODULE URLFrontier -------------------------------
(* One URLFrontier: the in-memory queue of at most MAX_URL URLs, the spill file  *)
(* behind it, and the two mutexes qlock and flock.  One worker, Owner, takes     *)
(* URLs out of it (available, then readURL); every worker, Owner included, adds  *)
(* URLs to it.  addURL, readURL and available read url_queue without a lock: a   *)
(* read that overlaps a critical section on the queue is a data race and returns *)
(* anything.                                                                     *)
(*                                                                               *)
(* A URL is the number of the push that stored it (the contents of a page_link   *)
(* are never looked at here), so the numbers in the queue, in the file and       *)
(* already delivered tell which URL is where.                                    *)
(*                                                                               *)
(* A definition named ...Fault is no part of the specification: it is its        *)
(* original with one plausible bug, which the properties must notice when it     *)
(* takes the original's place.                                                   *)
EXTENDS Naturals, Sequences

CONSTANTS Threads,         \* the worker threads
          Owner,           \* the worker whose tid is this frontier's
          None,            \* the value of a free mutex
          MAX_URL,         \* queue length at which addURL spills
          NUM_URL2FILE,    \* URLs moved to the file by one spill
          NUM_URL2MEMERY,  \* URLs read back by one refill
          MaxAdds          \* bound: no call of addURL starts after this many pushes

(* global.cpp has 1000, 900 and 100.  A spill leaves at least one URL in the     *)
(* queue, and the file is written in multiples of what a refill reads.           *)
ASSUME FrontierAssumption ==
  /\ Owner \in Threads
  /\ None \notin Threads
  /\ MAX_URL \in Nat /\ NUM_URL2FILE \in Nat /\ NUM_URL2MEMERY \in Nat \ {0}
  /\ NUM_URL2FILE < MAX_URL
  /\ \E k \in 0 .. NUM_URL2FILE : NUM_URL2FILE = k * NUM_URL2MEMERY
  /\ MaxAdds \in Nat

VARIABLES url_queue,  \* the queue, front first
          file,       \* the records written to the spill file
          cur,        \* records of the file already read back
          end,        \* records written, as the code counts them
          fileInOk,   \* FALSE once file_in carries failbit: nothing clears it
          qlock,      \* holder of the queue mutex, or None
          flock,      \* holder of the file mutex, or None
          pc,         \* where each thread is
          pushed,     \* URLs pushed so far: the name of the last one
          delivered   \* URLs returned by readURL

vars == <<url_queue, file, cur, end, fileInOk, qlock, flock, pc, pushed, delivered>>

(* A critical section holds its mutexes while pc is at one of these points.      *)
QueueHeld == {"spill", "push", "pop", "refill", "popRefilled"}
FileHeld  == {"spillQlock", "spill", "refillQlock", "refill"}

AdderPoints  == {"idle", "spillFlock", "spillQlock", "spill", "pushQlock", "push"}
ReaderPoints == {"availFile", "availDrained", "read", "popQlock", "pop", "refillFlock",
                 "refillQlock", "refill", "popRefilledQlock", "popRefilled"}

-----------------------------------------------------------------------------
Init == /\ url_queue = <<>> /\ file = <<>>
        /\ cur = 0 /\ end = 0
        /\ fileInOk = TRUE
        /\ qlock = None /\ flock = None
        /\ pc = [t \in Threads |-> "idle"]
        /\ pushed = 0
        /\ delivered = {}

Goto(t, from, to) == pc[t] = from /\ pc' = [pc EXCEPT ![t] = to]

Lock(m, t) == m = None /\ m' = t
Unlock(m)  == m' = None

(* What an unlocked size() or empty() on the deque may return: the truth, or     *)
(* anything while another thread is inside a critical section on the queue.      *)
RacyRead(b) == IF qlock = None THEN {b} ELSE BOOLEAN

-----------------------------------------------------------------------------
(* addURL, by any thread.  The size is tested before any lock is taken.          *)
AddURL(t) ==
  /\ pushed < MaxAdds
  /\ \E full \in RacyRead(Len(url_queue) >= MAX_URL) :
       Goto(t, "idle", IF full THEN "spillFlock" ELSE "pushQlock")
  /\ UNCHANGED <<url_queue, file, cur, end, fileInOk, qlock, flock, pushed, delivered>>

(* write2file takes flock, then qlock.                                           *)
SpillFlock(t) ==
  /\ Goto(t, "spillFlock", "spillQlock")
  /\ Lock(flock, t)
  /\ UNCHANGED <<url_queue, file, cur, end, fileInOk, qlock, pushed, delivered>>

SpillQlock(t) ==
  /\ Goto(t, "spillQlock", "spill")
  /\ Lock(qlock, t)
  /\ UNCHANGED <<url_queue, file, cur, end, fileInOk, flock, pushed, delivered>>

(* The whole queue is spilled.                                                   *)
MoveToFileFault ==
  IF Len(url_queue) >= MAX_URL
  THEN /\ file' = file \o url_queue
       /\ end' = end + Len(url_queue)
       /\ url_queue' = <<>>
  ELSE UNCHANGED <<file, end, url_queue>>

(* The first URL is dropped from the queue without being written.                *)
MoveToFileShortFault ==
  IF Len(url_queue) >= MAX_URL
  THEN /\ file' = file \o SubSeq(url_queue, 2, NUM_URL2FILE)
       /\ end' = end + NUM_URL2FILE - 1
       /\ url_queue' = SubSeq(url_queue, NUM_URL2FILE + 1, Len(url_queue))
  ELSE UNCHANGED <<file, end, url_queue>>

(* Under both locks the size is tested again: another adder may have spilled.    *)
MoveToFile ==
  IF Len(url_queue) >= MAX_URL
  THEN /\ file' = file \o SubSeq(url_queue, 1, NUM_URL2FILE)
       /\ end' = end + NUM_URL2FILE
       /\ url_queue' = SubSeq(url_queue, NUM_URL2FILE + 1, Len(url_queue))
  ELSE UNCHANGED <<file, end, url_queue>>

Spill(t) ==
  /\ Goto(t, "spill", "pushQlock")
  /\ MoveToFile
  /\ Unlock(qlock) /\ Unlock(flock)
  /\ UNCHANGED <<cur, fileInOk, pushed, delivered>>

(* The queue is pushed to without waiting for its mutex.                         *)
PushQlockFault(t) ==
  /\ Goto(t, "pushQlock", "push")
  /\ qlock' = t
  /\ UNCHANGED <<url_queue, file, cur, end, fileInOk, flock, pushed, delivered>>

PushQlock(t) ==
  /\ Goto(t, "pushQlock", "push")
  /\ Lock(qlock, t)
  /\ UNCHANGED <<url_queue, file, cur, end, fileInOk, flock, pushed, delivered>>

Push(t) ==
  /\ Goto(t, "push", "idle")
  /\ pushed' = pushed + 1
  /\ url_queue' = Append(url_queue, pushed + 1)
  /\ Unlock(qlock)
  /\ UNCHANGED <<file, cur, end, fileInOk, flock, delivered>>

-----------------------------------------------------------------------------
(* available, by Owner at the head of the worker loop: no lock at all, and the   *)
(* file counters are read anew for each comparison.                              *)
Available(t) ==
  /\ t = Owner
  /\ \E empty \in RacyRead(url_queue = <<>>) :
       Goto(t, "idle", IF empty THEN "availFile" ELSE "read")
  /\ UNCHANGED <<url_queue, file, cur, end, fileInOk, qlock, flock, pushed, delivered>>

(* What is in the file is never asked for.                                       *)
AvailableInFileFault(t) ==
  /\ Goto(t, "availFile", "idle")
  /\ UNCHANGED <<url_queue, file, cur, end, fileInOk, qlock, flock, pushed, delivered>>

AvailableInFile(t) ==
  /\ Goto(t, "availFile", IF end > cur THEN "read" ELSE "availDrained")
  /\ UNCHANGED <<url_queue, file, cur, end, fileInOk, qlock, flock, pushed, delivered>>

(* A spill between the two comparisons lets control run off the end of the       *)
(* function: the caller then sees either value.                                  *)
AvailableDrained(t) ==
  /\ \E result \in IF end = cur THEN {FALSE} ELSE BOOLEAN :
       Goto(t, "availDrained", IF result THEN "read" ELSE "idle")
  /\ UNCHANGED <<url_queue, file, cur, end, fileInOk, qlock, flock, pushed, delivered>>

(* readURL.  The branch is chosen by an unlocked empty().                        *)
ReadURL(t) ==
  /\ \E empty \in RacyRead(url_queue = <<>>) :
       Goto(t, "read", IF empty THEN "refillFlock" ELSE "popQlock")
  /\ UNCHANGED <<url_queue, file, cur, end, fileInOk, qlock, flock, pushed, delivered>>

PopQlock(t) ==
  /\ Goto(t, "popQlock", "pop")
  /\ Lock(qlock, t)
  /\ UNCHANGED <<url_queue, file, cur, end, fileInOk, flock, pushed, delivered>>

(* The URL read is left in the queue.                                            *)
DeliverFrontFault == /\ delivered' = delivered \cup {Head(url_queue)}
                     /\ url_queue' = url_queue

DeliverFront == /\ delivered' = delivered \cup {Head(url_queue)}
                /\ url_queue' = Tail(url_queue)

(* The queue is tested again under qlock; an empty one makes readURL return      *)
(* false.                                                                        *)
Pop(t) ==
  /\ Goto(t, "pop", "idle")
  /\ IF url_queue # <<>> THEN DeliverFront ELSE UNCHANGED <<url_queue, delivered>>
  /\ Unlock(qlock)
  /\ UNCHANGED <<file, cur, end, fileInOk, flock, pushed>>

(* getFromFile: a fully read file makes readURL return false.                    *)
RefillFlock(t) ==
  /\ pc[t] = "refillFlock" /\ flock = None
  /\ IF end = cur
     THEN Goto(t, "refillFlock", "idle") /\ UNCHANGED flock
     ELSE Goto(t, "refillFlock", "refillQlock") /\ Lock(flock, t)
  /\ UNCHANGED <<url_queue, file, cur, end, fileInOk, qlock, pushed, delivered>>

RefillQlock(t) ==
  /\ Goto(t, "refillQlock", "refill")
  /\ Lock(qlock, t)
  /\ UNCHANGED <<url_queue, file, cur, end, fileInOk, flock, pushed, delivered>>

(* Up to NUM_URL2MEMERY records are read from record cur on.  A record that is   *)
(* not there sets failbit, and from then on seekg and read do nothing.           *)
Unread == Len(file) - cur

ReadBack ==
  LET n == IF ~fileInOk THEN 0
           ELSE IF Unread < NUM_URL2MEMERY THEN Unread ELSE NUM_URL2MEMERY
  IN  /\ url_queue' = url_queue \o SubSeq(file, cur + 1, cur + n)
      /\ cur' = cur + n
      /\ fileInOk' = (n = NUM_URL2MEMERY)

(* readURL goes on to pop only if something was read.                            *)
Refill(t) ==
  /\ pc[t] = "refill"
  /\ IF url_queue = <<>> THEN ReadBack ELSE UNCHANGED <<url_queue, cur, fileInOk>>
  /\ Goto(t, "refill", IF cur' > cur THEN "popRefilledQlock" ELSE "idle")
  /\ Unlock(qlock) /\ Unlock(flock)
  /\ UNCHANGED <<file, end, pushed, delivered>>

PopRefilledQlock(t) ==
  /\ Goto(t, "popRefilledQlock", "popRefilled")
  /\ Lock(qlock, t)
  /\ UNCHANGED <<url_queue, file, cur, end, fileInOk, flock, pushed, delivered>>

(* The lock was dropped after the refill and the queue is not tested again:      *)
(* front() of an empty queue is undefined, and RefilledPopSafe says it is never  *)
(* reached.                                                                      *)
PopRefilled(t) ==
  /\ Goto(t, "popRefilled", "idle")
  /\ url_queue # <<>>
  /\ DeliverFront
  /\ Unlock(qlock)
  /\ UNCHANGED <<file, cur, end, fileInOk, flock, pushed>>

-----------------------------------------------------------------------------
Adding(t) == \/ SpillFlock(t) \/ SpillQlock(t) \/ Spill(t)
             \/ PushQlock(t) \/ Push(t)

Reading(t) == \/ AvailableInFile(t) \/ AvailableDrained(t) \/ ReadURL(t)
              \/ PopQlock(t) \/ Pop(t)
              \/ RefillFlock(t) \/ RefillQlock(t) \/ Refill(t)
              \/ PopRefilledQlock(t) \/ PopRefilled(t)

Next == \E t \in Threads : AddURL(t) \/ Available(t) \/ Adding(t) \/ Reading(t)

Spec == Init /\ [][Next]_vars

(* A thread inside a call goes on, and the worker loop calls available again and *)
(* again; nothing makes a thread call addURL.                                    *)
Fairness == /\ \A t \in Threads : WF_vars(Adding(t)) /\ WF_vars(Reading(t))
            /\ WF_vars(Available(Owner))

FairSpec == Spec /\ Fairness

-----------------------------------------------------------------------------
TypeOK ==
  /\ url_queue \in Seq(Nat) /\ file \in Seq(Nat)
  /\ cur \in Nat /\ end \in Nat
  /\ fileInOk \in BOOLEAN
  /\ qlock \in Threads \cup {None} /\ flock \in Threads \cup {None}
  /\ pc \in [Threads -> AdderPoints \cup ReaderPoints]
  /\ pushed \in Nat
  /\ delivered \subseteq Nat

QueueSlots  == 1 .. Len(url_queue)
UnreadSlots == cur + 1 .. end
Queued      == {url_queue[i] : i \in QueueSlots}
Spilled     == {file[i] : i \in UnreadSlots}

(* At most one thread is inside a critical section on the queue, and at most one *)
(* inside one on the file, although write2file and getFromFile nest the two.     *)
(* This is what makes each section one step here.                                *)
CriticalSections ==
  \A t, u \in Threads : t # u => /\ ~(pc[t] \in QueueHeld /\ pc[u] \in QueueHeld)
                                /\ ~(pc[t] \in FileHeld /\ pc[u] \in FileHeld)

(* readURL pops after a refill without testing the queue again.  Between the two *)
(* critical sections other threads may push and spill, yet the queue they leave  *)
(* is never empty: front() is always defined.                                    *)
RefilledPopSafe ==
  pc[Owner] \in {"popRefilledQlock", "popRefilled"} => url_queue # <<>>

(* What is left of the file to read is a whole number of refills, and never      *)
(* negative, so available() never calls exit.                                    *)
SpillWhole == /\ end = Len(file) /\ cur <= end
              /\ \E k \in 0 .. end : end - cur = k * NUM_URL2MEMERY

(* file_in never hits the end of the file inside a refill.  If it did once, its  *)
(* failbit would stay set and every URL in the file would be lost to the crawl   *)
(* while available() went on answering true.                                     *)
SpillFileReadable == fileInOk

(* Whatever threads add, spill, refill and read at the same time, each URL       *)
(* pushed is in exactly one place: one slot of the queue, one unread record of   *)
(* the file, or delivered.  None is lost, none will be delivered twice.          *)
EachURLOnce ==
  /\ \A i, j \in QueueSlots : url_queue[i] = url_queue[j] => i = j
  /\ \A i, j \in UnreadSlots : file[i] = file[j] => i = j
  /\ Queued \cap Spilled = {}
  /\ (Queued \cup Spilled) \cap delivered = {}
  /\ Queued \cup Spilled \cup delivered = 1 .. pushed

(* The inductive invariant behind them: who holds the locks, that only the owner *)
(* reads, and that a refill that has passed its test still finds records.        *)
LocksHeld ==
  \A t \in Threads : /\ (qlock = t) <=> (pc[t] \in QueueHeld)
                     /\ (flock = t) <=> (pc[t] \in FileHeld)

OnlyOwnerReads == \A t \in Threads : pc[t] \in ReaderPoints => t = Owner

RefillHasRecords == pc[Owner] \in {"refillQlock", "refill"} => cur < end

IInv == /\ TypeOK /\ LocksHeld /\ OnlyOwnerReads
        /\ SpillWhole /\ SpillFileReadable
        /\ RefillHasRecords /\ RefilledPopSafe

(* The frontier implements the pool: a push adds one URL, a pop takes one, and   *)
(* spills and refills change nothing the crawler can see.                        *)
Pool == INSTANCE FrontierPool WITH added   <- pushed,
                                   pending <- Queued \cup Spilled,
                                   taken   <- delivered

ImplementsPool == Pool!Spec

(* Once the adders stop, the owner reads everything there is, spilled URLs       *)
(* included.                                                                     *)
EveryURLDelivered == \A u \in 1 .. MaxAdds : (pushed >= u) ~> (u \in delivered)

(* With the single worker the program ships with, nobody adds between the size   *)
(* test of addURL and its push: the queue never exceeds MAX_URL.  With several,  *)
(* a test that races with a push may answer anything, and there is no bound.     *)
QueueBounded == Len(url_queue) <= MAX_URL
=============================================================================
