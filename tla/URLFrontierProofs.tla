---------------------------- MODULE URLFrontierProofs ----------------------------
(* Proofs that the safety properties of URLFrontier hold for every number of     *)
(* threads and every MAX_URL, NUM_URL2FILE and NUM_URL2MEMERY that satisfy       *)
(* FrontierAssumption.                                                           *)
EXTENDS URLFrontier, SequenceTheorems, TLAPS

(* The constants' types, without the multiplication that FrontierAssumption has. *)
LEMMA ConstantTypes ==
  /\ Owner \in Threads /\ None \notin Threads
  /\ MAX_URL \in Nat /\ NUM_URL2FILE \in Nat /\ NUM_URL2MEMERY \in Nat \ {0}
  /\ NUM_URL2FILE < MAX_URL
  /\ MaxAdds \in Nat
BY FrontierAssumption

USE ConstantTypes

-----------------------------------------------------------------------------
(* Adding whole refills to whole refills, or taking one away, leaves whole       *)
(* refills; and a number of refills above zero is at least one.                  *)
LEMMA Multiples ==
  ASSUME NEW m \in Nat \ {0}, NEW j \in Nat, NEW k \in Nat
  PROVE  /\ j * m + k * m = (j + k) * m
         /\ k > 0 => k - 1 \in Nat /\ k * m - m = (k - 1) * m /\ k * m >= m
         /\ k <= k * m
         /\ k * m \in Nat
  <1>1. k * m \in Nat /\ j * m \in Nat
    OBVIOUS
  <1>2. j * m + k * m = (j + k) * m
    OBVIOUS
  <1>3. ASSUME k > 0 PROVE k - 1 \in Nat /\ k * m - m = (k - 1) * m /\ k * m >= m
    <2>1. k - 1 \in Nat /\ k * m = (k - 1) * m + m /\ (k - 1) * m \in Nat
      BY <1>3
    <2>2. QED
      BY <2>1, <1>1
  <1>4. k <= k * m
    OBVIOUS
  <1>5. QED
    BY <1>1, <1>2, <1>3, <1>4
-----------------------------------------------------------------------------
(* What the two bulk moves do to the queue and the file, as sequences.           *)
LEMMA MoveToFileEffect ==
  ASSUME TypeOK, Len(url_queue) >= MAX_URL, MoveToFile
  PROVE  /\ url_queue' \in Seq(Nat) /\ file' \in Seq(Nat)
         /\ end' = end + NUM_URL2FILE
         /\ Len(file') = Len(file) + NUM_URL2FILE
         /\ Len(url_queue') = Len(url_queue) - NUM_URL2FILE
         /\ \A i \in 1 .. Len(file) : file'[i] = file[i]
         /\ \A i \in 1 .. NUM_URL2FILE : file'[Len(file) + i] = url_queue[i]
         /\ \A i \in 1 .. Len(url_queue') : url_queue'[i] = url_queue[NUM_URL2FILE + i]
  <1> DEFINE front == SubSeq(url_queue, 1, NUM_URL2FILE)
  <1>1. /\ url_queue \in Seq(Nat) /\ file \in Seq(Nat)
        /\ Len(url_queue) \in Nat /\ Len(file) \in Nat
        /\ \A i \in 1 .. Len(url_queue) : url_queue[i] \in Nat
    BY ElementOfSeq, LenProperties DEF TypeOK
  <1>2. /\ front \in Seq(Nat) /\ Len(front) = NUM_URL2FILE
        /\ \A i \in 1 .. NUM_URL2FILE : front[i] = url_queue[i]
    <2>1. \A i \in 1 .. NUM_URL2FILE : url_queue[i] \in Nat
      BY <1>1
    <2>2. /\ front \in Seq(Nat)
          /\ Len(front) = IF 1 <= NUM_URL2FILE THEN NUM_URL2FILE - 1 + 1 ELSE 0
          /\ \A i \in 1 .. NUM_URL2FILE - 1 + 1 : front[i] = url_queue[1 + i - 1]
      BY <2>1, SubSeqProperties
    <2>3. QED
      BY <2>2
  <1>3. /\ url_queue' \in Seq(Nat)
        /\ Len(url_queue') = Len(url_queue) - NUM_URL2FILE
        /\ \A i \in 1 .. Len(url_queue') : url_queue'[i] = url_queue[NUM_URL2FILE + i]
    <2> DEFINE m == NUM_URL2FILE + 1
               n == Len(url_queue)
    <2>1. m \in Int /\ n \in Int /\ m <= n /\ \A i \in m .. n : url_queue[i] \in Nat
      BY <1>1
    <2>2. url_queue' = SubSeq(url_queue, m, n)
      BY DEF MoveToFile
    <2>3. /\ url_queue' \in Seq(Nat) /\ Len(url_queue') = n - m + 1
          /\ \A i \in 1 .. n - m + 1 : url_queue'[i] = url_queue[m + i - 1]
      BY <2>1, <2>2, SubSeqProperties
    <2>4. n - m + 1 = n - NUM_URL2FILE /\ NUM_URL2FILE \in Nat
      BY <2>1
    <2>5. \A i \in 1 .. n - NUM_URL2FILE : m + i - 1 = NUM_URL2FILE + i
      BY <2>1
    <2> HIDE DEF m
    <2>6. QED
      BY <2>3, <2>4, <2>5
  <1>4. /\ file' \in Seq(Nat) /\ Len(file') = Len(file) + NUM_URL2FILE
        /\ \A i \in 1 .. Len(file) : file'[i] = file[i]
        /\ \A i \in 1 .. NUM_URL2FILE : file'[Len(file) + i] = url_queue[i]
    <2>1. file' = file \o front
      BY DEF MoveToFile
    <2> HIDE DEF front
    <2>2. /\ file' \in Seq(Nat) /\ Len(file') = Len(file) + NUM_URL2FILE
          /\ \A i \in 1 .. Len(file) + NUM_URL2FILE :
               file'[i] = IF i <= Len(file) THEN file[i] ELSE front[i - Len(file)]
      <3>1. /\ file \o front \in Seq(Nat) /\ Len(file \o front) = Len(file) + Len(front)
            /\ \A i \in 1 .. Len(file) + Len(front) :
                 (file \o front)[i] = IF i <= Len(file) THEN file[i] ELSE front[i - Len(file)]
        BY <1>1, <1>2, ConcatProperties
      <3>2. QED
        BY <2>1, <1>2, <3>1
    <2>3. ASSUME NEW i \in 1 .. Len(file) PROVE file'[i] = file[i]
      <3>1. i \in 1 .. Len(file) + NUM_URL2FILE /\ i <= Len(file)
        BY <1>1
      <3>2. QED
        BY <3>1, <2>2
    <2>4. ASSUME NEW i \in 1 .. NUM_URL2FILE PROVE file'[Len(file) + i] = url_queue[i]
      <3> DEFINE j == Len(file) + i
      <3>1. j \in 1 .. Len(file) + NUM_URL2FILE /\ ~(j <= Len(file)) /\ j - Len(file) = i
        BY <1>1
      <3>2. QED
        BY <3>1, <2>2, <1>2
    <2>5. QED
      BY <2>2, <2>3, <2>4
  <1>5. QED
    <2> HIDE DEF front
    <2>1. end' = end + NUM_URL2FILE
      BY DEF MoveToFile
    <2>2. QED
      BY <1>3, <1>4, <2>1

(* A refill of the empty queue finds its records and fills it with URLs.         *)
LEMMA ReadBackEffect ==
  ASSUME TypeOK, SpillWhole, SpillFileReadable, cur < end, url_queue = <<>>, ReadBack
  PROVE  /\ url_queue' \in Seq(Nat)
         /\ Len(url_queue') = NUM_URL2MEMERY
         /\ cur' = cur + NUM_URL2MEMERY /\ cur' <= end
         /\ end - cur >= NUM_URL2MEMERY
         /\ fileInOk' = TRUE
         /\ \A i \in 1 .. NUM_URL2MEMERY : url_queue'[i] = file[cur + i]
  <1> DEFINE back == SubSeq(file, cur + 1, cur + NUM_URL2MEMERY)
  <1>1. /\ file \in Seq(Nat) /\ Len(file) = end /\ end \in Nat /\ cur \in Nat
        /\ \A i \in 1 .. Len(file) : file[i] \in Nat
    BY ElementOfSeq, LenProperties DEF TypeOK, SpillWhole
  <1>2. end - cur >= NUM_URL2MEMERY
    <2>1. PICK k \in 0 .. end : end - cur = k * NUM_URL2MEMERY
      BY DEF SpillWhole
    <2>2. k # 0
      BY <2>1, <1>1
    <2>3. QED
      BY <2>1, <2>2, <1>1, Multiples
  <1>3. /\ cur' = cur + NUM_URL2MEMERY /\ fileInOk' = TRUE
        /\ url_queue' = <<>> \o back
    <2>1. ~(Unread < NUM_URL2MEMERY) /\ ~(~fileInOk)
      BY <1>1, <1>2 DEF Unread, SpillFileReadable
    <2>2. /\ url_queue' = url_queue \o SubSeq(file, cur + 1, cur + NUM_URL2MEMERY)
          /\ cur' = cur + NUM_URL2MEMERY
          /\ fileInOk' = (NUM_URL2MEMERY = NUM_URL2MEMERY)
      BY <2>1, Zenon DEF ReadBack
    <2>3. QED
      BY <2>2
  <1>4. /\ back \in Seq(Nat) /\ Len(back) = NUM_URL2MEMERY
        /\ \A i \in 1 .. NUM_URL2MEMERY : back[i] = file[cur + i]
    <2> DEFINE m == cur + 1
               n == cur + NUM_URL2MEMERY
    <2>1. m \in Int /\ n \in Int /\ m <= n /\ \A i \in m .. n : file[i] \in Nat
      BY <1>1, <1>2
    <2>2. /\ back \in Seq(Nat) /\ Len(back) = n - m + 1
          /\ \A i \in 1 .. n - m + 1 : back[i] = file[m + i - 1]
      BY <2>1, SubSeqProperties
    <2>3. QED
      BY <2>2, <1>1
  <1>5. url_queue' = back
    BY <1>3, <1>4, ConcatEmptySeq
  <1>6. QED
    <2> HIDE DEF back
    <2>1. QED
      BY <1>1, <1>2, <1>3, <1>4, <1>5

-----------------------------------------------------------------------------
(* Control: who is where and who holds which lock.  The owner alone enters the   *)
(* reader's points, and each lock is held exactly inside its sections.           *)
ControlOK == /\ pc \in [Threads -> AdderPoints \cup ReaderPoints]
             /\ qlock \in Threads \cup {None} /\ flock \in Threads \cup {None}
             /\ LocksHeld /\ OnlyOwnerReads

(* Every step of a worker keeps that.                                            *)
LEMMA ControlStep ==
  ASSUME ControlOK, NEW t \in Threads,
         AddURL(t) \/ Available(t) \/ Adding(t) \/ Reading(t)
  PROVE  ControlOK'
  <1> USE DEF ControlOK, LocksHeld, OnlyOwnerReads, Goto, Lock, Unlock,
              QueueHeld, FileHeld, AdderPoints, ReaderPoints
  <1>1. CASE AddURL(t)
    BY <1>1 DEF AddURL
  <1>2. CASE Available(t)
    BY <1>2 DEF Available
  <1>3. CASE SpillFlock(t)
    BY <1>3 DEF SpillFlock
  <1>4. CASE SpillQlock(t)
    BY <1>4 DEF SpillQlock
  <1>5. CASE Spill(t)
    BY <1>5 DEF Spill
  <1>6. CASE PushQlock(t)
    BY <1>6 DEF PushQlock
  <1>7. CASE Push(t)
    BY <1>7 DEF Push
  <1>8. CASE AvailableInFile(t)
    BY <1>8 DEF AvailableInFile
  <1>9. CASE AvailableDrained(t)
    BY <1>9 DEF AvailableDrained
  <1>10. CASE ReadURL(t)
    BY <1>10 DEF ReadURL
  <1>11. CASE PopQlock(t)
    BY <1>11 DEF PopQlock
  <1>12. CASE Pop(t)
    BY <1>12 DEF Pop
  <1>13. CASE RefillFlock(t)
    BY <1>13 DEF RefillFlock
  <1>14. CASE RefillQlock(t)
    BY <1>14 DEF RefillQlock
  <1>15. CASE Refill(t)
    BY <1>15 DEF Refill
  <1>16. CASE PopRefilledQlock(t)
    BY <1>16 DEF PopRefilledQlock
  <1>17. CASE PopRefilled(t)
    BY <1>17 DEF PopRefilled
  <1>18. QED
    BY <1>1, <1>2, <1>3, <1>4, <1>5, <1>6, <1>7, <1>8, <1>9, <1>10, <1>11, <1>12, <1>13, <1>14, <1>15, <1>16, <1>17 DEF Adding, Reading

-----------------------------------------------------------------------------
(* Data: the types of the queue, the file and the counters, the file read in     *)
(* whole refills, and the two promises a refill makes to the steps that follow.  *)
DataTypes == /\ url_queue \in Seq(Nat) /\ file \in Seq(Nat)
             /\ cur \in Nat /\ end \in Nat
             /\ fileInOk \in BOOLEAN
             /\ pushed \in Nat
             /\ delivered \subseteq Nat

DataOK == DataTypes /\ SpillWhole /\ SpillFileReadable

(* The inductive invariant by its parts.                                         *)
LEMMA IInvParts == IInv <=> ControlOK /\ DataOK /\ RefillHasRecords /\ RefilledPopSafe
BY DEF IInv, ControlOK, DataOK, DataTypes, TypeOK

(* Taking the front of a queue that has one leaves the rest, of known length.    *)
LEMMA DeliverFrontEffect ==
  ASSUME DataTypes, url_queue # <<>>, DeliverFront
  PROVE  /\ url_queue' \in Seq(Nat) /\ delivered' \subseteq Nat
         /\ Len(url_queue') = Len(url_queue) - 1
         /\ Len(url_queue) \in Nat \ {0}
         /\ delivered' = delivered \cup {url_queue[1]}
         /\ \A i \in 1 .. Len(url_queue') : url_queue'[i] = url_queue[i + 1]
  <1>1. url_queue \in Seq(Nat)
    BY DEF DataTypes
  <1>2. Len(url_queue) \in Nat \ {0}
    BY <1>1, EmptySeq
  <1>3. Head(url_queue) = url_queue[1] /\ url_queue[1] \in Nat
    BY <1>1, <1>2, ElementOfSeq
  <1>4. QED
    BY <1>1, <1>2, <1>3, HeadTailProperties DEF DeliverFront, DataTypes

(* Every step keeps DataOK: a spill adds whole refills to the file, a refill     *)
(* takes one away, and the other steps leave the file alone.                     *)
LEMMA DataStep ==
  ASSUME IInv, NEW t \in Threads,
         AddURL(t) \/ Available(t) \/ Adding(t) \/ Reading(t)
  PROVE  DataOK'
  <1> USE IInvParts
  <1>1. CASE UNCHANGED <<url_queue, file, cur, end, fileInOk, pushed, delivered>>
    BY <1>1 DEF DataOK, DataTypes, SpillWhole, SpillFileReadable
  <1>2. CASE Spill(t)
    <2>1. CASE Len(url_queue) >= MAX_URL
      <3>1. /\ url_queue' \in Seq(Nat) /\ file' \in Seq(Nat)
            /\ end' = end + NUM_URL2FILE /\ Len(file') = Len(file) + NUM_URL2FILE
        BY <1>2, <2>1, MoveToFileEffect DEF IInv, Spill
      <3>2. PICK j \in 0 .. NUM_URL2FILE : NUM_URL2FILE = j * NUM_URL2MEMERY
        BY FrontierAssumption
      <3>3. PICK k \in 0 .. end : end - cur = k * NUM_URL2MEMERY
        BY DEF IInv, SpillWhole
      <3>4. /\ cur \in Nat /\ end \in Nat /\ cur <= end /\ end = Len(file)
            /\ UNCHANGED <<cur, fileInOk, pushed, delivered>>
        BY <1>2 DEF IInv, SpillWhole, TypeOK, Spill
      <3>5. /\ j + k \in 0 .. end'
            /\ end' - cur' = (j + k) * NUM_URL2MEMERY
        <4>1. /\ j * NUM_URL2MEMERY + k * NUM_URL2MEMERY = (j + k) * NUM_URL2MEMERY
              /\ j \in Nat /\ k \in Nat
          BY <3>4, Multiples
        <4>2. j + k \in 0 .. end'
          BY <3>1, <3>4, <4>1
        <4>3. end' - cur' = NUM_URL2FILE + (end - cur)
          BY <3>1, <3>4
        <4>4. QED
          BY <4>1, <4>2, <4>3, <3>2, <3>3, Zenon
      <3>6. SpillWhole'
        BY <3>1, <3>4, <3>5 DEF SpillWhole
      <3>7. QED
        BY <3>1, <3>4, <3>6 DEF DataOK, DataTypes, IInv, SpillFileReadable
    <2>2. CASE ~(Len(url_queue) >= MAX_URL)
      BY <1>2, <2>2, <1>1 DEF Spill, MoveToFile
    <2>3. QED
      BY <2>1, <2>2
  <1>3. CASE Push(t)
    BY <1>3, AppendProperties DEF Push, DataOK, DataTypes, SpillWhole, SpillFileReadable
  <1>4. CASE Pop(t) \/ PopRefilled(t)
    <2>1. UNCHANGED <<file, cur, end, fileInOk, pushed>>
      BY <1>4 DEF Pop, PopRefilled
    <2>2. CASE url_queue # <<>> /\ DeliverFront
      BY <2>1, <2>2, DeliverFrontEffect DEF DataOK, DataTypes, SpillWhole, SpillFileReadable
    <2>3. CASE UNCHANGED <<url_queue, delivered>>
      BY <2>1, <2>3, <1>1
    <2>4. QED
      BY <1>4, <2>2, <2>3 DEF Pop, PopRefilled
  <1>5. CASE Refill(t)
    <2>1. UNCHANGED <<file, end, pushed, delivered>>
      BY <1>5 DEF Refill
    <2>2. CASE url_queue = <<>>
      <3>1. t = Owner /\ cur < end
        BY <1>5 DEF IInv, OnlyOwnerReads, RefillHasRecords, Refill, ReaderPoints
      <3>2. /\ url_queue' \in Seq(Nat)
            /\ cur' = cur + NUM_URL2MEMERY /\ cur' <= end
            /\ fileInOk' = TRUE
        BY <1>5, <2>2, <3>1, ReadBackEffect DEF IInv, Refill
      <3>3. PICK k \in 0 .. end : end - cur = k * NUM_URL2MEMERY
        BY DEF IInv, SpillWhole
      <3>4. cur \in Nat /\ end \in Nat /\ end = Len(file)
        BY DEF IInv, TypeOK, SpillWhole
      <3>5. k # 0
        BY <3>1, <3>3, <3>4
      <3>6. k \in Nat /\ k > 0 /\ k - 1 \in 0 .. end
        BY <3>4, <3>5
      <3>7. end - cur' = (k - 1) * NUM_URL2MEMERY
        <4>1. k * NUM_URL2MEMERY - NUM_URL2MEMERY = (k - 1) * NUM_URL2MEMERY
          BY <3>6, Multiples
        <4>2. end - cur' = (end - cur) - NUM_URL2MEMERY
          BY <3>2, <3>4
        <4>3. QED
          BY <4>1, <4>2, <3>3, Zenon
      <3>8. SpillWhole'
        BY <2>1, <3>2, <3>4, <3>6, <3>7 DEF SpillWhole
      <3>9. QED
        BY <2>1, <3>2, <3>4, <3>8 DEF DataOK, DataTypes, SpillFileReadable
    <2>3. CASE url_queue # <<>>
      BY <1>1, <1>5, <2>3 DEF Refill
    <2>4. QED
      BY <2>2, <2>3
  <1>6. QED
    BY <1>1, <1>2, <1>3, <1>4, <1>5
       DEF Adding, Reading, AddURL, Available, SpillFlock, SpillQlock, PushQlock,
           AvailableInFile, AvailableDrained, ReadURL, PopQlock, RefillFlock,
           RefillQlock, PopRefilledQlock

-----------------------------------------------------------------------------
(* What a refill promises: only the owner takes URLs out, a spill only grows the *)
(* file and leaves the queue at least one URL, and a push only grows the queue.  *)
LEMMA PromiseStep ==
  ASSUME IInv, NEW t \in Threads,
         AddURL(t) \/ Available(t) \/ Adding(t) \/ Reading(t)
  PROVE  RefillHasRecords' /\ RefilledPopSafe'
  <1> USE DEF RefillHasRecords, RefilledPopSafe, Goto
  <1>1. /\ pc \in [Threads -> AdderPoints \cup ReaderPoints]
        /\ cur \in Nat /\ end \in Nat /\ cur <= end
        /\ url_queue \in Seq(Nat)
        /\ pc[t] \in ReaderPoints => t = Owner
        /\ RefillHasRecords /\ RefilledPopSafe
    BY DEF IInv, TypeOK, SpillWhole, OnlyOwnerReads
  <1>2. CASE Spill(t)
    <2>1. cur' = cur /\ end' >= end
      BY <1>1, <1>2 DEF Spill, MoveToFile
    <2>2. url_queue # <<>> => url_queue' # <<>>
      <3>1. CASE Len(url_queue) >= MAX_URL
        <4>1. /\ url_queue' \in Seq(Nat)
              /\ Len(url_queue') = Len(url_queue) - NUM_URL2FILE
          BY <1>2, <3>1, MoveToFileEffect DEF IInv, Spill
        <4>2. Len(url_queue') > 0
          BY <4>1, <3>1, <1>1
        <4>3. QED
          BY <4>2, EmptySeq
      <3>2. CASE ~(Len(url_queue) >= MAX_URL)
        BY <1>2, <3>2 DEF Spill, MoveToFile
      <3>3. QED
        BY <3>1, <3>2
    <2>3. pc'[Owner] = IF t = Owner THEN "pushQlock" ELSE pc[Owner]
      BY <1>1, <1>2 DEF Spill
    <2>4. cur < end => cur' < end'
      BY <1>1, <1>2, <2>1, NUM_URL2FILE \in Nat DEF Spill, MoveToFile
    <2>5. QED
      BY <1>1, <2>2, <2>3, <2>4
  <1>3. CASE Push(t)
    <2>1. url_queue' # <<>>
      <3>1. url_queue \in Seq(Nat) /\ pushed + 1 \in Nat
        BY DEF IInv, TypeOK
      <3>2. url_queue' = Append(url_queue, pushed + 1)
        BY <1>3 DEF Push
      <3>3. QED
        BY <3>1, <3>2, AppendProperties
    <2>2. QED
      BY <1>1, <1>3, <2>1 DEF Push
  <1>4. CASE Refill(t)
    <2>1. t = Owner /\ cur < end
      BY <1>1, <1>4 DEF Refill, ReaderPoints
    <2>2. pc'[Owner] \in {"popRefilledQlock", "idle"}
      BY <1>1, <1>4, <2>1 DEF Refill
    <2>3. cur' > cur => url_queue' # <<>>
      <3>1. CASE url_queue = <<>>
        <4>1. url_queue' \in Seq(Nat) /\ Len(url_queue') = NUM_URL2MEMERY
          BY <1>4, <2>1, <3>1, ReadBackEffect DEF IInv, Refill
        <4>2. QED
          BY <4>1, EmptySeq
      <3>2. CASE url_queue # <<>>
        BY <1>1, <1>4, <3>2 DEF Refill
      <3>3. QED
        BY <3>1, <3>2
    <2>4. QED
      BY <1>1, <1>4, <2>1, <2>2, <2>3 DEF Refill
  <1>5. CASE RefillFlock(t)
    BY <1>1, <1>5 DEF RefillFlock, ReaderPoints
  <1>6. CASE Pop(t)
    BY <1>1, <1>6 DEF Pop, ReaderPoints
  <1>7. CASE PopRefilled(t)
    BY <1>1, <1>7 DEF PopRefilled, ReaderPoints
  <1>8. CASE \/ AddURL(t) \/ Available(t) \/ SpillFlock(t) \/ SpillQlock(t) \/ PushQlock(t)
             \/ AvailableInFile(t) \/ AvailableDrained(t) \/ ReadURL(t) \/ PopQlock(t)
             \/ RefillQlock(t) \/ PopRefilledQlock(t)
    BY <1>1, <1>8
       DEF AddURL, Available, SpillFlock, SpillQlock, PushQlock, AvailableInFile,
           AvailableDrained, ReadURL, PopQlock, RefillQlock, PopRefilledQlock
  <1>9. QED
    BY <1>2, <1>3, <1>4, <1>5, <1>6, <1>7, <1>8 DEF Adding, Reading

-----------------------------------------------------------------------------
(* The inductive invariant holds at the start: queue and file are empty.         *)
LEMMA InitIInv == Init => IInv
  <1> SUFFICES ASSUME Init PROVE IInv
    OBVIOUS
  <1>1. ControlOK /\ RefillHasRecords /\ RefilledPopSafe
    BY DEF Init, ControlOK, LocksHeld, OnlyOwnerReads, RefillHasRecords, RefilledPopSafe,
           AdderPoints, ReaderPoints, QueueHeld, FileHeld
  <1>2. DataTypes
    BY EmptySeq DEF Init, DataTypes
  <1>3. SpillWhole
    <2>1. end = 0 /\ cur = 0 /\ Len(file) = 0 /\ 0 * NUM_URL2MEMERY = 0
      BY EmptySeq DEF Init
    <2>2. QED
      BY <2>1 DEF SpillWhole
  <1>4. QED
    BY <1>1, <1>2, <1>3, IInvParts DEF Init, DataOK, SpillFileReadable

(* Every step keeps the inductive invariant.                                     *)
LEMMA NextIInv == IInv /\ [Next]_vars => IInv'
  <1> SUFFICES ASSUME IInv, [Next]_vars PROVE IInv'
    OBVIOUS
  <1>1. CASE UNCHANGED vars
    BY <1>1 DEF vars, IInv, TypeOK, LocksHeld, OnlyOwnerReads, SpillWhole,
                SpillFileReadable, RefillHasRecords, RefilledPopSafe
  <1>2. ASSUME NEW t \in Threads,
               AddURL(t) \/ Available(t) \/ Adding(t) \/ Reading(t)
        PROVE  IInv'
    <2>1. ControlOK'
      BY <1>2, ControlStep, IInvParts
    <2>2. DataOK' /\ RefillHasRecords' /\ RefilledPopSafe'
      BY <1>2, DataStep, PromiseStep
    <2>3. QED
      BY <2>1, <2>2 DEF IInv, ControlOK, DataOK, DataTypes, TypeOK
  <1>3. QED
    BY <1>1, <1>2 DEF Next

(* The inductive invariant holds in every reachable state.                       *)
THEOREM InductiveInvariant == Spec => []IInv
BY InitIInv, NextIInv, PTL DEF Spec

(* Every variable keeps its type (URLFrontier's members).                        *)
THEOREM TypeCorrect == Spec => []TypeOK
  <1>1. IInv => TypeOK
    BY DEF IInv
  <1>2. QED
    BY <1>1, InductiveInvariant, PTL

(* The pop that follows a refill never meets an empty queue (URLFrontier.cpp,    *)
(* readURL, whose second branch does not test the queue again).                  *)
THEOREM PopAfterRefillSafe == Spec => []RefilledPopSafe
  <1>1. IInv => RefilledPopSafe
    BY DEF IInv
  <1>2. QED
    BY <1>1, InductiveInvariant, PTL

(* The unread part of the spill file is a whole number of refills, so a refill   *)
(* never reads past its end and file_in never fails (getFromFile).               *)
THEOREM SpillFileNeverStranded == Spec => [](SpillWhole /\ SpillFileReadable)
  <1>1. IInv => SpillWhole /\ SpillFileReadable
    BY DEF IInv
  <1>2. QED
    BY <1>1, InductiveInvariant, PTL

(* Two threads are never in a critical section of the same lock.                 *)
THEOREM MutualExclusion == Spec => []CriticalSections
  <1>1. IInv => CriticalSections
    BY DEF IInv, LocksHeld, CriticalSections
  <1>2. QED
    BY <1>1, InductiveInvariant, PTL

-----------------------------------------------------------------------------
(* Where the URLs are.  Apart is EachURLOnce without its account of the total:   *)
(* no two slots hold the same URL, and none holds a delivered one.               *)
Apart == /\ \A i, j \in QueueSlots : url_queue[i] = url_queue[j] => i = j
         /\ \A i, j \in UnreadSlots : file[i] = file[j] => i = j
         /\ Queued \cap Spilled = {}
         /\ (Queued \cup Spilled) \cap delivered = {}

(* A spill moves URLs from the queue to the file and nothing else.               *)
LEMMA MoveKeepsURLs ==
  ASSUME IInv, Apart, Len(url_queue) >= MAX_URL, MoveToFile, UNCHANGED <<cur, delivered>>
  PROVE  Apart' /\ Queued' \cup Spilled' = Queued \cup Spilled
  <1> DEFINE F == NUM_URL2FILE
  <1>1. /\ url_queue \in Seq(Nat) /\ Len(url_queue) \in Nat
        /\ cur \in Nat /\ end \in Nat /\ cur <= end /\ end = Len(file)
    BY LenProperties DEF IInv, TypeOK, SpillWhole
  <1>2. /\ end' = end + F /\ cur' = cur
        /\ Len(url_queue') = Len(url_queue) - F
        /\ \A i \in 1 .. end : file'[i] = file[i]
        /\ \A i \in 1 .. F : file'[end + i] = url_queue[i]
        /\ \A i \in 1 .. Len(url_queue') : url_queue'[i] = url_queue[F + i]
    BY <1>1, MoveToFileEffect DEF IInv
  <1> HIDE DEF F
  <1>3. F \in Nat /\ F < Len(url_queue)
    BY <1>1 DEF F
  <1>4. \A i \in 1 .. Len(url_queue') :
          F + i \in QueueSlots /\ url_queue'[i] = url_queue[F + i]
    <2> TAKE i \in 1 .. Len(url_queue')
    <2>1. i \in 1 .. Len(url_queue) - F
      BY <1>2
    <2>2. F + i \in 1 .. Len(url_queue)
      BY <1>1, <1>3, <2>1
    <2>3. QED
      BY <1>2, <2>2 DEF QueueSlots
  <1>5. \A i \in cur + 1 .. end' :
          \/ i \in UnreadSlots /\ file'[i] = file[i]
          \/ i - end \in 1 .. F /\ i - end \in QueueSlots /\ file'[i] = url_queue[i - end]
    <2> TAKE i \in cur + 1 .. end'
    <2>1. CASE i <= end
      <3>1. i \in cur + 1 .. end /\ i \in 1 .. end
        BY <2>1, <1>1
      <3>2. QED
        BY <3>1, <1>2 DEF UnreadSlots
    <2>2. CASE i > end
      <3> DEFINE j == i - end
      <3>1. j \in 1 .. F /\ i = end + j
        BY <2>2, <1>1, <1>2, <1>3
      <3> HIDE DEF j
      <3>2. j \in QueueSlots
        BY <3>1, <1>1, <1>3 DEF QueueSlots
      <3>3. QED
        BY <3>1, <3>2, <1>2 DEF j
    <2>3. QED
      BY <2>1, <2>2, <1>1, <1>2, <1>3
  <1>6. \A i, j \in 1 .. Len(url_queue') : url_queue'[i] = url_queue'[j] => i = j
    <2> SUFFICES ASSUME NEW i \in 1 .. Len(url_queue'), NEW j \in 1 .. Len(url_queue'),
                        url_queue'[i] = url_queue'[j]
                 PROVE  i = j
      OBVIOUS
    <2>1. F + i = F + j
      BY <1>4 DEF Apart
    <2>2. i \in Int /\ j \in Int
      BY <1>1, <1>2, <1>3
    <2>3. QED
      BY <2>1, <2>2, <1>3
  <1>7. \A i, j \in cur + 1 .. end' : file'[i] = file'[j] => i = j
    <2> SUFFICES ASSUME NEW i \in cur + 1 .. end', NEW j \in cur + 1 .. end',
                        file'[i] = file'[j]
                 PROVE  i = j
      OBVIOUS
    <2>0. i \in Int /\ j \in Int
      BY <1>1, <1>2, <1>3
    <2>1. CASE i \in UnreadSlots /\ file'[i] = file[i] /\ j \in UnreadSlots /\ file'[j] = file[j]
      BY <2>1 DEF Apart
    <2>2. CASE /\ i - end \in QueueSlots /\ file'[i] = url_queue[i - end]
               /\ j - end \in QueueSlots /\ file'[j] = url_queue[j - end]
      <3>1. i - end = j - end
        BY <2>2 DEF Apart
      <3>2. QED
        BY <3>1, <2>0, <1>1
    <2>3. CASE /\ i \in UnreadSlots /\ file'[i] = file[i]
               /\ j - end \in QueueSlots /\ file'[j] = url_queue[j - end]
      <3>1. file'[i] \in Spilled /\ file'[j] \in Queued
        BY <2>3 DEF Queued, Spilled
      <3>2. QED
        BY <3>1 DEF Apart
    <2>4. CASE /\ j \in UnreadSlots /\ file'[j] = file[j]
               /\ i - end \in QueueSlots /\ file'[i] = url_queue[i - end]
      <3>1. file'[j] \in Spilled /\ file'[i] \in Queued
        BY <2>4 DEF Queued, Spilled
      <3>2. QED
        BY <3>1 DEF Apart
    <2>5. QED
      BY <1>5, <2>1, <2>2, <2>3, <2>4
  <1>8. \A i \in 1 .. Len(url_queue'), j \in cur + 1 .. end' : url_queue'[i] # file'[j]
    <2> TAKE i \in 1 .. Len(url_queue'), j \in cur + 1 .. end'
    <2>1. F + i \in QueueSlots /\ url_queue'[i] = url_queue[F + i] /\ i >= 1 /\ i \in Int
      BY <1>4, <1>1, <1>2, <1>3
    <2>2. CASE j \in UnreadSlots /\ file'[j] = file[j]
      BY <2>1, <2>2 DEF Apart, Queued, Spilled
    <2>3. CASE j - end \in 1 .. F /\ j - end \in QueueSlots /\ file'[j] = url_queue[j - end]
      <3>1. F + i # j - end
        BY <2>1, <2>3, <1>3
      <3>2. QED
        BY <2>1, <2>3, <3>1 DEF Apart
    <2>4. QED
      BY <1>5, <2>2, <2>3
  <1>9. Queued' \cup Spilled' \subseteq Queued \cup Spilled
    <2>1. ASSUME NEW i \in QueueSlots' PROVE url_queue'[i] \in Queued
      BY <1>4 DEF Queued, QueueSlots
    <2>2. ASSUME NEW i \in UnreadSlots' PROVE file'[i] \in Queued \cup Spilled
      <3>1. i \in cur + 1 .. end'
        BY <1>2 DEF UnreadSlots
      <3>2. QED
        BY <1>5, <3>1 DEF Queued, Spilled
    <2>3. QED
      BY <2>1, <2>2 DEF Queued, Spilled
  <1>10. Queued \subseteq Queued' \cup Spilled'
    <2> SUFFICES ASSUME NEW i \in QueueSlots PROVE url_queue[i] \in Queued' \cup Spilled'
      BY DEF Queued
    <2>1. CASE i <= F
      <3>1. i \in 1 .. F /\ end + i \in UnreadSlots'
        BY <2>1, <1>1, <1>2, <1>3 DEF QueueSlots, UnreadSlots
      <3>2. url_queue[i] = file'[end + i]
        BY <3>1, <1>2
      <3>3. QED
        BY <3>1, <3>2 DEF Spilled
    <2>2. CASE i > F
      <3> DEFINE j == i - F
      <3>1. j \in QueueSlots' /\ j \in 1 .. Len(url_queue') /\ i = F + j
        BY <2>2, <1>1, <1>2, <1>3 DEF QueueSlots
      <3>2. url_queue[i] = url_queue'[j]
        BY <3>1, <1>2
      <3>3. QED
        BY <3>1, <3>2 DEF Queued
    <2>3. QED
      BY <2>1, <2>2, <1>3 DEF QueueSlots
  <1>11. Spilled \subseteq Spilled'
    <2> SUFFICES ASSUME NEW i \in UnreadSlots PROVE file[i] \in Spilled'
      BY DEF Spilled
    <2>1. i \in UnreadSlots' /\ i \in 1 .. end
      BY <1>1, <1>2, <1>3 DEF UnreadSlots
    <2>2. file[i] = file'[i]
      BY <2>1, <1>2
    <2>3. QED
      BY <2>1, <2>2 DEF Spilled
  <1>12. Queued' \cap Spilled' = {}
    BY <1>8, <1>2 DEF Queued, Spilled, QueueSlots, UnreadSlots
  <1>13. Queued' \cup Spilled' = Queued \cup Spilled
    BY <1>9, <1>10, <1>11
  <1>14. QED
    BY <1>2, <1>6, <1>7, <1>12, <1>13 DEF Apart, QueueSlots, UnreadSlots

(* A refill moves the next URLs of the file to the empty queue.                  *)
LEMMA ReadBackKeepsURLs ==
  ASSUME IInv, Apart, cur < end, url_queue = <<>>, ReadBack, UNCHANGED <<file, end, delivered>>
  PROVE  Apart' /\ Queued' \cup Spilled' = Queued \cup Spilled
  <1> DEFINE M == NUM_URL2MEMERY
  <1>1. cur \in Nat /\ end \in Nat /\ M \in Nat /\ Queued = {}
    BY EmptySeq DEF IInv, TypeOK, Queued, QueueSlots
  <1>2. /\ Len(url_queue') = M /\ cur' = cur + M /\ cur' <= end
        /\ \A i \in 1 .. M : url_queue'[i] = file[cur + i]
        /\ file' = file /\ end' = end
    BY ReadBackEffect DEF IInv
  <1> HIDE DEF M
  <1>3. QueueSlots' = 1 .. M /\ UnreadSlots' = cur + M + 1 .. end
    BY <1>2 DEF QueueSlots, UnreadSlots
  <1>4. \A i \in 1 .. M : cur + i \in UnreadSlots /\ cur + i \notin UnreadSlots'
    BY <1>1, <1>2, <1>3 DEF UnreadSlots
  <1>5. UnreadSlots' \subseteq UnreadSlots
    BY <1>1, <1>2, <1>3 DEF UnreadSlots
  <1>6. \A i, j \in QueueSlots' : url_queue'[i] = url_queue'[j] => i = j
    <2> SUFFICES ASSUME NEW i \in 1 .. M, NEW j \in 1 .. M, url_queue'[i] = url_queue'[j]
                 PROVE  i = j
      BY <1>3
    <2>1. cur + i = cur + j
      BY <1>2, <1>4 DEF Apart
    <2>2. QED
      BY <2>1, <1>1
  <1>7. Queued' \cap Spilled' = {}
    <2> SUFFICES ASSUME NEW i \in 1 .. M, NEW j \in UnreadSlots'
                 PROVE  url_queue'[i] # file[j]
      BY <1>2, <1>3 DEF Queued, Spilled
    <2>1. url_queue'[i] = file[cur + i] /\ cur + i \in UnreadSlots /\ j \in UnreadSlots
          /\ cur + i # j
      BY <1>2, <1>4, <1>5
    <2>2. QED
      BY <2>1 DEF Apart
  <1>8. Queued' \cup Spilled' \subseteq Spilled
    BY <1>2, <1>3, <1>4, <1>5 DEF Queued, Spilled
  <1>9. Spilled \subseteq Queued' \cup Spilled'
    <2> SUFFICES ASSUME NEW i \in UnreadSlots PROVE file[i] \in Queued' \cup Spilled'
      BY DEF Spilled
    <2>1. CASE i <= cur + M
      <3> DEFINE j == i - cur
      <3>1. j \in 1 .. M /\ i = cur + j
        BY <2>1, <1>1 DEF UnreadSlots
      <3>2. file[i] = url_queue'[j]
        BY <3>1, <1>2
      <3>3. QED
        BY <3>1, <3>2, <1>3 DEF Queued
    <2>2. CASE i > cur + M
      <3>1. i \in cur + M + 1 .. end
        BY <2>2, <1>1 DEF UnreadSlots
      <3>2. QED
        BY <3>1, <1>2, <1>3 DEF Spilled
    <2>3. QED
      BY <2>1, <2>2, <1>1 DEF UnreadSlots
  <1>10. Queued' \cup Spilled' = Queued \cup Spilled
    BY <1>1, <1>8, <1>9
  <1>11. \A i, j \in UnreadSlots' : file'[i] = file'[j] => i = j
    BY <1>2, <1>5 DEF Apart
  <1>12. (Queued' \cup Spilled') \cap delivered' = {}
    BY <1>10 DEF Apart
  <1>13. QED
    BY <1>6, <1>7, <1>10, <1>11, <1>12 DEF Apart

(* EachURLOnce says that the places are apart and hold all URLs pushed.          *)
LEMMA EachURLOnceParts ==
  EachURLOnce <=> Apart /\ Queued \cup Spilled \cup delivered = 1 .. pushed
BY DEF EachURLOnce, Apart

(* A step that moves URLs without adding or taking any is a stutter of the pool. *)
LEMMA Stutters ==
  ASSUME EachURLOnce, Apart', Queued' \cup Spilled' = Queued \cup Spilled,
         UNCHANGED <<pushed, delivered>>
  PROVE  EachURLOnce' /\ UNCHANGED Pool!vars
  <1>1. (Queued \cup Spilled \cup delivered = 1 .. pushed)'
    BY EachURLOnceParts
  <1>2. QED
    BY <1>1, EachURLOnceParts DEF EachURLOnce, Apart, Pool!vars

(* A push adds the next URL.                                                     *)
LEMMA PushAdds ==
  ASSUME IInv, EachURLOnce, NEW t \in Threads, Push(t)
  PROVE  EachURLOnce' /\ Pool!Add
  <1> DEFINE n == Len(url_queue)
             new == pushed + 1
  <1>1. /\ url_queue \in Seq(Nat) /\ n \in Nat /\ pushed \in Nat /\ new \in Nat
    BY LenProperties DEF IInv, TypeOK
  <1>2. /\ url_queue' = Append(url_queue, new) /\ pushed' = new
        /\ UNCHANGED <<file, cur, end, delivered>>
    BY DEF Push
  <1>3. /\ Len(url_queue') = n + 1 /\ url_queue'[n + 1] = new
        /\ \A i \in 1 .. n : url_queue'[i] = url_queue[i]
    BY <1>1, <1>2, AppendProperties
  <1>4. QueueSlots' = 1 .. n + 1 /\ QueueSlots = 1 .. n /\ 1 .. n + 1 = 1 .. n \cup {n + 1}
    BY <1>1, <1>3 DEF QueueSlots
  <1>5. Queued' = Queued \cup {new}
    BY <1>3, <1>4 DEF Queued
  <1>6. Spilled' = Spilled /\ UnreadSlots' = UnreadSlots
    BY <1>2 DEF Spilled, UnreadSlots
  <1>7. new \notin Queued \cup Spilled \cup delivered
    BY <1>1 DEF EachURLOnce
  <1>8. \A i \in 1 .. n : url_queue[i] # new
    BY <1>7, <1>4 DEF Queued
  <1>9. \A i, j \in QueueSlots' : url_queue'[i] = url_queue'[j] => i = j
    BY <1>3, <1>4, <1>8 DEF EachURLOnce
  <1>10. \A i, j \in UnreadSlots' : file'[i] = file'[j] => i = j
    BY <1>2, <1>6 DEF EachURLOnce
  <1>11. Apart'
    <2>1. Queued' \cap Spilled' = {} /\ (Queued' \cup Spilled') \cap delivered' = {}
      BY <1>2, <1>5, <1>6, <1>7 DEF EachURLOnce
    <2>2. QED
      BY <1>9, <1>10, <2>1 DEF Apart
  <1>12. (1 .. pushed)' = 1 .. pushed \cup {new}
    BY <1>1, <1>2
  <1>13. (Queued \cup Spilled \cup delivered = 1 .. pushed)'
    BY <1>2, <1>5, <1>6, <1>12 DEF EachURLOnce
  <1>14. EachURLOnce'
    BY <1>11, <1>13 DEF Apart, EachURLOnce
  <1>15. Pool!Add
    BY <1>2, <1>5, <1>6 DEF Pool!Add
  <1>16. QED
    BY <1>14, <1>15

(* A pop takes the URL at the front of the queue.                                *)
LEMMA PopTakes ==
  ASSUME IInv, EachURLOnce, url_queue # <<>>, DeliverFront,
         UNCHANGED <<file, cur, end, pushed>>
  PROVE  EachURLOnce' /\ Pool!Take
  <1> DEFINE n == Len(url_queue)
             front == url_queue[1]
  <1>1. /\ n \in Nat \ {0} /\ Len(url_queue') = n - 1
        /\ delivered' = delivered \cup {front}
        /\ \A i \in 1 .. n - 1 : url_queue'[i] = url_queue[i + 1]
    BY DeliverFrontEffect DEF IInv, TypeOK, DataTypes
  <1>2. QueueSlots = 1 .. n /\ QueueSlots' = 1 .. n - 1
    BY <1>1 DEF QueueSlots
  <1>3. \A i \in 1 .. n - 1 : i + 1 \in QueueSlots /\ i + 1 # 1
    BY <1>1, <1>2
  <1>4. 1 \in QueueSlots /\ front \in Queued
    BY <1>1, <1>2 DEF Queued
  <1>5. front \notin Queued'
    BY <1>1, <1>2, <1>3, <1>4 DEF Queued, EachURLOnce
  <1>6. Queued \subseteq Queued' \cup {front}
    <2> SUFFICES ASSUME NEW i \in QueueSlots, i # 1 PROVE url_queue[i] \in Queued'
      BY DEF Queued
    <2> DEFINE j == i - 1
    <2>1. j \in 1 .. n - 1 /\ i = j + 1
      BY <1>1, <1>2
    <2>2. url_queue[i] = url_queue'[j]
      BY <2>1, <1>1
    <2>3. QED
      BY <2>1, <2>2, <1>2 DEF Queued
  <1>7. Queued' \subseteq Queued
    BY <1>1, <1>2, <1>3 DEF Queued
  <1>8. Queued' = Queued \ {front}
    BY <1>5, <1>6, <1>7
  <1>9. Spilled' = Spilled /\ UnreadSlots' = UnreadSlots /\ front \notin Spilled
    BY <1>4 DEF Spilled, UnreadSlots, EachURLOnce
  <1>10. \A i, j \in QueueSlots' : url_queue'[i] = url_queue'[j] => i = j
    <2> SUFFICES ASSUME NEW i \in 1 .. n - 1, NEW j \in 1 .. n - 1,
                        url_queue'[i] = url_queue'[j]
                 PROVE  i = j
      BY <1>2
    <2>1. i + 1 = j + 1
      <3>1. url_queue[i + 1] = url_queue[j + 1]
        BY <1>1
      <3>2. i + 1 \in QueueSlots /\ j + 1 \in QueueSlots
        BY <1>3
      <3>3. QED
        BY <3>1, <3>2 DEF EachURLOnce
    <2>2. i \in Int /\ j \in Int
      BY <1>1
    <2>3. QED
      BY <2>1, <2>2
  <1>11. \A i, j \in UnreadSlots' : file'[i] = file'[j] => i = j
    BY <1>9 DEF EachURLOnce
  <1>12. EachURLOnce'
    BY <1>1, <1>4, <1>8, <1>9, <1>10, <1>11 DEF EachURLOnce
  <1>13. Pool!Take
    <2>1. (Queued \cup Spilled)' = (Queued \cup Spilled) \ {front}
      BY <1>8, <1>9
    <2>2. QED
      BY <2>1, <1>1, <1>4 DEF Pool!Take
  <1>14. QED
    BY <1>12, <1>13

(* Every step keeps each URL in one place, and is a step or a stutter of the pool. *)
LEMMA StepKeepsURLs ==
  ASSUME IInv, EachURLOnce, [Next]_vars
  PROVE  EachURLOnce' /\ [Pool!Next]_(Pool!vars)
  <1> USE DEF Pool!Next
  <1>1. Apart
    BY DEF Apart, EachURLOnce
  <1>2. ASSUME UNCHANGED <<url_queue, file, cur, end, pushed, delivered>>
        PROVE  EachURLOnce' /\ UNCHANGED Pool!vars
    <2>1. /\ QueueSlots' = QueueSlots /\ UnreadSlots' = UnreadSlots
          /\ url_queue' = url_queue /\ file' = file
      BY <1>2 DEF QueueSlots, UnreadSlots
    <2>2. Queued' = Queued /\ Spilled' = Spilled
      BY <2>1 DEF Queued, Spilled
    <2>3. QED
      BY <1>2, <2>1, <2>2 DEF EachURLOnce, Pool!vars
  <1>3. CASE UNCHANGED vars
    BY <1>2, <1>3 DEF vars
  <1>4. ASSUME NEW t \in Threads,
               AddURL(t) \/ Available(t) \/ Adding(t) \/ Reading(t)
        PROVE  EachURLOnce' /\ [Pool!Next]_(Pool!vars)
    <2>1. CASE Push(t)
      BY <2>1, PushAdds
    <2>2. CASE Pop(t) \/ PopRefilled(t)
      <3>1. UNCHANGED <<file, cur, end, pushed>>
        BY <2>2 DEF Pop, PopRefilled
      <3>2. CASE url_queue # <<>> /\ DeliverFront
        BY <3>1, <3>2, PopTakes
      <3>3. CASE UNCHANGED <<url_queue, delivered>>
        BY <3>1, <3>3, <1>2
      <3>4. QED
        BY <2>2, <3>2, <3>3 DEF Pop, PopRefilled
    <2>3. CASE Spill(t)
      <3>1. MoveToFile /\ UNCHANGED <<cur, pushed, delivered>>
        BY <2>3 DEF Spill
      <3>2. CASE Len(url_queue) >= MAX_URL
        BY <3>1, <3>2, <1>1, MoveKeepsURLs, Stutters
      <3>3. CASE ~(Len(url_queue) >= MAX_URL)
        BY <3>1, <3>3, <1>2 DEF MoveToFile
      <3>4. QED
        BY <3>2, <3>3
    <2>4. CASE Refill(t)
      <3>1. UNCHANGED <<file, end, pushed, delivered>>
        BY <2>4 DEF Refill
      <3>2. CASE url_queue = <<>>
        <4>1. cur < end /\ ReadBack
          BY <2>4, <3>2 DEF IInv, OnlyOwnerReads, RefillHasRecords, Refill, ReaderPoints
        <4>2. QED
          BY <3>1, <3>2, <4>1, <1>1, ReadBackKeepsURLs, Stutters
      <3>3. CASE url_queue # <<>>
        BY <3>1, <3>3, <2>4, <1>2 DEF Refill
      <3>4. QED
        BY <3>2, <3>3
    <2>5. CASE UNCHANGED <<url_queue, file, cur, end, pushed, delivered>>
      BY <2>5, <1>2
    <2>6. QED
      BY <1>4, <2>1, <2>2, <2>3, <2>4, <2>5
         DEF Adding, Reading, AddURL, Available, SpillFlock, SpillQlock, PushQlock,
             AvailableInFile, AvailableDrained, ReadURL, PopQlock, RefillFlock,
             RefillQlock, PopRefilledQlock
  <1>5. QED
    BY <1>3, <1>4 DEF Next

(* At the start there are no URLs, as in the pool.                               *)
LEMMA InitURLs == Init => EachURLOnce /\ Pool!Init
  <1> SUFFICES ASSUME Init PROVE EachURLOnce /\ Pool!Init
    OBVIOUS
  <1>1. QueueSlots = {} /\ UnreadSlots = {} /\ 1 .. pushed = {} /\ delivered = {} /\ pushed = 0
    BY EmptySeq DEF Init, QueueSlots, UnreadSlots
  <1>2. Queued = {} /\ Spilled = {}
    BY <1>1 DEF Queued, Spilled
  <1>3. QED
    BY <1>1, <1>2 DEF EachURLOnce, Pool!Init

(* Every URL pushed is in exactly one place at any time: queue, unread part of   *)
(* the file, or delivered.  Nothing is lost and nothing is delivered twice.      *)
THEOREM NoURLLostOrDoubled == Spec => []EachURLOnce
  <1>1. IInv /\ EachURLOnce /\ [Next]_vars => EachURLOnce'
    BY StepKeepsURLs
  <1>2. QED
    BY InitURLs, <1>1, InductiveInvariant, PTL DEF Spec

(* The frontier, with its locks, races and spill file, implements the pool.      *)
THEOREM FrontierImplementsPool == Spec => ImplementsPool
  <1>1. IInv /\ EachURLOnce /\ [Next]_vars => [Pool!Next]_(Pool!vars)
    BY StepKeepsURLs
  <1>2. QED
    BY InitURLs, <1>1, InductiveInvariant, NoURLLostOrDoubled, PTL
       DEF Spec, ImplementsPool, Pool!Spec

-----------------------------------------------------------------------------
(* The queue of a single worker: it is full only between calls, and where a URL  *)
(* is about to be pushed there is room for it.                                   *)
RoomOK == /\ Len(url_queue) <= MAX_URL
          /\ pc[Owner] \in {"pushQlock", "push"} => Len(url_queue) < MAX_URL

(* Every step of the single worker keeps that.                                   *)
LEMMA RoomStep ==
  ASSUME IInv, RoomOK, Threads = {Owner}, NUM_URL2FILE > 0,
         AddURL(Owner) \/ Available(Owner) \/ Adding(Owner) \/ Reading(Owner)
  PROVE  RoomOK'
  <1> DEFINE n == Len(url_queue)
             t == Owner
  <1>1. /\ TypeOK /\ LocksHeld /\ url_queue \in Seq(Nat) /\ n \in Nat
        /\ n <= MAX_URL /\ pc \in [Threads -> AdderPoints \cup ReaderPoints]
    BY LenProperties DEF IInv, TypeOK, RoomOK
  <1>2. CASE AddURL(t)
    <2>1. pc[t] = "idle" /\ url_queue' = url_queue
      BY <1>2 DEF AddURL, Goto
    <2>2. qlock = None
      BY <1>1, <2>1 DEF LocksHeld, QueueHeld, TypeOK
    <2>3. pc' = [pc EXCEPT ![t] = IF n >= MAX_URL THEN "spillFlock" ELSE "pushQlock"]
      BY <1>2, <2>2 DEF AddURL, RacyRead, Goto
    <2>4. QED
      BY <1>1, <2>1, <2>3 DEF RoomOK
  <1>3. CASE Spill(t)
    <2>1. pc' = [pc EXCEPT ![t] = "pushQlock"] /\ MoveToFile
      BY <1>3 DEF Spill, Goto
    <2>2. CASE n >= MAX_URL
      <3>1. Len(url_queue') = n - NUM_URL2FILE
        BY <1>1, <2>1, <2>2, MoveToFileEffect
      <3>2. QED
        BY <1>1, <2>1, <3>1 DEF RoomOK
    <2>3. CASE ~(n >= MAX_URL)
      <3>1. url_queue' = url_queue
        BY <2>1, <2>3 DEF MoveToFile
      <3>2. QED
        BY <1>1, <2>3, <3>1 DEF RoomOK
    <2>4. QED
      BY <2>2, <2>3
  <1>4. CASE Push(t)
    <2>1. /\ pc[t] = "push" /\ pc' = [pc EXCEPT ![t] = "idle"]
          /\ url_queue' = Append(url_queue, pushed + 1)
      BY <1>4 DEF Push, Goto
    <2>2. n < MAX_URL /\ Len(url_queue') = n + 1
      BY <1>1, <2>1, AppendProperties DEF RoomOK, TypeOK
    <2>3. QED
      BY <1>1, <2>1, <2>2 DEF RoomOK
  <1>5. CASE Pop(t) \/ PopRefilled(t)
    <2>1. pc'[t] \notin {"pushQlock", "push"}
      BY <1>1, <1>5 DEF Pop, PopRefilled, Goto
    <2>2. n > 0 => Len(Tail(url_queue)) = n - 1
      BY <1>1, HeadTailProperties, EmptySeq
    <2>3. url_queue' = url_queue \/ (n > 0 /\ url_queue' = Tail(url_queue))
      BY <1>1, <1>5, EmptySeq DEF Pop, PopRefilled, DeliverFront
    <2>4. Len(url_queue') <= MAX_URL
      BY <1>1, <2>2, <2>3
    <2>5. QED
      BY <2>1, <2>4 DEF RoomOK
  <1>6. CASE Refill(t)
    <2>1. pc'[t] \notin {"pushQlock", "push"}
      BY <1>1, <1>6 DEF Refill, Goto
    <2>2. CASE url_queue = <<>>
      <3>1. Len(url_queue') = NUM_URL2MEMERY
        BY <1>1, <1>6, <2>2, ReadBackEffect DEF Refill, IInv, RefillHasRecords
      <3>2. NUM_URL2MEMERY <= NUM_URL2FILE
        <4>1. PICK k \in 0 .. NUM_URL2FILE : NUM_URL2FILE = k * NUM_URL2MEMERY
          BY FrontierAssumption
        <4>2. k # 0
          BY <4>1
        <4>3. QED
          BY <4>1, <4>2, Multiples
      <3>3. QED
        BY <2>1, <3>1, <3>2 DEF RoomOK
    <2>3. CASE url_queue # <<>>
      BY <1>1, <1>6, <2>1, <2>3 DEF Refill, RoomOK
    <2>4. QED
      BY <2>2, <2>3
  <1>7. CASE \/ Available(t) \/ SpillFlock(t) \/ SpillQlock(t) \/ PushQlock(t)
             \/ AvailableInFile(t) \/ AvailableDrained(t) \/ ReadURL(t) \/ PopQlock(t)
             \/ RefillFlock(t) \/ RefillQlock(t) \/ PopRefilledQlock(t)
    <2>1. url_queue' = url_queue
      BY <1>7 DEF Available, SpillFlock, SpillQlock, PushQlock, AvailableInFile,
                  AvailableDrained, ReadURL, PopQlock, RefillFlock, RefillQlock, PopRefilledQlock
    <2>2. pc'[t] \in {"pushQlock", "push"} => pc[t] \in {"pushQlock", "push"}
      BY <1>1, <1>7 DEF Available, SpillFlock, SpillQlock, PushQlock, AvailableInFile, Goto,
                  AvailableDrained, ReadURL, PopQlock, RefillFlock, RefillQlock, PopRefilledQlock
    <2>3. QED
      BY <2>1, <2>2 DEF RoomOK
  <1>8. QED
    BY <1>2, <1>3, <1>4, <1>5, <1>6, <1>7 DEF Adding, Reading

(* With one worker, as the program ships, and spills that move something, the    *)
(* queue never exceeds MAX_URL.                                                  *)
THEOREM OneWorkerBound ==
  ASSUME Threads = {Owner}, NUM_URL2FILE > 0
  PROVE  Spec => []QueueBounded
  <1>1. Init => RoomOK
    BY EmptySeq DEF Init, RoomOK
  <1>2. IInv /\ RoomOK /\ [Next]_vars => RoomOK'
    <2>1. IInv /\ RoomOK /\ Next => RoomOK'
      BY RoomStep DEF Next
    <2>2. RoomOK /\ UNCHANGED vars => RoomOK'
      BY DEF RoomOK, vars
    <2>3. QED
      BY <2>1, <2>2
  <1>3. RoomOK => QueueBounded
    BY DEF RoomOK, QueueBounded
  <1>4. QED
    BY <1>1, <1>2, <1>3, InductiveInvariant, PTL DEF Spec
=============================================================================
