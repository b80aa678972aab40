---------------------------- MODULE RWLockFcfsProofs ----------------------------
(* The counters and the queue of the lock stand for its threads, whatever their  *)
(* number, as long as no grant is lost; so no thread overtakes one that waits.   *)
EXTENDS RWLockFcfs, FiniteSetTheorems, SequenceTheorems, TLAPS

Packs == [is_writer : BOOLEAN, num_threads : Int,
          was_first_thr_accepted : BOOLEAN, members : SUBSET Threads]

PCs == Waits \cup {"idle", "granted", "inside", "destroying", "freeing"}

In(q, t) == \E i \in 1 .. Len(q) : t \in q[i].members

RoleOf(pack) == IF pack.is_writer THEN "writer" ELSE "reader"

(* The queue q holds the threads that wait by f, each once, among its like.      *)
Tidy(q, f, r) ==
  /\ \A i \in 1 .. Len(q) : q[i].num_threads = Cardinality(q[i].members)
  /\ \A t \in Threads : f[t] \in Waits <=> In(q, t)
  /\ \A i \in 1 .. Len(q) : \A t \in q[i].members : r[t] = RoleOf(q[i])
  /\ \A i, j \in 1 .. Len(q) : i # j => q[i].members \cap q[j].members = {}

LetInBy(f)   == {t \in Threads : f[t] \in {"granted", "inside"}}
ToWake(f, r) == {t \in Threads : f[t] = "granted" /\ r[t] = "reader"}

(* The counters nr and np and the status st stand for the threads let in by f.   *)
Counts(nr, np, st, f, r) ==
  /\ nr + np + (IF st = "writer" THEN 1 ELSE 0) = Cardinality(LetInBy(f))
  /\ np = Cardinality(ToWake(f, r))
  /\ np > 0 => st = "readers"
  /\ st = "readers" => nr + np > 0

NotFree(st, f) == \A t \in Threads : f[t] \in Waits => st # "unlocked"
-----------------------------------------------------------------------------
(* IInv in terms of these parts.                                                 *)
LEMMA InvParts ==
  ASSUME IInv
  PROVE  /\ TypeOK
         /\ ~lostGrant => /\ Tidy(queue, pc, role)
                          /\ Counts(num_readers, num_pending_readers, status, pc, role)
                          /\ NotFree(status, pc)
  <1>1. ASSUME ~lostGrant
        PROVE  Tidy(queue, pc, role)
    <2>1. \A t \in Threads : pc[t] \in Waits <=> In(queue, t)
      BY <1>1 DEF IInv, CountsAreHolders, Waiting, In
    <2>2. QED
      BY <1>1, <2>1 DEF IInv, CountsAreHolders, PacksOfOneRole, PacksApart, Tidy, RoleOf
  <1>2. ASSUME ~lostGrant
        PROVE  Counts(num_readers, num_pending_readers, status, pc, role)
    BY <1>2 DEF IInv, CountsAreHolders, Counts, LetIn, LetInBy, ReadersToWake, ToWake
  <1>3. ASSUME ~lostGrant
        PROVE  NotFree(status, pc)
    BY <1>3 DEF IInv, CountsAreHolders, NotFree, Waiting
  <1>4. QED
    BY <1>1, <1>2, <1>3 DEF IInv

(* And IInv of the next state from them.                                         *)
LEMMA PartsInv ==
  ASSUME TypeOK',
         ~lostGrant' => /\ Tidy(queue', pc', role')
                        /\ Counts(num_readers', num_pending_readers', status', pc', role')
                        /\ NotFree(status', pc')
  PROVE  IInv'
  <1>1. SUFFICES ASSUME ~lostGrant'
                 PROVE  CountsAreHolders' /\ PacksOfOneRole' /\ PacksApart'
    BY DEF IInv, CountsAreHolders
  <1>2. PacksOfOneRole' /\ PacksApart'
    BY <1>1 DEF PacksOfOneRole, PacksApart, Tidy, RoleOf
  <1>3. Waiting' = UNION {queue'[i].members : i \in 1 .. Len(queue')}
    <2>1. queue' \in Seq(Packs)
      BY DEF TypeOK, Packs
    <2>2. \A i \in 1 .. Len(queue') : queue'[i] \in Packs
      BY <2>1, ElementOfSeq
    <2>3. \A i \in 1 .. Len(queue') : queue'[i].members \subseteq Threads
      BY <2>2 DEF Packs
    <2>4. QED
      BY <1>1, <2>3 DEF Waiting, Tidy, In
  <1>4. Waiting' # {} => status' # "unlocked"
    BY <1>1 DEF Waiting, NotFree
  <1>5. QED
    BY <1>1, <1>2, <1>3, <1>4
      DEF CountsAreHolders, Counts, Tidy, LetIn, LetInBy, ReadersToWake, ToWake
-----------------------------------------------------------------------------
(* A set of naturals that is not empty has a least element.                      *)
LEMMA LeastNatural ==
  ASSUME NEW S, S \subseteq Nat, S # {}
  PROVE  \E m \in S : \A k \in S : m <= k
  <1>1. PICK x \in S : \A y \in S : ~ (<<y, x>> \in OpToRel(<, Nat))
    BY NatLessThanWellFounded, WFMin
  <1>2. \A y \in S : ~ (y < x)
    BY <1>1 DEF OpToRel
  <1>3. QED
    BY <1>2

(* How many the first n are.                                                     *)
LEMMA CardUpTo ==
  ASSUME NEW n \in Nat
  PROVE  Cardinality(1 .. n) = n
  BY FS_Interval

(* DropJunk takes away leading packs that nobody waits in, and all of them.      *)
LEMMA DropJunkSplit ==
  ASSUME NEW q \in Seq(Packs)
  PROVE  \E k \in 0 .. Len(q) :
           /\ DropJunk(q) = SubSeq(q, k + 1, Len(q))
           /\ \A j \in 1 .. k : q[j].num_threads = 0
           /\ k < Len(q) => q[k + 1].num_threads # 0
  <1> DEFINE junk   == {i \in 1 .. Len(q) : \A j \in 1 .. i : q[j].num_threads = 0}
             inUse == {i \in 1 .. Len(q) : q[i].num_threads # 0}
  <1>1. Len(q) \in Nat
    OBVIOUS
  <1>2. CASE inUse = {}
    <2>1. junk = 1 .. Len(q)
      BY <1>1, <1>2
    <2>2. Cardinality(junk) = Len(q)
      <3>1. Cardinality(1 .. Len(q)) = Len(q)
        BY <1>1, CardUpTo
      <3> HIDE DEF junk
      <3>2. QED
        BY <2>1, <3>1
    <2>3. DropJunk(q) = SubSeq(q, Len(q) + 1, Len(q))
      BY <2>2 DEF DropJunk
    <2>4. \A j \in 1 .. Len(q) : q[j].num_threads = 0
      BY <1>2
    <2>5. QED
      BY <1>1, <2>3, <2>4
  <1>3. CASE inUse # {}
    <2>1. PICK m \in inUse : \A k \in inUse : m <= k
      <3>1. inUse \subseteq Nat
        OBVIOUS
      <3> HIDE DEF inUse
      <3>2. QED
        BY <1>3, <3>1, LeastNatural
    <2>2. m \in 1 .. Len(q) /\ q[m].num_threads # 0
      BY <2>1
    <2>3. \A j \in 1 .. m - 1 : q[j].num_threads = 0
      BY <1>1, <2>1
    <2>4. junk = 1 .. m - 1
      BY <1>1, <2>2, <2>3
    <2>5. Cardinality(junk) = m - 1
      <3>1. Cardinality(1 .. m - 1) = m - 1
        BY <1>1, <2>2, CardUpTo
      <3> HIDE DEF junk
      <3>2. QED
        BY <2>4, <3>1
    <2>6. DropJunk(q) = SubSeq(q, (m - 1) + 1, Len(q))
      BY <2>5 DEF DropJunk
    <2>7. m - 1 \in 0 .. Len(q) /\ (m - 1) + 1 = m
      BY <1>1, <2>2
    <2> HIDE DEF inUse
    <2>8. QED
      BY <2>2, <2>3, <2>6, <2>7
  <1>4. QED
    BY <1>2, <1>3

(* The same, pack by pack.                                                       *)
LEMMA DropJunkPacks ==
  ASSUME NEW q \in Seq(Packs)
  PROVE  /\ DropJunk(q) \in Seq(Packs)
         /\ \E k \in 0 .. Len(q) :
              /\ Len(DropJunk(q)) = Len(q) - k
              /\ \A i \in 1 .. Len(q) - k : DropJunk(q)[i] = q[k + i]
              /\ \A j \in 1 .. k : q[j].num_threads = 0
         /\ DropJunk(q) # <<>> => DropJunk(q)[1].num_threads # 0
  <1>1. PICK k \in 0 .. Len(q) :
           /\ DropJunk(q) = SubSeq(q, k + 1, Len(q))
           /\ \A j \in 1 .. k : q[j].num_threads = 0
           /\ k < Len(q) => q[k + 1].num_threads # 0
    BY DropJunkSplit
  <1>2. Len(q) \in Nat /\ k \in Nat
    OBVIOUS
  <1>3. \A i \in k + 1 .. Len(q) : q[i] \in Packs
    BY <1>2, ElementOfSeq
  <1>4. /\ DropJunk(q) \in Seq(Packs)
        /\ Len(DropJunk(q)) = Len(q) - k
        /\ \A i \in 1 .. Len(q) - k : DropJunk(q)[i] = q[k + i]
    <2>1. /\ SubSeq(q, k + 1, Len(q)) \in Seq(Packs)
          /\ Len(SubSeq(q, k + 1, Len(q))) = IF k + 1 <= Len(q) THEN Len(q) - (k + 1) + 1 ELSE 0
          /\ \A i \in 1 .. Len(q) - (k + 1) + 1 : SubSeq(q, k + 1, Len(q))[i] = q[k + 1 + i - 1]
      BY <1>2, <1>3, SubSeqProperties
    <2>2. QED
      BY <1>1, <1>2, <2>1
  <1>5. DropJunk(q) # <<>> => DropJunk(q)[1].num_threads # 0
    <2>1. SUFFICES ASSUME DropJunk(q) # <<>>
                   PROVE  DropJunk(q)[1].num_threads # 0
      OBVIOUS
    <2>2. Len(q) - k > 0
      BY <1>2, <1>4, <2>1, EmptySeq
    <2>3. QED
      BY <1>1, <1>2, <1>4, <2>2
  <1>6. QED
    BY <1>1, <1>4, <1>5
-----------------------------------------------------------------------------
(* A pack with another count and other members is a pack of the same kind.       *)
Changed(pack, n, m) == [pack EXCEPT !.num_threads = n, !.members = m]

(* Whatever the count and the members.                                           *)
LEMMA ChangePack ==
  ASSUME NEW pack \in Packs, NEW n \in Int, NEW m \in SUBSET Threads
  PROVE  /\ Changed(pack, n, m) \in Packs /\ Changed(pack, n, m).num_threads = n
         /\ Changed(pack, n, m).members = m /\ RoleOf(Changed(pack, n, m)) = RoleOf(pack)
  <1>1. Changed(pack, n, m) \in Packs
    BY DEF Packs, Changed
  <1>2. Changed(pack, n, m).num_threads = n
    BY DEF Packs, Changed
  <1>3. Changed(pack, n, m).members = m
    BY DEF Packs, Changed
  <1>4. Changed(pack, n, m).is_writer = pack.is_writer
    BY DEF Packs, Changed
  <1>5. RoleOf(Changed(pack, n, m)) = RoleOf(pack)
    BY <1>4 DEF RoleOf
  <1>6. QED
    BY <1>1, <1>2, <1>3, <1>5

(* A new pack has one member.                                                    *)
LEMMA NewPackHasOne ==
  ASSUME NEW t \in Threads, NEW as \in {"reader", "writer"}
  PROVE  /\ NewPack(t, as) \in Packs /\ NewPack(t, as).num_threads = 1
         /\ NewPack(t, as).members = {t} /\ RoleOf(NewPack(t, as)) = as
  <1>1. NewPack(t, as) \in Packs
    BY DEF NewPack, Packs
  <1>2. /\ NewPack(t, as).num_threads = 1 /\ NewPack(t, as).members = {t}
        /\ NewPack(t, as).is_writer <=> as = "writer"
    BY DEF NewPack
  <1>3. RoleOf(NewPack(t, as)) = as
    BY <1>2 DEF RoleOf
  <1>4. QED
    BY <1>1, <1>2, <1>3

(* The threads are finitely many, and so is every set of them.                   *)
LEMMA FiniteThreads ==
  ASSUME NEW S, S \subseteq Threads
  PROVE  IsFiniteSet(S) /\ Cardinality(S) \in Nat /\ (Cardinality(S) = 0 <=> S = {})
  <1>1. IsFiniteSet(S)
    BY RWLockAssumption, FS_Subset
  <1>2. QED
    BY <1>1, FS_CardinalityType, FS_EmptySet

(* In a tidy queue a pack counts nobody only if nobody waits in it.              *)
LEMMA TidyCount ==
  ASSUME NEW q \in Seq(Packs), NEW f, NEW r, Tidy(q, f, r), NEW i \in 1 .. Len(q)
  PROVE  /\ q[i] \in Packs /\ q[i].members \subseteq Threads
         /\ q[i].num_threads = 0 <=> q[i].members = {}
  <1>1. q[i] \in Packs
    BY ElementOfSeq
  <1>2. q[i].members \subseteq Threads
    BY <1>1 DEF Packs
  <1>3. QED
    BY <1>1, <1>2, FiniteThreads DEF Tidy

(* Who waits is all of the threads' places that a tidy queue depends on.         *)
LEMMA TidyElsewhere ==
  ASSUME NEW q \in Seq(Packs), NEW f, NEW r, NEW g, NEW s, Tidy(q, f, r),
         \A t \in Threads : /\ g[t] \in Waits <=> f[t] \in Waits
                            /\ f[t] \in Waits => s[t] = r[t]
  PROVE  Tidy(q, g, s)
  <1>1. \A i \in 1 .. Len(q) : \A t \in q[i].members : t \in Threads /\ f[t] \in Waits
    BY TidyCount DEF Tidy, In
  <1>2. QED
    BY <1>1 DEF Tidy

(* Dropping packs that are empty leaves the queue tidy, and at its head is a pack *)
(* that somebody waits in.                                                       *)
LEMMA TidyDropJunk ==
  ASSUME NEW q \in Seq(Packs), NEW f, NEW r, Tidy(q, f, r)
  PROVE  /\ Tidy(DropJunk(q), f, r)
         /\ DropJunk(q) # <<>> => /\ 1 \in 1 .. Len(DropJunk(q))
                                  /\ Head(DropJunk(q)) = DropJunk(q)[1]
                                  /\ DropJunk(q)[1].members # {}
  <1> DEFINE d == DropJunk(q)
  <1>1. PICK k \in 0 .. Len(q) :
           /\ Len(d) = Len(q) - k
           /\ \A i \in 1 .. Len(q) - k : d[i] = q[k + i]
           /\ \A j \in 1 .. k : q[j].num_threads = 0
    BY DropJunkPacks
  <1>2. d \in Seq(Packs) /\ (d # <<>> => d[1].num_threads # 0)
    BY DropJunkPacks
  <1> HIDE DEF d
  <1>3. Len(q) \in Nat /\ k \in Nat
    OBVIOUS
  <1>4. \A i \in 1 .. Len(d) : k + i \in 1 .. Len(q) /\ d[i] = q[k + i]
    BY <1>1, <1>3
  <1>5. \A j \in 1 .. k : q[j].members = {}
    BY <1>1, <1>3, TidyCount
  <1>6. \A t : In(d, t) <=> In(q, t)
    <2>1. ASSUME NEW t, NEW j \in 1 .. Len(q), t \in q[j].members
          PROVE  In(d, t)
      <3>1. j - k \in 1 .. Len(d)
        BY <1>1, <1>3, <1>5, <2>1
      <3>2. d[j - k] = q[j]
        BY <1>3, <1>4, <3>1
      <3>3. QED
        BY <2>1, <3>1, <3>2 DEF In
    <2>2. QED
      BY <1>4, <2>1 DEF In
  <1>7. Tidy(d, f, r)
    <2>1. \A i, j \in 1 .. Len(d) : i # j => d[i].members \cap d[j].members = {}
      <3>1. \A i, j \in 1 .. Len(d) : i # j => k + i # k + j
        BY <1>3
      <3>2. QED
        BY <1>4, <3>1 DEF Tidy
    <2>2. QED
      BY <1>4, <1>6, <2>1 DEF Tidy
  <1>8. d # <<>> => 1 \in 1 .. Len(d) /\ Head(d) = d[1] /\ d[1].members # {}
    <2>1. SUFFICES ASSUME d # <<>>
                   PROVE  1 \in 1 .. Len(d) /\ Head(d) = d[1] /\ d[1].members # {}
      OBVIOUS
    <2>2. 1 \in 1 .. Len(d) /\ Head(d) = d[1]
      BY <1>2, <2>1
    <2>3. QED
      BY <1>2, <1>7, <2>1, <2>2, TidyCount
  <1>9. QED
    BY <1>7, <1>8 DEF d
-----------------------------------------------------------------------------
(* Thread t, in no pack, waits for the role as from now on; nobody else moves.   *)
StartsToWait(f, r, g, s, t, as) ==
  /\ f[t] \notin Waits /\ g[t] \in Waits /\ s[t] = as
  /\ \A u \in Threads \ {t} : g[u] = f[u] /\ s[u] = r[u]

(* A thread that joins the last pack, which is of its kind, keeps the queue tidy. *)
LEMMA TidyJoin ==
  ASSUME NEW q \in Seq(Packs), NEW f, NEW r, NEW g, NEW s, NEW t \in Threads, NEW as,
         Tidy(q, f, r), StartsToWait(f, r, g, s, t, as),
         q # <<>>, RoleOf(q[Len(q)]) = as
  PROVE  JoinLast(q, t) \in Seq(Packs) /\ Tidy(JoinLast(q, t), g, s)
  <1> DEFINE n == Len(q)
             e == Changed(q[n], q[n].num_threads + 1, q[n].members \cup {t})
             d == JoinLast(q, t)
  <1>1. n \in Nat /\ n \in 1 .. n
    BY EmptySeq
  <1>2. q[n] \in Packs
    BY <1>1, ElementOfSeq
  <1>3. /\ e \in Packs /\ e.num_threads = q[n].num_threads + 1
        /\ e.members = q[n].members \cup {t} /\ RoleOf(e) = RoleOf(q[n])
    <2>1. q[n].num_threads + 1 \in Int /\ q[n].members \cup {t} \in SUBSET Threads
      BY <1>2 DEF Packs
    <2>2. QED
      BY <1>2, <2>1, ChangePack
  <1>4. d = [q EXCEPT ![n] = e]
    BY <1>1, <1>2 DEF JoinLast, Packs, Changed
  <1> HIDE DEF d, e
  <1>5. /\ d \in Seq(Packs) /\ Len(d) = n
        /\ \A i \in 1 .. n : d[i] = IF i = n THEN e ELSE q[i]
    BY <1>1, <1>3, <1>4, ExceptSeq
  <1> HIDE DEF n
  <1>6. \A i \in 1 .. n : q[i].members \subseteq Threads \ {t}
    BY TidyCount DEF Tidy, In, StartsToWait, n
  <1>7. e.num_threads = Cardinality(e.members)
    <2>1. IsFiniteSet(q[n].members) /\ t \notin q[n].members
      BY <1>1, <1>6, FiniteThreads
    <2>2. QED
      BY <1>1, <1>3, <2>1, FS_AddElement DEF Tidy, n
  <1>8. \A u \in Threads : g[u] \in Waits <=> In(d, u)
    <2>1. \A u \in Threads : In(d, u) <=> In(q, u) \/ u = t
      BY <1>1, <1>3, <1>5 DEF In, n
    <2>2. QED
      BY <2>1 DEF Tidy, StartsToWait
  <1>9. \A i \in 1 .. n : \A u \in d[i].members : s[u] = RoleOf(d[i])
    <2>1. \A i \in 1 .. n : \A u \in d[i].members :
            /\ u # t => u \in q[i].members /\ RoleOf(d[i]) = RoleOf(q[i])
            /\ u = t => RoleOf(d[i]) = as
      BY <1>1, <1>3, <1>5, <1>6 DEF n
    <2>2. \A i \in 1 .. n : \A u \in q[i].members : r[u] = RoleOf(q[i]) /\ s[u] = r[u]
      BY <1>6 DEF Tidy, StartsToWait, n
    <2>3. s[t] = as
      BY DEF StartsToWait
    <2>4. ASSUME NEW i \in 1 .. n, NEW u \in d[i].members
          PROVE  s[u] = RoleOf(d[i])
      <3>1. CASE u = t
        BY <2>1, <2>3, <3>1
      <3>2. CASE u # t
        <4>1. u \in q[i].members /\ RoleOf(d[i]) = RoleOf(q[i])
          BY <2>1, <3>2
        <4>2. QED
          BY <2>2, <4>1
      <3>3. QED
        BY <3>1, <3>2
    <2>5. QED
      BY <2>4
  <1>10. \A i, j \in 1 .. n : i # j => d[i].members \cap d[j].members = {}
    BY <1>1, <1>3, <1>5, <1>6 DEF Tidy, n
  <1>11. Tidy(d, g, s)
    BY <1>5, <1>7, <1>8, <1>9, <1>10 DEF Tidy, n
  <1>12. QED
    BY <1>5, <1>11 DEF d

(* So does one that starts a pack of its own.                                    *)
LEMMA TidyNew ==
  ASSUME NEW q \in Seq(Packs), NEW f, NEW r, NEW g, NEW s, NEW t \in Threads,
         NEW as \in {"reader", "writer"},
         Tidy(q, f, r), StartsToWait(f, r, g, s, t, as)
  PROVE  /\ Append(q, NewPack(t, as)) \in Seq(Packs)
         /\ Tidy(Append(q, NewPack(t, as)), g, s)
  <1> DEFINE n == Len(q)
             e == NewPack(t, as)
             d == Append(q, e)
  <1>1. n \in Nat
    OBVIOUS
  <1>2. e \in Packs /\ e.num_threads = 1 /\ e.members = {t} /\ RoleOf(e) = as
    BY NewPackHasOne
  <1> HIDE DEF e
  <1>3. /\ d \in Seq(Packs) /\ Len(d) = n + 1
        /\ \A i \in 1 .. n : d[i] = q[i]
        /\ d[n + 1] = e
    BY <1>2, AppendProperties
  <1> HIDE DEF d, n
  <1>4. \A i \in 1 .. n : q[i].members \subseteq Threads \ {t}
    BY TidyCount DEF Tidy, In, StartsToWait, n
  <1>5. \A i \in 1 .. n + 1 : i \in 1 .. n \/ i = n + 1
    BY <1>1
  <1>6. \A i \in 1 .. n + 1 : d[i].num_threads = Cardinality(d[i].members)
    <2>1. \A i \in 1 .. n : d[i].num_threads = Cardinality(d[i].members)
      BY <1>3 DEF Tidy, n
    <2>2. d[n + 1].num_threads = Cardinality(d[n + 1].members)
      BY <1>2, <1>3, FS_Singleton
    <2>3. QED
      BY <1>5, <2>1, <2>2
  <1>7. \A u \in Threads : g[u] \in Waits <=> In(d, u)
    <2>1. \A u \in Threads : In(d, u) <=> In(q, u) \/ u = t
      BY <1>1, <1>2, <1>3, <1>5 DEF In, n
    <2>2. QED
      BY <2>1 DEF Tidy, StartsToWait
  <1>8. \A i \in 1 .. n + 1 : \A u \in d[i].members : s[u] = RoleOf(d[i])
    <2>1. \A i \in 1 .. n : \A u \in d[i].members : s[u] = RoleOf(d[i])
      BY <1>3, <1>4 DEF Tidy, StartsToWait, n
    <2>2. \A u \in d[n + 1].members : s[u] = RoleOf(d[n + 1])
      BY <1>2, <1>3 DEF StartsToWait
    <2>3. QED
      BY <1>5, <2>1, <2>2
  <1>9. \A i, j \in 1 .. n + 1 : i # j => d[i].members \cap d[j].members = {}
    BY <1>2, <1>3, <1>4, <1>5 DEF Tidy, n
  <1>10. Tidy(d, g, s)
    BY <1>3, <1>6, <1>7, <1>8, <1>9 DEF Tidy
  <1>11. QED
    BY <1>3, <1>10 DEF d, e

(* Both ways of joining the queue keep it tidy.                                  *)
LEMMA TidyJoins ==
  ASSUME NEW q \in Seq(Packs), NEW f, NEW r, NEW g, NEW s, NEW t \in Threads, Tidy(q, f, r)
  PROVE  /\ StartsToWait(f, r, g, s, t, "writer") =>
              WriterJoins(q, t) \in Seq(Packs) /\ Tidy(WriterJoins(q, t), g, s)
         /\ StartsToWait(f, r, g, s, t, "reader") =>
              ReaderJoins(q, t) \in Seq(Packs) /\ Tidy(ReaderJoins(q, t), g, s)
  <1>1. ASSUME StartsToWait(f, r, g, s, t, "writer")
        PROVE  WriterJoins(q, t) \in Seq(Packs) /\ Tidy(WriterJoins(q, t), g, s)
    BY <1>1, TidyJoin, TidyNew DEF WriterJoins, RoleOf
  <1>2. ASSUME StartsToWait(f, r, g, s, t, "reader")
        PROVE  ReaderJoins(q, t) \in Seq(Packs) /\ Tidy(ReaderJoins(q, t), g, s)
    BY <1>2, TidyJoin, TidyNew DEF ReaderJoins, RoleOf
  <1>3. QED
    BY <1>1, <1>2

(* A pack after thread t has left it.                                            *)
Without(pack, t) ==
  IF t \in pack.members
  THEN [pack EXCEPT !.num_threads = @ - 1, !.members = @ \ {t}]
  ELSE pack

(* It is a pack of the same kind, and counts t no more.                          *)
LEMMA WithoutOne ==
  ASSUME NEW pack \in Packs, NEW t, pack.num_threads = Cardinality(pack.members)
  PROVE  /\ Without(pack, t) \in Packs
         /\ Without(pack, t).members = pack.members \ {t}
         /\ RoleOf(Without(pack, t)) = RoleOf(pack)
         /\ Without(pack, t).num_threads = Cardinality(pack.members \ {t})
  <1>1. IsFiniteSet(pack.members) /\ Cardinality(pack.members) \in Nat
    BY FiniteThreads DEF Packs
  <1>2. Cardinality(pack.members \ {t})
          = IF t \in pack.members THEN pack.num_threads - 1 ELSE pack.num_threads
    BY <1>1, FS_RemoveElement
  <1>3. CASE t \in pack.members
    <2> DEFINE e == Changed(pack, pack.num_threads - 1, pack.members \ {t})
    <2>1. /\ e \in Packs /\ e.num_threads = pack.num_threads - 1
          /\ e.members = pack.members \ {t} /\ RoleOf(e) = RoleOf(pack)
      <3>1. pack.num_threads - 1 \in Int /\ pack.members \ {t} \in SUBSET Threads
        BY DEF Packs
      <3>2. QED
        BY <3>1, ChangePack
    <2>2. Without(pack, t) = e
      BY <1>3 DEF Without, Changed
    <2> HIDE DEF e
    <2>3. QED
      BY <1>2, <1>3, <2>1, <2>2
  <1>4. CASE t \notin pack.members
    BY <1>2, <1>4 DEF Without
  <1>5. QED
    BY <1>3, <1>4

(* The packs of d are those of q without t.                                      *)
Less(d, q, t) ==
  /\ Len(d) = Len(q)
  /\ \A i \in 1 .. Len(q) : /\ d[i].members = q[i].members \ {t}
                            /\ d[i].num_threads = Cardinality(q[i].members \ {t})
                            /\ RoleOf(d[i]) = RoleOf(q[i])

(* Such a queue is tidy once t waits no more.                                    *)
LEMMA TidyLess ==
  ASSUME NEW q \in Seq(Packs), NEW f, NEW r, NEW g, NEW t \in Threads, NEW d \in Seq(Packs),
         Tidy(q, f, r), g[t] \notin Waits,
         \A u \in Threads \ {t} : g[u] \in Waits <=> f[u] \in Waits,
         Less(d, q, t)
  PROVE  Tidy(d, g, r)
  <1>1. \A i \in 1 .. Len(d) : d[i].num_threads = Cardinality(d[i].members)
    BY DEF Less
  <1>2. \A u \in Threads : g[u] \in Waits <=> In(d, u)
    <2>1. \A u \in Threads : In(d, u) <=> In(q, u) /\ u # t
      BY DEF In, Less
    <2>2. QED
      BY <2>1 DEF Tidy
  <1>3. \A i \in 1 .. Len(d) : \A u \in d[i].members : r[u] = RoleOf(d[i])
    BY DEF Tidy, Less
  <1>4. \A i, j \in 1 .. Len(d) : i # j => d[i].members \cap d[j].members = {}
    <2>1. \A i \in 1 .. Len(d) : i \in 1 .. Len(q) /\ d[i].members \subseteq q[i].members
      BY DEF Less
    <2>2. \A i, j \in 1 .. Len(q) : i # j => q[i].members \cap q[j].members = {}
      BY DEF Tidy
    <2>3. QED
      BY <2>1, <2>2
  <1>5. QED
    BY <1>1, <1>2, <1>3, <1>4 DEF Tidy

(* A thread that gives up leaves the queue tidy.                                 *)
LEMMA TidyLeave ==
  ASSUME NEW q \in Seq(Packs), NEW f, NEW r, NEW g, NEW t \in Threads, NEW d,
         Tidy(q, f, r), g[t] \notin Waits,
         \A u \in Threads \ {t} : g[u] = f[u],
         d = [i \in 1 .. Len(q) |-> Without(q[i], t)]
  PROVE  Tidy(d, g, r)
  <1> DEFINE n == Len(q)
  <1>1. n \in Nat
    OBVIOUS
  <1>2. \A i \in 1 .. n : q[i] \in Packs /\ q[i].num_threads = Cardinality(q[i].members)
    BY ElementOfSeq DEF Tidy
  <1>3. \A i \in 1 .. n :
          /\ Without(q[i], t) \in Packs
          /\ Without(q[i], t).members = q[i].members \ {t}
          /\ RoleOf(Without(q[i], t)) = RoleOf(q[i])
          /\ Without(q[i], t).num_threads = Cardinality(q[i].members \ {t})
    BY <1>2, WithoutOne
  <1>4. d \in Seq(Packs) /\ Len(d) = n /\ \A i \in 1 .. n : d[i] = Without(q[i], t)
    <2>1. d \in [1 .. n -> Packs] /\ DOMAIN d = 1 .. n
      BY <1>3
    <2> HIDE DEF n
    <2>2. d \in Seq(Packs)
      BY <1>1, <2>1, SeqDef
    <2>3. Len(d) \in Nat /\ DOMAIN d = 1 .. Len(d)
      BY <2>2, LenProperties
    <2>4. Len(d) = n
      BY <1>1, <2>1, <2>3
    <2>5. \A i \in 1 .. n : d[i] = Without(q[i], t)
      BY DEF n
    <2>6. QED
      BY <2>2, <2>4, <2>5
  <1>5. Less(d, q, t)
    BY <1>3, <1>4 DEF Less
  <1>6. QED
    BY <1>4, <1>5, TidyLess
-----------------------------------------------------------------------------
(* The pack once a thread of it has been let in.                                 *)
Admitted(pack, woken) ==
  [pack EXCEPT !.num_threads = @ - 1, !.was_first_thr_accepted = TRUE,
               !.members = @ \ woken]

(* It is a pack of the same kind, and counts one thread less.                    *)
LEMMA AdmittedOne ==
  ASSUME NEW pack \in Packs, NEW woken
  PROVE  /\ Admitted(pack, woken) \in Packs
         /\ Admitted(pack, woken).num_threads = pack.num_threads - 1
         /\ Admitted(pack, woken).members = pack.members \ woken
         /\ RoleOf(Admitted(pack, woken)) = RoleOf(pack)
  <1>1. pack.num_threads - 1 \in Int /\ pack.members \ woken \in SUBSET Threads
    BY DEF Packs
  <1>2. Admitted(pack, woken) \in Packs
    BY <1>1 DEF Packs, Admitted
  <1>3. Admitted(pack, woken).num_threads = pack.num_threads - 1
    BY DEF Packs, Admitted
  <1>4. Admitted(pack, woken).members = pack.members \ woken
    BY DEF Packs, Admitted
  <1>5. Admitted(pack, woken).is_writer = pack.is_writer
    BY DEF Packs, Admitted
  <1>6. RoleOf(Admitted(pack, woken)) = RoleOf(pack)
    BY <1>5 DEF RoleOf
  <1>7. QED
    BY <1>2, <1>3, <1>4, <1>6

(* A queue whose first pack is put in place of another.                          *)
LEMMA FirstPack ==
  ASSUME NEW q \in Seq(Packs), q # <<>>, NEW e \in Packs
  PROVE  /\ <<e>> \o Tail(q) \in Seq(Packs)
         /\ Len(<<e>> \o Tail(q)) = Len(q)
         /\ \A i \in 1 .. Len(q) : (<<e>> \o Tail(q))[i] = IF i = 1 THEN e ELSE q[i]
  <1>1. /\ Tail(q) \in Seq(Packs) /\ Len(Tail(q)) = Len(q) - 1
        /\ \A i \in 1 .. Len(Tail(q)) : Tail(q)[i] = q[i + 1]
    BY HeadTailProperties
  <1>2. <<e>> \in Seq(Packs) /\ Len(<<e>>) = 1 /\ <<e>>[1] = e
    OBVIOUS
  <1>3. Len(q) \in Nat /\ Len(q) > 0
    BY EmptySeq
  <1> DEFINE a == <<e>>
             b == Tail(q)
  <1> HIDE DEF a, b
  <1>4. /\ a \o b \in Seq(Packs) /\ Len(a \o b) = Len(a) + Len(b)
        /\ \A i \in 1 .. Len(a) + Len(b) :
             (a \o b)[i] = IF i <= Len(a) THEN a[i] ELSE b[i - Len(a)]
    BY <1>1, <1>2, ConcatProperties DEF a, b
  <1>5. \A i \in 1 .. Len(q) : (a \o b)[i] = IF i = 1 THEN e ELSE q[i]
    BY <1>1, <1>2, <1>3, <1>4 DEF a, b
  <1>6. Len(a \o b) = Len(q)
    BY <1>1, <1>2, <1>3, <1>4 DEF a, b
  <1>7. QED
    BY <1>4, <1>5, <1>6 DEF a, b

(* The queue is tidy when one writer of the first pack has been let in.          *)
LEMMA TidyAdmitOne ==
  ASSUME NEW q \in Seq(Packs), q # <<>>, NEW f, NEW r, NEW g, NEW m,
         Tidy(q, f, r), m \in q[1].members, g[m] \notin Waits,
         \A u \in Threads \ {m} : g[u] = f[u]
  PROVE  Tidy(<<Admitted(q[1], {m})>> \o Tail(q), g, r)
  <1> DEFINE e == Admitted(q[1], {m})
             d == <<e>> \o Tail(q)
  <1>1. Len(q) \in Nat /\ 1 \in 1 .. Len(q)
    BY EmptySeq
  <1>2. q[1] \in Packs /\ m \in Threads /\ IsFiniteSet(q[1].members)
    BY <1>1, TidyCount, FiniteThreads
  <1>3. /\ e \in Packs /\ e.num_threads = q[1].num_threads - 1
        /\ e.members = q[1].members \ {m} /\ RoleOf(e) = RoleOf(q[1])
    BY <1>2, AdmittedOne
  <1> HIDE DEF e
  <1>4. /\ d \in Seq(Packs) /\ Len(d) = Len(q)
        /\ \A i \in 1 .. Len(q) : d[i] = IF i = 1 THEN e ELSE q[i]
    BY <1>3, FirstPack
  <1> HIDE DEF d
  <1>5. e.num_threads = Cardinality(q[1].members \ {m})
    <2>1. q[1].num_threads = Cardinality(q[1].members)
      BY <1>1 DEF Tidy
    <2>2. Cardinality(q[1].members \ {m}) = Cardinality(q[1].members) - 1
      BY <1>2, FS_RemoveElement
    <2>3. QED
      BY <1>3, <2>1, <2>2
  <1>6. \A i \in 1 .. Len(q) : i # 1 => q[i].members \ {m} = q[i].members
    BY <1>1 DEF Tidy
  <1>7. Less(d, q, m)
    <2>1. \A i \in 1 .. Len(q) : q[i].num_threads = Cardinality(q[i].members)
      BY DEF Tidy
    <2>2. QED
      BY <1>3, <1>4, <1>5, <1>6, <2>1 DEF Less
  <1>8. Tidy(d, g, r)
    BY <1>2, <1>4, <1>7, TidyLess
  <1>9. QED
    BY <1>8 DEF d, e

(* It is tidy without the first pack when all of that one have been let in.      *)
LEMMA TidyAdmitAll ==
  ASSUME NEW q \in Seq(Packs), q # <<>>, NEW f, NEW r, NEW g, Tidy(q, f, r),
         \A u \in Threads : g[u] = IF u \in q[1].members THEN "granted" ELSE f[u]
  PROVE  Tail(q) \in Seq(Packs) /\ Tidy(Tail(q), g, r)
  <1> DEFINE d == Tail(q)
  <1>1. /\ d \in Seq(Packs) /\ Len(d) = Len(q) - 1
        /\ \A i \in 1 .. Len(d) : d[i] = q[i + 1]
    BY HeadTailProperties
  <1>2. Len(q) \in Nat /\ 1 \in 1 .. Len(q)
    BY EmptySeq
  <1> HIDE DEF d
  <1>3. \A i \in 1 .. Len(d) : d[i] = q[i + 1] /\ i + 1 \in 1 .. Len(q) /\ i + 1 # 1
    BY <1>1, <1>2
  <1>4. \A u : In(q, u) <=> In(d, u) \/ u \in q[1].members
    <2>1. \A i \in 1 .. Len(q) : i # 1 => i - 1 \in 1 .. Len(d) /\ d[i - 1] = q[i]
      BY <1>1, <1>2
    <2>2. QED
      BY <1>2, <1>3, <2>1 DEF In
  <1>5. \A u \in q[1].members : ~In(d, u)
    BY <1>2, <1>3 DEF In, Tidy
  <1>6. \A u \in Threads : g[u] \in Waits <=> In(d, u)
    BY <1>4, <1>5 DEF Tidy, Waits
  <1>7. \A i, j \in 1 .. Len(d) : i # j => d[i].members \cap d[j].members = {}
    <2>1. \A i, j \in 1 .. Len(d) : i # j => i + 1 # j + 1
      BY <1>1, <1>2
    <2>2. QED
      BY <1>3, <2>1 DEF Tidy
  <1>8. \A i \in 1 .. Len(d) : /\ d[i].num_threads = Cardinality(d[i].members)
                               /\ \A u \in d[i].members : r[u] = RoleOf(d[i])
    BY <1>3 DEF Tidy
  <1>9. Tidy(d, g, r)
    BY <1>6, <1>7, <1>8 DEF Tidy
  <1>10. QED
    BY <1>1, <1>9 DEF d
-----------------------------------------------------------------------------
(* A writer is let in, or nobody when none is awake.                              *)
LEMMA AcceptWriterIs ==
  ASSUME NEW q, NEW among, AcceptWriter(q, among)
  PROVE  \E woken \in {{}} \cup {{m} : m \in Head(q).members} :
           /\ queue' = DropJunk(<<Admitted(Head(q), woken)>> \o Tail(q))
           /\ pc' = [m \in Threads |-> IF m \in woken THEN "granted" ELSE among[m]]
           /\ status' = "writer"
           /\ lostGrant' = (lostGrant \/ woken = {})
           /\ num_pending_readers' = num_pending_readers
  <1> DEFINE awake == {m \in Head(q).members : among[m] # "late"}
             Lets(woken) ==
               /\ queue' = DropJunk(<<Admitted(Head(q), woken)>> \o Tail(q))
               /\ pc' = [m \in Threads |-> IF m \in woken THEN "granted" ELSE among[m]]
               /\ status' = "writer"
               /\ lostGrant' = (lostGrant \/ woken = {})
               /\ num_pending_readers' = num_pending_readers
  <1>1. \E woken \in IF awake = {} THEN {{}} ELSE {{m} : m \in awake} : Lets(woken)
    BY DEF AcceptWriter, Admitted
  <1> HIDE DEF Lets
  <1>2. \E woken \in {{}} \cup {{m} : m \in Head(q).members} : Lets(woken)
    BY <1>1
  <1>3. QED
    BY <1>2 DEF Lets

(* What letting in the head of a queue without junk changes keeps its type.      *)
LEMMA AcceptType ==
  ASSUME TypeOK, NEW among \in [Threads -> PCs], AcceptPendingItems(among)
  PROVE  /\ queue' \in Seq(Packs) /\ pc' \in [Threads -> PCs]
         /\ status' \in {"unlocked", "readers", "writer"}
         /\ num_pending_readers' \in Int /\ lostGrant' \in BOOLEAN
  <1> DEFINE q == DropJunk(queue)
  <1>1. q \in Seq(Packs)
    BY DropJunkPacks DEF TypeOK, Packs
  <1> HIDE DEF q
  <1>2. num_pending_readers \in Int /\ lostGrant \in BOOLEAN
    BY DEF TypeOK
  <1>3. CASE q = <<>>
    BY <1>1, <1>2, <1>3 DEF AcceptPendingItems, q
  <1>4. CASE q # <<>> /\ Head(q).is_writer
    <2>1. AcceptWriter(q, among)
      BY <1>4 DEF AcceptPendingItems, q
    <2>2. PICK woken :
            /\ queue' = DropJunk(<<Admitted(Head(q), woken)>> \o Tail(q))
            /\ pc' = [m \in Threads |-> IF m \in woken THEN "granted" ELSE among[m]]
            /\ status' = "writer"
            /\ lostGrant' = (lostGrant \/ woken = {})
            /\ num_pending_readers' = num_pending_readers
      BY <2>1, AcceptWriterIs
    <2>3. Head(q) \in Packs
      BY <1>1, <1>4, HeadTailProperties
    <2>4. <<Admitted(Head(q), woken)>> \o Tail(q) \in Seq(Packs)
      BY <1>1, <1>4, <2>3, AdmittedOne, FirstPack
    <2>5. queue' \in Seq(Packs)
      BY <2>2, <2>4, DropJunkPacks
    <2>6. pc' \in [Threads -> PCs]
      BY <2>2 DEF PCs
    <2>7. QED
      BY <1>2, <2>2, <2>5, <2>6
  <1>5. CASE q # <<>> /\ ~Head(q).is_writer
    <2>1. AcceptReaders(q, among)
      BY <1>5 DEF AcceptPendingItems, q
    <2>2. Head(q) \in Packs /\ Tail(q) \in Seq(Packs)
      BY <1>1, <1>5, HeadTailProperties
    <2>3. queue' \in Seq(Packs)
      BY <2>1, <2>2, DropJunkPacks DEF AcceptReaders
    <2>4. pc' \in [Threads -> PCs]
      BY <2>1 DEF AcceptReaders, PCs
    <2>5. num_pending_readers' \in Int
      BY <2>1, <2>2 DEF AcceptReaders, Packs
    <2>6. QED
      BY <1>2, <2>1, <2>3, <2>4, <2>5 DEF AcceptReaders
  <1>6. QED
    BY <1>3, <1>4, <1>5

(* Letting in one writer, who wakes, or the head's readers, who all do, leaves   *)
(* the queue tidy and the counters right.                                        *)
LEMMA AcceptKeeps ==
  ASSUME TypeOK, NEW among \in [Threads -> PCs], AcceptPendingItems(among),
         ~lostGrant', role' = role,
         Tidy(queue, among, role), ToWake(among, role) = {}, num_pending_readers = 0,
         num_readers' = Cardinality(LetInBy(among))
  PROVE  /\ Tidy(queue', pc', role')
         /\ Counts(num_readers', num_pending_readers', status', pc', role')
         /\ NotFree(status', pc')
  <1> DEFINE q == DropJunk(queue)
  <1>1. /\ q \in Seq(Packs) /\ Tidy(q, among, role)
        /\ q # <<>> => 1 \in 1 .. Len(q) /\ Head(q) = q[1] /\ q[1].members # {}
    BY DropJunkPacks, TidyDropJunk DEF TypeOK, Packs
  <1> HIDE DEF q
  <1>2. IsFiniteSet(LetInBy(among)) /\ Cardinality(LetInBy(among)) \in Nat
    BY FiniteThreads DEF LetInBy
  <1>3. CASE q = <<>>
    <2>1. queue' = q /\ pc' = among /\ status' = "unlocked" /\ num_pending_readers' = 0
      BY <1>3 DEF AcceptPendingItems, q
    <2>2. NotFree(status', pc')
      BY <1>1, <1>3, <2>1 DEF NotFree, Tidy, In
    <2>3. Tidy(queue', pc', role')
      BY <1>1, <2>1
    <2>4. Cardinality(ToWake(pc', role')) = 0
      BY <2>1, FS_EmptySet
    <2>5. num_readers' = Cardinality(LetInBy(pc'))
      BY <2>1
    <2>6. Counts(num_readers', num_pending_readers', status', pc', role')
      BY <1>2, <2>1, <2>4, <2>5 DEF Counts
    <2>7. QED
      BY <2>2, <2>3, <2>6
  <1>4. CASE q # <<>> /\ Head(q).is_writer
    <2>1. AcceptWriter(q, among)
      BY <1>4 DEF AcceptPendingItems, q
    <2>2. PICK woken \in {{}} \cup {{m} : m \in Head(q).members} :
            /\ queue' = DropJunk(<<Admitted(Head(q), woken)>> \o Tail(q))
            /\ pc' = [m \in Threads |-> IF m \in woken THEN "granted" ELSE among[m]]
            /\ status' = "writer"
            /\ lostGrant' = (lostGrant \/ woken = {})
            /\ num_pending_readers' = num_pending_readers
      BY <2>1, AcceptWriterIs
    <2>3. PICK m \in q[1].members : woken = {m}
      <3>1. woken # {}
        BY <2>2
      <3>2. QED
        BY <1>1, <1>4, <3>1
    <2>4. m \in Threads /\ q[1] \in Packs /\ among[m] \in Waits /\ role[m] = "writer"
      <3>1. m \in Threads /\ q[1] \in Packs
        BY <1>1, <1>4, TidyCount
      <3>2. among[m] \in Waits
        BY <1>1, <1>4, <3>1 DEF Tidy, In
      <3>3. RoleOf(q[1]) = "writer"
        BY <1>1, <1>4 DEF RoleOf
      <3>4. QED
        BY <1>1, <1>4, <3>1, <3>2, <3>3 DEF Tidy
    <2>5. pc' = [u \in Threads |-> IF u = m THEN "granted" ELSE among[u]]
      BY <2>2, <2>3
    <2>6. <<Admitted(q[1], {m})>> \o Tail(q) \in Seq(Packs)
      BY <1>1, <1>4, <2>4, AdmittedOne, FirstPack
    <2>7. Tidy(<<Admitted(q[1], {m})>> \o Tail(q), pc', role)
      BY <1>1, <1>4, <2>4, <2>5, TidyAdmitOne DEF Waits
    <2>8. Tidy(queue', pc', role')
      BY <1>1, <1>4, <2>2, <2>3, <2>6, <2>7, TidyDropJunk
    <2>9. LetInBy(pc') = LetInBy(among) \cup {m} /\ m \notin LetInBy(among)
      BY <2>4, <2>5 DEF LetInBy, Waits
    <2>10. Cardinality(LetInBy(pc')) = Cardinality(LetInBy(among)) + 1
      BY <1>2, <2>9, FS_AddElement
    <2>11. ToWake(pc', role') = {}
      BY <2>4, <2>5 DEF ToWake
    <2>12. Counts(num_readers', num_pending_readers', status', pc', role')
      <3>1. Cardinality(ToWake(pc', role')) = 0
        BY <2>11, FS_EmptySet
      <3>2. num_pending_readers' = 0 /\ status' = "writer"
        BY <2>2
      <3>3. QED
        BY <1>2, <2>10, <3>1, <3>2 DEF Counts
    <2>13. QED
      BY <2>2, <2>8, <2>12 DEF NotFree
  <1>5. CASE q # <<>> /\ ~Head(q).is_writer
    <2> DEFINE M == q[1].members
    <2>1. AcceptReaders(q, among)
      BY <1>5 DEF AcceptPendingItems, q
    <2>2. /\ q[1] \in Packs /\ M \subseteq Threads /\ M # {}
          /\ q[1].num_threads = Cardinality(M)
      BY <1>1, <1>5, TidyCount DEF Tidy
    <2>3. IsFiniteSet(M) /\ Cardinality(M) \in Nat /\ Cardinality(M) # 0
      BY <2>2, FiniteThreads
    <2>4. \A m \in M : m \in Threads /\ among[m] \in Waits /\ role[m] = "reader"
      BY <1>1, <1>5, <2>2 DEF Tidy, In, RoleOf
    <2> HIDE DEF M
    <2>5. {m \in M : among[m] # "late"} = M
      <3> DEFINE A == {m \in M : among[m] # "late"}
      <3>1. Cardinality(A) = Cardinality(M)
        BY <1>1, <1>5, <2>1, <2>2 DEF AcceptReaders, M
      <3>2. A \in SUBSET M
        OBVIOUS
      <3> HIDE DEF A
      <3>3. QED
        BY <2>3, <3>1, <3>2, FS_Subset DEF A
    <2>6. /\ queue' = DropJunk(Tail(q))
          /\ pc' = [m \in Threads |-> IF m \in M THEN "granted" ELSE among[m]]
          /\ status' = "readers" /\ num_pending_readers' = Cardinality(M)
      BY <1>1, <1>5, <2>1, <2>2, <2>5 DEF AcceptReaders, M
    <2>7. Tail(q) \in Seq(Packs) /\ Tidy(Tail(q), pc', role)
      BY <1>1, <1>5, <2>6, TidyAdmitAll DEF M
    <2>8. Tidy(queue', pc', role')
      BY <2>6, <2>7, TidyDropJunk
    <2>9. LetInBy(pc') = LetInBy(among) \cup M /\ LetInBy(among) \cap M = {}
      BY <2>4, <2>6 DEF LetInBy, Waits
    <2>10. Cardinality(LetInBy(pc')) = Cardinality(LetInBy(among)) + Cardinality(M)
      BY <1>2, <2>3, <2>9, FS_Union, FS_EmptySet
    <2>11. ToWake(pc', role') = M
      BY <2>4, <2>6 DEF ToWake
    <2>12. Counts(num_readers', num_pending_readers', status', pc', role')
      BY <1>2, <2>3, <2>6, <2>10, <2>11 DEF Counts
    <2>13. QED
      BY <2>6, <2>8, <2>12 DEF NotFree
  <1>6. QED
    BY <1>3, <1>4, <1>5
-----------------------------------------------------------------------------
(* Joining the queue and leaving it keep its type.                               *)
LEMMA QueueTypes ==
  ASSUME NEW q \in Seq(Packs), NEW t \in Threads
  PROVE  /\ WriterJoins(q, t) \in Seq(Packs) /\ ReaderJoins(q, t) \in Seq(Packs)
         /\ [i \in 1 .. Len(q) |-> Without(q[i], t)] \in Seq(Packs)
  <1>1. \A i \in 1 .. Len(q) : q[i] \in Packs
    BY ElementOfSeq
  <1>2. ASSUME q # <<>>
        PROVE  JoinLast(q, t) \in Seq(Packs)
    <2> DEFINE n == Len(q)
               e == Changed(q[n], q[n].num_threads + 1, q[n].members \cup {t})
    <2>1. n \in 1 .. Len(q) /\ q[n] \in Packs
      BY <1>1, <1>2, EmptySeq
    <2>2. q[n].num_threads + 1 \in Int /\ q[n].members \cup {t} \in SUBSET Threads
      BY <2>1 DEF Packs
    <2>3. e \in Packs
      BY <2>1, <2>2, ChangePack
    <2>4. JoinLast(q, t) = [q EXCEPT ![n] = e]
      BY <2>1 DEF JoinLast, Changed, Packs
    <2> HIDE DEF n, e
    <2>5. QED
      BY <2>1, <2>3, <2>4, ExceptSeq
  <1>3. \A as \in {"reader", "writer"} : Append(q, NewPack(t, as)) \in Seq(Packs)
    BY NewPackHasOne, AppendProperties
  <1>4. [i \in 1 .. Len(q) |-> Without(q[i], t)] \in Seq(Packs)
    <2>1. ASSUME NEW i \in 1 .. Len(q)
          PROVE  Without(q[i], t) \in Packs
      <3>1. q[i] \in Packs /\ q[i].num_threads - 1 \in Int
               /\ q[i].members \ {t} \in SUBSET Threads
        BY <1>1 DEF Packs
      <3>2. Changed(q[i], q[i].num_threads - 1, q[i].members \ {t}) \in Packs
        BY <3>1, ChangePack
      <3>3. QED
        BY <3>1, <3>2 DEF Without, Changed
    <2>2. [i \in 1 .. Len(q) |-> Without(q[i], t)] \in [1 .. Len(q) -> Packs]
      BY <2>1
    <2>3. QED
      BY <2>2, SeqDef
  <1>5. QED
    BY <1>2, <1>3, <1>4 DEF WriterJoins, ReaderJoins

(* LeavePack in terms of Without.                                                *)
LEMMA LeavePackIs ==
  ASSUME NEW t, LeavePack(t)
  PROVE  queue' = [i \in 1 .. Len(queue) |-> Without(queue[i], t)]
  BY DEF LeavePack, Without

(* Every step keeps the types.                                                   *)
LEMMA TypeStep ==
  ASSUME TypeOK, Next
  PROVE  TypeOK'
  <1>1. PICK t \in Threads :
          Gain(t) \/ TimeOut(t) \/ Late(t) \/ Inside(t) \/ Destroy(t)
    BY DEF Next
  <1>2. /\ queue \in Seq(Packs) /\ num_readers \in Int /\ num_pending_readers \in Int
        /\ status \in {"unlocked", "readers", "writer"}
        /\ is_destroyed \in BOOLEAN /\ lostGrant \in BOOLEAN /\ gone \in BOOLEAN
        /\ pc \in [Threads -> PCs] /\ role \in [Threads -> {"reader", "writer"}]
    BY DEF TypeOK, Packs, PCs
  <1>3. SUFFICES
          /\ queue' \in Seq(Packs) /\ num_readers' \in Int /\ num_pending_readers' \in Int
          /\ status' \in {"unlocked", "readers", "writer"}
          /\ is_destroyed' \in BOOLEAN /\ lostGrant' \in BOOLEAN /\ gone' \in BOOLEAN
          /\ pc' \in [Threads -> PCs] /\ role' \in [Threads -> {"reader", "writer"}]
    BY DEF TypeOK, Packs, PCs
  <1>4. CASE GainWrite(t)
    BY <1>2, <1>4 DEF GainWrite, Enter, PCs
  <1>5. CASE WaitToWrite(t)
    <2>1. queue' \in Seq(Packs)
      BY <1>2, <1>5, QueueTypes DEF WaitToWrite
    <2>2. QED
      BY <1>2, <1>5, <2>1 DEF WaitToWrite, Wait, PCs, Waits
  <1>6. CASE GainRead(t)
    <2>1. queue' \in Seq(Packs)
      BY <1>2, <1>6, DropJunkPacks DEF GainRead
    <2>2. QED
      BY <1>2, <1>6, <2>1 DEF GainRead, Enter, PCs
  <1>7. CASE WaitToRead(t)
    <2>1. queue' \in Seq(Packs)
      BY <1>2, <1>7, DropJunkPacks, QueueTypes DEF WaitToRead
    <2>2. QED
      BY <1>2, <1>7, <2>1 DEF WaitToRead, Wait, PCs, Waits
  <1>8. CASE TryReadInVain(t)
    <2>1. queue' \in Seq(Packs)
      BY <1>2, <1>8, DropJunkPacks DEF TryReadInVain
    <2>2. QED
      BY <1>2, <1>8, <2>1 DEF TryReadInVain
  <1>9. CASE TimeOut(t)
    BY <1>2, <1>9 DEF TimeOut, Goto, lock, PCs, Waits
  <1>10. CASE WaitOn(t)
    BY <1>2, <1>10 DEF WaitOn, Goto, lock, PCs, Waits
  <1>11. CASE GiveUp(t)
    <2>1. queue' \in Seq(Packs)
      BY <1>2, <1>11, LeavePackIs, QueueTypes DEF GiveUp
    <2>2. QED
      BY <1>2, <1>11, <2>1 DEF GiveUp, Goto, PCs
  <1>12. CASE UseFreedPack(t)
    BY <1>2, <1>12 DEF UseFreedPack, lock
  <1>13. CASE Wake(t)
    BY <1>2, <1>13 DEF Wake, Goto, PCs
  <1>14. CASE Release(t)
    <2> DEFINE left == [pc EXCEPT ![t] =
                          IF t = Destroyer /\ is_destroyed THEN "freeing" ELSE "idle"]
    <2>1. left \in [Threads -> PCs]
      BY <1>2 DEF PCs
    <2>2. num_readers' \in Int /\ UNCHANGED <<is_destroyed, role, gone>>
      BY <1>2, <1>14 DEF Release
    <2>3. CASE AcceptPendingItems(left)
      <3> HIDE DEF left
      <3>1. QED
        BY <1>2, <2>1, <2>2, <2>3, AcceptType
    <2>4. CASE pc' = left /\ UNCHANGED <<queue, status, num_pending_readers, lostGrant>>
      BY <1>2, <2>1, <2>2, <2>4
    <2>5. QED
      BY <1>14, <2>3, <2>4 DEF Release
  <1>15. CASE Free(t)
    BY <1>2, <1>15 DEF Free, Goto, lock, PCs
  <1>16. CASE Destroy(t)
    BY <1>2, <1>16 DEF Destroy, Goto, PCs
  <1>17. QED
    BY <1>1, <1>4, <1>5, <1>6, <1>7, <1>8, <1>9, <1>10, <1>11, <1>12, <1>13, <1>14,
       <1>15, <1>16 DEF Gain, Late, Inside
-----------------------------------------------------------------------------
(* What IInv says while no grant has been lost.                                  *)
Right == /\ Tidy(queue, pc, role)
         /\ Counts(num_readers, num_pending_readers, status, pc, role)
         /\ NotFree(status, pc)

(* Nobody but t moves or asks for another role.                                  *)
OnlyMoves(f, r, g, s, t) == \A u \in Threads \ {t} : g[u] = f[u] /\ s[u] = r[u]

(* A thread outside that stays outside changes no count.                         *)
LEMMA StaysOut ==
  ASSUME NEW f, NEW r, NEW g, NEW s, NEW t \in Threads, OnlyMoves(f, r, g, s, t),
         f[t] \notin {"granted", "inside"}, g[t] \notin {"granted", "inside"}
  PROVE  LetInBy(g) = LetInBy(f) /\ ToWake(g, s) = ToWake(f, r)
  BY DEF OnlyMoves, LetInBy, ToWake

(* One that goes in is one more.                                                 *)
LEMMA GoesIn ==
  ASSUME NEW f, NEW r, NEW g, NEW s, NEW t \in Threads, OnlyMoves(f, r, g, s, t),
         f[t] \notin {"granted", "inside"}, g[t] = "inside"
  PROVE  /\ Cardinality(LetInBy(g)) = Cardinality(LetInBy(f)) + 1
         /\ Cardinality(LetInBy(f)) \in Nat /\ ToWake(g, s) = ToWake(f, r)
  <1>1. LetInBy(g) = LetInBy(f) \cup {t} /\ t \notin LetInBy(f)
    BY DEF OnlyMoves, LetInBy
  <1>2. ToWake(g, s) = ToWake(f, r)
    BY DEF OnlyMoves, ToWake
  <1>3. IsFiniteSet(LetInBy(f)) /\ Cardinality(LetInBy(f)) \in Nat
    BY FiniteThreads DEF LetInBy
  <1>4. QED
    BY <1>1, <1>2, <1>3, FS_AddElement

(* One that goes out is one less, and it was none of those on their way in.      *)
LEMMA GoesOut ==
  ASSUME NEW f, NEW r, NEW g, NEW s, NEW t \in Threads, OnlyMoves(f, r, g, s, t),
         f[t] = "inside", g[t] \notin {"granted", "inside"}
  PROVE  /\ Cardinality(LetInBy(g)) = Cardinality(LetInBy(f)) - 1
         /\ Cardinality(LetInBy(f)) \in Nat /\ Cardinality(LetInBy(g)) \in Nat
         /\ ToWake(g, s) = ToWake(f, r)
         /\ Cardinality(ToWake(f, r)) \in Nat
         /\ Cardinality(ToWake(f, r)) <= Cardinality(LetInBy(g))
  <1>1. LetInBy(f) = LetInBy(g) \cup {t} /\ t \notin LetInBy(g)
    BY DEF OnlyMoves, LetInBy
  <1>2. ToWake(g, s) = ToWake(f, r)
    BY DEF OnlyMoves, ToWake
  <1>3. /\ IsFiniteSet(LetInBy(g)) /\ Cardinality(LetInBy(g)) \in Nat
        /\ Cardinality(LetInBy(f)) \in Nat /\ Cardinality(ToWake(f, r)) \in Nat
    BY FiniteThreads DEF LetInBy, ToWake
  <1>4. Cardinality(LetInBy(f)) = Cardinality(LetInBy(g)) + 1
    BY <1>1, <1>3, FS_AddElement
  <1>5. ToWake(f, r) \in SUBSET LetInBy(g)
    BY <1>2 DEF ToWake, LetInBy
  <1>6. Cardinality(ToWake(f, r)) <= Cardinality(LetInBy(g))
    BY <1>3, <1>5, FS_Subset
  <1>7. QED
    BY <1>2, <1>3, <1>4, <1>6

(* Who takes a free lock for writing finds nobody waiting or on the way in.      *)
LEMMA GainWriteKeeps ==
  ASSUME TypeOK, Right, NEW t \in Threads, GainWrite(t)
  PROVE  Right'
  <1>1. /\ OnlyMoves(pc, role, pc', role', t) /\ pc'[t] = "inside"
        /\ pc[t] \in {"idle", "destroying"}
    BY DEF GainWrite, Enter, Asks, OnlyMoves, TypeOK
  <1>2. /\ Cardinality(LetInBy(pc')) = Cardinality(LetInBy(pc)) + 1
        /\ Cardinality(LetInBy(pc)) \in Nat /\ ToWake(pc', role') = ToWake(pc, role)
    BY <1>1, GoesIn
  <1>3. IsFiniteSet(ToWake(pc, role)) /\ Cardinality(ToWake(pc, role)) \in Nat
    BY FiniteThreads DEF ToWake
  <1>4. Counts(num_readers', num_pending_readers', status', pc', role')
    BY <1>2, <1>3 DEF GainWrite, Right, Counts, TypeOK
  <1>5. Tidy(queue', pc', role')
    <2>1. \A u \in Threads : /\ pc'[u] \in Waits <=> pc[u] \in Waits
                             /\ pc[u] \in Waits => role'[u] = role[u]
      BY <1>1 DEF OnlyMoves, Waits
    <2>2. queue' = queue /\ queue \in Seq(Packs)
      BY DEF GainWrite, TypeOK, Packs
    <2>3. QED
      BY <2>1, <2>2, TidyElsewhere DEF Right
  <1>6. NotFree(status', pc')
    BY DEF GainWrite, NotFree
  <1>7. QED
    BY <1>4, <1>5, <1>6 DEF Right

(* Where a thread starts to wait, the lock is not free.                          *)
LEMMA WaitKeeps ==
  ASSUME TypeOK, Right, NEW t \in Threads, WaitToWrite(t) \/ WaitToRead(t)
  PROVE  Right'
  <1>1. pc[t] \notin Waits \cup {"granted", "inside"}
    BY DEF WaitToWrite, WaitToRead, Asks, Waits
  <1>2. PICK as \in {"reader", "writer"} :
          /\ Wait(t, as)
          /\ as = "writer" => queue' = WriterJoins(queue, t)
          /\ as = "reader" => queue' = ReaderJoins(DropJunk(queue), t)
    BY DEF WaitToWrite, WaitToRead
  <1>3. OnlyMoves(pc, role, pc', role', t) /\ pc'[t] \in Waits /\ role'[t] = as
    BY <1>2 DEF Wait, OnlyMoves, Waits, TypeOK
  <1>4. UNCHANGED <<num_readers, num_pending_readers, status>>
    BY DEF WaitToWrite, WaitToRead
  <1>5. StartsToWait(pc, role, pc', role', t, as)
    BY <1>1, <1>3 DEF StartsToWait, OnlyMoves
  <1>6. /\ queue \in Seq(Packs) /\ Tidy(queue, pc, role)
        /\ DropJunk(queue) \in Seq(Packs) /\ Tidy(DropJunk(queue), pc, role)
    BY DropJunkPacks, TidyDropJunk DEF TypeOK, Packs, Right
  <1>7. Tidy(queue', pc', role')
    <2>1. CASE as = "writer"
      <3>1. Tidy(WriterJoins(queue, t), pc', role')
        BY <1>5, <1>6, <2>1, TidyJoins
      <3>2. QED
        BY <1>2, <2>1, <3>1
    <2>2. CASE as = "reader"
      <3>1. Tidy(ReaderJoins(DropJunk(queue), t), pc', role')
        BY <1>5, <1>6, <2>2, TidyJoins
      <3>2. QED
        BY <1>2, <2>2, <3>1
    <2>3. QED
      BY <2>1, <2>2
  <1>8. Counts(num_readers', num_pending_readers', status', pc', role')
    <2>1. LetInBy(pc') = LetInBy(pc) /\ ToWake(pc', role') = ToWake(pc, role)
      BY <1>1, <1>3, StaysOut DEF Waits
    <2>2. QED
      BY <1>4, <2>1 DEF Right, Counts
  <1>9. status # "unlocked"
    <2>1. CASE WaitToWrite(t)
      BY <2>1 DEF WaitToWrite
    <2>2. CASE WaitToRead(t) /\ status # "writer"
      <3>1. DropJunk(queue) # <<>>
        BY <2>2 DEF WaitToRead, ReadersMayEnter
      <3>2. PICK u \in DropJunk(queue)[1].members : TRUE
        BY <1>6, <3>1, TidyDropJunk
      <3>3. 1 \in 1 .. Len(DropJunk(queue))
        BY <1>6, <3>1, TidyDropJunk
      <3>4. u \in Threads /\ pc[u] \in Waits
        BY <1>6, <3>2, <3>3, TidyCount DEF Tidy, In
      <3>5. QED
        BY <3>4 DEF Right, NotFree
    <2>3. QED
      BY <2>1, <2>2
  <1>10. QED
    BY <1>4, <1>7, <1>8, <1>9 DEF Right, NotFree

(* A reader that goes in at once finds nobody waiting.                           *)
LEMMA ReadersMayEnterAlone ==
  ASSUME TypeOK, Right, ReadersMayEnter
  PROVE  \A u \in Threads : pc[u] \notin Waits
  <1>1. DropJunk(queue) = <<>> /\ Tidy(DropJunk(queue), pc, role)
    BY TidyDropJunk DEF TypeOK, Packs, Right, ReadersMayEnter
  <1>2. QED
    BY <1>1 DEF Tidy, In

(* It is one reader more.                                                        *)
LEMMA GainReadKeeps ==
  ASSUME TypeOK, Right, NEW t \in Threads, GainRead(t)
  PROVE  Right'
  <1>1. OnlyMoves(pc, role, pc', role', t) /\ pc'[t] = "inside" /\ pc[t] = "idle"
    BY DEF GainRead, Enter, OnlyMoves, TypeOK
  <1>2. /\ Cardinality(LetInBy(pc')) = Cardinality(LetInBy(pc)) + 1
        /\ Cardinality(LetInBy(pc)) \in Nat /\ ToWake(pc', role') = ToWake(pc, role)
    BY <1>1, GoesIn
  <1>3. Counts(num_readers', num_pending_readers', status', pc', role')
    BY <1>2 DEF GainRead, Right, Counts, TypeOK
  <1>4. Tidy(queue', pc', role')
    <2>1. \A u \in Threads : /\ pc'[u] \in Waits <=> pc[u] \in Waits
                             /\ pc[u] \in Waits => role'[u] = role[u]
      BY <1>1 DEF OnlyMoves, Waits
    <2>2. queue' \in Seq(Packs) /\ Tidy(queue', pc, role)
      BY DropJunkPacks, TidyDropJunk DEF GainRead, TypeOK, Packs, Right
    <2>3. QED
      BY <2>1, <2>2, TidyElsewhere
  <1>5. NotFree(status', pc')
    <2>1. \A u \in Threads : pc[u] \notin Waits
      BY ReadersMayEnterAlone DEF GainRead
    <2>2. QED
      BY <1>1, <2>1 DEF NotFree, OnlyMoves, Waits
  <1>6. QED
    BY <1>3, <1>4, <1>5 DEF Right

(* A try in vain, a time-out, a wait gone on with, a destruction begun or ended  *)
(* let nobody in or out, and leave the waiting threads where they wait.          *)
LEMMA StaysKeeps ==
  ASSUME TypeOK, Right, NEW t \in Threads,
         \/ TryReadInVain(t) \/ TimeOut(t) \/ WaitOn(t) \/ UseFreedPack(t)
         \/ Destroy(t) \/ Free(t)
  PROVE  Right'
  <1>1. UNCHANGED <<num_readers, num_pending_readers, status, role>>
    BY DEF TryReadInVain, TimeOut, WaitOn, UseFreedPack, Destroy, Free, lock
  <1>2. \/ pc' = pc
        \/ /\ \A u \in Threads \ {t} : pc'[u] = pc[u]
           /\ pc[t] \notin {"granted", "inside"} /\ pc'[t] \notin {"granted", "inside"}
           /\ pc'[t] \in Waits <=> pc[t] \in Waits
    BY DEF TryReadInVain, TimeOut, WaitOn, UseFreedPack, Destroy, Free, Goto, TypeOK, Waits
  <1>3. \A u \in Threads : pc'[u] \in Waits <=> pc[u] \in Waits
    BY <1>2
  <1>4. queue' \in Seq(Packs) /\ Tidy(queue', pc, role)
    <2>1. queue \in Seq(Packs) /\ Tidy(queue, pc, role)
      BY DEF TypeOK, Packs, Right
    <2>2. queue' = queue \/ queue' = DropJunk(queue)
      BY DEF TryReadInVain, TimeOut, WaitOn, UseFreedPack, Destroy, Free, lock
    <2>3. QED
      BY <2>1, <2>2, DropJunkPacks, TidyDropJunk
  <1>5. Tidy(queue', pc', role')
    BY <1>1, <1>3, <1>4, TidyElsewhere
  <1>6. LetInBy(pc') = LetInBy(pc) /\ ToWake(pc', role') = ToWake(pc, role)
    <2>1. CASE pc' = pc
      BY <1>1, <2>1
    <2>2. CASE pc' # pc
      BY <1>1, <1>2, <2>2, StaysOut DEF OnlyMoves
    <2>3. QED
      BY <2>1, <2>2
  <1>7. QED
    BY <1>1, <1>3, <1>5, <1>6 DEF Right, Counts, NotFree

(* A thread that gives up leaves its pack and nothing else.                      *)
LEMMA GiveUpKeeps ==
  ASSUME TypeOK, Right, NEW t \in Threads, GiveUp(t)
  PROVE  Right'
  <1>1. /\ UNCHANGED <<num_readers, num_pending_readers, status, role>>
        /\ queue' = [i \in 1 .. Len(queue) |-> Without(queue[i], t)]
    BY LeavePackIs DEF GiveUp
  <1>2. /\ \A u \in Threads \ {t} : pc'[u] = pc[u]
        /\ pc[t] = "late" /\ pc'[t] = "idle"
    BY DEF GiveUp, Goto, TypeOK
  <1>3. Tidy(queue', pc', role')
    <2>1. queue \in Seq(Packs) /\ Tidy(queue, pc, role) /\ pc'[t] \notin Waits
      BY <1>2 DEF TypeOK, Packs, Right, Waits
    <2>2. QED
      BY <1>1, <1>2, <2>1, TidyLeave
  <1>4. LetInBy(pc') = LetInBy(pc) /\ ToWake(pc', role') = ToWake(pc, role)
    BY <1>1, <1>2 DEF LetInBy, ToWake
  <1>5. QED
    BY <1>1, <1>2, <1>3, <1>4 DEF Right, Counts, NotFree, Waits

(* A reader that wakes is counted as in instead of on its way in.                *)
LEMMA WakeKeeps ==
  ASSUME TypeOK, Right, NEW t \in Threads, Wake(t)
  PROVE  Right'
  <1>1. /\ UNCHANGED <<queue, status, role>>
        /\ \A u \in Threads \ {t} : pc'[u] = pc[u]
        /\ pc[t] = "granted" /\ pc'[t] = "inside"
    BY DEF Wake, Goto, TypeOK
  <1>2. Tidy(queue', pc', role')
    <2>1. queue \in Seq(Packs) /\ Tidy(queue, pc, role)
      BY DEF TypeOK, Packs, Right
    <2>2. \A u \in Threads : pc'[u] \in Waits <=> pc[u] \in Waits
      BY <1>1 DEF Waits
    <2>3. QED
      BY <1>1, <2>1, <2>2, TidyElsewhere
  <1>3. LetInBy(pc') = LetInBy(pc)
    BY <1>1 DEF LetInBy
  <1>4. IsFiniteSet(ToWake(pc, role)) /\ Cardinality(ToWake(pc, role)) \in Nat
    BY FiniteThreads DEF ToWake
  <1>5. NotFree(status', pc')
    BY <1>1 DEF Right, NotFree, Waits
  <1>6. CASE role[t] = "reader"
    <2>1. num_pending_readers' = num_pending_readers - 1 /\ num_readers' = num_readers + 1
      BY <1>6 DEF Wake
    <2>2. ToWake(pc', role') = ToWake(pc, role) \ {t} /\ t \in ToWake(pc, role)
      BY <1>1, <1>6 DEF ToWake
    <2>3. Cardinality(ToWake(pc', role')) = Cardinality(ToWake(pc, role)) - 1
      BY <1>4, <2>2, FS_RemoveElement
    <2>4. Counts(num_readers', num_pending_readers', status', pc', role')
      BY <1>1, <1>3, <1>4, <2>1, <2>3 DEF Right, Counts, TypeOK
    <2>5. QED
      BY <1>2, <1>5, <2>4 DEF Right
  <1>7. CASE role[t] # "reader"
    <2>1. UNCHANGED <<num_pending_readers, num_readers>>
      BY <1>7 DEF Wake
    <2>2. ToWake(pc', role') = ToWake(pc, role)
      BY <1>1, <1>7 DEF ToWake
    <2>3. QED
      BY <1>1, <1>2, <1>3, <1>5, <2>1, <2>2 DEF Right, Counts
  <1>8. QED
    BY <1>6, <1>7

(* Where the threads are when t has just left.                                   *)
LeftBy(t) == [pc EXCEPT ![t] = IF t = Destroyer /\ is_destroyed THEN "freeing" ELSE "idle"]

(* Who leaves as the last lets the head of the queue in; any other leaves readers *)
(* that are in or on their way in.                                               *)
LEMMA ReleaseIs ==
  ASSUME TypeOK, Right, NEW t \in Threads, Release(t)
  PROVE  /\ LeftBy(t) \in [Threads -> PCs] /\ pc[t] = "inside"
         /\ LeftBy(t)[t] = IF t = Destroyer /\ is_destroyed THEN "freeing" ELSE "idle"
         /\ \A u \in Threads \ {t} : LeftBy(t)[u] = pc[u]
         /\ UNCHANGED <<is_destroyed, role, gone>>
         /\ Tidy(queue, LeftBy(t), role)
         /\ \/ /\ AcceptPendingItems(LeftBy(t))
               /\ num_pending_readers = 0 /\ ToWake(LeftBy(t), role) = {}
               /\ num_readers' = Cardinality(LetInBy(LeftBy(t)))
            \/ /\ pc' = LeftBy(t) /\ status' = "readers"
               /\ UNCHANGED <<queue, lostGrant>>
               /\ Counts(num_readers', num_pending_readers', status', pc', role')
  <1> DEFINE left == LeftBy(t)
  <1>1. /\ left \in [Threads -> PCs] /\ pc[t] = "inside"
        /\ left[t] = IF t = Destroyer /\ is_destroyed THEN "freeing" ELSE "idle"
        /\ \A u \in Threads \ {t} : left[u] = pc[u]
    BY DEF Release, TypeOK, PCs, LeftBy
  <1>2. num_readers' = IF status = "writer" THEN num_readers ELSE num_readers - 1
    BY DEF Release
  <1>3. \/ /\ status = "writer" \/ LastReaderLeaves \/ status = "unlocked"
           /\ AcceptPendingItems(left)
        \/ /\ ~(status = "writer" \/ LastReaderLeaves \/ status = "unlocked")
           /\ pc' = left
           /\ UNCHANGED <<queue, status, num_pending_readers, lostGrant>>
    BY DEF Release, LeftBy
  <1>4. UNCHANGED <<is_destroyed, role, gone>>
    BY DEF Release
  <1> HIDE DEF left
  <1>5. /\ Cardinality(LetInBy(left)) = Cardinality(LetInBy(pc)) - 1
        /\ Cardinality(LetInBy(pc)) \in Nat /\ Cardinality(LetInBy(left)) \in Nat
        /\ ToWake(left, role) = ToWake(pc, role)
        /\ Cardinality(ToWake(pc, role)) \in Nat
        /\ Cardinality(ToWake(pc, role)) <= Cardinality(LetInBy(left))
    <2>1. OnlyMoves(pc, role, left, role, t) /\ left[t] \notin {"granted", "inside"}
      BY <1>1 DEF OnlyMoves
    <2>2. QED
      BY <1>1, <2>1, GoesOut
  <1>6. Tidy(queue, left, role)
    <2>1. queue \in Seq(Packs) /\ Tidy(queue, pc, role)
      BY DEF TypeOK, Packs, Right
    <2>2. \A u \in Threads : left[u] \in Waits <=> pc[u] \in Waits
      BY <1>1 DEF Waits
    <2>3. QED
      BY <2>1, <2>2, TidyElsewhere
  <1>7. CASE /\ status = "writer" \/ LastReaderLeaves \/ status = "unlocked"
             /\ AcceptPendingItems(left)
    <2>1. num_pending_readers = 0
      BY <1>5, <1>7 DEF Right, Counts, LastReaderLeaves, TypeOK
    <2>2. ToWake(left, role) = {}
      <3>1. Cardinality(ToWake(pc, role)) = 0
        BY <2>1 DEF Right, Counts
      <3>2. QED
        BY <1>5, <3>1, FiniteThreads DEF ToWake
    <2>3. num_readers' = Cardinality(LetInBy(left))
      BY <1>2, <1>5, <1>7, <2>1 DEF Right, Counts, LastReaderLeaves, TypeOK
    <2>4. QED
      BY <1>1, <1>4, <1>6, <1>7, <2>1, <2>2, <2>3 DEF left
  <1>8. CASE /\ ~(status = "writer" \/ LastReaderLeaves \/ status = "unlocked")
             /\ pc' = left
             /\ UNCHANGED <<queue, status, num_pending_readers, lostGrant>>
    <2>1. status = "readers" /\ status' = "readers"
      BY <1>8 DEF TypeOK
    <2>2. num_readers' = num_readers - 1 /\ num_pending_readers' = num_pending_readers
      BY <1>2, <1>8
    <2>3. Counts(num_readers', num_pending_readers', status', pc', role')
      BY <1>4, <1>5, <1>8, <2>1, <2>2 DEF Right, Counts, LastReaderLeaves, TypeOK
    <2>4. QED
      BY <1>1, <1>4, <1>6, <1>8, <2>1, <2>3 DEF left
  <1>9. QED
    BY <1>3, <1>7, <1>8

(* So leaving keeps the counters and the queue right.                            *)
LEMMA ReleaseKeeps ==
  ASSUME TypeOK, Right, ~lostGrant', NEW t \in Threads, Release(t)
  PROVE  Right'
  <1>1. CASE /\ AcceptPendingItems(LeftBy(t))
             /\ num_pending_readers = 0 /\ ToWake(LeftBy(t), role) = {}
             /\ num_readers' = Cardinality(LetInBy(LeftBy(t)))
    BY <1>1, ReleaseIs, AcceptKeeps DEF Right
  <1>2. CASE /\ pc' = LeftBy(t) /\ status' = "readers" /\ UNCHANGED queue
             /\ Counts(num_readers', num_pending_readers', status', pc', role')
    BY <1>2, ReleaseIs DEF Right, NotFree
  <1>3. QED
    BY <1>1, <1>2, ReleaseIs
-----------------------------------------------------------------------------
(* Letting in the head of the queue grants the lock, and puts nobody inside; and *)
(* a lost grant is never found again.                                            *)
LEMMA AcceptGrants ==
  ASSUME NEW among \in [Threads -> PCs], AcceptPendingItems(among)
  PROVE  /\ \A u \in Threads : pc'[u] \in {"granted", among[u]}
         /\ lostGrant => lostGrant'
  <1> DEFINE q == DropJunk(queue)
  <1>1. CASE pc' = among /\ lostGrant' = lostGrant
    BY <1>1
  <1>2. CASE AcceptWriter(q, among)
    <2>1. PICK woken : /\ pc' = [m \in Threads |-> IF m \in woken THEN "granted" ELSE among[m]]
                       /\ lostGrant' = (lostGrant \/ woken = {})
      BY <1>2 DEF AcceptWriter
    <2>2. QED
      BY <2>1
  <1>3. CASE AcceptReaders(q, among)
    BY <1>3 DEF AcceptReaders
  <1>4. QED
    BY <1>1, <1>2, <1>3 DEF AcceptPendingItems

(* No step finds a lost grant again.                                             *)
LEMMA LostStaysLost ==
  ASSUME TypeOK, Next, lostGrant
  PROVE  lostGrant'
  <1>1. PICK t \in Threads :
          Gain(t) \/ TimeOut(t) \/ Late(t) \/ Inside(t) \/ Destroy(t)
    BY DEF Next
  <1>2. CASE Release(t)
    <2> DEFINE left == [pc EXCEPT ![t] =
                          IF t = Destroyer /\ is_destroyed THEN "freeing" ELSE "idle"]
    <2>1. left \in [Threads -> PCs]
      BY DEF TypeOK, PCs
    <2>2. AcceptPendingItems(left) \/ lostGrant' = lostGrant
      BY <1>2 DEF Release
    <2> HIDE DEF left
    <2>3. QED
      BY <2>1, <2>2, AcceptGrants
  <1>3. CASE ~Release(t)
    BY <1>1, <1>3
      DEF Gain, GainWrite, WaitToWrite, GainRead, WaitToRead, TryReadInVain, TimeOut,
          Late, WaitOn, GiveUp, UseFreedPack, Inside, Wake, Free, Destroy
  <1>4. QED
    BY <1>2, <1>3

(* The lock begins free, with nobody about.                                      *)
LEMMA IInvInit ==
  ASSUME Init
  PROVE  IInv
  <1>1. TypeOK
    <2>1. queue \in Seq([is_writer : BOOLEAN, num_threads : Int,
                         was_first_thr_accepted : BOOLEAN, members : SUBSET Threads])
      BY EmptySeq DEF Init
    <2>2. pc \in [Threads -> Waits \cup {"idle", "granted", "inside", "destroying", "freeing"}]
      BY DEF Init
    <2>3. role \in [Threads -> {"reader", "writer"}]
      BY DEF Init
    <2>4. /\ num_readers \in Int /\ num_pending_readers \in Int
          /\ status \in {"unlocked", "readers", "writer"}
      BY DEF Init
    <2>5. is_destroyed \in BOOLEAN /\ lostGrant \in BOOLEAN /\ gone \in BOOLEAN
      BY Zenon DEF Init
    <2>6. QED
      BY <2>1, <2>2, <2>3, <2>4, <2>5 DEF TypeOK
  <1>2. LetIn = {} /\ ReadersToWake = {} /\ Waiting = {}
    BY DEF Init, LetIn, ReadersToWake, Waiting, Waits
  <1>3. Cardinality(LetIn) = 0 /\ Cardinality(ReadersToWake) = 0
    BY <1>2, FS_EmptySet
  <1>4. Len(queue) = 0 /\ 1 .. Len(queue) = {}
    BY DEF Init
  <1>5. CountsAreHolders
    BY <1>2, <1>3, <1>4 DEF Init, CountsAreHolders
  <1>6. QED
    BY <1>1, <1>4, <1>5 DEF IInv, PacksOfOneRole, PacksApart

(* Every step keeps IInv.                                                        *)
LEMMA IInvStep ==
  ASSUME IInv, [Next]_vars
  PROVE  IInv'
  <1>1. CASE Next
    <2>1. TypeOK /\ TypeOK'
      BY <1>1, InvParts, TypeStep
    <2>2. ASSUME ~lostGrant'
          PROVE  Right'
      <3>1. Right
        BY <1>1, <2>1, <2>2, InvParts, LostStaysLost DEF Right
      <3>2. PICK t \in Threads :
              Gain(t) \/ TimeOut(t) \/ Late(t) \/ Inside(t) \/ Destroy(t)
        BY <1>1 DEF Next
      <3>3. CASE Gain(t)
        BY <2>1, <3>1, <3>3, GainWriteKeeps, WaitKeeps, GainReadKeeps, StaysKeeps DEF Gain
      <3>4. CASE TimeOut(t) \/ Destroy(t)
        BY <2>1, <3>1, <3>4, StaysKeeps
      <3>5. CASE Late(t)
        BY <2>1, <3>1, <3>5, StaysKeeps, GiveUpKeeps DEF Late
      <3>6. CASE Inside(t)
        BY <2>1, <2>2, <3>1, <3>6, WakeKeeps, ReleaseKeeps, StaysKeeps DEF Inside
      <3>7. QED
        BY <3>2, <3>3, <3>4, <3>5, <3>6
    <2>3. QED
      BY <2>1, <2>2, PartsInv DEF Right
  <1>2. CASE UNCHANGED vars
    BY <1>2
      DEF vars, lock, IInv, TypeOK, CountsAreHolders, PacksOfOneRole, PacksApart,
          LetIn, ReadersToWake, Waiting
  <1>3. QED
    BY <1>1, <1>2

(* The counters, the status and the packs stand for the threads, each of which   *)
(* waits in one pack of its kind, in every state before a grant is lost.         *)
THEOREM InductiveInvariant == Spec => []IInv
  <1>1. Init => IInv
    BY IInvInit
  <1>2. IInv /\ [Next]_vars => IInv'
    BY IInvStep
  <1>3. QED
    BY <1>1, <1>2, PTL DEF Spec

(* The types.                                                                    *)
THEOREM TypeCorrect == Spec => []TypeOK
  <1>1. IInv => TypeOK
    BY DEF IInv
  <1>2. QED
    BY <1>1, InductiveInvariant, PTL

(* A grant is lost only to a thread in the queue whose time is up and which      *)
(* has not come back for the mutex: no count that is off, pack that is empty,    *)
(* or thread that has given up makes the lock go to nobody.                      *)
GrantsAreLostToLate ==
  [][lostGrant' => lostGrant \/ \E t \in Threads : pc[t] = "late" /\ InQueue(t)]_vars

(* Letting in the head of the queue loses a grant only to a late thread in it:   *)
(* the count of the pack at the head is that of its threads, and is not zero.    *)
LEMMA AcceptLoses ==
  ASSUME TypeOK, NEW among, AcceptPendingItems(among), ~lostGrant, lostGrant',
         Tidy(queue, among, role)
  PROVE  \E t \in Threads : among[t] = "late" /\ InQueue(t)
  <1> DEFINE q == DropJunk(queue)
             awake == {m \in Head(q).members : among[m] # "late"}
  <1>1. queue \in Seq(Packs) /\ q \in Seq(Packs) /\ Tidy(q, among, role)
    BY DropJunkPacks, TidyDropJunk DEF TypeOK, Packs
  <1>2. q # <<>>
    BY DEF AcceptPendingItems
  <1>3. 1 \in 1 .. Len(q) /\ Head(q) = q[1] /\ q[1].members # {}
    BY <1>1, <1>2, TidyDropJunk
  <1>4. q[1].num_threads = Cardinality(q[1].members) /\ q[1].members \subseteq Threads
    BY <1>1, <1>3, TidyCount DEF Tidy
  <1>5. \A m \in q[1].members : InQueue(m)
    <2>1. PICK k \in 0 .. Len(queue) :
            /\ Len(q) = Len(queue) - k
            /\ \A i \in 1 .. Len(queue) - k : q[i] = queue[k + i]
      BY <1>1, DropJunkPacks
    <2>2. Len(queue) \in Nat
      BY <1>1
    <2>3. k + 1 \in 1 .. Len(queue) /\ q[1] = queue[k + 1]
      BY <1>3, <2>1, <2>2
    <2>4. QED
      BY <2>3 DEF InQueue
  <1>6. CASE AcceptWriter(q, among)
    <2>1. awake = {}
      BY <1>6 DEF AcceptWriter
    <2>2. QED
      BY <1>3, <1>4, <1>5, <2>1
  <1>7. CASE AcceptReaders(q, among)
    <2>1. q[1].num_threads # Cardinality(awake)
      BY <1>3, <1>7 DEF AcceptReaders
    <2>2. awake # q[1].members
      BY <1>4, <2>1
    <2>3. QED
      BY <1>3, <1>4, <1>5, <2>2
  <1>8. QED
    BY <1>2, <1>6, <1>7 DEF AcceptPendingItems

(* No other step loses a grant.                                                  *)
LEMMA LosesStep ==
  ASSUME IInv, Next, ~lostGrant, lostGrant'
  PROVE  \E t \in Threads : pc[t] = "late" /\ InQueue(t)
  <1>1. TypeOK /\ Right
    BY InvParts DEF Right
  <1>2. PICK t \in Threads :
          Gain(t) \/ TimeOut(t) \/ Late(t) \/ Inside(t) \/ Destroy(t)
    BY DEF Next
  <1>3. Release(t)
    BY <1>2
      DEF Gain, GainWrite, WaitToWrite, GainRead, WaitToRead, TryReadInVain, TimeOut,
          Late, WaitOn, GiveUp, UseFreedPack, Inside, Wake, Free, Destroy
  <1>4. /\ LeftBy(t)[t] \in {"freeing", "idle"}
        /\ \A u \in Threads \ {t} : LeftBy(t)[u] = pc[u]
        /\ Tidy(queue, LeftBy(t), role)
        /\ AcceptPendingItems(LeftBy(t)) \/ UNCHANGED lostGrant
    BY <1>1, <1>3, ReleaseIs
  <1>5. PICK u \in Threads : LeftBy(t)[u] = "late" /\ InQueue(u)
    BY <1>1, <1>4, AcceptLoses
  <1>6. QED
    BY <1>4, <1>5

(* For any number of threads and any order of their calls and time-outs, the     *)
(* counters rwlock.c keeps are those of the threads in the lock or on their way  *)
(* in until a grant is lost; and a grant is lost only to a thread in the queue   *)
(* whose time-out races with it.                                                 *)
THEOREM CountersRight == Spec => []CountsAreHolders /\ GrantsAreLostToLate
  <1>1. IInv => CountsAreHolders
    BY DEF IInv
  <1>2. IInv /\ [Next]_vars =>
          [lostGrant' => lostGrant \/ \E t \in Threads : pc[t] = "late" /\ InQueue(t)]_vars
    BY LosesStep
  <1>3. QED
    BY <1>1, <1>2, InductiveInvariant, PTL DEF Spec, GrantsAreLostToLate

(* While a thread waits, a step lets nobody in from outside the queue.           *)
LEMMA NoOvertakingStep ==
  ASSUME IInv, Next, Waiting # {}, ~lostGrant
  PROVE  ~\E u \in Threads : pc[u] \in {"idle", "destroying"} /\ pc'[u] = "inside"
  <1>1. TypeOK /\ Right
    BY InvParts DEF Right
  <1>2. PICK t \in Threads :
          Gain(t) \/ TimeOut(t) \/ Late(t) \/ Inside(t) \/ Destroy(t)
    BY DEF Next
  <1>3. status # "unlocked" /\ ~ReadersMayEnter
    BY <1>1, ReadersMayEnterAlone DEF Right, NotFree, Waiting
  <1>4. CASE Gain(t)
    <2>1. CASE WaitToWrite(t) \/ WaitToRead(t)
      BY <1>1, <2>1 DEF WaitToWrite, WaitToRead, Wait, TypeOK
    <2>2. CASE TryReadInVain(t)
      BY <2>2 DEF TryReadInVain
    <2>3. QED
      BY <1>3, <1>4, <2>1, <2>2 DEF Gain, GainWrite, GainRead
  <1>5. CASE Release(t)
    <2> DEFINE left == [pc EXCEPT ![t] =
                          IF t = Destroyer /\ is_destroyed THEN "freeing" ELSE "idle"]
    <2>1. left \in [Threads -> PCs] /\ \A u \in Threads : left[u] = "inside" => pc[u] = "inside"
      BY <1>1 DEF TypeOK, PCs
    <2>2. AcceptPendingItems(left) \/ pc' = left
      BY <1>5 DEF Release
    <2> HIDE DEF left
    <2>3. \A u \in Threads : pc'[u] \in {"granted", left[u]}
      BY <2>1, <2>2, AcceptGrants
    <2>4. QED
      BY <2>1, <2>3
  <1>6. CASE ~Gain(t) /\ ~Release(t)
    BY <1>1, <1>2, <1>6
      DEF TimeOut, Late, WaitOn, GiveUp, UseFreedPack, Inside, Wake, Free, Destroy, Goto, TypeOK
  <1>7. QED
    BY <1>4, <1>5, <1>6

(* First come, first served, for any number of threads.                          *)
THEOREM FirstComeFirstServed == Spec => NobodyOvertakes
  <1>1. IInv /\ [Next]_vars =>
          [Waiting # {} /\ ~lostGrant =>
             ~\E t \in Threads : pc[t] \in {"idle", "destroying"} /\ pc'[t] = "inside"]_vars
    BY NoOvertakingStep
  <1>2. QED
    BY <1>1, InductiveInvariant, PTL DEF Spec, NobodyOvertakes
-----------------------------------------------------------------------------
(* Thread t is in the last pack.                                                 *)
LastIn(q, t) == q # <<>> /\ t \in q[Len(q)].members

(* It stays so while others leave, or are let in, and junk is dropped.           *)
LEMMA LastInDropJunk ==
  ASSUME NEW q \in Seq(Packs), NEW f, NEW r, Tidy(q, f, r), NEW t, LastIn(q, t)
  PROVE  LastIn(DropJunk(q), t)
  <1> DEFINE d == DropJunk(q)
  <1>1. PICK k \in 0 .. Len(q) :
           /\ Len(d) = Len(q) - k
           /\ \A i \in 1 .. Len(q) - k : d[i] = q[k + i]
           /\ \A j \in 1 .. k : q[j].num_threads = 0
    BY DropJunkPacks
  <1>2. d \in Seq(Packs)
    BY DropJunkPacks
  <1> HIDE DEF d
  <1>3. Len(q) \in Nat /\ Len(q) \in 1 .. Len(q) /\ k \in Nat
    BY EmptySeq DEF LastIn
  <1>4. q[Len(q)].num_threads # 0
    BY <1>3, TidyCount DEF LastIn
  <1>5. k # Len(q)
    BY <1>1, <1>3, <1>4
  <1>6. Len(d) > 0 /\ d[Len(d)] = q[Len(q)]
    BY <1>1, <1>3, <1>5
  <1>7. d # <<>>
    BY <1>6
  <1>8. QED
    BY <1>6, <1>7 DEF LastIn, d

(* A writer that has just joined the queue is in its last pack.                  *)
LEMMA LastInJoins ==
  ASSUME NEW q \in Seq(Packs), NEW t \in Threads
  PROVE  LastIn(WriterJoins(q, t), t)
  <1>1. CASE WriterJoins(q, t) = JoinLast(q, t) /\ q # <<>>
    <2> DEFINE n == Len(q)
               e == Changed(q[n], q[n].num_threads + 1, q[n].members \cup {t})
    <2>1. n \in 1 .. n /\ q[n] \in Packs
      BY <1>1, EmptySeq, ElementOfSeq
    <2>2. q[n].num_threads + 1 \in Int /\ q[n].members \cup {t} \in SUBSET Threads
      BY <2>1 DEF Packs
    <2>3. e \in Packs /\ t \in e.members
      BY <2>1, <2>2, ChangePack
    <2>4. JoinLast(q, t) = [q EXCEPT ![n] = e]
      BY <2>1 DEF JoinLast, Changed, Packs
    <2> HIDE DEF e
    <2>5. Len(JoinLast(q, t)) = n /\ JoinLast(q, t)[n] = e /\ JoinLast(q, t) # <<>>
      BY <2>1, <2>3, <2>4, ExceptSeq, EmptySeq
    <2>6. QED
      BY <1>1, <2>3, <2>5 DEF LastIn
  <1>2. CASE WriterJoins(q, t) = Append(q, NewPack(t, "writer"))
    <2>1. /\ Append(q, NewPack(t, "writer")) # <<>>
          /\ Len(Append(q, NewPack(t, "writer"))) = Len(q) + 1
          /\ Append(q, NewPack(t, "writer"))[Len(q) + 1] = NewPack(t, "writer")
      BY NewPackHasOne, AppendProperties
    <2>2. t \in NewPack(t, "writer").members
      BY NewPackHasOne
    <2>3. QED
      BY <1>2, <2>1, <2>2 DEF LastIn
  <1>3. QED
    BY <1>1, <1>2 DEF WriterJoins

(* Another thread leaves the queue.                                              *)
LEMMA LastInLeave ==
  ASSUME NEW q \in Seq(Packs), NEW t, NEW u, u # t, LastIn(q, t), NEW d,
         d = [i \in 1 .. Len(q) |-> Without(q[i], u)]
  PROVE  LastIn(d, t)
  <1>1. Len(q) \in Nat /\ Len(q) \in 1 .. Len(q)
    BY EmptySeq DEF LastIn
  <1>2. q[Len(q)] \in Packs
    BY <1>1, ElementOfSeq
  <1>3. DOMAIN d = 1 .. Len(q) /\ Len(d) = Len(q)
    BY <1>1
  <1>4. d # <<>>
    BY <1>1, <1>3
  <1>5. t \in Without(q[Len(q)], u).members
    BY <1>2 DEF LastIn, Without, Packs
  <1>6. QED
    BY <1>1, <1>3, <1>4, <1>5 DEF LastIn

(* Whoever is moved by letting in the head of the queue was waiting in it; and   *)
(* when it is the turn of a writer in the last pack, only writers are left.      *)
LEMMA AcceptDestroyer ==
  ASSUME TypeOK, NEW among \in [Threads -> PCs], AcceptPendingItems(among), ~lostGrant',
         Tidy(queue, among, role), ToWake(among, role) = {}
  PROVE  /\ \A u \in Threads : pc'[u] = among[u] \/ (among[u] \in Waits /\ pc'[u] = "granted")
         /\ among[Destroyer] = "waiting" /\ role[Destroyer] = "writer"
              /\ LastIn(queue, Destroyer) =>
              \/ pc'[Destroyer] = "waiting" /\ LastIn(queue', Destroyer)
              \/ /\ pc'[Destroyer] = "granted"
                 /\ \A u \in Threads : pc'[u] \in Waits \cup {"granted"} => role[u] = "writer"
  <1> DEFINE q == DropJunk(queue)
  <1>1. /\ q \in Seq(Packs) /\ Tidy(q, among, role)
        /\ q # <<>> => 1 \in 1 .. Len(q) /\ Head(q) = q[1] /\ q[1].members # {}
        /\ LastIn(queue, Destroyer) => LastIn(q, Destroyer)
    BY DropJunkPacks, TidyDropJunk, LastInDropJunk DEF TypeOK, Packs
  <1> HIDE DEF q
  <1>2. Destroyer \in Threads
    BY RWLockAssumption
  <1>3. CASE q = <<>>
    BY <1>1, <1>3 DEF AcceptPendingItems, q, LastIn
  <1>4. CASE q # <<>> /\ Head(q).is_writer
    <2>1. AcceptWriter(q, among)
      BY <1>4 DEF AcceptPendingItems, q
    <2>2. PICK woken \in {{}} \cup {{m} : m \in Head(q).members} :
            /\ queue' = DropJunk(<<Admitted(Head(q), woken)>> \o Tail(q))
            /\ pc' = [m \in Threads |-> IF m \in woken THEN "granted" ELSE among[m]]
            /\ status' = "writer"
            /\ lostGrant' = (lostGrant \/ woken = {})
            /\ num_pending_readers' = num_pending_readers
      BY <2>1, AcceptWriterIs
    <2>3. PICK m \in q[1].members : woken = {m}
      <3>1. woken # {}
        BY <2>2
      <3>2. QED
        BY <1>1, <1>4, <3>1
    <2>4. m \in Threads /\ q[1] \in Packs /\ among[m] \in Waits
      <3>1. m \in Threads /\ q[1] \in Packs
        BY <1>1, <1>4, TidyCount
      <3>2. QED
        BY <1>1, <1>4, <3>1 DEF Tidy, In
    <2>5. pc' = [u \in Threads |-> IF u = m THEN "granted" ELSE among[u]]
      BY <2>2, <2>3
    <2>6. ASSUME among[Destroyer] = "waiting", LastIn(q, Destroyer), m = Destroyer
          PROVE  /\ pc'[Destroyer] = "granted"
                 /\ \A u \in Threads : pc'[u] \in Waits \cup {"granted"} => role[u] = "writer"
      <3>1. Len(q) = 1
        <4>1. Len(q) \in 1 .. Len(q)
          BY <1>1, <1>4, EmptySeq
        <4>2. q[1].members \cap q[Len(q)].members # {}
          BY <2>6 DEF LastIn
        <4>3. QED
          BY <1>1, <1>4, <4>1, <4>2 DEF Tidy
      <3>2. \A u \in q[1].members : role[u] = "writer"
        BY <1>1, <1>4 DEF Tidy, RoleOf
      <3>3. \A u \in Threads : among[u] \in Waits => role[u] = "writer"
        BY <1>1, <3>1, <3>2 DEF Tidy, In
      <3>4. \A u \in Threads : among[u] = "granted" => role[u] = "writer"
        BY DEF ToWake, TypeOK
      <3>5. \A u \in Threads : pc'[u] \in Waits \cup {"granted"} =>
              u = m \/ among[u] \in Waits \cup {"granted"}
        BY <2>5
      <3>6. QED
        BY <1>2, <2>5, <2>6, <3>2, <3>3, <3>4, <3>5
    <2>7. ASSUME among[Destroyer] = "waiting", LastIn(q, Destroyer), m # Destroyer
          PROVE  pc'[Destroyer] = "waiting" /\ LastIn(queue', Destroyer)
      <3> DEFINE e == Admitted(q[1], {m})
                 d == <<e>> \o Tail(q)
      <3>1. e \in Packs /\ e.members = q[1].members \ {m}
        BY <2>4, AdmittedOne
      <3>2. Tidy(d, pc', role)
        BY <1>1, <1>4, <2>4, <2>5, TidyAdmitOne DEF Waits
      <3> HIDE DEF e
      <3>3. /\ d \in Seq(Packs) /\ Len(d) = Len(q)
            /\ \A i \in 1 .. Len(q) : d[i] = IF i = 1 THEN e ELSE q[i]
        BY <1>1, <1>4, <3>1, FirstPack
      <3>4. queue' = DropJunk(d)
        BY <1>1, <1>4, <2>2, <2>3 DEF e
      <3> HIDE DEF d
      <3>5. Len(q) \in 1 .. Len(q)
        BY <1>1, <1>4, EmptySeq
      <3>6. d # <<>> /\ Destroyer \in d[Len(d)].members
        BY <2>7, <3>1, <3>3, <3>5, EmptySeq DEF LastIn
      <3>7. LastIn(queue', Destroyer)
        BY <3>2, <3>3, <3>4, <3>6, LastInDropJunk DEF LastIn
      <3>8. QED
        BY <1>2, <2>5, <2>7, <3>7
    <2>8. QED
      BY <1>1, <2>4, <2>5, <2>6, <2>7
  <1>5. CASE q # <<>> /\ ~Head(q).is_writer
    <2> DEFINE M == {m \in q[1].members : among[m] # "late"}
    <2>1. /\ queue' = DropJunk(Tail(q))
          /\ pc' = [m \in Threads |-> IF m \in M THEN "granted" ELSE among[m]]
          /\ lostGrant' = (lostGrant \/ q[1].num_threads # Cardinality(M))
      BY <1>1, <1>5 DEF AcceptPendingItems, AcceptReaders, q
    <2>2. /\ q[1].members \subseteq Threads /\ IsFiniteSet(q[1].members)
          /\ q[1].num_threads = Cardinality(q[1].members)
      <3>1. q[1].members \subseteq Threads
        BY <1>1, <1>5, TidyCount
      <3>2. QED
        BY <1>1, <1>5, <3>1, FiniteThreads DEF Tidy
    <2> HIDE DEF M
    <2>3. M = q[1].members
      <3>1. M \in SUBSET q[1].members
        BY DEF M
      <3>2. Cardinality(M) = Cardinality(q[1].members)
        BY <2>1, <2>2
      <3>3. QED
        BY <2>2, <3>1, <3>2, FS_Subset
    <2>4. \A m \in M : m \in Threads /\ among[m] \in Waits /\ role[m] = "reader"
      BY <1>1, <1>5, <2>2, <2>3 DEF Tidy, In, RoleOf
    <2>5. ASSUME among[Destroyer] = "waiting", role[Destroyer] = "writer", LastIn(q, Destroyer)
          PROVE  pc'[Destroyer] = "waiting" /\ LastIn(queue', Destroyer)
      <3>1. Destroyer \notin M
        BY <2>4, <2>5
      <3>2. /\ Tail(q) \in Seq(Packs) /\ Len(Tail(q)) = Len(q) - 1
            /\ \A i \in 1 .. Len(Tail(q)) : Tail(q)[i] = q[i + 1]
        BY <1>1, <1>5, HeadTailProperties
      <3>3. Len(q) \in 1 .. Len(q) /\ Len(q) # 1
        BY <1>1, <1>5, <2>3, <2>5, <3>1, EmptySeq DEF LastIn
      <3>4. Len(Tail(q)) > 0 /\ Tail(q)[Len(Tail(q))] = q[Len(q)]
        BY <3>2, <3>3
      <3>5. LastIn(Tail(q), Destroyer)
        <4> DEFINE d == Tail(q)
        <4>1. Len(d) > 0 /\ d[Len(d)] = q[Len(q)]
          BY <3>4
        <4> HIDE DEF d
        <4>2. LastIn(d, Destroyer)
          BY <2>5, <4>1 DEF LastIn
        <4>3. QED
          BY <4>2 DEF d
      <3>6. Tidy(Tail(q), pc', role)
        BY <1>1, <1>5, <2>1, <2>3, TidyAdmitAll
      <3>7. QED
        BY <1>2, <2>1, <2>5, <3>1, <3>2, <3>5, <3>6, LastInDropJunk
    <2>6. QED
      BY <1>1, <2>1, <2>4, <2>5
  <1>6. QED
    BY <1>3, <1>4, <1>5

(* Steps that move no reader out of the lock into waiting leave OnlyWritersAway. *)
LEMMA OnlyWritersStay ==
  ASSUME OnlyWritersAway,
         \A u \in Threads : /\ pc'[u] \in Waits \cup {"granted"} => pc[u] \in Waits \cup {"granted"}
                            /\ role'[u] = role[u]
  PROVE  OnlyWritersAway'
  BY DEF OnlyWritersAway

(* Once the destroyer has set is_destroyed, it alone asks for the lock.          *)
LEMMA DestroyGain ==
  ASSUME TypeOK, Right, ~lostGrant, ~gone, DestroyInv, NEW t \in Threads, Gain(t)
  PROVE  DestroyInv'
  <1>1. UNCHANGED <<is_destroyed, lostGrant, gone>>
    BY DEF Gain, GainWrite, WaitToWrite, GainRead, WaitToRead, TryReadInVain
  <1>2. \A u \in Threads : pc'[u] = "freeing" => pc[u] = "freeing"
    BY DEF Gain, GainWrite, WaitToWrite, GainRead, WaitToRead, TryReadInVain, Enter, Wait,
           TypeOK
  <1>3. CASE ~is_destroyed
    BY <1>1, <1>2, <1>3 DEF DestroyInv
  <1>4. CASE is_destroyed
    <2>1. t = Destroyer /\ pc[t] = "destroying" /\ (GainWrite(t) \/ WaitToWrite(t))
      BY <1>4 DEF Gain, GainWrite, WaitToWrite, GainRead, WaitToRead, TryReadInVain, Asks
    <2>2. CASE GainWrite(t)
      <3>1. /\ pc' = [pc EXCEPT ![t] = "inside"] /\ role' = [role EXCEPT ![t] = "writer"]
            /\ status = "unlocked"
        BY <2>2 DEF GainWrite, Enter
      <3>2. ToWake(pc, role) = {}
        <4>1. Cardinality(ToWake(pc, role)) = 0
          <5>1. Cardinality(ToWake(pc, role)) \in Nat
            BY FiniteThreads DEF ToWake
          <5>2. QED
            BY <3>1, <5>1 DEF Right, Counts
        <4>2. QED
          BY <4>1, FiniteThreads DEF ToWake
      <3>3. \A u \in Threads : pc[u] \in Waits \cup {"granted"} => role[u] = "writer"
        BY <3>1, <3>2 DEF Right, NotFree, ToWake, TypeOK
      <3>4. OnlyWritersAway' /\ pc'[Destroyer] = "inside"
        BY <2>1, <3>1, <3>3 DEF OnlyWritersAway, TypeOK
      <3>5. QED
        BY <1>1, <1>2, <3>4 DEF DestroyInv
    <2>3. CASE WaitToWrite(t)
      <3>1. /\ pc' = [pc EXCEPT ![t] = "waiting"] /\ role' = [role EXCEPT ![t] = "writer"]
            /\ queue' = WriterJoins(queue, t)
        BY <1>4, <2>1, <2>3 DEF WaitToWrite, Wait
      <3>2. LastIn(queue', Destroyer)
        BY <2>1, <3>1, LastInJoins DEF TypeOK, Packs
      <3>3. pc'[Destroyer] = "waiting" /\ role'[Destroyer] = "writer"
        BY <2>1, <3>1 DEF TypeOK
      <3>4. QED
        BY <1>1, <1>2, <3>2, <3>3 DEF DestroyInv, LastIn
    <2>4. QED
      BY <2>1, <2>2, <2>3
  <1>5. QED
    BY <1>3, <1>4

(* Nobody who releases the lock lets a reader in once the destroyer is.          *)
LEMMA DestroyRelease ==
  ASSUME TypeOK, Right, ~lostGrant, ~lostGrant', ~gone, DestroyInv, NEW t \in Threads, Release(t)
  PROVE  DestroyInv'
  <1> DEFINE left == LeftBy(t)
  <1>1. /\ left \in [Threads -> PCs] /\ pc[t] = "inside"
        /\ left[t] = IF t = Destroyer /\ is_destroyed THEN "freeing" ELSE "idle"
        /\ \A u \in Threads \ {t} : left[u] = pc[u]
        /\ is_destroyed' = is_destroyed /\ role' = role /\ gone' = gone
        /\ Tidy(queue, left, role)
        /\ \/ AcceptPendingItems(left) /\ ToWake(left, role) = {}
           \/ pc' = left /\ UNCHANGED queue
    BY ReleaseIs
  <1> HIDE DEF left
  <1>2. Destroyer \in Threads
    BY RWLockAssumption
  <1>3. \A u \in Threads : pc'[u] = left[u] \/ (left[u] \in Waits /\ pc'[u] = "granted")
    BY <1>1, AcceptDestroyer
  <1>4. \A u \in Threads : pc'[u] = "freeing" => u = Destroyer /\ is_destroyed'
    BY <1>1, <1>3 DEF DestroyInv
  <1>5. \A u \in Threads : pc'[u] \in Waits \cup {"granted"} => pc[u] \in Waits \cup {"granted"}
    BY <1>1, <1>3 DEF Waits
  <1>6. CASE is_destroyed /\ pc[Destroyer] = "destroying"
    BY <1>1, <1>2, <1>3, <1>4, <1>6 DEF DestroyInv, Waits
  <1>7. CASE /\ is_destroyed /\ pc[Destroyer] = "waiting" /\ role[Destroyer] = "writer"
             /\ LastIn(queue, Destroyer)
    <2>1. left[Destroyer] = "waiting"
      BY <1>1, <1>2, <1>7
    <2>2. \/ pc'[Destroyer] = "waiting" /\ LastIn(queue', Destroyer)
          \/ pc'[Destroyer] = "granted" /\ OnlyWritersAway'
      BY <1>1, <1>7, <2>1, AcceptDestroyer DEF OnlyWritersAway
    <2>3. QED
      BY <1>1, <1>4, <1>7, <2>2 DEF DestroyInv, LastIn
  <1>8. CASE /\ is_destroyed /\ pc[Destroyer] \in {"granted", "inside", "freeing"}
             /\ OnlyWritersAway
    <2>1. OnlyWritersAway'
      BY <1>1, <1>5, <1>8, OnlyWritersStay
    <2>2. pc'[Destroyer] \in {"granted", "inside", "freeing"}
      BY <1>1, <1>2, <1>3, <1>8
    <2>3. QED
      BY <1>1, <1>4, <2>1, <2>2 DEF DestroyInv
  <1>9. CASE ~is_destroyed
    BY <1>1, <1>4, <1>9 DEF DestroyInv
  <1>10. QED
    BY <1>6, <1>7, <1>8, <1>9 DEF DestroyInv, LastIn

(* Nor does any other step bring a reader back.                                  *)
LEMMA DestroyStep ==
  ASSUME IInv, DestroyInv, [Next]_vars
  PROVE  DestroyInv'
  <1>1. CASE UNCHANGED vars
    BY <1>1 DEF vars, lock, DestroyInv, OnlyWritersAway
  <1>2. CASE Next /\ lostGrant'
    BY <1>2 DEF DestroyInv
  <1>3. CASE Next /\ ~lostGrant'
    <2>1. TypeOK /\ ~lostGrant /\ Right
      BY <1>3, InvParts, LostStaysLost DEF Right
    <2>2. PICK t \in Threads :
            Gain(t) \/ TimeOut(t) \/ Late(t) \/ Inside(t) \/ Destroy(t)
      BY <1>3 DEF Next
    <2>3. ~gone /\ Destroyer \in Threads
      BY <1>3, RWLockAssumption DEF Next
    <2>4. CASE TimeOut(t) \/ WaitOn(t) \/ Wake(t)
      <3>1. /\ UNCHANGED <<queue, is_destroyed, role, gone>>
            /\ \A u \in Threads \ {t} : pc'[u] = pc[u]
            /\ \/ pc[t] = "timedWaiting" /\ pc'[t] = "late"
               \/ pc[t] = "late" /\ pc'[t] = "timedWaiting"
               \/ pc[t] = "granted" /\ pc'[t] = "inside"
        BY <2>1, <2>4 DEF TimeOut, WaitOn, Wake, Goto, lock, TypeOK
      <3>2. OnlyWritersAway => OnlyWritersAway'
        BY <3>1, OnlyWritersStay DEF Waits
      <3>3. QED
        BY <2>1, <2>3, <3>1, <3>2 DEF DestroyInv
    <2>5. CASE GiveUp(t)
      <3>1. /\ UNCHANGED <<is_destroyed, role, gone>>
            /\ \A u \in Threads \ {t} : pc'[u] = pc[u]
            /\ pc[t] = "late" /\ pc'[t] = "idle"
            /\ queue' = [i \in 1 .. Len(queue) |-> Without(queue[i], t)]
        BY <2>1, <2>5, LeavePackIs DEF GiveUp, Goto, TypeOK
      <3>2. OnlyWritersAway => OnlyWritersAway'
        BY <3>1, OnlyWritersStay DEF Waits
      <3>3. LastIn(queue, Destroyer) /\ t # Destroyer => LastIn(queue', Destroyer)
        BY <2>1, <3>1, LastInLeave DEF TypeOK, Packs
      <3>4. QED
        BY <2>1, <2>3, <3>1, <3>2, <3>3 DEF DestroyInv, LastIn
    <2>6. CASE UseFreedPack(t)
      <3>1. InQueue(t)
        BY <2>1, <2>6 DEF UseFreedPack, Right, Tidy, In, InQueue, Waits
      <3>2. QED
        BY <2>6, <3>1 DEF UseFreedPack
    <2>7. CASE Free(t)
      <3>1. /\ UNCHANGED <<is_destroyed, role>> /\ gone'
            /\ \A u \in Threads \ {t} : pc'[u] = pc[u]
            /\ pc[t] = "freeing" /\ pc'[t] = "idle"
        BY <2>1, <2>7 DEF Free, Goto, lock, TypeOK
      <3>2. is_destroyed /\ t = Destroyer /\ OnlyWritersAway
        BY <2>1, <3>1 DEF DestroyInv
      <3>3. OnlyWritersAway'
        BY <3>1, <3>2, OnlyWritersStay DEF Waits
      <3>4. QED
        BY <2>1, <3>1, <3>2, <3>3 DEF DestroyInv
    <2>8. CASE Destroy(t)
      <3>1. /\ t = Destroyer /\ is_destroyed' /\ gone' = gone
            /\ \A u \in Threads \ {t} : pc'[u] = pc[u]
            /\ pc'[t] = "destroying"
        BY <2>1, <2>8 DEF Destroy, Goto, TypeOK
      <3>2. QED
        BY <2>1, <2>3, <3>1 DEF DestroyInv
    <2>9. QED
      BY <1>3, <2>1, <2>2, <2>3, <2>4, <2>5, <2>6, <2>7, <2>8, DestroyGain, DestroyRelease
        DEF Late, Inside
  <1>4. QED
    BY <1>1, <1>2, <1>3

(* destroy frees the lock when no reader waits or is on its way in, for any      *)
(* number of threads.                                                            *)
THEOREM DestroyIsLast == Spec => []DestroyOutwaitsReaders
  <1>1. Init => DestroyInv
    BY DEF Init, DestroyInv
  <1>2. IInv /\ DestroyInv /\ [Next]_vars => DestroyInv'
    BY DestroyStep
  <1>3. IInv /\ DestroyInv => DestroyOutwaitsReaders
    BY DEF IInv, TypeOK, DestroyInv, DestroyOutwaitsReaders, OnlyWritersAway, Waiting, LetIn, Waits
  <1>4. QED
    BY <1>1, <1>2, <1>3, InductiveInvariant, PTL DEF Spec
=============================================================================
