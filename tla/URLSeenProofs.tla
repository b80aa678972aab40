------------------------------ MODULE URLSeenProofs ------------------------------
(* Proofs about URLSeen for any number of workers, any keys and any capacity of  *)
(* the cache.                                                                    *)
EXTENDS URLSeen, SequenceTheorems, FiniteSetTheorems, TLAPS

(* The assumptions on the constants, one by one.                                 *)
LEMMA ConstantTypes ==
  /\ NoKey \notin Keys
  /\ MAX_LRU \in Nat /\ MAX_LRU >= 2
  /\ Seeds \subseteq Keys /\ MaxLines \in Nat /\ MaxChecks \in Nat
BY LRUAssumption, URLSeenAssumption

KeysOf(c) == {c[i] : i \in DOMAIN c}

-----------------------------------------------------------------------------
(* Of the indices where something holds, if there are any, one is the greatest.  *)
LEMMA GreatestIndex ==
  ASSUME NEW n \in Nat, NEW S, S \subseteq 1 .. n, S # {}
  PROVE  \E m \in S : \A k \in S : k <= m
  <1> DEFINE R == {n - k : k \in S}
  <1>1. R \subseteq Nat
    BY \A k \in 1 .. n : n - k \in Nat
  <1>2. R # {}
    OBVIOUS
  <1>3. PICK m \in R : \A k \in R : ~ (<<k, m>> \in OpToRel(<, Nat))
    <2> HIDE DEF R
    <2>1. QED
      BY <1>1, <1>2, NatLessThanWellFounded, WFMin
  <1>4. \A k \in R : ~ (k < m)
    BY <1>1, <1>3 DEF OpToRel
  <1>5. n - m \in S /\ m \in Int
    OBVIOUS
  <1>6. ASSUME NEW k \in S
        PROVE  k <= n - m
    <2>1. n - k \in R /\ k \in 1 .. n
      OBVIOUS
    <2>2. ~ (n - k < m)
      BY <1>4, <2>1
    <2> HIDE DEF R
    <2>3. QED
      BY <2>1, <2>2, <1>5
  <1>7. QED
    BY <1>5, <1>6

(* A hit reorders the cache and keeps its keys.                                  *)
LEMMA TouchedKeys ==
  ASSUME NEW c \in Seq(Keys), NEW k \in Keys, Holds(c, k)
  PROVE  /\ Touched(c, k) \in Seq(Keys)
         /\ Len(Touched(c, k)) = Len(c)
         /\ KeysOf(Touched(c, k)) = KeysOf(c)
  <1> DEFINE n == Len(c)
             p == LastPage(c, k)
             left == SubSeq(c, 1, p - 1)
             right == SubSeq(c, p + 1, n)
  <1>1. n \in Nat /\ n = Len(c) /\ DOMAIN c = 1 .. n /\ \A i \in 1 .. n : c[i] \in Keys
    BY LenProperties
  <1>2. p \in 1 .. n /\ c[p] = k
    <2> DEFINE S == {i \in DOMAIN c : c[i] = k}
    <2>1. S \subseteq 1 .. n /\ S # {}
      BY <1>1 DEF Holds
    <2>2. \E m \in S : \A i \in S : i <= m
      <3> HIDE DEF S
      <3>1. QED
        BY <2>1, <1>1, GreatestIndex
    <2>3. \E i \in DOMAIN c : c[i] = k /\ \A j \in DOMAIN c : c[j] = k => j <= i
      BY <2>2
    <2>4. QED
      BY <2>3, <1>1, Zenon DEF LastPage
  <1> HIDE DEF p, n
  <1>r. p \in Int /\ 1 <= p /\ p <= n /\ n \in Int
    BY <1>1, <1>2
  <1>3. /\ left \in Seq(Keys) /\ Len(left) = p - 1
        /\ \A i \in 1 .. p - 1 : left[i] = c[i]
    <2>1. \A i \in 1 .. p - 1 : c[i] \in Keys
      BY <1>1, <1>2
    <2>2. /\ left \in Seq(Keys)
          /\ Len(left) = IF 1 <= p - 1 THEN p - 1 - 1 + 1 ELSE 0
          /\ \A i \in 1 .. p - 1 - 1 + 1 : left[i] = c[1 + i - 1]
      BY <2>1, <1>2, SubSeqProperties
    <2>3. QED
      BY <2>2, <1>2
  <1>4. /\ right \in Seq(Keys) /\ Len(right) = n - p
        /\ \A i \in 1 .. n - p : right[i] = c[p + i]
    <2>1. \A i \in p + 1 .. n : c[i] \in Keys
      BY <1>1, <1>2
    <2>2. /\ right \in Seq(Keys)
          /\ Len(right) = IF p + 1 <= n THEN n - (p + 1) + 1 ELSE 0
          /\ \A i \in 1 .. n - (p + 1) + 1 : right[i] = c[p + 1 + i - 1]
      BY <2>1, <1>1, <1>2, SubSeqProperties
    <2> HIDE DEF right
    <2>3. n - (p + 1) + 1 = n - p /\ (IF p + 1 <= n THEN n - (p + 1) + 1 ELSE 0) = n - p
      BY <1>r
    <2>4. ASSUME NEW i \in 1 .. n - p PROVE right[i] = c[p + i]
      <3>1. p + 1 + i - 1 = p + i
        BY <1>1, <1>2
      <3>2. QED
        BY <3>1, <2>2, <2>3
    <2>5. QED
      BY <2>2, <2>3, <2>4
  <1>5. <<k>> \in Seq(Keys) /\ Len(<<k>>) = 1 /\ <<k>>[1] = k
    OBVIOUS
  <1> DEFINE both == left \o right
             t == both \o <<k>>
  <1>6. Touched(c, k) = t
    BY DEF Touched, p, n
  <1> HIDE DEF left, right
  <1>7. /\ both \in Seq(Keys) /\ Len(both) = n - 1
        /\ \A i \in 1 .. p - 1 : both[i] = c[i]
        /\ \A i \in p .. n - 1 : both[i] = c[i + 1]
    <2>0. /\ both \in Seq(Keys) /\ Len(both) = Len(left) + Len(right)
          /\ \A i \in 1 .. Len(left) + Len(right) :
               both[i] = IF i <= Len(left) THEN left[i] ELSE right[i - Len(left)]
      BY <1>3, <1>4, ConcatProperties
    <2> HIDE DEF both
    <2>1. /\ both \in Seq(Keys) /\ Len(both) = (p - 1) + (n - p)
          /\ \A i \in 1 .. (p - 1) + (n - p) :
               both[i] = IF i <= p - 1 THEN left[i] ELSE right[i - (p - 1)]
      BY <2>0, <1>3, <1>4
    <2>2. (p - 1) + (n - p) = n - 1
      BY <1>1, <1>2
    <2>3. ASSUME NEW i \in 1 .. p - 1 PROVE both[i] = c[i]
      <3>1. i \in 1 .. (p - 1) + (n - p) /\ i <= p - 1
        BY <1>1, <1>2
      <3>2. QED
        BY <2>1, <3>1, <1>3
    <2>4. ASSUME NEW i \in p .. n - 1 PROVE both[i] = c[i + 1]
      <3> DEFINE j == i - (p - 1)
      <3>1. /\ i \in 1 .. (p - 1) + (n - p) /\ ~(i <= p - 1)
            /\ j \in 1 .. n - p /\ p + j = i + 1
        BY <1>1, <1>2
      <3>2. both[i] = right[j]
        BY <2>1, <3>1
      <3>3. QED
        BY <3>1, <3>2, <1>4
    <2>5. QED
      BY <2>1, <2>2, <2>3, <2>4
  <1> HIDE DEF both
  <1>8. /\ t \in Seq(Keys) /\ Len(t) = n
        /\ \A i \in 1 .. n - 1 : t[i] = both[i]
        /\ t[n] = k
    <2>1. /\ t \in Seq(Keys) /\ Len(t) = (n - 1) + 1
          /\ \A i \in 1 .. (n - 1) + 1 :
               t[i] = IF i <= n - 1 THEN both[i] ELSE <<k>>[i - (n - 1)]
      BY <1>5, <1>7, ConcatProperties
    <2>2. n >= 1 /\ (n - 1) + 1 = n
      BY <1>1, <1>2
    <2>3. t[n] = <<k>>[1]
      <3>1. n \in 1 .. (n - 1) + 1 /\ ~(n <= n - 1) /\ n - (n - 1) = 1
        BY <2>2, <1>1
      <3>2. QED
        BY <2>1, <3>1
    <2>4. ASSUME NEW i \in 1 .. n - 1 PROVE t[i] = both[i]
      <3>1. i \in 1 .. (n - 1) + 1 /\ i <= n - 1
        BY <1>1
      <3>2. QED
        BY <2>1, <3>1
    <2>5. QED
      BY <2>1, <2>2, <2>3, <2>4, <1>5
  <1> HIDE DEF t
  <1>9. KeysOf(t) = {t[i] : i \in 1 .. n} /\ KeysOf(c) = {c[i] : i \in 1 .. n}
    BY <1>1, <1>8, LenProperties DEF KeysOf
  <1>10. KeysOf(t) \subseteq KeysOf(c)
    <2> SUFFICES ASSUME NEW i \in 1 .. n PROVE \E j \in 1 .. n : t[i] = c[j]
      BY <1>9
    <2>1. CASE i = n
      BY <2>1, <1>2, <1>8
    <2>2. CASE i < p
      <3>1. i \in 1 .. n - 1 /\ i \in 1 .. p - 1
        BY <2>2, <1>1, <1>2
      <3>2. QED
        BY <3>1, <1>7, <1>8
    <2>3. CASE p <= i /\ i < n
      <3>1. i \in 1 .. n - 1 /\ i \in p .. n - 1 /\ i + 1 \in 1 .. n
        BY <2>3, <1>1, <1>2
      <3>2. QED
        BY <3>1, <1>7, <1>8
    <2>4. i = n \/ i < p \/ (p <= i /\ i < n)
      BY <1>r
    <2>5. QED
      BY <2>1, <2>2, <2>3, <2>4, Zenon
  <1>11. KeysOf(c) \subseteq KeysOf(t)
    <2> SUFFICES ASSUME NEW i \in 1 .. n PROVE \E j \in 1 .. n : c[i] = t[j]
      BY <1>9
    <2>1. CASE i = p
      <3>1. n \in 1 .. n
        BY <1>1, <1>2
      <3>2. QED
        BY <2>1, <3>1, <1>2, <1>8
    <2>2. CASE i < p
      <3>1. i \in 1 .. n - 1 /\ i \in 1 .. p - 1
        BY <2>2, <1>1, <1>2
      <3>2. QED
        BY <3>1, <1>7, <1>8
    <2>3. CASE p < i
      <3> DEFINE j == i - 1
      <3>1. j \in 1 .. n - 1 /\ j \in p .. n - 1 /\ j + 1 = i /\ j \in 1 .. n
        BY <2>3, <1>1, <1>2
      <3>2. c[i] = t[j]
        BY <3>1, <1>7, <1>8
      <3>3. QED
        BY <3>1, <3>2
    <2>4. i = p \/ i < p \/ p < i
      BY <1>1, <1>2
    <2>5. QED
      BY <2>1, <2>2, <2>3, <2>4, Zenon
  <1>12. QED
    BY <1>6, <1>8, <1>10, <1>11

(* Inserting adds the new key; the only key that may go is the one evicted.      *)
LEMMA InsertedKeys ==
  ASSUME NEW c \in Seq(Keys), Len(c) <= MAX_LRU, NEW k \in Keys
  PROVE  /\ Inserted(c, k) \in Seq(Keys) /\ Len(Inserted(c, k)) <= MAX_LRU
         /\ Full(c) => Full(Inserted(c, k)) /\ Evicted(c) \in KeysOf(c)
         /\ ~Full(c) => Evicted(c) = NoKey /\ KeysOf(Inserted(c, k)) = KeysOf(c) \cup {k}
         /\ k \in KeysOf(Inserted(c, k))
         /\ KeysOf(Inserted(c, k)) \subseteq KeysOf(c) \cup {k}
         /\ KeysOf(c) \subseteq KeysOf(Inserted(c, k)) \cup {Evicted(c)}
  <1> USE ConstantTypes
  <1> DEFINE n == Len(c)
             kept == IF Full(c) THEN Tail(c) ELSE c
             ins == Append(kept, k)
  <1>1. n \in Nat /\ DOMAIN c = 1 .. n
    BY LenProperties
  <1>2. CASE ~Full(c)
    <2>1. /\ ins \in Seq(Keys) /\ Len(ins) = n + 1 /\ n < MAX_LRU
          /\ ins[n + 1] = k /\ \A i \in 1 .. n : ins[i] = c[i]
      BY <1>1, <1>2, AppendProperties DEF Full
    <2> HIDE DEF ins
    <2>2. DOMAIN ins = 1 .. n + 1 /\ 1 .. n + 1 = 1 .. n \cup {n + 1}
      BY <2>1, <1>1, LenProperties
    <2>3. KeysOf(ins) = KeysOf(c) \cup {k}
      BY <2>1, <2>2, <1>1 DEF KeysOf
    <2>4. Len(ins) <= MAX_LRU
      BY <2>1, <1>1
    <2>5. QED
      BY <1>2, <2>1, <2>3, <2>4 DEF Inserted, Evicted, ins
  <1>3. CASE Full(c)
    <2>1. n = MAX_LRU /\ n >= 2 /\ c # <<>>
      BY <1>3 DEF Full
    <2>2. /\ Tail(c) \in Seq(Keys) /\ Len(Tail(c)) = n - 1
          /\ \A i \in 1 .. n - 1 : Tail(c)[i] = c[i + 1]
          /\ Head(c) = c[1]
      BY <2>1, HeadTailProperties
    <2>3. /\ ins \in Seq(Keys) /\ Len(ins) = n /\ ins[n] = k
          /\ \A i \in 1 .. n - 1 : ins[i] = c[i + 1]
      <3>1. kept = Tail(c)
        BY <1>3
      <3>2. ins = Append(Tail(c), k)
        BY <3>1
      <3> HIDE DEF ins, kept
      <3>3. n - 1 + 1 = n
        BY <1>1
      <3>4. /\ ins \in Seq(Keys) /\ Len(ins) = Len(Tail(c)) + 1
            /\ ins[Len(Tail(c)) + 1] = k
            /\ \A i \in 1 .. Len(Tail(c)) : ins[i] = Tail(c)[i]
        BY <3>2, <2>2, AppendProperties
      <3>5. QED
        BY <3>3, <3>4, <2>2
    <2> HIDE DEF ins, kept
    <2>4. DOMAIN ins = 1 .. n
      BY <2>3, LenProperties
    <2>5. k \in KeysOf(ins) /\ Head(c) \in KeysOf(c)
      BY <2>1, <2>2, <2>3, <2>4, <1>1 DEF KeysOf
    <2>6. KeysOf(ins) \subseteq KeysOf(c) \cup {k}
      <3> SUFFICES ASSUME NEW i \in 1 .. n, i # n PROVE ins[i] \in KeysOf(c)
        BY <2>3, <2>4 DEF KeysOf
      <3> HIDE DEF n
      <3>1. i \in 1 .. n - 1 /\ i + 1 \in 1 .. n
        BY <1>1
      <3>2. QED
        BY <3>1, <2>3, <1>1 DEF KeysOf
    <2>7. KeysOf(c) \subseteq KeysOf(ins) \cup {Head(c)}
      <3> SUFFICES ASSUME NEW i \in 1 .. n, i # 1 PROVE c[i] \in KeysOf(ins)
        BY <2>2, <1>1 DEF KeysOf
      <3> DEFINE j == i - 1
      <3>1. j \in 1 .. n - 1 /\ j + 1 = i /\ j \in 1 .. n
        BY <1>1
      <3>2. c[i] = ins[j]
        BY <3>1, <2>3
      <3>3. QED
        BY <3>1, <3>2, <2>4 DEF KeysOf
    <2>8. Inserted(c, k) = ins /\ Evicted(c) = Head(c) /\ Full(ins)
      BY <1>3, <2>1, <2>3 DEF Inserted, Evicted, Full, ins, kept
    <2>9. QED
      BY <1>3, <2>1, <2>3, <2>5, <2>6, <2>7, <2>8
  <1>4. QED
    BY <1>2, <1>3

-----------------------------------------------------------------------------
(* Which evicted keys are on their way, and which URLs are being added, after a  *)
(* step of worker w.                                                             *)
Evicting == {"demote", "spill"}
Pushing  == {"spill", "enqueue"}

(* What a worker's step does to the keys that are in flight.                     *)
LEMMA InFlightAfter ==
  ASSUME TypeOK, NEW w \in Workers, NEW p \in Points, pc' = [pc EXCEPT ![w] = p],
         \A v \in Workers \ {w} : out'[v] = out[v]
  PROVE  /\ p \in Evicting => InFlight' \subseteq InFlight \cup {out'[w]}
         /\ p \notin Evicting => InFlight' \subseteq InFlight
         /\ pc[w] \in Evicting => InFlight \subseteq InFlight' \cup {out[w]} /\ out[w] \in InFlight
         /\ pc[w] \notin Evicting => InFlight \subseteq InFlight'
         /\ p \in Evicting => out'[w] \in InFlight'
  <1> USE DEF Evicting
  <1>1. /\ pc \in [Workers -> Points] /\ pc'[w] = p
        /\ \A v \in Workers \ {w} : pc'[v] = pc[v]
    BY DEF TypeOK
  <1>2. QED
    BY <1>1 DEF InFlight

(* What it does to the keys that are being added.                                *)
LEMMA BeingAddedAfter ==
  ASSUME TypeOK, NEW w \in Workers, NEW p \in Points, pc' = [pc EXCEPT ![w] = p],
         \A v \in Workers \ {w} : key'[v] = key[v]
  PROVE  /\ pc[w] \in Pushing => BeingAdded \subseteq BeingAdded' \cup {key[w]}
         /\ pc[w] \notin Pushing => BeingAdded \subseteq BeingAdded'
         /\ p \in Pushing => BeingAdded' \subseteq BeingAdded \cup {key'[w]} /\ key'[w] \in BeingAdded'
         /\ p \notin Pushing => BeingAdded' \subseteq BeingAdded
  <1> USE DEF Pushing
  <1>1. /\ pc \in [Workers -> Points] /\ pc'[w] = p
        /\ \A v \in Workers \ {w} : pc'[v] = pc[v]
    BY DEF TypeOK
  <1>2. QED
    BY <1>1 DEF BeingAdded

(* The keys in the cache are those of its list.                                  *)
LEMMA CachedIsKeysOf == Cached = KeysOf(cache)
BY DEF Cached, KeysOf

(* check, looking in the cache, keeps the inductive invariant.                   *)
LEMMA CheckCacheStep ==
  ASSUME IInv, NEW w \in Workers, CheckCache(w)
  PROVE  IInv'
  <1> USE ConstantTypes
  <1>1. PICK k \in Keys :
           /\ key' = [key EXCEPT ![w] = k]
           /\ \/ Holds(cache, k) /\ cache' = Touched(cache, k) /\ Goto(w, "idle", "idle")
              \/ ~Holds(cache, k) /\ cache' = cache /\ Goto(w, "idle", "checkFile")
    BY Zenon DEF CheckCache
  <1>2. /\ checks' = checks + 1 /\ markedAt' = [markedAt EXCEPT ![w] = marked]
        /\ UNCHANGED <<file, out, marked, pushes>>
    BY DEF CheckCache
  <1>3. TypeOK /\ cache \in Seq(Keys) /\ Len(cache) <= MAX_LRU
    BY DEF IInv, TypeOK
  <1>4. /\ cache' \in Seq(Keys) /\ Len(cache') = Len(cache) /\ Cached' = Cached
    <2>1. CASE Holds(cache, k) /\ cache' = Touched(cache, k)
      <3> DEFINE t == Touched(cache, k)
      <3>1. t \in Seq(Keys) /\ Len(t) = Len(cache) /\ KeysOf(t) = KeysOf(cache)
        BY <1>3, <2>1, TouchedKeys
      <3>2. Cached' = KeysOf(t)
        BY <2>1 DEF Cached, KeysOf
      <3>3. QED
        BY <3>1, <3>2, <2>1, CachedIsKeysOf
    <2>2. CASE cache' = cache
      BY <1>3, <2>2 DEF Cached
    <2>3. QED
      BY <1>1, <2>1, <2>2
  <1>5. PICK p \in {"idle", "checkFile"} : pc[w] = "idle" /\ pc' = [pc EXCEPT ![w] = p]
    BY <1>1 DEF Goto
  <1>6. TypeOK'
    BY <1>1, <1>2, <1>3, <1>4, <1>5 DEF TypeOK, Points
  <1>7. InFlight' = InFlight /\ BeingAdded' = BeingAdded
    <2>1. \A v \in Workers \ {w} : out'[v] = out[v] /\ key'[v] = key[v]
      BY <1>1, <1>2, <1>3 DEF TypeOK
    <2>2. p \in Points /\ p \notin Evicting \cup Pushing /\ pc[w] \notin Evicting \cup Pushing
      BY <1>5 DEF Points, Evicting, Pushing
    <2>3. QED
      BY <1>3, <1>5, <2>1, <2>2, InFlightAfter, BeingAddedAfter
  <1>8. CallsOK'
    BY <1>1, <1>2, <1>3, <1>5 DEF CallsOK, IInv, TypeOK
  <1>9. EvictedIsAKey'
    <2>1. \A v \in Workers : pc'[v] \in {"promote", "demote", "spill"} => pc[v] = pc'[v]
      BY <1>3, <1>5 DEF TypeOK
    <2>2. Full(cache)' <=> Full(cache)
      BY <1>4 DEF Full
    <2>3. QED
      BY <1>2, <1>7, <2>1, <2>2 DEF EvictedIsAKey, IInv
  <1>10. MarkedIsKept' /\ NothingSkipped'
    BY <1>2, <1>4, <1>7 DEF MarkedIsKept, NothingSkipped, IInv, Kept
  <1>11. QED
    BY <1>6, <1>8, <1>9, <1>10 DEF IInv

(* check, looking in the file, keeps it: a key found there stays there.          *)
LEMMA CheckFileStep ==
  ASSUME IInv, NEW w \in Workers, CheckFile(w)
  PROVE  IInv'
  <1>1. TypeOK
    BY DEF IInv
  <1>2. PICK p \in {"promote", "add"} :
           pc[w] = "checkFile" /\ pc' = [pc EXCEPT ![w] = p] /\ (p = "promote" => key[w] \in file)
    BY DEF CheckFile, Goto
  <1>3. UNCHANGED <<cache, file, key, out, checks, marked, markedAt, pushes>>
    BY DEF CheckFile
  <1>4. Cached' = Cached
    BY <1>3 DEF Cached
  <1>5. InFlight' = InFlight /\ BeingAdded' = BeingAdded
    <2>1. p \in Points /\ p \notin Evicting \cup Pushing /\ pc[w] \notin Evicting \cup Pushing
      BY <1>2 DEF Points, Evicting, Pushing
    <2>2. QED
      BY <1>1, <1>2, <1>3, <2>1, InFlightAfter, BeingAddedAfter
  <1>6. TypeOK'
    BY <1>1, <1>2, <1>3 DEF TypeOK, Points
  <1>7. CallsOK'
    BY <1>1, <1>2, <1>3 DEF CallsOK, IInv, TypeOK
  <1>8. EvictedIsAKey'
    <2>1. \A v \in Workers : pc'[v] \in {"promote", "demote", "spill"} =>
             file # {} \/ pc[v] \in {"promote", "demote", "spill"}
      BY <1>1, <1>2 DEF TypeOK
    <2>2. QED
      BY <1>3, <1>5, <2>1 DEF EvictedIsAKey, IInv, Full
  <1>9. MarkedIsKept' /\ NothingSkipped'
    BY <1>3, <1>4, <1>5 DEF MarkedIsKept, NothingSkipped, IInv, Kept
  <1>10. QED
    BY <1>6, <1>7, <1>8, <1>9 DEF IInv

(* What inserting its key in the cache does to a worker's key and to the rest.   *)
LEMMA AfterInsertCache ==
  ASSUME IInv, NEW w \in Workers, key[w] \in Keys, InsertCache(w)
  PROVE  /\ cache' \in Seq(Keys) /\ Len(cache') <= MAX_LRU
         /\ out' \in [Workers -> Keys \cup {NoKey}]
         /\ \A v \in Workers \ {w} : out'[v] = out[v]
         /\ Full(cache) => Full(cache') /\ out'[w] \in Cached
         /\ ~Full(cache) => Cached' = Cached \cup {key[w]}
         /\ key[w] \in Cached'
         /\ Cached' \subseteq Cached \cup {key[w]}
         /\ Cached \subseteq Cached' \cup {out'[w]}
  <1> DEFINE c == Inserted(cache, key[w])
  <1>1. cache \in Seq(Keys) /\ Len(cache) <= MAX_LRU /\ out \in [Workers -> Keys \cup {NoKey}]
    BY DEF IInv, TypeOK
  <1>2. cache' = c /\ out' = [out EXCEPT ![w] = Evicted(cache)]
    BY DEF InsertCache
  <1>3. Cached' = KeysOf(c) /\ Cached = KeysOf(cache)
    BY <1>2 DEF Cached, KeysOf
  <1>4. /\ c \in Seq(Keys) /\ Len(c) <= MAX_LRU
        /\ Full(cache) => Full(c) /\ Evicted(cache) \in KeysOf(cache)
        /\ ~Full(cache) => Evicted(cache) = NoKey /\ KeysOf(c) = KeysOf(cache) \cup {key[w]}
        /\ key[w] \in KeysOf(c)
        /\ KeysOf(c) \subseteq KeysOf(cache) \cup {key[w]}
        /\ KeysOf(cache) \subseteq KeysOf(c) \cup {Evicted(cache)}
    BY <1>1, InsertedKeys
  <1> HIDE DEF c
  <1>5. KeysOf(cache) \subseteq Keys
    BY <1>1, LenProperties DEF KeysOf
  <1>6. out'[w] = Evicted(cache) /\ \A v \in Workers \ {w} : out'[v] = out[v]
    BY <1>1, <1>2
  <1>7. out' \in [Workers -> Keys \cup {NoKey}]
    BY <1>1, <1>2, <1>4, <1>5
  <1>8. QED
    BY <1>2, <1>3, <1>4, <1>6, <1>7

(* Moving a key from the file to the cache keeps it.                             *)
LEMMA PromoteStep ==
  ASSUME IInv, NEW w \in Workers, Promote(w)
  PROVE  IInv'
  <1>1. TypeOK /\ CallsOK /\ EvictedIsAKey
    BY DEF IInv
  <1>2. /\ pc[w] = "promote" /\ pc' = [pc EXCEPT ![w] = "demote"] /\ InsertCache(w)
        /\ UNCHANGED <<file, key, checks, marked, markedAt, pushes>>
    BY DEF Promote, Goto
  <1>3. key[w] \in Keys /\ key[w] \in file /\ Full(cache)
    BY <1>1, <1>2 DEF CallsOK, EvictedIsAKey
  <1>4. /\ cache' \in Seq(Keys) /\ Len(cache') <= MAX_LRU
        /\ out' \in [Workers -> Keys \cup {NoKey}]
        /\ \A v \in Workers \ {w} : out'[v] = out[v]
        /\ Full(cache') /\ out'[w] \in Cached
        /\ Cached' \subseteq Cached \cup {key[w]} /\ Cached \subseteq Cached' \cup {out'[w]}
    BY <1>2, <1>3, AfterInsertCache
  <1>5. /\ InFlight' \subseteq InFlight \cup {out'[w]} /\ out'[w] \in InFlight'
        /\ InFlight \subseteq InFlight' /\ BeingAdded' = BeingAdded
    <2>1. "demote" \in Points /\ "demote" \in Evicting /\ "demote" \notin Pushing
      BY DEF Points, Evicting, Pushing
    <2>2. pc[w] \notin Evicting \cup Pushing
      BY <1>2 DEF Evicting, Pushing
    <2>3. QED
      BY <1>1, <1>2, <1>4, <2>1, <2>2, InFlightAfter, BeingAddedAfter
  <1>6. Kept' = Kept
    BY <1>2, <1>3, <1>4, <1>5 DEF Kept
  <1>7. TypeOK'
    BY <1>1, <1>2, <1>4 DEF TypeOK, Points
  <1>8. CallsOK'
    BY <1>1, <1>2 DEF CallsOK, TypeOK
  <1>9. EvictedIsAKey'
    <2>1. out'[w] \in Keys
      BY <1>1, <1>4, LenProperties DEF Cached, TypeOK
    <2>2. QED
      BY <1>1, <1>2, <1>4, <1>5, <2>1, ConstantTypes DEF EvictedIsAKey, Full
  <1>10. MarkedIsKept' /\ NothingSkipped'
    BY <1>2, <1>5, <1>6 DEF MarkedIsKept, NothingSkipped, IInv
  <1>11. QED
    BY <1>7, <1>8, <1>9, <1>10 DEF IInv

(* Writing the key that this evicted to the file keeps it.                       *)
LEMMA DemoteStep ==
  ASSUME IInv, NEW w \in Workers, Demote(w)
  PROVE  IInv'
  <1>1. TypeOK /\ CallsOK /\ EvictedIsAKey
    BY DEF IInv
  <1>2. /\ pc[w] = "demote" /\ pc' = [pc EXCEPT ![w] = "idle"]
        /\ file' = file \cup {out[w]}
        /\ UNCHANGED <<cache, key, out, checks, marked, markedAt, pushes>>
    BY DEF Demote, Goto, InsertFile
  <1>3. /\ InFlight' \subseteq InFlight /\ InFlight \subseteq InFlight' \cup {out[w]}
        /\ out[w] \in InFlight /\ BeingAdded' = BeingAdded
    <2>1. "idle" \in Points /\ "idle" \notin Evicting /\ "idle" \notin Pushing
      BY DEF Points, Evicting, Pushing
    <2>2. pc[w] \in Evicting /\ pc[w] \notin Pushing
      BY <1>2 DEF Evicting, Pushing
    <2>3. QED
      BY <1>1, <1>2, <2>1, <2>2, InFlightAfter, BeingAddedAfter
  <1>4. Kept' = Kept
    BY <1>2, <1>3 DEF Kept, Cached
  <1>5. TypeOK'
    BY <1>1, <1>2 DEF TypeOK, Points
  <1>6. CallsOK'
    BY <1>1, <1>2 DEF CallsOK, TypeOK
  <1>7. EvictedIsAKey'
    <2>1. Full(cache)' /\ NoKey \notin file' \cup InFlight'
      BY <1>1, <1>2, <1>3 DEF EvictedIsAKey, Full
    <2>2. QED
      BY <2>1 DEF EvictedIsAKey
  <1>8. MarkedIsKept' /\ NothingSkipped'
    BY <1>2, <1>3, <1>4 DEF MarkedIsKept, NothingSkipped, IInv
  <1>9. QED
    BY <1>5, <1>6, <1>7, <1>8 DEF IInv

(* add keeps it: the key it evicts, if any, is in the worker's hands.            *)
LEMMA AddStep ==
  ASSUME IInv, NEW w \in Workers, Add(w)
  PROVE  IInv'
  <1> DEFINE p == IF Full(cache) THEN "spill" ELSE "enqueue"
  <1>1. TypeOK /\ CallsOK /\ EvictedIsAKey
    BY DEF IInv
  <1>2. /\ pc[w] = "add" /\ pc' = [pc EXCEPT ![w] = p] /\ InsertCache(w)
        /\ marked' = IF Full(cache) THEN marked ELSE marked \cup {key[w]}
        /\ UNCHANGED <<file, key, checks, markedAt, pushes>>
    BY DEF Add, Goto
  <1>3. key[w] \in Keys
    BY <1>1, <1>2 DEF CallsOK
  <1>4. /\ cache' \in Seq(Keys) /\ Len(cache') <= MAX_LRU
        /\ out' \in [Workers -> Keys \cup {NoKey}]
        /\ \A v \in Workers \ {w} : out'[v] = out[v]
        /\ Full(cache) => Full(cache') /\ out'[w] \in Cached
        /\ ~Full(cache) => Cached' = Cached \cup {key[w]}
        /\ key[w] \in Cached'
        /\ Cached' \subseteq Cached \cup {key[w]} /\ Cached \subseteq Cached' \cup {out'[w]}
    BY <1>2, <1>3, AfterInsertCache
  <1>5. /\ Full(cache) => InFlight' \subseteq InFlight \cup {out'[w]} /\ out'[w] \in InFlight'
        /\ ~Full(cache) => InFlight' \subseteq InFlight
        /\ InFlight \subseteq InFlight'
        /\ BeingAdded' = BeingAdded \cup {key[w]}
    <2>1. p \in Points /\ p \in Pushing /\ (p \in Evicting <=> Full(cache))
      BY DEF Points, Evicting, Pushing
    <2>2. pc[w] \notin Evicting \cup Pushing
      BY <1>2 DEF Evicting, Pushing
    <2> HIDE DEF p
    <2>3. QED
      BY <1>1, <1>2, <1>4, <2>1, <2>2, InFlightAfter, BeingAddedAfter
  <1>6. Kept' = Kept \cup {key[w]}
    <2>1. CASE Full(cache)
      BY <1>2, <1>4, <1>5, <2>1 DEF Kept
    <2>2. CASE ~Full(cache)
      BY <1>2, <1>4, <1>5, <2>2 DEF Kept
    <2>3. QED
      BY <2>1, <2>2
  <1>7. TypeOK'
    BY <1>1, <1>2, <1>3, <1>4 DEF TypeOK, Points
  <1>8. CallsOK'
    BY <1>1, <1>2 DEF CallsOK, TypeOK
  <1>9. EvictedIsAKey'
    <2>1. Cached \subseteq Keys
      BY <1>1, LenProperties DEF Cached, TypeOK
    <2>2. \A v \in Workers : pc'[v] \in {"promote", "demote", "spill"} =>
             Full(cache) \/ pc[v] \in {"promote", "demote", "spill"}
      BY <1>1, <1>2 DEF TypeOK
    <2>3. Full(cache)' <=> Full(cache')
      BY DEF Full
    <2>4. QED
      BY <1>1, <1>2, <1>4, <1>5, <2>1, <2>2, <2>3, ConstantTypes DEF EvictedIsAKey
  <1>10. MarkedIsKept' /\ NothingSkipped'
    BY <1>2, <1>5, <1>6 DEF MarkedIsKept, NothingSkipped, IInv
  <1>11. QED
    BY <1>7, <1>8, <1>9, <1>10 DEF IInv

(* Writing that key to the file keeps it.                                        *)
LEMMA SpillStep ==
  ASSUME IInv, NEW w \in Workers, Spill(w)
  PROVE  IInv'
  <1>1. TypeOK /\ CallsOK /\ EvictedIsAKey
    BY DEF IInv
  <1>2. /\ pc[w] = "spill" /\ pc' = [pc EXCEPT ![w] = "enqueue"]
        /\ file' = file \cup {out[w]} /\ marked' = marked \cup {key[w]}
        /\ UNCHANGED <<cache, key, out, checks, markedAt, pushes>>
    BY DEF Spill, Goto, InsertFile
  <1>3. /\ InFlight' \subseteq InFlight /\ InFlight \subseteq InFlight' \cup {out[w]}
        /\ out[w] \in InFlight /\ BeingAdded' = BeingAdded /\ key[w] \in BeingAdded
    <2>1. "enqueue" \in Points /\ "enqueue" \notin Evicting /\ "enqueue" \in Pushing
      BY DEF Points, Evicting, Pushing
    <2>2. pc[w] \in Evicting /\ pc[w] \in Pushing
      BY <1>2 DEF Evicting, Pushing
    <2>3. key[w] \in BeingAdded
      BY <1>2 DEF BeingAdded
    <2>4. /\ InFlight' \subseteq InFlight /\ InFlight \subseteq InFlight' \cup {out[w]}
          /\ out[w] \in InFlight
      BY <1>1, <1>2, <2>1, <2>2, InFlightAfter
    <2>5. /\ BeingAdded \subseteq BeingAdded' \cup {key[w]} /\ key[w] \in BeingAdded'
          /\ BeingAdded' \subseteq BeingAdded \cup {key[w]}
      BY <1>1, <1>2, <2>1, <2>2, BeingAddedAfter
    <2>6. QED
      BY <2>3, <2>4, <2>5
  <1>4. Kept' = Kept
    BY <1>2, <1>3 DEF Kept, Cached
  <1>5. TypeOK'
    BY <1>1, <1>2 DEF TypeOK, Points, CallsOK
  <1>6. CallsOK'
    BY <1>1, <1>2 DEF CallsOK, TypeOK
  <1>7. EvictedIsAKey'
    <2>1. Full(cache)' /\ NoKey \notin file' \cup InFlight'
      BY <1>1, <1>2, <1>3 DEF EvictedIsAKey, Full
    <2>2. QED
      BY <2>1 DEF EvictedIsAKey
  <1>8. MarkedIsKept' /\ NothingSkipped'
    BY <1>2, <1>3, <1>4 DEF MarkedIsKept, NothingSkipped, IInv
  <1>9. QED
    BY <1>5, <1>6, <1>7, <1>8 DEF IInv

(* The push after an add keeps it.                                               *)
LEMMA EnqueueStep ==
  ASSUME IInv, NEW w \in Workers, Enqueue(w)
  PROVE  IInv'
  <1>1. TypeOK /\ CallsOK /\ EvictedIsAKey
    BY DEF IInv
  <1>2. /\ pc[w] = "enqueue" /\ pc' = [pc EXCEPT ![w] = "idle"]
        /\ pushes' = [pushes EXCEPT ![key[w]] = pushes[key[w]] + 1]
        /\ UNCHANGED <<cache, file, key, out, checks, marked, markedAt>>
    BY DEF Enqueue, Goto
  <1>3. /\ InFlight' = InFlight /\ BeingAdded' \subseteq BeingAdded
        /\ BeingAdded \subseteq BeingAdded' \cup {key[w]}
    <2>1. "idle" \in Points /\ "idle" \notin Evicting /\ "idle" \notin Pushing
      BY DEF Points, Evicting, Pushing
    <2>2. pc[w] \notin Evicting /\ pc[w] \in Pushing
      BY <1>2 DEF Evicting, Pushing
    <2>3. QED
      BY <1>1, <1>2, <2>1, <2>2, InFlightAfter, BeingAddedAfter
  <1>4. Kept' = Kept
    BY <1>2, <1>3 DEF Kept, Cached
  <1>5. key[w] \in Keys /\ pushes \in [Keys -> Nat]
    BY <1>1, <1>2 DEF CallsOK, TypeOK
  <1>6. /\ pushes' \in [Keys -> Nat] /\ pushes'[key[w]] > 0
        /\ \A k \in Keys : pushes[k] > 0 => pushes'[k] > 0
    BY <1>2, <1>5
  <1>7. TypeOK'
    BY <1>1, <1>2, <1>6 DEF TypeOK, Points
  <1>8. CallsOK'
    BY <1>1, <1>2 DEF CallsOK, TypeOK
  <1>9. EvictedIsAKey'
    <2>1. \A v \in Workers : pc'[v] \in {"promote", "demote", "spill"} => pc[v] = pc'[v]
      BY <1>1, <1>2 DEF TypeOK
    <2>2. QED
      BY <1>1, <1>2, <1>3, <2>1 DEF EvictedIsAKey, Full
  <1>10. MarkedIsKept'
    BY <1>2, <1>3, <1>4 DEF MarkedIsKept, IInv
  <1>11. NothingSkipped'
    BY <1>3, <1>4, <1>5, <1>6 DEF NothingSkipped, IInv
  <1>12. QED
    BY <1>7, <1>8, <1>9, <1>10, <1>11 DEF IInv

-----------------------------------------------------------------------------
(* The inductive invariant holds once the seeds are in.                          *)
LEMMA InitIInv == Init => IInv
  <1> SUFFICES ASSUME Init PROVE IInv
    OBVIOUS
  <1> USE ConstantTypes
  <1>1. PICK n \in 0 .. MaxLines : \E lines \in [1 .. n -> Seeds] :
          LET spilled == IF n > MAX_LRU THEN n - MAX_LRU ELSE 0
          IN  /\ cache = SubSeq(lines, spilled + 1, n)
              /\ file = {lines[i] : i \in 1 .. spilled}
              /\ marked = {lines[i] : i \in 1 .. n}
              /\ pushes = [k \in Keys |-> Cardinality({i \in 1 .. n : lines[i] = k})]
    BY Zenon DEF Init
  <1> DEFINE s == IF n > MAX_LRU THEN n - MAX_LRU ELSE 0
  <1>2. PICK lines \in [1 .. n -> Seeds] :
              /\ cache = SubSeq(lines, s + 1, n)
              /\ file = {lines[i] : i \in 1 .. s}
              /\ marked = {lines[i] : i \in 1 .. n}
              /\ pushes = [k \in Keys |-> Cardinality({i \in 1 .. n : lines[i] = k})]
    BY <1>1, Zenon
  <1>3. /\ n \in Nat /\ s \in 0 .. n /\ n - s <= MAX_LRU
        /\ s > 0 => n - s = MAX_LRU
    OBVIOUS
  <1> HIDE DEF s
  <1>4. \A i \in 1 .. n : lines[i] \in Keys
    OBVIOUS
  <1>5. /\ cache \in Seq(Keys) /\ Len(cache) = n - s
        /\ \A i \in 1 .. n - s : cache[i] = lines[s + i]
    <2>1. \A i \in s + 1 .. n : lines[i] \in Keys
      BY <1>3, <1>4
    <2>2. /\ cache \in Seq(Keys)
          /\ Len(cache) = IF s + 1 <= n THEN n - (s + 1) + 1 ELSE 0
          /\ \A i \in 1 .. n - (s + 1) + 1 : cache[i] = lines[s + 1 + i - 1]
      BY <1>2, <1>3, <2>1, SubSeqProperties
    <2>3. n - (s + 1) + 1 = n - s /\ (IF s + 1 <= n THEN n - (s + 1) + 1 ELSE 0) = n - s
      BY <1>3
    <2>4. ASSUME NEW i \in 1 .. n - s PROVE cache[i] = lines[s + i]
      <3>1. s + 1 + i - 1 = s + i
        BY <1>3
      <3>2. QED
        BY <2>2, <2>3, <3>1
    <2>5. QED
      BY <2>2, <2>3, <2>4
  <1>6. /\ pc = [w \in Workers |-> "idle"]
        /\ key = [w \in Workers |-> NoKey] /\ out = [w \in Workers |-> NoKey]
        /\ checks = 0 /\ markedAt = [w \in Workers |-> {}]
    BY DEF Init
  <1>7. ASSUME NEW k \in Keys
        PROVE  pushes[k] \in Nat /\ (k \in marked => pushes[k] > 0)
    <2> DEFINE S == {i \in 1 .. n : lines[i] = k}
    <2>1. IsFiniteSet(1 .. n) /\ S \in SUBSET (1 .. n)
      BY <1>3, FS_Interval
    <2>2. IsFiniteSet(S) /\ (k \in marked => S # {})
      BY <1>2, <2>1, FS_Subset
    <2>3. pushes[k] = Cardinality(S)
      BY <1>2
    <2> HIDE DEF S
    <2>4. Cardinality(S) \in Nat /\ (S # {} => Cardinality(S) # 0)
      BY <2>2, FS_CardinalityType, FS_EmptySet
    <2>5. QED
      BY <2>2, <2>3, <2>4
  <1>8. TypeOK
    <2>1. marked \subseteq Keys /\ file \subseteq Keys
      BY <1>2, <1>3, <1>4
    <2>2. pushes \in [Keys -> Nat]
      BY <1>2, <1>7
    <2>3. QED
      BY <1>3, <1>5, <1>6, <2>1, <2>2 DEF TypeOK, Points
  <1>9. InFlight = {} /\ BeingAdded = {}
    BY <1>6 DEF InFlight, BeingAdded
  <1>10. CallsOK
    BY <1>6 DEF CallsOK
  <1>11. Cached = {cache[i] : i \in 1 .. n - s}
    BY <1>5, LenProperties DEF Cached
  <1>12. MarkedIsKept
    <2> SUFFICES ASSUME NEW i \in 1 .. n PROVE lines[i] \in Cached \cup file
      BY <1>2, <1>9 DEF MarkedIsKept, Kept
    <2>1. CASE i <= s
      <3>1. i \in 1 .. s
        BY <2>1, <1>3
      <3>2. QED
        BY <3>1, <1>2
    <2>2. CASE i > s
      <3> DEFINE j == i - s
      <3>1. j \in 1 .. n - s /\ s + j = i
        BY <2>2, <1>3
      <3>2. cache[j] = lines[i]
        BY <3>1, <1>5
      <3>3. QED
        BY <3>1, <3>2, <1>11
    <2>3. QED
      BY <2>1, <2>2, <1>3
  <1>13. EvictedIsAKey
    <2>1. file # {} => s > 0
      BY <1>2, <1>3
    <2>2. file # {} => Full(cache)
      BY <2>1, <1>3, <1>5 DEF Full
    <2>3. NoKey \notin file
      BY <1>2, <1>3, <1>4
    <2>4. QED
      BY <1>6, <1>9, <2>2, <2>3 DEF EvictedIsAKey
  <1>14. NothingSkipped
    <2>1. Cached \subseteq marked
      <3> SUFFICES ASSUME NEW i \in 1 .. n - s PROVE cache[i] \in marked
        BY <1>11
      <3>1. s + i \in 1 .. n
        BY <1>3
      <3>2. QED
        BY <3>1, <1>2, <1>5
    <2>2. file \subseteq marked
      BY <1>2, <1>3
    <2>3. QED
      BY <1>7, <1>8, <1>9, <2>1, <2>2 DEF NothingSkipped, Kept, TypeOK
  <1>15. QED
    BY <1>8, <1>10, <1>12, <1>13, <1>14 DEF IInv

(* Every step keeps the inductive invariant.                                     *)
LEMMA NextIInv == IInv /\ [Next]_vars => IInv'
  <1> SUFFICES ASSUME IInv, [Next]_vars PROVE IInv'
    OBVIOUS
  <1>1. CASE UNCHANGED vars
    <2> USE <1>1 DEF vars
    <2>1. Cached' = Cached /\ InFlight' = InFlight /\ BeingAdded' = BeingAdded
      BY DEF Cached, InFlight, BeingAdded
    <2>2. TypeOK' /\ CallsOK'
      BY DEF IInv, TypeOK, CallsOK
    <2>3. EvictedIsAKey'
      BY <2>1 DEF IInv, EvictedIsAKey, Full
    <2>4. MarkedIsKept' /\ NothingSkipped'
      BY <2>1 DEF IInv, MarkedIsKept, NothingSkipped, Kept
    <2>5. QED
      BY <2>2, <2>3, <2>4 DEF IInv
  <1>2. ASSUME NEW w \in Workers, CheckCache(w) \/ Proceed(w) PROVE IInv'
    BY <1>2, CheckCacheStep, CheckFileStep, PromoteStep, DemoteStep, AddStep, SpillStep,
       EnqueueStep DEF Proceed
  <1>3. QED
    BY <1>1, <1>2 DEF Next

(* The inductive invariant: the five parts hold together in every state.         *)
THEOREM InductiveInvariant == Spec => []IInv
  <1>1. QED
    BY InitIInv, NextIInv, PTL DEF Spec

(* Every variable keeps its type and the cache its capacity.                     *)
THEOREM TypeCorrect == Spec => []TypeOK
  <1>1. IInv => TypeOK
    BY DEF IInv
  <1>2. QED
    BY <1>1, InductiveInvariant, PTL

(* However the calls of any number of workers interleave, no hash is lost        *)
(* between the LRU cache and the B-tree file.                                    *)
THEOREM NoKeyLost == Spec => []MarkedIsKept
  <1>1. IInv => MarkedIsKept
    BY DEF IInv
  <1>2. QED
    BY <1>1, InductiveInvariant, PTL

(* check, which writes what insert_cache returned without testing it, never      *)
(* writes the -1 that means nothing was evicted.                                 *)
THEOREM OnlyKeysReachTheFile == Spec => []EvictedIsAKey
  <1>1. IInv => EvictedIsAKey
    BY DEF IInv
  <1>2. QED
    BY <1>1, InductiveInvariant, PTL

(* Every hash that check can find belongs to a URL that was pushed or is on its  *)
(* way to a frontier.                                                            *)
THEOREM NoURLSkipped == Spec => []NothingSkipped
  <1>1. IInv => NothingSkipped
    BY DEF IInv
  <1>2. QED
    BY <1>1, InductiveInvariant, PTL

-----------------------------------------------------------------------------
(* What is missed in the file: a hash that was marked when the check began is    *)
(* in the file or on its way there.                                              *)
MissedOK ==
  \A w \in Workers :
    pc[w] = "checkFile" /\ key[w] \in markedAt[w] => key[w] \in file \cup InFlight

(* A step by w leaves the other workers where they are and what they carry.      *)
LEMMA OthersStay ==
  ASSUME TypeOK, NEW w \in Workers, CheckCache(w) \/ Proceed(w),
         NEW v \in Workers \ {w}
  PROVE  pc'[v] = pc[v] /\ key'[v] = key[v] /\ out'[v] = out[v] /\ markedAt'[v] = markedAt[v]
  <1> USE DEF TypeOK, Goto
  <1>1. CASE CheckCache(w)
    <2>1. /\ \E k \in Keys : key' = [key EXCEPT ![w] = k]
          /\ \E p \in {"idle", "checkFile"} : pc' = [pc EXCEPT ![w] = p]
          /\ out' = out /\ markedAt' = [markedAt EXCEPT ![w] = marked]
      BY <1>1 DEF CheckCache
    <2>2. QED
      BY <2>1
  <1>2. CASE CheckFile(w)
    BY <1>2 DEF CheckFile
  <1>3. CASE Promote(w)
    BY <1>3 DEF Promote, InsertCache
  <1>4. CASE Demote(w)
    BY <1>4 DEF Demote
  <1>5. CASE Add(w)
    BY <1>5 DEF Add, InsertCache
  <1>6. CASE Spill(w)
    BY <1>6 DEF Spill
  <1>7. CASE Enqueue(w)
    BY <1>7 DEF Enqueue
  <1>8. QED
    BY <1>1, <1>2, <1>3, <1>4, <1>5, <1>6, <1>7 DEF Proceed

(* Nothing leaves the file, and a key in flight stays so until it is there.      *)
LEMMA FlightLands ==
  ASSUME TypeOK, NEW w \in Workers, CheckCache(w) \/ Proceed(w)
  PROVE  file \subseteq file' /\ InFlight \subseteq file' \cup InFlight'
  <1>1. file \subseteq file'
    BY DEF Proceed, CheckCache, CheckFile, Promote, Demote, Add, Spill, Enqueue, InsertFile
  <1>2. ASSUME NEW v \in Workers, pc[v] \in {"demote", "spill"}
        PROVE  out[v] \in file' \cup InFlight'
    <2>1. CASE v # w
      <3>1. pc'[v] = pc[v] /\ out'[v] = out[v]
        BY <2>1, OthersStay
      <3>2. QED
        BY <3>1, <1>2 DEF InFlight
    <2>2. CASE v = w
      <3>1. Demote(w) \/ Spill(w)
        BY <2>2, <1>2 DEF Proceed, CheckCache, CheckFile, Promote, Add, Enqueue, Goto
      <3>2. out[w] \in file'
        BY <3>1 DEF Demote, Spill, InsertFile
      <3>3. QED
        BY <3>2, <2>2
    <2>3. QED
      BY <2>1, <2>2
  <1>3. QED
    BY <1>1, <1>2 DEF InFlight

(* A check that misses the cache misses a marked hash only for the file or the   *)
(* worker that carries it there.                                                 *)
LEMMA NextMissedOK == IInv /\ MissedOK /\ [Next]_vars => MissedOK'
  <1> SUFFICES ASSUME IInv, MissedOK, [Next]_vars PROVE MissedOK'
    OBVIOUS
  <1>1. CASE UNCHANGED vars
    BY <1>1 DEF MissedOK, InFlight, vars
  <1>2. ASSUME NEW w \in Workers, CheckCache(w) \/ Proceed(w) PROVE MissedOK'
    <2> USE <1>2
    <2>1. TypeOK
      BY DEF IInv
    <2>2. file \subseteq file' /\ InFlight \subseteq file' \cup InFlight'
      BY <2>1, FlightLands
    <2> SUFFICES ASSUME NEW v \in Workers, pc'[v] = "checkFile", key'[v] \in markedAt'[v]
                 PROVE  key'[v] \in file' \cup InFlight'
      BY DEF MissedOK
    <2>3. CASE v # w
      <3>1. pc'[v] = pc[v] /\ key'[v] = key[v] /\ markedAt'[v] = markedAt[v]
        BY <2>1, <2>3, OthersStay
      <3>2. key[v] \in file \cup InFlight
        BY <3>1 DEF MissedOK
      <3>3. QED
        BY <3>1, <3>2, <2>2
    <2>4. CASE v = w
      <3>1. CheckCache(w)
        <4>1. \E p \in Points \ {"checkFile"} : Proceed(w) => pc' = [pc EXCEPT ![w] = p]
          BY DEF Points, Proceed, CheckFile, Promote, Demote, Add, Spill, Enqueue, Goto
        <4>2. QED
          BY <2>1, <2>4, <4>1 DEF TypeOK
      <3>2. PICK k \in Keys :
              /\ key' = [key EXCEPT ![w] = k]
              /\ \/ Holds(cache, k) /\ Goto(w, "idle", "idle")
                 \/ ~Holds(cache, k) /\ Goto(w, "idle", "checkFile")
        BY <3>1, Zenon DEF CheckCache
      <3>3. ~Holds(cache, k)
        BY <2>1, <2>4, <3>2 DEF Goto, TypeOK
      <3>4. key'[v] = k /\ markedAt'[v] = marked
        BY <2>1, <2>4, <3>1, <3>2 DEF CheckCache, TypeOK
      <3>5. k \in Kept /\ k \notin Cached
        BY <3>3, <3>4 DEF IInv, MarkedIsKept, Cached, Holds
      <3>6. QED
        BY <2>2, <3>4, <3>5 DEF Kept
    <2>5. QED
      BY <2>3, <2>4
  <1>3. QED
    BY <1>1, <1>2 DEF Next

(* A hash whose add returned before a check of it began is reported as new only  *)
(* while another worker has it between the cache and the file.                   *)
THEOREM ForgottenOnlyInFlight == Spec => MissedOnlyInFlight
  <1>1. Init => MissedOK
    BY DEF Init, MissedOK
  <1>2. IInv /\ MissedOK /\ [Next]_vars => [\A w \in Workers :
                                              /\ pc[w] = "checkFile" /\ pc'[w] = "add"
                                              /\ key[w] \in markedAt[w]
                                              => key[w] \in InFlight]_vars
    <2> SUFFICES ASSUME IInv, MissedOK, Next, NEW w \in Workers,
                        pc[w] = "checkFile", pc'[w] = "add", key[w] \in markedAt[w]
                 PROVE  key[w] \in InFlight
      OBVIOUS
    <2>1. TypeOK
      BY DEF IInv
    <2>2. PICK v \in Workers : CheckCache(v) \/ Proceed(v)
      BY DEF Next
    <2>3. v = w
      BY <2>1, <2>2, OthersStay
    <2>4. key[w] \notin file
      <3>1. CheckFile(w)
        BY <2>2, <2>3 DEF Proceed, CheckCache, Promote, Demote, Add, Spill, Enqueue, Goto
      <3>2. QED
        BY <2>1, <3>1 DEF CheckFile, Goto, TypeOK
    <2>5. QED
      BY <2>4 DEF MissedOK
  <1>3. QED
    BY <1>1, <1>2, InductiveInvariant, NextMissedOK, PTL DEF Spec, MissedOnlyInFlight
=============================================================================
