----------------------------- MODULE ThreadWorkProofs -----------------------------
(* Proofs about the worker loop, for any number of workers, any web, seed file   *)
(* and filter, and any hash that selects a worker: how often the URLs with one   *)
(* hash are pushed, and that no link of a page is lost.  And about rio, through  *)
(* which the pages come: that it decodes what was meant.                         *)
EXTENDS ThreadWork, Rio, FiniteSetTheorems, SequenceTheorems, TLAPS

(* The assumptions on the cache, one by one.                                     *)
LEMMA CacheConstants == NoKey \notin Keys /\ MAX_LRU \in Nat /\ MAX_LRU >= 2
BY LRUAssumption

KeysOf(lru) == {lru[i] : i \in DOMAIN lru}

(* A set of naturals that is not empty has a least element.                      *)
LEMMA LeastNatural ==
  ASSUME NEW S, S \subseteq Nat, S # {}
  PROVE  \E m \in S : \A k \in S : m <= k
  <1>1. PICK x \in S : \A y \in S : ~ (<<y, x>> \in OpToRel(<, Nat))
    BY NatLessThanWellFounded, WFMin
  <1>2. \A y \in S : ~ (y < x)
    BY <1>1 DEF OpToRel
  <1>3. QED
    BY <1>2

(* Of the indices where something holds, if there are any, one is the greatest.  *)
LEMMA GreatestIndex ==
  ASSUME NEW n \in Nat, NEW S, S \subseteq 1 .. n, S # {}
  PROVE  \E m \in S : \A k \in S : k <= m
  <1> DEFINE R == {n - k : k \in S}
  <1>1. R \subseteq Nat
    BY \A k \in 1 .. n : n - k \in Nat
  <1>2. R # {}
    OBVIOUS
  <1>3. PICK m \in R : \A k \in R : ~ (<<k, m>> \in OpToRel(<, Nat))
    <2> HIDE DEF R
    <2>1. QED
      BY <1>1, <1>2, NatLessThanWellFounded, WFMin
  <1>4. \A k \in R : ~ (k < m)
    BY <1>1, <1>3 DEF OpToRel
  <1>5. n - m \in S /\ m \in Int
    OBVIOUS
  <1>6. ASSUME NEW k \in S
        PROVE  k <= n - m
    <2>1. n - k \in R /\ k \in 1 .. n
      OBVIOUS
    <2>2. ~ (n - k < m)
      BY <1>4, <2>1
    <2> HIDE DEF R
    <2>3. QED
      BY <2>1, <2>2, <1>5
  <1>7. QED
    BY <1>5, <1>6

(* A hit reorders the cache and keeps its keys.                                  *)
LEMMA TouchedKeys ==
  ASSUME NEW lru \in Seq(Keys), NEW k \in Keys, Holds(lru, k)
  PROVE  /\ Touched(lru, k) \in Seq(Keys)
         /\ Len(Touched(lru, k)) = Len(lru)
         /\ KeysOf(Touched(lru, k)) = KeysOf(lru)
         /\ \E p \in 1 .. Len(lru) :
              /\ Touched(lru, k)[Len(lru)] = lru[p]
              /\ \A i \in 1 .. p - 1 : Touched(lru, k)[i] = lru[i]
              /\ \A i \in p + 1 .. Len(lru) : Touched(lru, k)[i - 1] = lru[i]
  <1> DEFINE n == Len(lru)
             p == LastPage(lru, k)
             left == SubSeq(lru, 1, p - 1)
             right == SubSeq(lru, p + 1, n)
  <1>1. n \in Nat /\ n = Len(lru) /\ DOMAIN lru = 1 .. n /\ \A i \in 1 .. n : lru[i] \in Keys
    BY LenProperties
  <1>2. p \in 1 .. n /\ lru[p] = k
    <2> DEFINE S == {i \in DOMAIN lru : lru[i] = k}
    <2>1. S \subseteq 1 .. n /\ S # {}
      BY <1>1 DEF Holds
    <2>2. \E m \in S : \A i \in S : i <= m
      <3> HIDE DEF S
      <3>1. QED
        BY <2>1, <1>1, GreatestIndex
    <2>3. \E i \in DOMAIN lru : lru[i] = k /\ \A j \in DOMAIN lru : lru[j] = k => j <= i
      BY <2>2
    <2>4. QED
      BY <2>3, <1>1, Zenon DEF LastPage
  <1> HIDE DEF p, n
  <1>r. p \in Int /\ 1 <= p /\ p <= n /\ n \in Int
    BY <1>1, <1>2
  <1>3. /\ left \in Seq(Keys) /\ Len(left) = p - 1
        /\ \A i \in 1 .. p - 1 : left[i] = lru[i]
    <2>1. \A i \in 1 .. p - 1 : lru[i] \in Keys
      BY <1>1, <1>2
    <2>2. /\ left \in Seq(Keys)
          /\ Len(left) = IF 1 <= p - 1 THEN p - 1 - 1 + 1 ELSE 0
          /\ \A i \in 1 .. p - 1 - 1 + 1 : left[i] = lru[1 + i - 1]
      BY <2>1, <1>2, SubSeqProperties
    <2>3. QED
      BY <2>2, <1>2
  <1>4. /\ right \in Seq(Keys) /\ Len(right) = n - p
        /\ \A i \in 1 .. n - p : right[i] = lru[p + i]
    <2>1. \A i \in p + 1 .. n : lru[i] \in Keys
      BY <1>1, <1>2
    <2>2. /\ right \in Seq(Keys)
          /\ Len(right) = IF p + 1 <= n THEN n - (p + 1) + 1 ELSE 0
          /\ \A i \in 1 .. n - (p + 1) + 1 : right[i] = lru[p + 1 + i - 1]
      BY <2>1, <1>1, <1>2, SubSeqProperties
    <2> HIDE DEF right
    <2>3. n - (p + 1) + 1 = n - p /\ (IF p + 1 <= n THEN n - (p + 1) + 1 ELSE 0) = n - p
      BY <1>r
    <2>4. ASSUME NEW i \in 1 .. n - p PROVE right[i] = lru[p + i]
      <3>1. p + 1 + i - 1 = p + i
        BY <1>1, <1>2
      <3>2. QED
        BY <3>1, <2>2, <2>3
    <2>5. QED
      BY <2>2, <2>3, <2>4
  <1>5. <<k>> \in Seq(Keys) /\ Len(<<k>>) = 1 /\ <<k>>[1] = k
    OBVIOUS
  <1> DEFINE both == left \o right
             t == both \o <<k>>
  <1>6. Touched(lru, k) = t
    BY DEF Touched, p, n
  <1> HIDE DEF left, right
  <1>7. /\ both \in Seq(Keys) /\ Len(both) = n - 1
        /\ \A i \in 1 .. p - 1 : both[i] = lru[i]
        /\ \A i \in p .. n - 1 : both[i] = lru[i + 1]
    <2>0. /\ both \in Seq(Keys) /\ Len(both) = Len(left) + Len(right)
          /\ \A i \in 1 .. Len(left) + Len(right) :
               both[i] = IF i <= Len(left) THEN left[i] ELSE right[i - Len(left)]
      BY <1>3, <1>4, ConcatProperties
    <2> HIDE DEF both
    <2>1. /\ both \in Seq(Keys) /\ Len(both) = (p - 1) + (n - p)
          /\ \A i \in 1 .. (p - 1) + (n - p) :
               both[i] = IF i <= p - 1 THEN left[i] ELSE right[i - (p - 1)]
      BY <2>0, <1>3, <1>4
    <2>2. (p - 1) + (n - p) = n - 1
      BY <1>1, <1>2
    <2>3. ASSUME NEW i \in 1 .. p - 1 PROVE both[i] = lru[i]
      <3>1. i \in 1 .. (p - 1) + (n - p) /\ i <= p - 1
        BY <1>1, <1>2
      <3>2. QED
        BY <2>1, <3>1, <1>3
    <2>4. ASSUME NEW i \in p .. n - 1 PROVE both[i] = lru[i + 1]
      <3> DEFINE j == i - (p - 1)
      <3>1. /\ i \in 1 .. (p - 1) + (n - p) /\ ~(i <= p - 1)
            /\ j \in 1 .. n - p /\ p + j = i + 1
        BY <1>1, <1>2
      <3>2. both[i] = right[j]
        BY <2>1, <3>1
      <3>3. QED
        BY <3>1, <3>2, <1>4
    <2>5. QED
      BY <2>1, <2>2, <2>3, <2>4
  <1> HIDE DEF both
  <1>8. /\ t \in Seq(Keys) /\ Len(t) = n
        /\ \A i \in 1 .. n - 1 : t[i] = both[i]
        /\ t[n] = k
    <2>1. /\ t \in Seq(Keys) /\ Len(t) = (n - 1) + 1
          /\ \A i \in 1 .. (n - 1) + 1 :
               t[i] = IF i <= n - 1 THEN both[i] ELSE <<k>>[i - (n - 1)]
      BY <1>5, <1>7, ConcatProperties
    <2>2. n >= 1 /\ (n - 1) + 1 = n
      BY <1>1, <1>2
    <2>3. t[n] = <<k>>[1]
      <3>1. n \in 1 .. (n - 1) + 1 /\ ~(n <= n - 1) /\ n - (n - 1) = 1
        BY <2>2, <1>1
      <3>2. QED
        BY <2>1, <3>1
    <2>4. ASSUME NEW i \in 1 .. n - 1 PROVE t[i] = both[i]
      <3>1. i \in 1 .. (n - 1) + 1 /\ i <= n - 1
        BY <1>1
      <3>2. QED
        BY <2>1, <3>1
    <2>5. QED
      BY <2>1, <2>2, <2>3, <2>4, <1>5
  <1> HIDE DEF t
  <1>9. KeysOf(t) = {t[i] : i \in 1 .. n} /\ KeysOf(lru) = {lru[i] : i \in 1 .. n}
    BY <1>1, <1>8, LenProperties DEF KeysOf
  <1>10. KeysOf(t) \subseteq KeysOf(lru)
    <2> SUFFICES ASSUME NEW i \in 1 .. n PROVE \E j \in 1 .. n : t[i] = lru[j]
      BY <1>9
    <2>1. CASE i = n
      BY <2>1, <1>2, <1>8
    <2>2. CASE i < p
      <3>1. i \in 1 .. n - 1 /\ i \in 1 .. p - 1
        BY <2>2, <1>1, <1>2
      <3>2. QED
        BY <3>1, <1>7, <1>8
    <2>3. CASE p <= i /\ i < n
      <3>1. i \in 1 .. n - 1 /\ i \in p .. n - 1 /\ i + 1 \in 1 .. n
        BY <2>3, <1>1, <1>2
      <3>2. QED
        BY <3>1, <1>7, <1>8
    <2>4. i = n \/ i < p \/ (p <= i /\ i < n)
      BY <1>r
    <2>5. QED
      BY <2>1, <2>2, <2>3, <2>4, Zenon
  <1>11. KeysOf(lru) \subseteq KeysOf(t)
    <2> SUFFICES ASSUME NEW i \in 1 .. n PROVE \E j \in 1 .. n : lru[i] = t[j]
      BY <1>9
    <2>1. CASE i = p
      <3>1. n \in 1 .. n
        BY <1>1, <1>2
      <3>2. QED
        BY <2>1, <3>1, <1>2, <1>8
    <2>2. CASE i < p
      <3>1. i \in 1 .. n - 1 /\ i \in 1 .. p - 1
        BY <2>2, <1>1, <1>2
      <3>2. QED
        BY <3>1, <1>7, <1>8
    <2>3. CASE p < i
      <3> DEFINE j == i - 1
      <3>1. j \in 1 .. n - 1 /\ j \in p .. n - 1 /\ j + 1 = i /\ j \in 1 .. n
        BY <2>3, <1>1, <1>2
      <3>2. lru[i] = t[j]
        BY <3>1, <1>7, <1>8
      <3>3. QED
        BY <3>1, <3>2
    <2>4. i = p \/ i < p \/ p < i
      BY <1>1, <1>2
    <2>5. QED
      BY <2>1, <2>2, <2>3, <2>4, Zenon
  <1>12. \A i \in 1 .. p - 1 : t[i] = lru[i]
    <2>1. \A i \in 1 .. p - 1 : i \in 1 .. n - 1
      BY <1>r
    <2>2. QED
      BY <2>1, <1>7, <1>8
  <1>13. \A i \in p + 1 .. n : t[i - 1] = lru[i]
    <2> SUFFICES ASSUME NEW i \in p + 1 .. n
                 PROVE  t[i - 1] = lru[i]
      OBVIOUS
    <2>1. i - 1 \in 1 .. n - 1 /\ i - 1 \in p .. n - 1 /\ (i - 1) + 1 = i
      BY <1>r
    <2>2. QED
      BY <2>1, <1>7, <1>8
  <1>14. QED
    BY <1>1, <1>2, <1>6, <1>8, <1>10, <1>11, <1>12, <1>13

(* Inserting adds the new key; the only key that may go is the one evicted.      *)
LEMMA InsertedKeys ==
  ASSUME NEW lru \in Seq(Keys), Len(lru) <= MAX_LRU, NEW k \in Keys
  PROVE  /\ Inserted(lru, k) \in Seq(Keys) /\ Len(Inserted(lru, k)) <= MAX_LRU
         /\ Full(lru) => Full(Inserted(lru, k)) /\ Evicted(lru) \in KeysOf(lru)
         /\ ~Full(lru) => Evicted(lru) = NoKey /\ KeysOf(Inserted(lru, k)) = KeysOf(lru) \cup {k}
         /\ k \in KeysOf(Inserted(lru, k))
         /\ KeysOf(Inserted(lru, k)) \subseteq KeysOf(lru) \cup {k}
         /\ Full(lru) => /\ Len(lru) >= 2 /\ Len(Inserted(lru, k)) = Len(lru) /\ Evicted(lru) = lru[1]
                       /\ Inserted(lru, k)[Len(lru)] = k
                       /\ \A i \in 2 .. Len(lru) : Inserted(lru, k)[i - 1] = lru[i]
         /\ ~Full(lru) => /\ Len(Inserted(lru, k)) = Len(lru) + 1
                        /\ Inserted(lru, k)[Len(lru) + 1] = k
                        /\ \A i \in 1 .. Len(lru) : Inserted(lru, k)[i] = lru[i]
  <1> USE CacheConstants
  <1> DEFINE n == Len(lru)
             kept == IF Full(lru) THEN Tail(lru) ELSE lru
             ins == Append(kept, k)
  <1>1. n \in Nat /\ DOMAIN lru = 1 .. n
    BY LenProperties
  <1>2. CASE ~Full(lru)
    <2>1. /\ ins \in Seq(Keys) /\ Len(ins) = n + 1 /\ n < MAX_LRU
          /\ ins[n + 1] = k /\ \A i \in 1 .. n : ins[i] = lru[i]
      <3>1. ins = Append(lru, k)
        BY <1>2
      <3> HIDE DEF ins, kept
      <3>2. n < MAX_LRU
        <4>1. Len(lru) # MAX_LRU
          BY <1>2 DEF Full
        <4>2. PICK l : l = Len(lru)
          OBVIOUS
        <4>3. l \in Nat /\ l # MAX_LRU /\ l <= MAX_LRU
          BY <1>1, <4>1, <4>2
        <4>4. MAX_LRU \in Nat
          BY CacheConstants
        <4>5. l < MAX_LRU
          BY <4>3, <4>4
        <4>6. QED
          BY <4>2, <4>5
      <3>3. QED
        BY <1>1, <3>1, <3>2, AppendProperties
    <2> HIDE DEF ins
    <2>2. DOMAIN ins = 1 .. n + 1 /\ 1 .. n + 1 = 1 .. n \cup {n + 1}
      BY <2>1, <1>1, LenProperties
    <2>3. KeysOf(ins) = KeysOf(lru) \cup {k}
      BY <2>1, <2>2, <1>1 DEF KeysOf
    <2>4. Len(ins) <= MAX_LRU
      BY <2>1, <1>1
    <2>5. QED
      BY <1>1, <1>2, <2>1, <2>3, <2>4 DEF Inserted, Evicted, ins
  <1>3. CASE Full(lru)
    <2>1. n = MAX_LRU /\ n >= 2 /\ lru # <<>>
      BY <1>3 DEF Full
    <2>2. /\ Tail(lru) \in Seq(Keys) /\ Len(Tail(lru)) = n - 1
          /\ \A i \in 1 .. n - 1 : Tail(lru)[i] = lru[i + 1]
          /\ Head(lru) = lru[1]
      BY <2>1, HeadTailProperties
    <2>3. /\ ins \in Seq(Keys) /\ Len(ins) = n /\ ins[n] = k
          /\ \A i \in 1 .. n - 1 : ins[i] = lru[i + 1]
      <3>1. kept = Tail(lru)
        BY <1>3
      <3>2. ins = Append(Tail(lru), k)
        BY <3>1
      <3> HIDE DEF ins, kept
      <3>3. n - 1 + 1 = n
        BY <1>1
      <3>4. /\ ins \in Seq(Keys) /\ Len(ins) = Len(Tail(lru)) + 1
            /\ ins[Len(Tail(lru)) + 1] = k
            /\ \A i \in 1 .. Len(Tail(lru)) : ins[i] = Tail(lru)[i]
        BY <3>2, <2>2, AppendProperties
      <3>5. QED
        BY <3>3, <3>4, <2>2
    <2> HIDE DEF ins, kept
    <2>4. DOMAIN ins = 1 .. n
      BY <2>3, LenProperties
    <2>5. k \in KeysOf(ins) /\ Head(lru) \in KeysOf(lru)
      BY <2>1, <2>2, <2>3, <2>4, <1>1 DEF KeysOf
    <2>6. KeysOf(ins) \subseteq KeysOf(lru) \cup {k}
      <3> SUFFICES ASSUME NEW i \in 1 .. n, i # n PROVE ins[i] \in KeysOf(lru)
        BY <2>3, <2>4 DEF KeysOf
      <3> HIDE DEF n
      <3>1. i \in 1 .. n - 1 /\ i + 1 \in 1 .. n
        BY <1>1
      <3>2. QED
        BY <3>1, <2>3, <1>1 DEF KeysOf
    <2>7. \A i \in 2 .. n : ins[i - 1] = lru[i]
      <3> SUFFICES ASSUME NEW i \in 2 .. n
                   PROVE  ins[i - 1] = lru[i]
        OBVIOUS
      <3>1. i - 1 \in 1 .. n - 1 /\ (i - 1) + 1 = i
        BY <1>1
      <3>2. QED
        BY <3>1, <2>3
    <2>8. Inserted(lru, k) = ins /\ Evicted(lru) = Head(lru) /\ Full(ins)
      BY <1>3, <2>1, <2>3 DEF Inserted, Evicted, Full, ins, kept
    <2>9. QED
      BY <1>1, <1>3, <2>1, <2>2, <2>3, <2>5, <2>6, <2>7, <2>8
  <1>4. QED
    BY <1>2, <1>3

-----------------------------------------------------------------------------
(* How often a cache holds a hash.                                               *)
Places(lru, h) == {i \in 1 .. Len(lru) : lru[i] = h}
Count(lru, h) == Cardinality(Places(lru, h))

LEMMA PlacesAreFinite ==
  ASSUME NEW lru \in Seq(Keys), NEW h
  PROVE  IsFiniteSet(Places(lru, h)) /\ Count(lru, h) \in Nat
  <1>1. Len(lru) \in Nat /\ Places(lru, h) \subseteq 1 .. Len(lru)
    BY DEF Places
  <1>2. IsFiniteSet(1 .. Len(lru))
    BY <1>1, FS_Interval
  <1>3. QED
    BY <1>1, <1>2, FS_Subset, FS_CardinalityType DEF Count

(* A set with room for each element of another one has as many.                  *)
LEMMA NoFewer ==
  ASSUME NEW S, NEW T, IsFiniteSet(T), NEW f \in [S -> T],
         \A i, j \in S : f[i] = f[j] => i = j
  PROVE  IsFiniteSet(S) /\ Cardinality(S) <= Cardinality(T)
  <1>1. f \in Injection(S, T)
    BY DEF Injection, IsInjective
  <1>2. QED
    BY <1>1, FS_Injection

(* A hit keeps every copy of a hash.                                             *)
LEMMA TouchedCounts ==
  ASSUME NEW lru \in Seq(Keys), NEW k \in Keys, Holds(lru, k), NEW h
  PROVE  Count(lru, h) <= Count(Touched(lru, k), h)
  <1> DEFINE n == Len(lru)
  <1>1. PICK t : t = Touched(lru, k)
    OBVIOUS
  <1>2. n \in Nat /\ t \in Seq(Keys) /\ Len(t) = n
    BY <1>1, TouchedKeys
  <1>3. PICK p \in 1 .. n : /\ t[n] = lru[p]
                            /\ \A i \in 1 .. p - 1 : t[i] = lru[i]
                            /\ \A i \in p + 1 .. n : t[i - 1] = lru[i]
    BY <1>1, TouchedKeys
  <1> DEFINE S == Places(lru, h)
             T == Places(t, h)
             f == [i \in S |-> IF i < p THEN i ELSE IF i = p THEN n ELSE i - 1]
  <1>4. S = {i \in 1 .. n : lru[i] = h} /\ T = {i \in 1 .. n : t[i] = h}
    BY <1>2 DEF Places
  <1> HIDE DEF S, T, n
  <1>5. \A i \in S : i \in 1 .. n /\ lru[i] = h
    BY <1>4
  <1>6. \A i \in S : f[i] \in T
    <2> SUFFICES ASSUME NEW i \in S
                 PROVE  f[i] \in T
      OBVIOUS
    <2>1. CASE i < p
      <3>1. i \in 1 .. p - 1 /\ i \in 1 .. n /\ f[i] = i
        BY <1>2, <1>5, <2>1
      <3>2. QED
        BY <1>3, <1>4, <1>5, <3>1
    <2>2. CASE i = p
      <3>1. n \in 1 .. n /\ f[i] = n
        BY <1>2, <1>5, <2>2
      <3>2. QED
        BY <1>3, <1>4, <1>5, <2>2, <3>1
    <2>3. CASE i > p
      <3>1. i \in p + 1 .. n /\ i - 1 \in 1 .. n /\ f[i] = i - 1
        BY <1>2, <1>5, <2>3
      <3>2. QED
        BY <1>3, <1>4, <1>5, <3>1
    <2>4. QED
      BY <1>2, <1>5, <2>1, <2>2, <2>3
  <1>7. f \in [S -> T]
    BY <1>6
  <1>8. \A i, j \in S : f[i] = f[j] => i = j
    BY <1>2, <1>5
  <1> HIDE DEF f
  <1>9. IsFiniteSet(T)
    BY <1>2, PlacesAreFinite DEF T
  <1>10. Cardinality(S) <= Cardinality(T)
    BY <1>7, <1>8, <1>9, NoFewer
  <1>11. QED
    BY <1>1, <1>10 DEF Count, S, T

One01(b) == IF b THEN 1 ELSE 0

(* An insertion adds one copy, and loses one of what it evicts.                  *)
LEMMA InsertedCounts ==
  ASSUME NEW lru \in Seq(Keys), Len(lru) <= MAX_LRU, NEW k \in Keys, NEW h
  PROVE  Count(lru, h) + One01(h = k)
           <= Count(Inserted(lru, k), h) + One01(Full(lru) /\ Evicted(lru) = h)
  <1> DEFINE n == Len(lru)
  <1>1. PICK t : t = Inserted(lru, k)
    OBVIOUS
  <1>2. n \in Nat /\ t \in Seq(Keys)
    BY <1>1, InsertedKeys
  <1> DEFINE S == Places(lru, h)
             T == Places(t, h)
             m == Len(t)
  <1>3. m \in Nat /\ t[m] = k /\ m \in 1 .. m
    <2>1. CASE Full(lru)
      <3>1. n >= 2 /\ m = n /\ t[n] = k
        BY <1>1, <2>1, InsertedKeys
      <3>2. QED
        BY <1>2, <3>1
    <2>2. CASE ~Full(lru)
      <3>1. m = n + 1 /\ t[n + 1] = k
        BY <1>1, <2>2, InsertedKeys
      <3>2. QED
        BY <1>2, <3>1
    <2>3. QED
      BY <2>1, <2>2
  <1>4. S = {i \in 1 .. n : lru[i] = h} /\ T = {i \in 1 .. m : t[i] = h}
    BY DEF Places
  <1>5. IsFiniteSet(S) /\ IsFiniteSet(T) /\ Cardinality(S) \in Nat /\ Cardinality(T) \in Nat
    BY <1>2, PlacesAreFinite DEF Count
  <1>6. IsFiniteSet(T \ {m}) /\ Cardinality(T) = Cardinality(T \ {m}) + One01(h = k)
    <2>1. m \in T <=> h = k
      BY <1>3, <1>4
    <2> HIDE DEF T, m
    <2>2. CASE h = k
      <3>1. IsFiniteSet(T \ {m}) /\ Cardinality(T \ {m}) = Cardinality(T) - 1
        BY <1>5, <2>1, <2>2, FS_RemoveElement
      <3>2. QED
        BY <1>5, <2>2, <3>1 DEF One01
    <2>3. CASE h # k
      <3>1. T \ {m} = T /\ Cardinality(T \ {m}) = Cardinality(T)
        <4>1. T \ {m} = T
          BY <2>1, <2>3
        <4>2. QED
          BY <4>1, Zenon
      <3>2. QED
        <4>1. IsFiniteSet(T \ {m})
          BY <1>5, <3>1, Zenon
        <4>2. One01(h = k) = 0
          BY <2>3 DEF One01
        <4>3. QED
          BY <1>5, <3>1, <4>1, <4>2
    <2>4. QED
      BY <2>2, <2>3
  <1>7. CASE Full(lru)
    <2>1. /\ n >= 2 /\ m = n /\ Evicted(lru) = lru[1]
          /\ \A i \in 2 .. n : t[i - 1] = lru[i]
      BY <1>1, <1>7, InsertedKeys
    <2> DEFINE S1 == S \ {1}
               f  == [i \in S1 |-> i - 1]
    <2>2. IsFiniteSet(S1) /\ Cardinality(S) = Cardinality(S1) + One01(Evicted(lru) = h)
      <3>1. 1 \in S <=> Evicted(lru) = h
        BY <1>2, <1>4, <2>1
      <3> HIDE DEF S
      <3>2. CASE Evicted(lru) = h
        <4>1. IsFiniteSet(S1) /\ Cardinality(S1) = Cardinality(S) - 1
          BY <1>5, <3>1, <3>2, FS_RemoveElement
        <4>2. QED
          BY <1>5, <3>2, <4>1 DEF One01
      <3>3. CASE Evicted(lru) # h
        <4>1. Cardinality(S1) = Cardinality(S) /\ IsFiniteSet(S1)
          <5>1. S1 = S
            BY <3>1, <3>3
          <5>2. QED
            BY <1>5, <5>1, Zenon
        <4>2. QED
          BY <1>5, <3>3, <4>1 DEF One01
      <3>4. QED
        BY <3>2, <3>3
    <2>3. \A i \in S1 : i \in 2 .. n /\ lru[i] = h
      BY <1>2, <1>4
    <2> HIDE DEF S, S1
    <2>4. \A i \in S1 : i - 1 \in T \ {m}
      <3> SUFFICES ASSUME NEW i \in S1
                   PROVE  i - 1 \in T \ {m}
        OBVIOUS
      <3>1. i \in 2 .. n /\ lru[i] = h
        BY <2>3
      <3>2. i - 1 \in 1 .. m /\ i - 1 # m
        BY <1>2, <2>1, <3>1
      <3>3. QED
        BY <1>4, <2>1, <3>1, <3>2
    <2>5. f \in [S1 -> T \ {m}]
      BY <2>4
    <2>6. \A i, j \in S1 : f[i] = f[j] => i = j
      BY <1>2, <2>3
    <2> HIDE DEF f, T, m
    <2>7. Cardinality(S1) <= Cardinality(T \ {m})
      BY <1>6, <2>5, <2>6, NoFewer
    <2>8. Cardinality(S1) \in Nat /\ Cardinality(T \ {m}) \in Nat
      BY <1>6, <2>2, FS_CardinalityType
    <2>9. One01(Full(lru) /\ Evicted(lru) = h) = One01(Evicted(lru) = h)
      BY <1>7 DEF One01
    <2>10. Cardinality(S) + One01(h = k) <= Cardinality(T) + One01(Evicted(lru) = h)
      BY <1>6, <2>2, <2>7, <2>8 DEF One01
    <2>11. QED
      BY <1>1, <2>9, <2>10 DEF Count, S, T
  <1>8. CASE ~Full(lru)
    <2>1. m = n + 1 /\ \A i \in 1 .. n : t[i] = lru[i]
      BY <1>1, <1>8, InsertedKeys
    <2>2. S \subseteq T \ {m}
      BY <1>2, <1>4, <2>1
    <2> HIDE DEF S, T, m
    <2>3. Cardinality(S) <= Cardinality(T \ {m})
      BY <1>6, <2>2, FS_Subset
    <2>4. Cardinality(T \ {m}) \in Nat
      BY <1>6, FS_CardinalityType
    <2>5. One01(Full(lru) /\ Evicted(lru) = h) = 0
      BY <1>8 DEF One01
    <2>6. Cardinality(S) + One01(h = k) <= Cardinality(T)
      BY <1>5, <1>6, <2>3, <2>4 DEF One01
    <2>7. QED
      BY <1>1, <1>5, <2>5, <2>6 DEF Count, S, T
  <1>9. QED
    BY <1>7, <1>8

(* What a set gains or loses when only w may come or go.                         *)
LEMMA OneMoves ==
  ASSUME NEW X, X \subseteq Workers, NEW Y, Y \subseteq Workers, NEW w \in Workers,
         \A v \in Workers : v # w => (v \in X <=> v \in Y)
  PROVE  /\ Cardinality(X) \in Nat /\ Cardinality(Y) \in Nat
         /\ Cardinality(Y) + One01(w \in X) = Cardinality(X) + One01(w \in Y)
  <1> DEFINE Z == X \ {w}
  <1>1. IsFiniteSet(X) /\ IsFiniteSet(Y) /\ IsFiniteSet(Z)
    BY ThreadWorkAssumption, FS_Subset
  <1>2. Cardinality(X) \in Nat /\ Cardinality(Y) \in Nat /\ Cardinality(Z) \in Nat
    BY <1>1, FS_CardinalityType
  <1>3. /\ w \notin Z
        /\ w \in X => X = Z \cup {w}
        /\ w \notin X => X = Z
        /\ w \in Y => Y = Z \cup {w}
        /\ w \notin Y => Y = Z
    OBVIOUS
  <1> HIDE DEF Z
  <1>4. Cardinality(Z \cup {w}) = Cardinality(Z) + 1
    BY <1>1, <1>3, FS_AddElement
  <1>5. /\ w \in X => Cardinality(X) = Cardinality(Z) + 1
        /\ w \notin X => Cardinality(X) = Cardinality(Z)
        /\ w \in Y => Cardinality(Y) = Cardinality(Z) + 1
        /\ w \notin Y => Cardinality(Y) = Cardinality(Z)
    BY <1>3, <1>4, Zenon
  <1>6. QED
    BY <1>2, <1>5 DEF One01
-----------------------------------------------------------------------------
(* Every URLSeen and frontier is one of a worker, and hashes are keys.           *)
Hashing == /\ \A hash : Mod(hash) \in Workers
           /\ \A host, tail, f : Digest(host, tail, f) \in Keys
           /\ \A s : SeedHashes(s) \subseteq Keys

Points == {"loop", "fetch", "links", "check", "checkFile", "promote", "demote",
           "add", "spill", "push"}

SeenShapes == /\ cache \in [Workers -> Seq(Keys)]
              /\ \A v \in Workers : Len(cache[v]) <= MAX_LRU
              /\ file \in [Workers -> SUBSET Keys]
              /\ out \in [Workers -> Keys \cup {NoKey}]

WorkShapes == /\ frontier = [w \in Workers |-> frontier[w]]
              /\ pc \in [Workers -> Points]
              /\ page = [w \in Workers |-> page[w]]
              /\ rest = [w \in Workers |-> rest[w]]
              /\ holder = [w \in Workers |-> holder[w]]
              /\ \A h \in BagToSet(pushed) : pushed[h] \in Nat

(* The workers start when the seeds are in.                                      *)
SeedsFirst == /\ nextLine \in 1 .. Len(Seeds) + 1
              /\ nextLine <= Len(Seeds) => \A w \in Workers : pc[w] = "loop"

(* A file has keys only behind a full cache, so that there is a key to carry     *)
(* whenever one comes back from a file or is added in front of one.              *)
FilesBehindCaches ==
  /\ \A v \in Workers : file[v] # {} => Full(cache[v])
  /\ \A w \in Workers : pc[w] = "promote" => Key(w) \in file[Home(w)]
  /\ \A w \in Workers : pc[w] \in {"demote", "spill"} => out[w] \in Keys /\ Full(cache[Home(w)])

Shapes == SeenShapes /\ WorkShapes /\ SeedsFirst /\ FilesBehindCaches

LEMMA KeysAndHomes ==
  ASSUME Hashing
  PROVE  /\ \A pl : Hash(pl) \in Keys /\ Mod(Hash(pl)) \in Workers
         /\ \A w : Key(w) \in Keys /\ Home(w) \in Workers
         /\ \A w : Key(w)' \in Keys /\ Home(w)' \in Workers
  <1>1. \A pl : Hash(pl) \in Keys /\ Mod(Hash(pl)) \in Workers
    BY DEF Hash, Hashing
  <1>2. QED
    BY <1>1 DEF Key, Home

(* The steps that leave the URLSeens alone.                                      *)
SeenStays(w) == \/ ReadURL(w) \/ Fail(w) \/ Store(w) \/ GetLink(w) \/ EndOfLinks(w)
                \/ NotCached(w) \/ CheckFile(w) \/ AddURL(w)

LEMMA SeenStaysFacts ==
  ASSUME NEW w, SeenStays(w)
  PROVE  cache' = cache /\ file' = file /\ out' = out
  BY DEF SeenStays, ReadURL, Fail, Store, GetLink, EndOfLinks, NotCached, CheckFile,
         AddURL, seen

LEMMA AllSteps ==
  ASSUME NEW w, Step(w)
  PROVE  /\ nextLine > Len(Seeds) /\ nextLine' = nextLine
         /\ SeenStays(w) \/ Known(w) \/ Promote(w) \/ Demote(w) \/ Add(w) \/ Spill(w)
  <1>1. nextLine' = nextLine
    BY DEF Step, ReadURL, Fail, Store, GetLink, EndOfLinks, Known, NotCached, CheckFile,
           Promote, Demote, Add, Spill, AddURL
  <1>2. QED
    BY <1>1, Zenon DEF Step, SeenStays

(* The steps of w leave the places of the other workers as they are.             *)
LEMMA OthersStay ==
  ASSUME Shapes, NEW w \in Workers, Step(w), NEW v \in Workers, v # w
  PROVE  /\ pc'[v] = pc[v] /\ page'[v] = page[v] /\ rest'[v] = rest[v]
         /\ holder'[v] = holder[v] /\ out'[v] = out[v]
         /\ Key(v)' = Key(v) /\ Home(v)' = Home(v)
  <1>1. \E x : pc' = [pc EXCEPT ![w] = x]
    BY DEF Step, ReadURL, Fail, Store, GetLink, EndOfLinks, Known, NotCached, CheckFile,
           Promote, Demote, Add, Spill, AddURL, Goto
  <1>2. holder' = holder \/ \E x : holder' = [holder EXCEPT ![w] = x]
    BY DEF Step, ReadURL, Fail, Store, GetLink, EndOfLinks, Known, NotCached, CheckFile,
           Promote, Demote, Add, Spill, AddURL
  <1>3. page' = page \/ \E x : page' = [page EXCEPT ![w] = x]
    BY DEF Step, ReadURL, Fail, Store, GetLink, EndOfLinks, Known, NotCached, CheckFile,
           Promote, Demote, Add, Spill, AddURL
  <1>4. rest' = rest \/ \E x : rest' = [rest EXCEPT ![w] = x]
    BY DEF Step, ReadURL, Fail, Store, GetLink, EndOfLinks, Known, NotCached, CheckFile,
           Promote, Demote, Add, Spill, AddURL
  <1>5. out' = out \/ \E x : out' = [out EXCEPT ![w] = x]
    BY SeenStaysFacts, AllSteps DEF Known, Promote, Demote, Add, Spill, InsertCache, InsertFile
  <1>6. /\ pc'[v] = pc[v] /\ page'[v] = page[v] /\ rest'[v] = rest[v]
        /\ holder'[v] = holder[v] /\ out'[v] = out[v]
    BY <1>1, <1>2, <1>3, <1>4, <1>5 DEF Shapes, WorkShapes, SeenShapes
  <1>7. QED
    BY <1>6 DEF Key, Home

Copies(h) == IF h \in BagToSet(pushed) THEN pushed[h] ELSE 0

(* Pushing one URL adds one to the copies of its hash and to those of no other.  *)
LEMMA OneMore ==
  ASSUME Shapes, NEW hash, pushed' = pushed (+) One(hash)
  PROVE  /\ \A h : Copies(h)' = Copies(h) + One01(h = hash)
         /\ DOMAIN pushed' = DOMAIN pushed \cup {hash}
         /\ \A h \in DOMAIN pushed' : pushed'[h] \in Nat
  <1>1. One(hash) = [e \in {hash} |-> 1]
    BY DEF One, SetToBag
  <1>2. pushed' = [e \in DOMAIN pushed \cup {hash} |->
                     (IF e \in DOMAIN pushed THEN pushed[e] ELSE 0)
                       + (IF e \in {hash} THEN 1 ELSE 0)]
    BY <1>1 DEF (+)
  <1>3. \A h \in DOMAIN pushed : pushed[h] \in Nat
    BY DEF Shapes, WorkShapes, BagToSet
  <1>4. DOMAIN pushed' = DOMAIN pushed \cup {hash}
    BY <1>2
  <1>5. \A h \in DOMAIN pushed' : pushed'[h] = (IF h \in DOMAIN pushed THEN pushed[h] ELSE 0)
                                               + (IF h = hash THEN 1 ELSE 0)
    BY <1>2
  <1>6. \A h : Copies(h)' = Copies(h) + One01(h = hash)
    BY <1>3, <1>4, <1>5 DEF Copies, BagToSet, One01
  <1>7. QED
    BY <1>3, <1>4, <1>5, <1>6

LEMMA ShapesAtStart == Hashing /\ Init => Shapes
  <1> SUFFICES ASSUME Hashing, Init
               PROVE  Shapes
    OBVIOUS
  <1>1. SeenShapes
    <2>1. <<>> \in Seq(Keys) /\ Len(<<>>) = 0
      OBVIOUS
    <2>2. QED
      BY <2>1, CacheConstants DEF Init, SeenShapes
  <1>2. WorkShapes
    BY DEF Init, WorkShapes, Points, EmptyBag, SetToBag, BagToSet
  <1>3. SeedsFirst
    BY ThreadWorkAssumption DEF Init, SeedsFirst
  <1>4. FilesBehindCaches
    BY DEF Init, FilesBehindCaches
  <1>5. QED
    BY <1>1, <1>2, <1>3, <1>4 DEF Shapes

LEMMA WorkShapesKept ==
  ASSUME Shapes, NEW w \in Workers, Step(w)
  PROVE  WorkShapes'
  <1>1. pc' \in [Workers -> Points]
    <2>1. \E x \in Points : pc' = [pc EXCEPT ![w] = x]
      BY DEF Step, ReadURL, Fail, Store, GetLink, EndOfLinks, Known, NotCached, CheckFile,
             Promote, Demote, Add, Spill, AddURL, Goto, Points
    <2>2. QED
      BY <2>1 DEF Shapes, WorkShapes
  <1>2. frontier' = [v \in Workers |-> frontier'[v]]
    <2>1. frontier' = frontier \/ \E v, x : frontier' = [frontier EXCEPT ![v] = x]
      BY DEF Step, ReadURL, Fail, Store, GetLink, EndOfLinks, Known, NotCached, CheckFile,
             Promote, Demote, Add, Spill, AddURL
    <2>2. QED
      BY <2>1 DEF Shapes, WorkShapes
  <1>3. /\ page' = page \/ \E x : page' = [page EXCEPT ![w] = x]
        /\ rest' = rest \/ \E x : rest' = [rest EXCEPT ![w] = x]
        /\ holder' = holder \/ \E x : holder' = [holder EXCEPT ![w] = x]
    BY DEF Step, ReadURL, Fail, Store, GetLink, EndOfLinks, Known, NotCached, CheckFile,
           Promote, Demote, Add, Spill, AddURL
  <1>4. /\ page' = [v \in Workers |-> page'[v]]
        /\ rest' = [v \in Workers |-> rest'[v]]
        /\ holder' = [v \in Workers |-> holder'[v]]
    BY <1>3 DEF Shapes, WorkShapes
  <1>5. \A h \in BagToSet(pushed)' : pushed'[h] \in Nat
    <2>1. pushed' = pushed \/ \E hash : pushed' = pushed (+) One(hash)
      BY DEF Step, ReadURL, Fail, Store, GetLink, EndOfLinks, Known, NotCached, CheckFile,
             Promote, Demote, Add, Spill, AddURL
    <2>2. CASE pushed' = pushed
      BY <2>2 DEF Shapes, WorkShapes, BagToSet
    <2>3. ASSUME NEW hash, pushed' = pushed (+) One(hash)
          PROVE  \A h \in BagToSet(pushed)' : pushed'[h] \in Nat
      BY <2>3, OneMore DEF BagToSet
    <2>4. QED
      BY <2>1, <2>2, <2>3
  <1>6. QED
    BY <1>1, <1>2, <1>4, <1>5 DEF WorkShapes

(* What a step does to the URLSeen of w, and to no other.                        *)
LEMMA CacheSteps ==
  ASSUME Hashing, Shapes, NEW w \in Workers, Step(w)
  PROVE  /\ SeenShapes'
         /\ \A v \in Workers : /\ Full(cache[v]) => Full(cache'[v])
                               /\ v # Home(w) => cache'[v] = cache[v] /\ file'[v] = file[v]
  <1> DEFINE k == Key(w)
             m == Home(w)
  <1>1. k \in Keys /\ m \in Workers
    BY KeysAndHomes
  <1>2. SeenShapes
    BY DEF Shapes
  <1>3. cache[m] \in Seq(Keys) /\ Len(cache[m]) <= MAX_LRU
    BY <1>1, <1>2 DEF SeenShapes
  <1>4. CASE SeenStays(w)
    BY <1>2, <1>4, SeenStaysFacts DEF SeenShapes
  <1>5. CASE Known(w)
    <2>1. PICK t : t = Touched(cache[m], k)
      OBVIOUS
    <2>2. cache' = [cache EXCEPT ![m] = t] /\ file' = file /\ out' = out /\ Holds(cache[m], k)
      BY <1>5, <2>1 DEF Known
    <2>3. t \in Seq(Keys) /\ Len(t) = Len(cache[m])
      BY <1>1, <1>3, <2>1, <2>2, TouchedKeys
    <2> HIDE DEF k, m
    <2>4. cache' \in [Workers -> Seq(Keys)] /\ \A v \in Workers : Len(cache'[v]) = Len(cache[v])
      BY <1>1, <1>2, <2>2, <2>3 DEF SeenShapes
    <2>5. \A v \in Workers : v # m => cache'[v] = cache[v]
      BY <1>1, <1>2, <2>2 DEF SeenShapes
    <2>6. \A v \in Workers : Full(cache[v]) => Full(cache'[v])
      BY <2>4 DEF Full
    <2>7. QED
      BY <1>2, <2>2, <2>4, <2>5, <2>6 DEF SeenShapes, m
  <1>6. CASE Promote(w) \/ Add(w)
    <2>1. PICK t : t = Inserted(cache[m], k)
      OBVIOUS
    <2>2. PICK e : e = Evicted(cache[m])
      OBVIOUS
    <2>3. cache' = [cache EXCEPT ![m] = t] /\ file' = file /\ out' = [out EXCEPT ![w] = e]
      BY <1>6, <2>1, <2>2 DEF Promote, Add, InsertCache
    <2>4. /\ t \in Seq(Keys) /\ Len(t) <= MAX_LRU
          /\ Full(cache[m]) => Full(t) /\ e \in KeysOf(cache[m])
          /\ ~Full(cache[m]) => e = NoKey
      BY <1>1, <1>3, <2>1, <2>2, InsertedKeys
    <2>5. KeysOf(cache[m]) \subseteq Keys
      BY <1>3 DEF KeysOf
    <2> HIDE DEF k, m
    <2>6. cache' \in [Workers -> Seq(Keys)] /\ \A v \in Workers : Len(cache'[v]) <= MAX_LRU
      BY <1>1, <1>2, <2>3, <2>4 DEF SeenShapes
    <2>7. \A v \in Workers : v # m => cache'[v] = cache[v]
      BY <1>1, <1>2, <2>3 DEF SeenShapes
    <2>8. cache'[m] = t
      BY <1>1, <1>2, <2>3 DEF SeenShapes
    <2>9. \A v \in Workers : Full(cache[v]) => Full(cache'[v])
      BY <2>4, <2>7, <2>8
    <2>10. out' \in [Workers -> Keys \cup {NoKey}]
      BY <1>2, <2>3, <2>4, <2>5 DEF SeenShapes
    <2>11. QED
      BY <1>2, <2>3, <2>6, <2>7, <2>9, <2>10 DEF SeenShapes, m
  <1>7. CASE Demote(w) \/ Spill(w)
    <2>1. /\ cache' = cache /\ file' = [file EXCEPT ![m] = @ \cup {out[w]}]
          /\ out' = [out EXCEPT ![w] = NoKey]
      BY <1>7 DEF Demote, Spill, InsertFile
    <2>2. out[w] \in Keys
      BY <1>7 DEF Demote, Spill, Goto, Shapes, FilesBehindCaches
    <2> HIDE DEF k, m
    <2>3. file' \in [Workers -> SUBSET Keys] /\ \A v \in Workers : v # m => file'[v] = file[v]
      BY <1>1, <1>2, <2>1, <2>2 DEF SeenShapes
    <2>4. out' \in [Workers -> Keys \cup {NoKey}]
      BY <1>2, <2>1 DEF SeenShapes
    <2>5. QED
      BY <1>2, <2>1, <2>3, <2>4 DEF SeenShapes, m
  <1>8. QED
    BY <1>4, <1>5, <1>6, <1>7, AllSteps

LEMMA FilesBehindCachesKept ==
  ASSUME Hashing, Shapes, NEW w \in Workers, Step(w)
  PROVE  FilesBehindCaches'
  <1>1. \A v \in Workers : /\ Full(cache[v]) => Full(cache'[v])
                           /\ v # Home(w) => cache'[v] = cache[v] /\ file'[v] = file[v]
    BY CacheSteps
  <1>2. Key(w) \in Keys /\ Home(w) \in Workers
    BY KeysAndHomes
  <1>3. file \in [Workers -> SUBSET Keys] /\ pc \in [Workers -> Points]
    BY DEF Shapes, SeenShapes, WorkShapes
  <1>4. FilesBehindCaches
    BY DEF Shapes
  <1>5. \A v \in Workers : file[v] \subseteq file'[v]
    <2>1. CASE Demote(w) \/ Spill(w)
      <3>1. file' = [file EXCEPT ![Home(w)] = @ \cup {out[w]}]
        BY <2>1 DEF Demote, Spill, InsertFile
      <3>2. QED
        BY <1>3, <3>1
    <2>2. CASE ~(Demote(w) \/ Spill(w))
      <3>1. file' = file
        BY <2>2, AllSteps, SeenStaysFacts DEF Known, Promote, Add
      <3>2. QED
        BY <3>1
    <2>3. QED
      BY <2>1, <2>2
  <1>6. ASSUME NEW v \in Workers, file'[v] # {}
        PROVE  Full(cache'[v])
    <2>1. CASE file[v] # {}
      BY <1>1, <1>4, <2>1 DEF FilesBehindCaches
    <2>2. CASE file[v] = {}
      <3>1. file'[v] # file[v]
        BY <1>6, <2>2
      <3>2. v = Home(w) /\ file' # file
        BY <1>1, <3>1
      <3>3. Demote(w) \/ Spill(w)
        BY <3>2, AllSteps, SeenStaysFacts DEF Known, Promote, Add
      <3>4. Full(cache[Home(w)])
        BY <1>4, <3>3 DEF FilesBehindCaches, Demote, Spill, Goto
      <3>5. QED
        BY <1>1, <1>2, <3>2, <3>4
    <2>3. QED
      BY <2>1, <2>2
  <1>7. ASSUME NEW v \in Workers, v # w
        PROVE  /\ pc'[v] = "promote" => Key(v)' \in file'[Home(v)']
               /\ pc'[v] \in {"demote", "spill"} => out'[v] \in Keys /\ Full(cache'[Home(v)'])
    <2>1. pc'[v] = pc[v] /\ out'[v] = out[v] /\ Key(v)' = Key(v) /\ Home(v)' = Home(v)
      BY <1>7, OthersStay
    <2>2. Home(v) \in Workers
      BY KeysAndHomes
    <2>3. QED
      BY <1>1, <1>4, <1>5, <2>1, <2>2 DEF FilesBehindCaches
  <1>8. /\ pc'[w] = "promote" => Key(w)' \in file'[Home(w)']
        /\ pc'[w] \in {"demote", "spill"} => out'[w] \in Keys /\ Full(cache'[Home(w)'])
    <2>1. CASE CheckFile(w)
      <3>1. holder' = holder /\ file' = file
        BY <2>1 DEF CheckFile, seen
      <3>2. Key(w)' = Key(w) /\ Home(w)' = Home(w)
        BY <3>1 DEF Key, Home
      <3>3. pc'[w] = IF Key(w) \in file[Home(w)] THEN "promote" ELSE "add"
        BY <1>3, <2>1 DEF CheckFile, Goto
      <3>4. QED
        BY <3>1, <3>2, <3>3
    <2>2. CASE Promote(w) \/ Add(w)
      <3>1. holder' = holder /\ out' = [out EXCEPT ![w] = Evicted(cache[Home(w)])]
        BY <2>2 DEF Promote, Add, InsertCache
      <3>2. Key(w)' = Key(w) /\ Home(w)' = Home(w)
        BY <3>1 DEF Key, Home
      <3>3. /\ Promote(w) => pc'[w] = "demote" /\ pc[w] = "promote"
            /\ Add(w) => pc'[w] = IF Full(cache[Home(w)]) THEN "spill" ELSE "push"
        BY <1>3 DEF Promote, Add, Goto
      <3>4. Promote(w) => Full(cache[Home(w)])
        BY <1>2, <1>4, <3>3 DEF FilesBehindCaches
      <3>5. ASSUME Full(cache[Home(w)])
            PROVE  out'[w] \in Keys
        <4>1. PICK lru : lru = cache[Home(w)]
          OBVIOUS
        <4>2. lru \in Seq(Keys) /\ Len(lru) <= MAX_LRU
          BY <1>2, <4>1 DEF Shapes, SeenShapes
        <4>3. Evicted(lru) \in KeysOf(lru)
          BY <1>2, <3>5, <4>1, <4>2, InsertedKeys
        <4>4. Evicted(lru) \in Keys
          BY <4>2, <4>3 DEF KeysOf
        <4>5. out'[w] = Evicted(lru)
          BY <3>1, <4>1 DEF Shapes, SeenShapes
        <4>6. QED
          BY <4>4, <4>5
      <3>6. QED
        BY <1>1, <1>2, <2>2, <3>2, <3>3, <3>4, <3>5
    <2>3. CASE ~(CheckFile(w) \/ Promote(w) \/ Add(w))
      <3>1. pc'[w] \notin {"promote", "demote", "spill"}
        BY <1>3, <2>3 DEF Step, ReadURL, Fail, Store, GetLink, EndOfLinks, Known, NotCached,
                          Demote, Spill, AddURL, Goto
      <3>2. QED
        BY <3>1
    <2>4. QED
      BY <2>1, <2>2, <2>3
  <1>9. QED
    BY <1>6, <1>7, <1>8 DEF FilesBehindCaches

(* Before the workers start, and the steps of one of them, keep the shapes.      *)
LEMMA SeedSteps ==
  ASSUME Hashing, Shapes, PushSeed
  PROVE  /\ nextLine' = nextLine + 1 /\ nextLine \in 1 .. Len(Seeds)
         /\ out' = out /\ pc' = pc /\ page' = page /\ rest' = rest /\ holder' = holder
         /\ \A w \in Workers : pc[w] = "loop"
         /\ \E m \in Workers, hash \in SeedHashes(Seeds[nextLine]) :
              /\ hash \in Keys
              /\ frontier' = [frontier EXCEPT ![m] = @ (+) One(Seeds[nextLine])]
              /\ pushed' = pushed (+) One(hash)
              /\ cache'[m] = Inserted(cache[m], hash)
              /\ file'[m] = IF Full(cache[m]) THEN file[m] \cup {Evicted(cache[m])} ELSE file[m]
              /\ \A v \in Workers : v # m => cache'[v] = cache[v] /\ file'[v] = file[v]
         /\ Shapes'
  <1>1. /\ nextLine' = nextLine + 1 /\ nextLine \in 1 .. Len(Seeds)
        /\ out' = out /\ pc' = pc /\ page' = page /\ rest' = rest /\ holder' = holder
        /\ \A w \in Workers : pc[w] = "loop"
    BY ThreadWorkAssumption DEF PushSeed, Shapes, SeedsFirst
  <1>2. PICK m \in Workers, hash \in SeedHashes(Seeds[nextLine]) :
          /\ frontier' = [frontier EXCEPT ![m] = @ (+) One(Seeds[nextLine])]
          /\ pushed' = pushed (+) One(hash)
          /\ cache' = [cache EXCEPT ![m] = Inserted(@, hash)]
          /\ file' = [file EXCEPT ![m] = IF Full(cache[m]) THEN @ \cup {Evicted(cache[m])} ELSE @]
    BY DEF PushSeed
  <1>3. hash \in Keys
    BY DEF Hashing
  <1>4. SeenShapes
    BY DEF Shapes
  <1>5. PICK lru : lru = cache[m]
    OBVIOUS
  <1>6. PICK t : t = Inserted(lru, hash)
    OBVIOUS
  <1>7. PICK e : e = Evicted(lru)
    OBVIOUS
  <1>8. /\ t \in Seq(Keys) /\ Len(t) <= MAX_LRU
        /\ Full(lru) => Full(t) /\ e \in Keys
    <2>1. lru \in Seq(Keys) /\ Len(lru) <= MAX_LRU
      BY <1>4, <1>5 DEF SeenShapes
    <2>2. /\ t \in Seq(Keys) /\ Len(t) <= MAX_LRU
          /\ Full(lru) => Full(t) /\ e \in KeysOf(lru)
      BY <1>3, <1>6, <1>7, <2>1, InsertedKeys
    <2>3. QED
      BY <2>1, <2>2 DEF KeysOf
  <1>9. /\ cache' = [cache EXCEPT ![m] = t]
        /\ file' = [file EXCEPT ![m] = IF Full(lru) THEN @ \cup {e} ELSE @]
    BY <1>2, <1>5, <1>6, <1>7
  <1>10. /\ cache'[m] = t
         /\ file'[m] = IF Full(lru) THEN file[m] \cup {e} ELSE file[m]
         /\ \A v \in Workers : v # m => cache'[v] = cache[v] /\ file'[v] = file[v]
    BY <1>4, <1>9 DEF SeenShapes
  <1>11. SeenShapes'
    BY <1>1, <1>4, <1>8, <1>9 DEF SeenShapes
  <1>12. WorkShapes'
    <2>1. \A h \in BagToSet(pushed)' : pushed'[h] \in Nat
      BY <1>2, OneMore DEF BagToSet
    <2>2. frontier' = [w \in Workers |-> frontier'[w]]
      <3>1. \E x : frontier' = [frontier EXCEPT ![m] = x]
        BY <1>2
      <3>2. QED
        BY <3>1 DEF Shapes, WorkShapes
    <2>3. QED
      BY <1>1, <2>1, <2>2 DEF Shapes, WorkShapes
  <1>13. SeedsFirst'
    BY <1>1, ThreadWorkAssumption DEF SeedsFirst
  <1>14. FilesBehindCaches'
    <2>1. \A v \in Workers : file'[v] # {} => Full(cache'[v])
      <3>1. file[m] # {} => Full(lru)
        BY <1>5 DEF Shapes, FilesBehindCaches
      <3>2. file'[m] # {} => Full(t)
        BY <1>8, <1>10, <3>1
      <3>3. QED
        BY <1>10, <3>2 DEF Shapes, FilesBehindCaches
    <2>2. QED
      BY <1>1, <2>1 DEF FilesBehindCaches
  <1>15. Shapes'
    BY <1>11, <1>12, <1>13, <1>14 DEF Shapes
  <1>16. QED
    BY <1>1, <1>2, <1>3, <1>5, <1>6, <1>7, <1>10, <1>15

LEMMA ShapesStep ==
  ASSUME Hashing, Shapes, NEW w \in Workers, Step(w)
  PROVE  Shapes'
  <1>1. SeedsFirst'
    BY AllSteps, ThreadWorkAssumption DEF Shapes, SeedsFirst
  <1>2. QED
    BY <1>1, CacheSteps, WorkShapesKept, FilesBehindCachesKept DEF Shapes

LEMMA ShapesKept == Hashing /\ Shapes /\ [Next]_vars => Shapes'
  <1> SUFFICES ASSUME Hashing, Shapes, [Next]_vars
               PROVE  Shapes'
    OBVIOUS
  <1>1. CASE UNCHANGED vars
    BY <1>1 DEF vars, Shapes, SeenShapes, WorkShapes, SeedsFirst, FilesBehindCaches, Key, Home,
                BagToSet
  <1>2. QED
    BY <1>1, SeedSteps, ShapesStep DEF Next

-----------------------------------------------------------------------------
(* The workers with a hash in hand: marked in the cache and not yet pushed,      *)
(* found nowhere and not yet marked, missed in the cache, and carrying it from   *)
(* the cache to the file where it belongs.                                       *)
Hands(h)    == {w \in Workers : pc[w] \in {"spill", "push"} /\ Key(w) = h}
Adding(h)   == {w \in Workers : pc[w] = "add" /\ Key(w) = h}
Checking(h) == {w \in Workers : pc[w] \in {"checkFile", "add"} /\ Key(w) = h}
Carriers(h) == {w \in Workers : pc[w] \in {"demote", "spill"} /\ out[w] = h /\ Home(w) = Mod(h)}

HandsN(h) == Cardinality(Hands(h))
AddingN(h) == Cardinality(Adding(h))
CheckingN(h) == Cardinality(Checking(h))
CarriersN(h) == Cardinality(Carriers(h))

InFile(h) == h \in file[Mod(h)]
CachedN(h) == Count(cache[Mod(h)], h)

(* The lines so far that may have this hash.                                     *)
SeedLines(h) == {i \in 1 .. nextLine - 1 : h \in SeedHashes(Seeds[i])}
SeedN(h) == Cardinality(SeedLines(h))

(* Until it is in the file, each push of a hash beyond those of the seeds has a  *)
(* copy in the cache, or one that a worker carries.                              *)
PushesAreHeld(h) ==
  ~InFile(h) => Copies(h) + HandsN(h) <= SeedN(h) + CachedN(h) + CarriersN(h)

(* Whoever may still push it has not pushed it more often than the bound allows. *)
PushesHaveRoom(h) ==
  Copies(h) + HandsN(h) + (IF InFile(h) THEN AddingN(h) ELSE CheckingN(h))
    <= SeedN(h) + Cardinality(Workers)

Tally(h) == PushesAreHeld(h) /\ PushesHaveRoom(h)

PushInv == Shapes /\ \A h : Tally(h)

(* Two sets of workers that have none in common are no more than the workers.    *)
LEMMA TwoApart ==
  ASSUME NEW X, X \subseteq Workers, NEW Y, Y \subseteq Workers, X \cap Y = {}
  PROVE  /\ Cardinality(X) \in Nat /\ Cardinality(Y) \in Nat
         /\ Cardinality(X) + Cardinality(Y) <= Cardinality(Workers)
  <1>1. IsFiniteSet(Workers) /\ IsFiniteSet(X) /\ IsFiniteSet(Y) /\ X \cup Y \subseteq Workers
    BY ThreadWorkAssumption, FS_Subset
  <1>2. Cardinality(X \cup Y) = Cardinality(X) + Cardinality(Y) - Cardinality(X \cap Y)
    BY <1>1, FS_Union
  <1>3. Cardinality(X \cap Y) = 0
    <2>1. Cardinality(X \cap Y) = Cardinality({})
      BY Zenon
    <2>2. QED
      BY <2>1, FS_EmptySet
  <1>4. Cardinality(X \cup Y) <= Cardinality(Workers)
    BY <1>1, FS_Subset
  <1>5. Cardinality(X) \in Nat /\ Cardinality(Y) \in Nat
    BY <1>1, FS_CardinalityType
  <1>6. QED
    BY <1>2, <1>3, <1>4, <1>5

LEMMA NumbersAreNat ==
  ASSUME Hashing, Shapes, NEW h
  PROVE  /\ Copies(h) \in Nat /\ HandsN(h) \in Nat /\ AddingN(h) \in Nat
         /\ CheckingN(h) \in Nat /\ CarriersN(h) \in Nat /\ CachedN(h) \in Nat
         /\ SeedN(h) \in Nat /\ Cardinality(Workers) \in Nat
         /\ AddingN(h) <= CheckingN(h) /\ CheckingN(h) + CarriersN(h) <= Cardinality(Workers)
  <1>1. IsFiniteSet(Workers)
    BY ThreadWorkAssumption
  <1>2. /\ Hands(h) \subseteq Workers /\ Adding(h) \subseteq Workers
        /\ Checking(h) \subseteq Workers /\ Carriers(h) \subseteq Workers
        /\ Adding(h) \subseteq Checking(h)
        /\ Checking(h) \cap Carriers(h) = {} /\ Checking(h) \cup Carriers(h) \subseteq Workers
    BY DEF Hands, Adding, Checking, Carriers
  <1>3. /\ IsFiniteSet(Hands(h)) /\ IsFiniteSet(Adding(h)) /\ IsFiniteSet(Checking(h))
        /\ IsFiniteSet(Carriers(h)) /\ AddingN(h) <= CheckingN(h)
    BY <1>1, <1>2, FS_Subset DEF AddingN, CheckingN
  <1>4. /\ HandsN(h) \in Nat /\ AddingN(h) \in Nat /\ CheckingN(h) \in Nat
        /\ CarriersN(h) \in Nat /\ Cardinality(Workers) \in Nat
    BY <1>1, <1>3, FS_CardinalityType DEF HandsN, AddingN, CheckingN, CarriersN
  <1>5. CheckingN(h) + CarriersN(h) <= Cardinality(Workers)
    BY <1>2, TwoApart DEF CheckingN, CarriersN
  <1>6. Copies(h) \in Nat
    BY DEF Copies, Shapes, WorkShapes
  <1>7. CachedN(h) \in Nat
    BY PlacesAreFinite DEF Hashing, Shapes, SeenShapes, CachedN
  <1>8. SeedN(h) \in Nat
    <2>1. nextLine - 1 \in Int /\ SeedLines(h) \subseteq 1 .. nextLine - 1
      BY ThreadWorkAssumption DEF Shapes, SeedsFirst, SeedLines
    <2>2. IsFiniteSet(SeedLines(h))
      BY <2>1, FS_Interval, FS_Subset
    <2>3. QED
      BY <2>2, FS_CardinalityType DEF SeedN
  <1>9. QED
    BY <1>3, <1>4, <1>5, <1>6, <1>7, <1>8

LEMMA WorkersMove ==
  ASSUME Shapes, NEW w \in Workers, Step(w), NEW h
  PROVE  /\ HandsN(h)' \in Nat /\ AddingN(h)' \in Nat /\ CheckingN(h)' \in Nat
         /\ CarriersN(h)' \in Nat
         /\ HandsN(h)' + One01(w \in Hands(h)) = HandsN(h) + One01(w \in Hands(h)')
         /\ AddingN(h)' + One01(w \in Adding(h)) = AddingN(h) + One01(w \in Adding(h)')
         /\ CheckingN(h)' + One01(w \in Checking(h)) = CheckingN(h) + One01(w \in Checking(h)')
         /\ CarriersN(h)' + One01(w \in Carriers(h)) = CarriersN(h) + One01(w \in Carriers(h)')
  <1>1. \A v \in Workers : v # w => /\ v \in Hands(h) <=> v \in Hands(h)'
                                    /\ v \in Adding(h) <=> v \in Adding(h)'
                                    /\ v \in Checking(h) <=> v \in Checking(h)'
                                    /\ v \in Carriers(h) <=> v \in Carriers(h)'
    <2> SUFFICES ASSUME NEW v \in Workers, v # w
                 PROVE  /\ v \in Hands(h) <=> v \in Hands(h)'
                        /\ v \in Adding(h) <=> v \in Adding(h)'
                        /\ v \in Checking(h) <=> v \in Checking(h)'
                        /\ v \in Carriers(h) <=> v \in Carriers(h)'
      OBVIOUS
    <2>1. pc'[v] = pc[v] /\ out'[v] = out[v] /\ Key(v)' = Key(v) /\ Home(v)' = Home(v)
      BY OthersStay
    <2>2. QED
      BY <2>1 DEF Hands, Adding, Checking, Carriers
  <1>2. /\ Hands(h) \subseteq Workers /\ Hands(h)' \subseteq Workers
        /\ Adding(h) \subseteq Workers /\ Adding(h)' \subseteq Workers
        /\ Checking(h) \subseteq Workers /\ Checking(h)' \subseteq Workers
        /\ Carriers(h) \subseteq Workers /\ Carriers(h)' \subseteq Workers
    BY DEF Hands, Adding, Checking, Carriers
  <1>3. /\ HandsN(h)' \in Nat
        /\ HandsN(h)' + One01(w \in Hands(h)) = HandsN(h) + One01(w \in Hands(h)')
    BY <1>1, <1>2, OneMoves DEF HandsN
  <1>4. /\ AddingN(h)' \in Nat
        /\ AddingN(h)' + One01(w \in Adding(h)) = AddingN(h) + One01(w \in Adding(h)')
    BY <1>1, <1>2, OneMoves DEF AddingN
  <1>5. /\ CheckingN(h)' \in Nat
        /\ CheckingN(h)' + One01(w \in Checking(h)) = CheckingN(h) + One01(w \in Checking(h)')
    BY <1>1, <1>2, OneMoves DEF CheckingN
  <1>6. /\ CarriersN(h)' \in Nat
        /\ CarriersN(h)' + One01(w \in Carriers(h)) = CarriersN(h) + One01(w \in Carriers(h)')
    BY <1>1, <1>2, OneMoves DEF CarriersN
  <1>7. QED
    BY <1>3, <1>4, <1>5, <1>6

(* The number of copies in the cache, over the steps that change it.             *)
LEMMA CacheMoves ==
  ASSUME Hashing, Shapes, NEW w \in Workers, Step(w), NEW h
  PROVE  /\ CachedN(h)' \in Nat
         /\ Known(w) => CachedN(h) <= CachedN(h)' /\ InFile(h)' = InFile(h)
         /\ Promote(w) \/ Add(w) =>
              /\ InFile(h)' = InFile(h)
              /\ Home(w) # Mod(h) => CachedN(h)' = CachedN(h)
              /\ Home(w) = Mod(h) =>
                   CachedN(h) + One01(h = Key(w))
                     <= CachedN(h)' + One01(Full(cache[Mod(h)]) /\ Evicted(cache[Mod(h)]) = h)
         /\ Demote(w) \/ Spill(w) =>
              /\ CachedN(h)' = CachedN(h)
              /\ InFile(h)' <=> InFile(h) \/ (Home(w) = Mod(h) /\ out[w] = h)
         /\ SeenStays(w) => CachedN(h)' = CachedN(h) /\ InFile(h)' = InFile(h)
  <1> DEFINE m == Mod(h)
             k == Key(w)
  <1>1. m \in Workers /\ k \in Keys /\ Home(w) \in Workers
    BY KeysAndHomes DEF Hashing
  <1>2. /\ cache \in [Workers -> Seq(Keys)] /\ Len(cache[m]) <= MAX_LRU
        /\ cache' \in [Workers -> Seq(Keys)] /\ file \in [Workers -> SUBSET Keys]
    BY <1>1, CacheSteps DEF Shapes, SeenShapes
  <1>3. CachedN(h)' \in Nat
    BY <1>1, <1>2, PlacesAreFinite DEF CachedN
  <1>4. ASSUME Known(w)
        PROVE  CachedN(h) <= CachedN(h)' /\ InFile(h)' = InFile(h)
    <2>1. file' = file
      BY <1>4 DEF Known
    <2>2. PICK t : t = Touched(cache[Home(w)], k)
      OBVIOUS
    <2>3. cache' = [cache EXCEPT ![Home(w)] = t] /\ Holds(cache[Home(w)], k)
      BY <1>4, <2>2 DEF Known
    <2> HIDE DEF m, k
    <2>4. CASE Home(w) = m
      <3>1. cache'[m] = t /\ t = Touched(cache[m], k) /\ Holds(cache[m], k)
        BY <1>1, <1>2, <2>2, <2>3, <2>4
      <3>2. Count(cache[m], h) <= Count(t, h)
        BY <1>1, <1>2, <3>1, TouchedCounts
      <3>3. QED
        BY <2>1, <3>1, <3>2 DEF CachedN, InFile, m
    <2>5. CASE Home(w) # m
      <3>1. cache'[m] = cache[m]
        BY <1>1, <1>2, <2>3, <2>5
      <3>2. CachedN(h)' = CachedN(h)
        BY <3>1 DEF CachedN, m
      <3>3. CachedN(h) \in Nat
        BY <1>3, <3>2
      <3>4. QED
        BY <2>1, <3>2, <3>3 DEF InFile
    <2>6. QED
      BY <2>4, <2>5
  <1>5. ASSUME Promote(w) \/ Add(w)
        PROVE  /\ InFile(h)' = InFile(h)
               /\ Home(w) # m => CachedN(h)' = CachedN(h)
               /\ Home(w) = m =>
                    CachedN(h) + One01(h = k)
                      <= CachedN(h)' + One01(Full(cache[m]) /\ Evicted(cache[m]) = h)
    <2>1. file' = file
      BY <1>5 DEF Promote, Add
    <2>2. PICK t : t = Inserted(cache[Home(w)], k)
      OBVIOUS
    <2>3. cache' = [cache EXCEPT ![Home(w)] = t]
      BY <1>5, <2>2 DEF Promote, Add, InsertCache
    <2> HIDE DEF m, k
    <2>4. ASSUME Home(w) = m
          PROVE  CachedN(h) + One01(h = k)
                   <= CachedN(h)' + One01(Full(cache[m]) /\ Evicted(cache[m]) = h)
      <3>1. cache'[m] = t /\ t = Inserted(cache[m], k)
        BY <1>1, <1>2, <2>2, <2>3, <2>4
      <3>2. Count(cache[m], h) + One01(h = k)
              <= Count(Inserted(cache[m], k), h) + One01(Full(cache[m]) /\ Evicted(cache[m]) = h)
        BY <1>1, <1>2, InsertedCounts
      <3>3. CachedN(h) = Count(cache[m], h) /\ CachedN(h)' = Count(Inserted(cache[m], k), h)
        BY <3>1 DEF CachedN, m
      <3>4. QED
        BY <3>2, <3>3, Zenon
    <2>5. ASSUME Home(w) # m
          PROVE  CachedN(h)' = CachedN(h)
      <3>1. cache'[m] = cache[m]
        BY <1>1, <1>2, <2>3, <2>5
      <3>2. QED
        BY <3>1 DEF CachedN, m
    <2>6. InFile(h)' = InFile(h)
      BY <2>1 DEF InFile
    <2>7. QED
      BY <2>4, <2>5, <2>6
  <1>6. ASSUME Demote(w) \/ Spill(w)
        PROVE  /\ CachedN(h)' = CachedN(h)
               /\ InFile(h)' <=> InFile(h) \/ (Home(w) = m /\ out[w] = h)
    <2>1. cache' = cache /\ file' = [file EXCEPT ![Home(w)] = @ \cup {out[w]}]
      BY <1>6 DEF Demote, Spill, InsertFile
    <2>2. CachedN(h)' = CachedN(h)
      BY <2>1 DEF CachedN
    <2>3. file'[m] = IF Home(w) = m THEN file[m] \cup {out[w]} ELSE file[m]
      BY <1>1, <1>2, <2>1
    <2>4. QED
      BY <2>2, <2>3 DEF InFile
  <1>7. ASSUME SeenStays(w)
        PROVE  CachedN(h)' = CachedN(h) /\ InFile(h)' = InFile(h)
    BY <1>7, SeenStaysFacts DEF CachedN, InFile
  <1>8. QED
    BY <1>3, <1>4, <1>5, <1>6, <1>7, Zenon

(* Where w is before and after each of its steps.                                *)
LEMMA PlacesOf ==
  ASSUME Shapes, NEW w \in Workers, Step(w)
  PROVE  /\ ReadURL(w) \/ Fail(w) \/ Store(w) \/ GetLink(w) \/ EndOfLinks(w) =>
              /\ pc[w] \in {"loop", "fetch", "links"}
              /\ pc'[w] \in {"loop", "fetch", "links", "check"}
              /\ pushed' = pushed
         /\ Known(w) => pc[w] = "check" /\ pc'[w] = "links" /\ pushed' = pushed
         /\ NotCached(w) => /\ pc[w] = "check" /\ pc'[w] = "checkFile" /\ pushed' = pushed
                            /\ Key(w)' = Key(w) /\ Home(w)' = Home(w)
         /\ CheckFile(w) => /\ pc[w] = "checkFile" /\ pushed' = pushed
                            /\ pc'[w] = IF Key(w) \in file[Home(w)] THEN "promote" ELSE "add"
                            /\ Key(w)' = Key(w) /\ Home(w)' = Home(w)
         /\ Promote(w) => /\ pc[w] = "promote" /\ pc'[w] = "demote" /\ pushed' = pushed
                          /\ Key(w)' = Key(w) /\ Home(w)' = Home(w)
                          /\ out'[w] = Evicted(cache[Home(w)])
         /\ Demote(w) => pc[w] = "demote" /\ pc'[w] = "links" /\ pushed' = pushed
         /\ Add(w) => /\ pc[w] = "add" /\ pushed' = pushed
                      /\ pc'[w] = IF Full(cache[Home(w)]) THEN "spill" ELSE "push"
                      /\ Key(w)' = Key(w) /\ Home(w)' = Home(w)
                      /\ out'[w] = Evicted(cache[Home(w)])
         /\ Spill(w) => /\ pc[w] = "spill" /\ pc'[w] = "push" /\ pushed' = pushed
                        /\ Key(w)' = Key(w) /\ Home(w)' = Home(w)
         /\ AddURL(w) => pc[w] = "push" /\ pc'[w] = "links" /\ pushed' = pushed (+) One(Key(w))
  <1>1. /\ pc \in [Workers -> Points] /\ out \in [Workers -> Keys \cup {NoKey}]
    BY DEF Shapes, WorkShapes, SeenShapes
  <1>2. holder' = holder => Key(w)' = Key(w) /\ Home(w)' = Home(w)
    BY DEF Key, Home
  <1>3. ReadURL(w) \/ Fail(w) \/ Store(w) \/ GetLink(w) \/ EndOfLinks(w) =>
              /\ pc[w] \in {"loop", "fetch", "links"}
              /\ pc'[w] \in {"loop", "fetch", "links", "check"}
              /\ pushed' = pushed
    BY <1>1 DEF ReadURL, Fail, Store, GetLink, EndOfLinks, Goto
  <1>4. /\ Known(w) => pc[w] = "check" /\ pc'[w] = "links" /\ pushed' = pushed
        /\ Demote(w) => pc[w] = "demote" /\ pc'[w] = "links" /\ pushed' = pushed
        /\ AddURL(w) => pc[w] = "push" /\ pc'[w] = "links" /\ pushed' = pushed (+) One(Key(w))
    BY <1>1 DEF Known, Demote, AddURL, Goto
  <1>5. /\ NotCached(w) => /\ pc[w] = "check" /\ pc'[w] = "checkFile" /\ pushed' = pushed
                           /\ holder' = holder
        /\ CheckFile(w) => /\ pc[w] = "checkFile" /\ pushed' = pushed /\ holder' = holder
                           /\ pc'[w] = IF Key(w) \in file[Home(w)] THEN "promote" ELSE "add"
        /\ Spill(w) => /\ pc[w] = "spill" /\ pc'[w] = "push" /\ pushed' = pushed
                       /\ holder' = holder
    BY <1>1 DEF NotCached, CheckFile, Spill, Goto
  <1>6. /\ Promote(w) => /\ pc[w] = "promote" /\ pc'[w] = "demote" /\ pushed' = pushed
                         /\ holder' = holder /\ out'[w] = Evicted(cache[Home(w)])
        /\ Add(w) => /\ pc[w] = "add" /\ pushed' = pushed /\ holder' = holder
                     /\ pc'[w] = IF Full(cache[Home(w)]) THEN "spill" ELSE "push"
                     /\ out'[w] = Evicted(cache[Home(w)])
    BY <1>1 DEF Promote, Add, InsertCache, Goto
  <1>7. QED
    BY <1>2, <1>3, <1>4, <1>5, <1>6

LEMMA CopiesMove ==
  ASSUME Shapes, NEW h
  PROVE  /\ pushed' = pushed => Copies(h)' = Copies(h)
         /\ \A k : pushed' = pushed (+) One(k) => Copies(h)' = Copies(h) + One01(h = k)
  <1>1. pushed' = pushed => Copies(h)' = Copies(h)
    BY DEF Copies, BagToSet
  <1>2. ASSUME NEW k, pushed' = pushed (+) One(k)
        PROVE  Copies(h)' = Copies(h) + One01(h = k)
    BY <1>2, OneMore
  <1>3. QED
    BY <1>1, <1>2

LEMMA TallyStep ==
  ASSUME Hashing, Shapes, NEW w \in Workers, Step(w), NEW h, Tally(h)
  PROVE  Tally(h)'
  <1> DEFINE k == Key(w)
             N == Cardinality(Workers)
             full == Full(cache[Mod(h)]) /\ Evicted(cache[Mod(h)]) = h
  <1>1. /\ Copies(h) \in Nat /\ HandsN(h) \in Nat /\ AddingN(h) \in Nat
        /\ CheckingN(h) \in Nat /\ CarriersN(h) \in Nat /\ CachedN(h) \in Nat
        /\ SeedN(h) \in Nat /\ N \in Nat
        /\ AddingN(h) <= CheckingN(h) /\ CheckingN(h) + CarriersN(h) <= N
    BY NumbersAreNat
  <1>2. /\ HandsN(h)' \in Nat /\ AddingN(h)' \in Nat /\ CheckingN(h)' \in Nat
        /\ CarriersN(h)' \in Nat /\ CachedN(h)' \in Nat
        /\ HandsN(h)' + One01(w \in Hands(h)) = HandsN(h) + One01(w \in Hands(h)')
        /\ AddingN(h)' + One01(w \in Adding(h)) = AddingN(h) + One01(w \in Adding(h)')
        /\ CheckingN(h)' + One01(w \in Checking(h)) = CheckingN(h) + One01(w \in Checking(h)')
        /\ CarriersN(h)' + One01(w \in Carriers(h)) = CarriersN(h) + One01(w \in Carriers(h)')
    BY WorkersMove, CacheMoves
  <1>3. SeedN(h)' = SeedN(h)
    BY AllSteps DEF SeedN, SeedLines
  <1>4. /\ ~InFile(h) => Copies(h) + HandsN(h) <= SeedN(h) + CachedN(h) + CarriersN(h)
        /\ Copies(h) + HandsN(h) + (IF InFile(h) THEN AddingN(h) ELSE CheckingN(h)) <= SeedN(h) + N
    BY DEF Tally, PushesAreHeld, PushesHaveRoom
  <1> DEFINE Goal ==
        /\ ~InFile(h)' => Copies(h)' + HandsN(h)' <= SeedN(h) + CachedN(h)' + CarriersN(h)'
        /\ Copies(h)' + HandsN(h)' + (IF InFile(h)' THEN AddingN(h)' ELSE CheckingN(h)')
             <= SeedN(h) + N
  <1>5. Goal => Tally(h)'
    BY <1>3 DEF Tally, PushesAreHeld, PushesHaveRoom
  <1>6. /\ w \in Hands(h) <=> pc[w] \in {"spill", "push"} /\ k = h
        /\ w \in Adding(h) <=> pc[w] = "add" /\ k = h
        /\ w \in Checking(h) <=> pc[w] \in {"checkFile", "add"} /\ k = h
        /\ w \in Carriers(h) <=> pc[w] \in {"demote", "spill"} /\ out[w] = h /\ Home(w) = Mod(h)
    BY DEF Hands, Adding, Checking, Carriers
  <1>7. /\ w \in Hands(h)' <=> pc'[w] \in {"spill", "push"} /\ k' = h
        /\ w \in Adding(h)' <=> pc'[w] = "add" /\ k' = h
        /\ w \in Checking(h)' <=> pc'[w] \in {"checkFile", "add"} /\ k' = h
        /\ w \in Carriers(h)' <=> /\ pc'[w] \in {"demote", "spill"} /\ out'[w] = h
                                  /\ Home(w)' = Mod(h)
    BY DEF Hands, Adding, Checking, Carriers
  <1>8. \A b : One01(b) = IF b THEN 1 ELSE 0
    BY DEF One01
  <1>9. CASE ReadURL(w) \/ Fail(w) \/ Store(w) \/ GetLink(w) \/ EndOfLinks(w)
    <2>1. /\ pc[w] \in {"loop", "fetch", "links"}
          /\ pc'[w] \in {"loop", "fetch", "links", "check"} /\ Copies(h)' = Copies(h)
      BY <1>9, PlacesOf, CopiesMove
    <2>2. CachedN(h)' = CachedN(h) /\ InFile(h)' = InFile(h)
      BY <1>9, CacheMoves DEF SeenStays
    <2>3. /\ w \notin Hands(h) /\ w \notin Adding(h) /\ w \notin Checking(h)
          /\ w \notin Carriers(h) /\ w \notin Hands(h)' /\ w \notin Adding(h)'
          /\ w \notin Checking(h)' /\ w \notin Carriers(h)'
      BY <1>6, <1>7, <2>1
    <2> HIDE DEF k, N
    <2>4. /\ HandsN(h)' = HandsN(h) /\ AddingN(h)' = AddingN(h)
          /\ CheckingN(h)' = CheckingN(h) /\ CarriersN(h)' = CarriersN(h)
      BY <1>1, <1>2, <2>3 DEF One01
    <2>5. QED
      BY <1>4, <1>5, <2>1, <2>2, <2>4
  <1>10. CASE Known(w)
    <2>1. pc[w] = "check" /\ pc'[w] = "links" /\ Copies(h)' = Copies(h)
      BY <1>10, PlacesOf, CopiesMove
    <2>2. CachedN(h) <= CachedN(h)' /\ InFile(h)' = InFile(h)
      BY <1>10, CacheMoves
    <2>3. /\ w \notin Hands(h) /\ w \notin Adding(h) /\ w \notin Checking(h)
          /\ w \notin Carriers(h) /\ w \notin Hands(h)' /\ w \notin Adding(h)'
          /\ w \notin Checking(h)' /\ w \notin Carriers(h)'
      BY <1>6, <1>7, <2>1
    <2> HIDE DEF k, N
    <2>4. /\ HandsN(h)' = HandsN(h) /\ AddingN(h)' = AddingN(h)
          /\ CheckingN(h)' = CheckingN(h) /\ CarriersN(h)' = CarriersN(h)
      BY <1>1, <1>2, <2>3 DEF One01
    <2>5. Goal
      BY <1>1, <1>2, <1>4, <2>1, <2>2, <2>4
    <2>6. QED
      BY <1>5, <2>5
  <1>11. CASE NotCached(w)
    <2>1. /\ pc[w] = "check" /\ pc'[w] = "checkFile" /\ Copies(h)' = Copies(h)
          /\ Key(w)' = k
      BY <1>11, PlacesOf, CopiesMove
    <2>2. CachedN(h)' = CachedN(h) /\ InFile(h)' = InFile(h)
      BY <1>11, CacheMoves DEF SeenStays
    <2>3. /\ w \notin Hands(h) /\ w \notin Adding(h) /\ w \notin Checking(h)
          /\ w \notin Carriers(h) /\ w \notin Hands(h)' /\ w \notin Adding(h)'
          /\ w \in Checking(h)' <=> k = h
          /\ w \notin Carriers(h)'
      BY <1>6, <1>7, <2>1
    <2>4. k = h => CachedN(h) = 0
      <3> SUFFICES ASSUME k = h
                   PROVE  CachedN(h) = 0
        OBVIOUS
      <3>1. ~Holds(cache[Mod(h)], h)
        BY <1>11 DEF NotCached, Home
      <3>2. PICK lru : lru = cache[Mod(h)]
        OBVIOUS
      <3>3. lru \in Seq(Keys)
        BY <3>2 DEF Hashing, Shapes, SeenShapes
      <3>4. Places(lru, h) = {}
        BY <3>1, <3>2, <3>3 DEF Places, Holds
      <3>5. Cardinality(Places(lru, h)) = Cardinality({})
        BY <3>4, Zenon
      <3>6. QED
        BY <3>2, <3>5, FS_EmptySet DEF CachedN, Count
    <2>5. CheckingN(h)' + CarriersN(h)' <= N
      <3>1. /\ Checking(h)' \subseteq Workers /\ Carriers(h)' \subseteq Workers
            /\ Checking(h)' \cap Carriers(h)' = {}
        BY DEF Checking, Carriers
      <3>2. QED
        BY <3>1, TwoApart DEF CheckingN, CarriersN
    <2> HIDE DEF k, N
    <2>6. /\ HandsN(h)' = HandsN(h) /\ AddingN(h)' = AddingN(h) /\ CarriersN(h)' = CarriersN(h)
          /\ k # h => CheckingN(h)' = CheckingN(h)
      BY <1>1, <1>2, <2>3 DEF One01
    <2>7. Goal
      <3>1. CASE k = h /\ ~InFile(h)
        BY <1>1, <1>2, <1>4, <2>1, <2>2, <2>4, <2>5, <2>6, <3>1
      <3>2. CASE k # h \/ InFile(h)
        BY <1>1, <1>2, <1>4, <2>1, <2>2, <2>6, <3>2
      <3>3. QED
        BY <3>1, <3>2
    <2>8. QED
      BY <1>5, <2>7
  <1>12. CASE CheckFile(w)
    <2>1. /\ pc[w] = "checkFile" /\ Copies(h)' = Copies(h) /\ Key(w)' = k
          /\ pc'[w] = IF Key(w) \in file[Home(w)] THEN "promote" ELSE "add"
      BY <1>12, PlacesOf, CopiesMove
    <2>2. CachedN(h)' = CachedN(h) /\ InFile(h)' = InFile(h)
      BY <1>12, CacheMoves DEF SeenStays
    <2>3. k = h => (pc'[w] = IF InFile(h) THEN "promote" ELSE "add")
      BY <2>1 DEF InFile, Home
    <2>4. /\ w \notin Hands(h) /\ w \notin Adding(h) /\ w \notin Carriers(h)
          /\ w \in Checking(h) <=> k = h
          /\ w \notin Hands(h)' /\ w \notin Carriers(h)'
          /\ w \in Adding(h)' <=> k = h /\ ~InFile(h)
          /\ w \in Checking(h)' <=> k = h /\ ~InFile(h)
      BY <1>6, <1>7, <2>1, <2>3
    <2> HIDE DEF k, N
    <2>5. /\ HandsN(h)' = HandsN(h) /\ CarriersN(h)' = CarriersN(h)
          /\ InFile(h) => AddingN(h)' = AddingN(h)
          /\ ~InFile(h) => CheckingN(h)' = CheckingN(h)
      BY <1>1, <1>2, <2>4 DEF One01
    <2>6. Goal
      BY <1>4, <2>1, <2>2, <2>5
    <2>7. QED
      BY <1>5, <2>6
  <1>13. CASE Promote(w)
    <2>1. /\ pc[w] = "promote" /\ pc'[w] = "demote" /\ Copies(h)' = Copies(h)
          /\ Home(w)' = Home(w) /\ out'[w] = Evicted(cache[Home(w)])
      BY <1>13, PlacesOf, CopiesMove
    <2>2. /\ InFile(h)' = InFile(h)
          /\ Home(w) # Mod(h) => CachedN(h)' = CachedN(h)
          /\ Home(w) = Mod(h) => CachedN(h) + One01(h = k) <= CachedN(h)' + One01(full)
      BY <1>13, CacheMoves
    <2>3. Full(cache[Home(w)])
      BY <2>1, KeysAndHomes DEF Shapes, FilesBehindCaches
    <2>4. /\ w \notin Hands(h) /\ w \notin Adding(h) /\ w \notin Carriers(h)
          /\ w \notin Checking(h)
          /\ w \notin Hands(h)' /\ w \notin Adding(h)' /\ w \notin Checking(h)'
          /\ w \in Carriers(h)' <=> Home(w) = Mod(h) /\ full
      BY <1>6, <1>7, <2>1, <2>3
    <2> HIDE DEF k, N, full
    <2>5. /\ HandsN(h)' = HandsN(h) /\ AddingN(h)' = AddingN(h) /\ CheckingN(h)' = CheckingN(h)
          /\ CarriersN(h)' = CarriersN(h) + One01(Home(w) = Mod(h) /\ full)
      BY <1>1, <1>2, <2>4 DEF One01
    <2>6. CachedN(h) + CarriersN(h) <= CachedN(h)' + CarriersN(h)'
      BY <1>1, <1>2, <2>2, <2>5 DEF One01
    <2>7. Goal
      BY <1>1, <1>2, <1>4, <2>1, <2>2, <2>5, <2>6
    <2>8. QED
      BY <1>5, <2>7
  <1>14. CASE Demote(w) \/ Spill(w)
    <2>1. /\ Copies(h)' = Copies(h)
          /\ \/ pc[w] = "demote" /\ pc'[w] = "links"
             \/ pc[w] = "spill" /\ pc'[w] = "push" /\ Key(w)' = k
      <3>1. pushed' = pushed
        BY <1>14, PlacesOf
      <3>2. QED
        BY <1>14, <3>1, PlacesOf, CopiesMove
    <2>2. /\ CachedN(h)' = CachedN(h)
          /\ InFile(h)' <=> InFile(h) \/ (Home(w) = Mod(h) /\ out[w] = h)
      BY <1>14, CacheMoves
    <2>3. /\ w \in Hands(h) <=> w \in Hands(h)'
          /\ w \notin Adding(h) /\ w \notin Checking(h)
          /\ w \notin Adding(h)' /\ w \notin Checking(h)' /\ w \notin Carriers(h)'
          /\ w \in Carriers(h) <=> Home(w) = Mod(h) /\ out[w] = h
      BY <1>6, <1>7, <2>1
    <2> HIDE DEF k, N
    <2>4. /\ HandsN(h)' = HandsN(h) /\ AddingN(h)' = AddingN(h) /\ CheckingN(h)' = CheckingN(h)
          /\ ~(Home(w) = Mod(h) /\ out[w] = h) => CarriersN(h)' = CarriersN(h)
      BY <1>1, <1>2, <2>3 DEF One01
    <2>5. Goal
      <3>1. CASE InFile(h)'
        BY <1>1, <1>4, <2>1, <2>4, <3>1
      <3>2. CASE ~InFile(h)'
        BY <1>1, <1>4, <2>1, <2>2, <2>4, <3>2
      <3>3. QED
        BY <3>1, <3>2
    <2>6. QED
      BY <1>5, <2>5
  <1>15. CASE Add(w)
    <2>1. /\ pc[w] = "add" /\ Copies(h)' = Copies(h)
          /\ pc'[w] = IF Full(cache[Home(w)]) THEN "spill" ELSE "push"
          /\ Key(w)' = k /\ Home(w)' = Home(w) /\ out'[w] = Evicted(cache[Home(w)])
      BY <1>15, PlacesOf, CopiesMove
    <2>2. /\ InFile(h)' = InFile(h)
          /\ Home(w) # Mod(h) => CachedN(h)' = CachedN(h)
          /\ Home(w) = Mod(h) => CachedN(h) + One01(h = k) <= CachedN(h)' + One01(full)
      BY <1>15, CacheMoves
    <2>3. /\ w \notin Hands(h) /\ w \notin Carriers(h)
          /\ w \in Adding(h) <=> k = h
          /\ w \in Checking(h) <=> k = h
          /\ w \in Hands(h)' <=> k = h
          /\ w \notin Adding(h)' /\ w \notin Checking(h)'
          /\ w \in Carriers(h)' <=> Home(w) = Mod(h) /\ full
      BY <1>6, <1>7, <2>1
    <2>4. k = h => Home(w) = Mod(h)
      BY DEF Home
    <2> HIDE DEF k, N, full
    <2>5. /\ HandsN(h)' = HandsN(h) + One01(k = h)
          /\ AddingN(h)' + One01(k = h) = AddingN(h)
          /\ CheckingN(h)' + One01(k = h) = CheckingN(h)
          /\ CarriersN(h)' = CarriersN(h) + One01(Home(w) = Mod(h) /\ full)
      BY <1>1, <1>2, <2>3 DEF One01
    <2>6. CachedN(h) + CarriersN(h) + One01(k = h) <= CachedN(h)' + CarriersN(h)'
      BY <1>1, <1>2, <2>2, <2>4, <2>5 DEF One01
    <2>7. One01(k = h) \in Nat
      BY DEF One01
    <2>8. Goal
      BY <1>1, <1>2, <1>4, <2>1, <2>2, <2>5, <2>6, <2>7
    <2>9. QED
      BY <1>5, <2>8
  <1>16. CASE AddURL(w)
    <2>1. /\ pc[w] = "push" /\ pc'[w] = "links" /\ Copies(h)' = Copies(h) + One01(h = k)
      BY <1>16, PlacesOf, CopiesMove
    <2>2. CachedN(h)' = CachedN(h) /\ InFile(h)' = InFile(h)
      BY <1>16, CacheMoves DEF SeenStays
    <2>3. /\ w \in Hands(h) <=> h = k
          /\ w \notin Adding(h) /\ w \notin Checking(h) /\ w \notin Carriers(h)
          /\ w \notin Hands(h)' /\ w \notin Adding(h)' /\ w \notin Checking(h)'
          /\ w \notin Carriers(h)'
      BY <1>6, <1>7, <2>1
    <2> HIDE DEF k, N
    <2>4. /\ HandsN(h)' + One01(h = k) = HandsN(h)
          /\ AddingN(h)' = AddingN(h) /\ CheckingN(h)' = CheckingN(h)
          /\ CarriersN(h)' = CarriersN(h) /\ One01(h = k) \in Nat
      BY <1>1, <1>2, <2>3 DEF One01
    <2>5. Goal
      BY <1>1, <1>2, <1>4, <2>1, <2>2, <2>4
    <2>6. QED
      BY <1>5, <2>5
  <1>17. \/ ReadURL(w) \/ Fail(w) \/ Store(w) \/ GetLink(w) \/ EndOfLinks(w)
         \/ Known(w) \/ NotCached(w) \/ CheckFile(w) \/ Promote(w)
         \/ Demote(w) \/ Spill(w) \/ Add(w) \/ AddURL(w)
    BY Zenon DEF Step
  <1>18. QED
    BY <1>9, <1>10, <1>11, <1>12, <1>13, <1>14, <1>15, <1>16, <1>17, Zenon

LEMMA TallySeed ==
  ASSUME Hashing, Shapes, PushSeed, NEW h, Tally(h)
  PROVE  Tally(h)'
  <1> DEFINE N == Cardinality(Workers)
             m == Mod(h)
  <1>1. /\ Copies(h) \in Nat /\ HandsN(h) \in Nat /\ AddingN(h) \in Nat
        /\ CheckingN(h) \in Nat /\ CarriersN(h) \in Nat /\ CachedN(h) \in Nat
        /\ SeedN(h) \in Nat /\ N \in Nat /\ AddingN(h) <= CheckingN(h)
    BY NumbersAreNat
  <1>2. PICK at \in Workers, hash \in SeedHashes(Seeds[nextLine]) :
          /\ hash \in Keys
          /\ pushed' = pushed (+) One(hash)
          /\ cache'[at] = Inserted(cache[at], hash)
          /\ file'[at] = IF Full(cache[at]) THEN file[at] \cup {Evicted(cache[at])} ELSE file[at]
          /\ \A v \in Workers : v # at => cache'[v] = cache[v] /\ file'[v] = file[v]
    BY SeedSteps
  <1>3. Copies(h)' = Copies(h) + One01(h = hash)
    BY <1>2, CopiesMove
  <1>4. /\ HandsN(h)' = HandsN(h) /\ AddingN(h)' = AddingN(h)
        /\ CheckingN(h)' = CheckingN(h) /\ CarriersN(h)' = CarriersN(h)
    <2>1. out' = out /\ pc' = pc /\ holder' = holder
      BY SeedSteps
    <2>2. \A w \in Workers : Key(w)' = Key(w) /\ Home(w)' = Home(w)
      BY <2>1 DEF Key, Home
    <2>3. /\ Hands(h)' = Hands(h) /\ Adding(h)' = Adding(h)
          /\ Checking(h)' = Checking(h) /\ Carriers(h)' = Carriers(h)
      BY <2>1, <2>2 DEF Hands, Adding, Checking, Carriers
    <2>4. QED
      BY <2>3, Zenon DEF HandsN, AddingN, CheckingN, CarriersN
  <1>5. SeedN(h)' \in Nat /\ SeedN(h) + One01(h = hash) <= SeedN(h)'
    <2>1. nextLine' = nextLine + 1 /\ nextLine \in 1 .. Len(Seeds) /\ Len(Seeds) \in Nat
      BY SeedSteps, ThreadWorkAssumption
    <2>2. PICK X : X = SeedLines(h)
      OBVIOUS
    <2>3. PICK Y : Y = SeedLines(h)'
      OBVIOUS
    <2>4. PICK n : n = nextLine
      OBVIOUS
    <2>5. /\ X = {i \in 1 .. n - 1 : h \in SeedHashes(Seeds[i])}
          /\ Y = {i \in 1 .. (n + 1) - 1 : h \in SeedHashes(Seeds[i])}
      BY <2>1, <2>2, <2>3, <2>4 DEF SeedLines
    <2>6. n \in Nat /\ n \notin X /\ X \subseteq Y /\ (h = hash => n \in Y)
      BY <1>2, <2>1, <2>4, <2>5
    <2>7. IsFiniteSet(X) /\ IsFiniteSet(Y)
      <3>1. X \subseteq 1 .. n - 1 /\ Y \subseteq 1 .. (n + 1) - 1
        BY <2>5
      <3>2. IsFiniteSet(1 .. n - 1) /\ IsFiniteSet(1 .. (n + 1) - 1)
        BY <2>6, FS_Interval
      <3>3. QED
        BY <3>1, <3>2, FS_Subset
    <2>8. Cardinality(X \cup {n}) = Cardinality(X) + 1
      BY <2>6, <2>7, FS_AddElement
    <2>9. Cardinality(X) \in Nat /\ Cardinality(Y) \in Nat
      BY <2>7, FS_CardinalityType
    <2>10. CASE h = hash
      <3>1. X \cup {n} \subseteq Y
        BY <2>6, <2>10
      <3>2. Cardinality(X \cup {n}) <= Cardinality(Y)
        BY <2>7, <3>1, FS_Subset
      <3>3. Cardinality(X) + 1 <= Cardinality(Y)
        BY <2>8, <3>2, Zenon
      <3>4. QED
        BY <2>2, <2>3, <2>9, <2>10, <3>3 DEF SeedN, One01
    <2>11. CASE h # hash
      <3>1. Cardinality(X) <= Cardinality(Y)
        BY <2>6, <2>7, FS_Subset
      <3>2. QED
        BY <2>2, <2>3, <2>9, <2>11, <3>1 DEF SeedN, One01
    <2>12. QED
      BY <2>10, <2>11
  <1>6. /\ CachedN(h)' \in Nat
        /\ InFile(h) => InFile(h)'
        /\ ~InFile(h)' => CachedN(h) <= CachedN(h)'
    <2>1. m \in Workers
      BY DEF Hashing
    <2>2. CASE at # m
      <3>1. cache'[m] = cache[m] /\ file'[m] = file[m]
        BY <1>2, <2>1, <2>2
      <3>2. CachedN(h)' = CachedN(h) /\ InFile(h)' = InFile(h)
        BY <3>1 DEF CachedN, InFile
      <3>3. QED
        BY <1>1, <3>2
    <2>3. CASE at = m
      <3>1. PICK lru : lru = cache[m]
        OBVIOUS
      <3>2. lru \in Seq(Keys) /\ Len(lru) <= MAX_LRU
        BY <2>1, <3>1 DEF Shapes, SeenShapes
      <3>3. PICK t : t = Inserted(lru, hash)
        OBVIOUS
      <3>4. t \in Seq(Keys)
        BY <1>2, <3>2, <3>3, InsertedKeys
      <3>5. /\ cache'[m] = t
            /\ file'[m] = IF Full(lru) THEN file[m] \cup {Evicted(lru)} ELSE file[m]
        BY <1>2, <2>3, <3>1, <3>3
      <3>6. CachedN(h)' = Count(t, h) /\ CachedN(h) = Count(lru, h)
        BY <3>1, <3>5 DEF CachedN
      <3>7. Count(lru, h) + One01(h = hash) <= Count(t, h) + One01(Full(lru) /\ Evicted(lru) = h)
        BY <1>2, <3>2, <3>3, InsertedCounts
      <3>8. Count(t, h) \in Nat /\ Count(lru, h) \in Nat
        BY <3>2, <3>4, PlacesAreFinite
      <3>9. /\ InFile(h) => InFile(h)'
            /\ ~InFile(h)' => ~(Full(lru) /\ Evicted(lru) = h)
        BY <3>5 DEF InFile
      <3>10. ~(Full(lru) /\ Evicted(lru) = h) => Count(lru, h) <= Count(t, h)
        BY <3>7, <3>8 DEF One01
      <3>11. QED
        BY <3>6, <3>8, <3>9, <3>10, Zenon
    <2>4. QED
      BY <2>2, <2>3
  <1>7. One01(h = hash) \in Nat
    BY DEF One01
  <1> HIDE DEF N, m
  <1>8. /\ ~InFile(h) => Copies(h) + HandsN(h) <= SeedN(h) + CachedN(h) + CarriersN(h)
        /\ Copies(h) + HandsN(h) + (IF InFile(h) THEN AddingN(h) ELSE CheckingN(h)) <= SeedN(h) + N
    BY DEF Tally, PushesAreHeld, PushesHaveRoom, N
  <1>9. ~InFile(h)' => Copies(h)' + HandsN(h)' <= SeedN(h)' + CachedN(h)' + CarriersN(h)'
    <2> SUFFICES ASSUME ~InFile(h)'
                 PROVE  Copies(h)' + HandsN(h)' <= SeedN(h)' + CachedN(h)' + CarriersN(h)'
      OBVIOUS
    <2>1. ~InFile(h) /\ CachedN(h) <= CachedN(h)'
      BY <1>6
    <2>2. QED
      BY <1>1, <1>3, <1>4, <1>5, <1>6, <1>7, <1>8, <2>1
  <1>10. Copies(h)' + HandsN(h)' + (IF InFile(h)' THEN AddingN(h)' ELSE CheckingN(h)') <= SeedN(h)' + N
    <2>1. CASE InFile(h)
      BY <1>1, <1>3, <1>4, <1>5, <1>6, <1>7, <1>8, <2>1
    <2>2. CASE ~InFile(h)
      BY <1>1, <1>3, <1>4, <1>5, <1>7, <1>8, <2>2
    <2>3. QED
      BY <2>1, <2>2
  <1>11. QED
    BY <1>9, <1>10 DEF Tally, PushesAreHeld, PushesHaveRoom, N

LEMMA TallyAtStart ==
  ASSUME Hashing, Init, NEW h
  PROVE  Tally(h)
  <1>1. /\ Hands(h) = {} /\ Adding(h) = {} /\ Checking(h) = {} /\ Carriers(h) = {}
        /\ SeedLines(h) = {}
    BY DEF Init, Hands, Adding, Checking, Carriers, SeedLines
  <1>2. HandsN(h) = 0 /\ AddingN(h) = 0 /\ CheckingN(h) = 0 /\ CarriersN(h) = 0 /\ SeedN(h) = 0
    BY <1>1, FS_EmptySet, Zenon DEF HandsN, AddingN, CheckingN, CarriersN, SeedN
  <1>3. Copies(h) = 0
    BY DEF Init, Copies, EmptyBag, SetToBag, BagToSet
  <1>4. CachedN(h) \in Nat /\ Cardinality(Workers) \in Nat
    BY ShapesAtStart, NumbersAreNat
  <1>5. QED
    BY <1>2, <1>3, <1>4 DEF Tally, PushesAreHeld, PushesHaveRoom

LEMMA PushInvStep == Hashing /\ PushInv /\ [Next]_vars => PushInv'
  <1> SUFFICES ASSUME Hashing, PushInv, [Next]_vars
               PROVE  PushInv'
    OBVIOUS
  <1>1. Shapes'
    BY ShapesKept DEF PushInv
  <1>2. CASE UNCHANGED vars
    <2>1. \A h : Tally(h) => Tally(h)'
      BY <1>2 DEF vars, Tally, PushesAreHeld, PushesHaveRoom, Copies, HandsN, AddingN, CheckingN,
                  CarriersN, CachedN, InFile, SeedN, SeedLines, Hands, Adding, Checking, Carriers,
                  Key, Home
    <2>2. QED
      BY <1>1, <2>1 DEF PushInv
  <1>3. CASE PushSeed
    BY <1>1, <1>3, TallySeed DEF PushInv
  <1>4. ASSUME NEW w \in Workers, Step(w)
        PROVE  PushInv'
    BY <1>1, <1>4, TallyStep DEF PushInv
  <1>5. QED
    BY <1>2, <1>3, <1>4 DEF Next

LEMMA PushInvBounds == Hashing /\ PushInv => PushesAreBounded
  <1> SUFFICES ASSUME Hashing, PushInv, NEW h \in BagToSet(pushed)
               PROVE  pushed[h] <= Cardinality(Workers)
                        + Cardinality({i \in 1 .. Len(Seeds) : h \in SeedHashes(Seeds[i])})
    BY DEF PushesAreBounded
  <1> DEFINE all == {i \in 1 .. Len(Seeds) : h \in SeedHashes(Seeds[i])}
             N == Cardinality(Workers)
  <1>1. /\ Copies(h) \in Nat /\ HandsN(h) \in Nat /\ AddingN(h) \in Nat
        /\ CheckingN(h) \in Nat /\ SeedN(h) \in Nat /\ N \in Nat
    BY NumbersAreNat DEF PushInv
  <1>2. Copies(h) + HandsN(h) + (IF InFile(h) THEN AddingN(h) ELSE CheckingN(h)) <= SeedN(h) + N
    BY DEF PushInv, Tally, PushesHaveRoom
  <1>3. Cardinality(all) \in Nat /\ SeedN(h) <= Cardinality(all)
    <2>1. SeedLines(h) \subseteq all /\ all \subseteq 1 .. Len(Seeds)
      BY ThreadWorkAssumption DEF PushInv, Shapes, SeedsFirst, SeedLines
    <2> HIDE DEF all
    <2>2. IsFiniteSet(all)
      <3>1. IsFiniteSet(1 .. Len(Seeds))
        BY ThreadWorkAssumption, FS_Interval
      <3>2. QED
        BY <2>1, <3>1, FS_Subset
    <2>3. QED
      BY <2>1, <2>2, FS_Subset, FS_CardinalityType DEF SeedN
  <1>4. Copies(h) = pushed[h]
    BY DEF Copies
  <1> HIDE DEF all, N
  <1>5. Copies(h) <= SeedN(h) + N
    BY <1>1, <1>2
  <1>6. pushed[h] <= N + Cardinality(all)
    BY <1>1, <1>3, <1>4, <1>5
  <1>7. QED
    BY <1>6 DEF all, N

(* For any number of workers, any web, seeds and hashes, and any capacity of the *)
(* caches: all workers together push the URLs with one hash at most as often as  *)
(* there are workers, beside the lines of the seed file that may have the hash.  *)
(* A push is first paid for by a copy in the cache, or with a worker on its way  *)
(* from the cache to the file; who misses the hash in a cache without a copy is  *)
(* none of those workers, and once the file has it nobody new comes to push it.  *)
THEOREM PushesAreBoundedAlways == Hashing => (Spec => []PushesAreBounded)
  <1> SUFFICES ASSUME Hashing
               PROVE  Spec => []PushesAreBounded
    OBVIOUS
  <1>1. Init => PushInv
    BY ShapesAtStart, TallyAtStart DEF PushInv
  <1>2. PushInv /\ [Next]_vars => PushInv'
    BY PushInvStep
  <1>3. PushInv => PushesAreBounded
    BY PushInvBounds
  <1>4. QED
    BY <1>1, <1>2, <1>3, PTL DEF Spec

(* n steps can be taken one after the other from z.                              *)
Steps(f, S, z, n, step) ==
  /\ f \in [0 .. n -> S]
  /\ f[0] = z
  /\ \A i \in 1 .. n : f[i] = step[<<f[i - 1], i>>]

LEMMA StepsExist ==
  ASSUME NEW S, NEW z \in S, NEW n \in Nat, NEW step \in [S \X (1 .. n) -> S]
  PROVE  \E f : Steps(f, S, z, n, step)
  <1> DEFINE Far(m) == \E f : Steps(f, S, z, m, step)
             short == {m \in 0 .. n : ~Far(m)}
  <1>1. Far(0)
    <2>1. Steps([i \in 0 .. 0 |-> z], S, z, 0, step)
      BY DEF Steps
    <2>2. QED
      BY <2>1
  <1>2. ASSUME NEW m \in 1 .. n, Far(m - 1)
        PROVE  Far(m)
    <2>1. PICK f : Steps(f, S, z, m - 1, step)
      BY <1>2
    <2> DEFINE e == step[<<f[m - 1], m>>]
               g == [i \in 0 .. m |-> IF i = m THEN e ELSE f[i]]
    <2>2. f \in [0 .. m - 1 -> S] /\ f[0] = z
      BY <2>1 DEF Steps
    <2>3. e \in S
      BY <2>2
    <2> HIDE DEF e
    <2>4. g \in [0 .. m -> S] /\ g[0] = z
      BY <2>2, <2>3
    <2>5. ASSUME NEW i \in 1 .. m
          PROVE  g[i] = step[<<g[i - 1], i>>]
      <3>1. CASE i = m
        <4>1. g[i] = e /\ g[i - 1] = f[m - 1]
          BY <3>1
        <4>2. QED
          BY <3>1, <4>1 DEF e
      <3>2. CASE i # m
        <4>1. i \in 1 .. m - 1 /\ g[i] = f[i] /\ g[i - 1] = f[i - 1]
          BY <3>2
        <4>2. QED
          BY <2>1, <4>1 DEF Steps
      <3>3. QED
        BY <3>1, <3>2
    <2> HIDE DEF g
    <2>6. Steps(g, S, z, m, step)
      BY <2>4, <2>5 DEF Steps
    <2>7. QED
      BY <2>6
  <1> HIDE DEF Far
  <1>3. short = {}
    <2> SUFFICES ASSUME short # {}
                 PROVE  FALSE
      OBVIOUS
    <2>1. short \subseteq Nat
      OBVIOUS
    <2>2. PICK m \in short : \A k \in short : m <= k
      <3> HIDE DEF short
      <3>1. QED
        BY <2>1, LeastNatural
    <2>3. m \in 1 .. n /\ m - 1 \notin short /\ m - 1 \in 0 .. n
      BY <1>1, <2>2
    <2>4. QED
      BY <1>2, <2>2, <2>3
  <1>4. QED
    BY <1>3 DEF Far

-----------------------------------------------------------------------------
(* File names, and the slashes in them.                                          *)
LEMMA FileIsThere ==
  ASSUME NEW f \in Files
  PROVE  f # NoFile
  <1>1. f # NoFile
    <2> SUFFICES ASSUME f = NoFile
                 PROVE  FALSE
      OBVIOUS
    <2>1. f[1] = "unresolved" /\ Len(f) = 1
      BY DEF NoFile
    <2>2. f[1] \in Symbols
      BY <2>1 DEF Files
    <2>3. QED
      BY <2>1, <2>2, SymbolsAssumption
  <1>2. QED
    BY <1>1

LEMMA SlashesOf ==
  ASSUME NEW f \in Files
  PROVE  /\ Len(f) \in Nat
         /\ Dirs(f) \subseteq 1 .. Len(f)
         /\ IsFiniteSet(Dirs(f))
         /\ Cardinality(Dirs(f)) \in Nat
  <1>1. Len(f) \in Nat
    BY DEF Files
  <1>2. Dirs(f) \subseteq 1 .. Len(f)
    BY DEF Dirs
  <1>3. IsFiniteSet(1 .. Len(f))
    BY <1>1, FS_Interval
  <1>4. QED
    BY <1>1, <1>2, <1>3, FS_Subset, FS_CardinalityType

(* z is the last slash of f, or 0 when it has none.                              *)
IsLastSlash(f, z) == /\ IF Dirs(f) = {} THEN z = 0 ELSE z \in Dirs(f)
                     /\ \A j \in Dirs(f) : j <= z

LEMMA LastSlashOf ==
  ASSUME NEW f \in Files
  PROVE  /\ IsLastSlash(f, LastSlash(f))
         /\ \A z : IsLastSlash(f, z) => LastSlash(f) = z
  <1>1. LastSlash(f) = IF Dirs(f) = {} THEN 0
                       ELSE CHOOSE i \in Dirs(f) : \A j \in Dirs(f) : j <= i
    BY DEF LastSlash, Dirs
  <1>2. Dirs(f) \subseteq 1 .. Len(f) /\ Len(f) \in Nat
    BY SlashesOf
  <1>3. Dirs(f) # {} => \E i \in Dirs(f) : \A j \in Dirs(f) : j <= i
    <2> SUFFICES ASSUME Dirs(f) # {}
                 PROVE  \E i \in Dirs(f) : \A j \in Dirs(f) : j <= i
      OBVIOUS
    <2> DEFINE R == {Len(f) - i : i \in Dirs(f)}
    <2>1. R \subseteq Nat /\ R # {}
      BY <1>2
    <2>2. PICK m \in R : \A k \in R : m <= k
      <3> HIDE DEF R
      <3>1. QED
        BY <2>1, LeastNatural
    <2>3. PICK i \in Dirs(f) : m = Len(f) - i
      BY <2>2
    <2>4. ASSUME NEW j \in Dirs(f)
          PROVE  j <= i
      <3>1. Len(f) - j \in R
        OBVIOUS
      <3>2. Len(f) - i <= Len(f) - j
        BY <2>2, <2>3, <3>1
      <3>3. QED
        BY <1>2, <3>2
    <2>5. QED
      BY <2>4
  <1>4. IsLastSlash(f, LastSlash(f))
    <2>1. CASE Dirs(f) = {}
      BY <1>1, <2>1 DEF IsLastSlash
    <2>2. CASE Dirs(f) # {}
      <3>1. /\ LastSlash(f) \in Dirs(f)
            /\ \A j \in Dirs(f) : j <= LastSlash(f)
        BY <1>1, <1>3, <2>2
      <3>2. QED
        BY <3>1 DEF IsLastSlash
    <2>3. QED
      BY <2>1, <2>2
  <1>5. ASSUME NEW z, IsLastSlash(f, z)
        PROVE  LastSlash(f) = z
    BY <1>2, <1>4, <1>5 DEF IsLastSlash
  <1>6. QED
    BY <1>4, <1>5

(* The first z characters of a file name.                                        *)
LEMMA LeftPart ==
  ASSUME NEW f \in Files, NEW z \in 0 .. Len(f)
  PROVE  /\ SubSeq(f, 1, z) \in Files
         /\ Len(SubSeq(f, 1, z)) = z
         /\ \A i \in 1 .. z : SubSeq(f, 1, z)[i] = f[i]
         /\ Dirs(SubSeq(f, 1, z)) = {j \in Dirs(f) : j <= z}
  <1>1. Len(f) \in Nat /\ \A i \in 1 .. z : f[i] \in Symbols
    BY DEF Files
  <1>2. z \in Int /\ 1 \in Int
    OBVIOUS
  <1>3. /\ SubSeq(f, 1, z) \in Seq(Symbols)
        /\ Len(SubSeq(f, 1, z)) = IF 1 <= z THEN z - 1 + 1 ELSE 0
        /\ \A i \in 1 .. z - 1 + 1 : SubSeq(f, 1, z)[i] = f[1 + i - 1]
    BY <1>1, <1>2, SubSeqProperties
  <1>4. Len(SubSeq(f, 1, z)) = z /\ \A i \in 1 .. z : SubSeq(f, 1, z)[i] = f[i]
    BY <1>1, <1>3
  <1>5. Dirs(SubSeq(f, 1, z)) = {j \in Dirs(f) : j <= z}
    BY <1>1, <1>4 DEF Dirs
  <1>6. QED
    BY <1>3, <1>4, <1>5 DEF Files

LEMMA LeftOfLeft ==
  ASSUME NEW f \in Files, NEW z \in 0 .. Len(f), NEW l \in 0 .. z
  PROVE  SubSeq(SubSeq(f, 1, z), 1, l) = SubSeq(f, 1, l)
  <1> DEFINE g == SubSeq(f, 1, z)
             a == SubSeq(g, 1, l)
             b == SubSeq(f, 1, l)
  <1>1. Len(f) \in Nat
    BY SlashesOf
  <1>2. g \in Files /\ Len(g) = z /\ \A i \in 1 .. z : g[i] = f[i]
    BY LeftPart
  <1>3. l \in 0 .. Len(f) /\ l \in 0 .. Len(g)
    BY <1>1, <1>2
  <1>4. b \in Files /\ Len(b) = l /\ \A i \in 1 .. l : b[i] = f[i]
    BY <1>3, LeftPart
  <1> HIDE DEF g
  <1>5. a \in Files /\ Len(a) = l /\ \A i \in 1 .. l : a[i] = g[i]
    BY <1>2, <1>3, LeftPart
  <1> HIDE DEF a, b
  <1>6. \A i \in 1 .. l : a[i] = b[i]
    BY <1>2, <1>4, <1>5
  <1>7. a = b
    BY <1>4, <1>5, <1>6, SeqEqual DEF Files
  <1>8. QED
    BY <1>7 DEF a, b, g

-----------------------------------------------------------------------------
(* The dots in front of a link walk up the directories of the page's file.       *)
Rank(f, p) == Cardinality({j \in Dirs(f) : j <= p})

Bad(dots, i) == \E j \in 1 .. i : dots[j] = "bad"
Ups(dots, i) == Cardinality({j \in 1 .. i : dots[j] = "../"})

LEMMA RankOf ==
  ASSUME NEW f \in Files, NEW p \in Nat
  PROVE  /\ Rank(f, p) \in Nat
         /\ Rank(f, 0) = 0
         /\ p \in Dirs(f) => \A l \in 0 .. p - 1 : Rank(f, l) < Rank(f, p)
         /\ \A l \in 0 .. p - 1 :
              p \in Dirs(f) /\ (\A j \in Dirs(f) : j < p => j <= l) => Rank(f, l) = Rank(f, p) - 1
  <1>1. \A l : IsFiniteSet({j \in Dirs(f) : j <= l}) /\ Rank(f, l) \in Nat
    BY SlashesOf, FS_Subset, FS_CardinalityType DEF Rank
  <1>2. Dirs(f) \subseteq Nat \ {0}
    BY SlashesOf
  <1>3. Rank(f, 0) = 0
    <2>1. {j \in Dirs(f) : j <= 0} = {}
      BY <1>2
    <2>2. QED
      BY <2>1, FS_EmptySet DEF Rank
  <1>4. ASSUME p \in Dirs(f), NEW l \in 0 .. p - 1
        PROVE  Rank(f, l) < Rank(f, p)
    <2> DEFINE A == {j \in Dirs(f) : j <= l}
               B == {j \in Dirs(f) : j <= p}
    <2>1. A \subseteq B
      BY <1>2
    <2>2. p \in B /\ p \notin A
      BY <1>2, <1>4
    <2>3. IsFiniteSet(B) /\ Cardinality(A) \in Nat /\ Cardinality(B) \in Nat
      BY <1>1 DEF Rank
    <2>4. A # B
      BY <2>2
    <2> HIDE DEF A, B
    <2>5. Cardinality(A) <= Cardinality(B) /\ Cardinality(A) # Cardinality(B)
      BY <2>1, <2>3, <2>4, FS_Subset
    <2>6. Cardinality(A) < Cardinality(B)
      BY <2>3, <2>5
    <2>7. QED
      BY <2>6 DEF A, B, Rank
  <1>5. ASSUME p \in Dirs(f), NEW l \in 0 .. p - 1, \A j \in Dirs(f) : j < p => j <= l
        PROVE  Rank(f, l) = Rank(f, p) - 1
    <2> DEFINE A == {j \in Dirs(f) : j <= l}
               B == {j \in Dirs(f) : j <= p}
    <2>1. p \in B /\ A = B \ {p}
      BY <1>2, <1>5
    <2>2. IsFiniteSet(B)
      BY <1>1
    <2> HIDE DEF A, B
    <2>3. Cardinality(A) = Cardinality(B) - 1
      BY <2>1, <2>2, FS_RemoveElement
    <2>4. QED
      BY <2>3 DEF A, B, Rank
  <1>6. QED
    BY <1>1, <1>3, <1>4, <1>5

(* g is what is left of f after a walk to the directory that ends at z.          *)
UpTo(f, g, z) == /\ z = 0 \/ z \in Dirs(f)
                 /\ \/ g = SubSeq(f, 1, z)
                    \/ g = f /\ z = LastSlash(f)

LEMMA LeftAt ==
  ASSUME NEW f \in Files, NEW g, NEW z, UpTo(f, g, z)
  PROVE  /\ z \in 0 .. Len(f) /\ g \in Files
         /\ LastSlash(g) = z
         /\ \A l \in 0 .. z : SubSeq(g, 1, l) = SubSeq(f, 1, l)
  <1>1. z \in 0 .. Len(f) /\ Len(f) \in Nat /\ Dirs(f) \subseteq 1 .. Len(f)
    BY SlashesOf DEF UpTo
  <1>2. CASE g = SubSeq(f, 1, z)
    <2>1. g \in Files /\ Dirs(g) = {j \in Dirs(f) : j <= z}
      BY <1>1, <1>2, LeftPart
    <2>2. IsLastSlash(g, z)
      BY <1>1, <2>1 DEF IsLastSlash, UpTo
    <2>3. \A l \in 0 .. z : SubSeq(g, 1, l) = SubSeq(f, 1, l)
      BY <1>1, <1>2, LeftOfLeft
    <2>4. QED
      BY <1>1, <2>1, <2>2, <2>3, LastSlashOf
  <1>3. CASE g = f /\ z = LastSlash(f)
    BY <1>1, <1>3
  <1>4. QED
    BY <1>2, <1>3 DEF UpTo

(* Down to the directory, or one further up.                                     *)
LEMMA SameDirectory ==
  ASSUME NEW f \in Files, NEW g, NEW z, UpTo(f, g, z)
  PROVE  UpTo(f, Directory(g), z) /\ Directory(g) = SubSeq(f, 1, z)
  <1>1. Directory(g) = SubSeq(f, 1, z)
    <2>1. z \in 0 .. Len(f) /\ LastSlash(g) = z /\ \A l \in 0 .. z : SubSeq(g, 1, l) = SubSeq(f, 1, l)
      BY LeftAt
    <2>2. z \in 0 .. z
      BY <2>1, SlashesOf
    <2>3. QED
      BY <2>1, <2>2 DEF Directory
  <1>2. QED
    BY <1>1 DEF UpTo

LEMMA ParentDirectory ==
  ASSUME NEW f \in Files, NEW g, NEW z, UpTo(f, g, z), z # 0
  PROVE  \E l \in 0 .. z - 1 :
           LET d == Directory(SubSeq(g, 1, LastSlash(g) - 1))
           IN  d = SubSeq(f, 1, l) /\ UpTo(f, d, l) /\ Rank(f, l) = Rank(f, z) - 1
  <1>1. /\ z \in 0 .. Len(f) /\ LastSlash(g) = z /\ z \in Dirs(f) /\ Len(f) \in Nat
        /\ \A l \in 0 .. z : SubSeq(g, 1, l) = SubSeq(f, 1, l)
    BY LeftAt, SlashesOf DEF UpTo
  <1>2. z - 1 \in 0 .. z /\ z - 1 \in 0 .. Len(f)
    BY <1>1
  <1> DEFINE h == SubSeq(g, 1, LastSlash(g) - 1)
             l == LastSlash(h)
  <1>3. h = SubSeq(f, 1, z - 1)
    BY <1>1, <1>2
  <1> HIDE DEF h
  <1>4. h \in Files /\ Len(h) = z - 1 /\ Dirs(h) = {j \in Dirs(f) : j <= z - 1}
    BY <1>2, <1>3, LeftPart
  <1>5. IsLastSlash(h, l)
    BY <1>4, LastSlashOf
  <1> HIDE DEF l
  <1>6. l \in 0 .. z - 1 /\ (l = 0 \/ l \in Dirs(f)) /\ \A j \in Dirs(f) : j < z => j <= l
    <2>1. Dirs(f) \subseteq Nat \ {0}
      BY SlashesOf
    <2>2. \A j \in Dirs(f) : j < z => j \in Dirs(h)
      BY <1>1, <1>4, <2>1
    <2>3. CASE Dirs(h) = {}
      BY <1>1, <1>5, <2>2, <2>3 DEF IsLastSlash
    <2>4. CASE Dirs(h) # {}
      <3>1. l \in Dirs(h) /\ \A j \in Dirs(h) : j <= l
        BY <1>5, <2>4 DEF IsLastSlash
      <3>2. QED
        BY <1>1, <1>4, <2>1, <2>2, <3>1
    <2>5. QED
      BY <2>3, <2>4
  <1>7. Directory(h) = SubSeq(f, 1, l)
    <2>1. SubSeq(h, 1, l) = SubSeq(f, 1, l)
      BY <1>2, <1>3, <1>6, LeftOfLeft
    <2>2. QED
      BY <2>1 DEF Directory, l
  <1>8. Rank(f, l) = Rank(f, z) - 1
    BY <1>1, <1>6, RankOf
  <1>9. UpTo(f, Directory(h), l)
    BY <1>6, <1>7 DEF UpTo
  <1>10. QED
    BY <1>6, <1>7, <1>8, <1>9 DEF h

(* One turn of the loop over the dots.                                           *)
Turn(g, dot) ==
  IF g = NoFile \/ dot = "bad" THEN NoFile
  ELSE IF dot = "./" THEN Directory(g)
  ELSE IF LastSlash(g) = 0 THEN NoFile
  ELSE Directory(SubSeq(g, 1, LastSlash(g) - 1))

LEMMA DirectoryIsFile ==
  ASSUME NEW g \in Files
  PROVE  /\ Directory(g) \in Files
         /\ LastSlash(g) # 0 => SubSeq(g, 1, LastSlash(g) - 1) \in Files
  <1>1. LastSlash(g) \in 0 .. Len(g) /\ Len(g) \in Nat
    BY LastSlashOf, SlashesOf DEF IsLastSlash
  <1>2. LastSlash(g) # 0 => LastSlash(g) - 1 \in 0 .. Len(g)
    BY <1>1
  <1>3. QED
    BY <1>1, <1>2, LeftPart DEF Directory

LEMMA TurnIsFile ==
  ASSUME NEW g \in Files \cup {NoFile}, NEW dot
  PROVE  Turn(g, dot) \in Files \cup {NoFile}
  <1>1. CASE g = NoFile
    BY <1>1 DEF Turn
  <1>2. CASE g \in Files
    <2>1. Directory(g) \in Files
      BY <1>2, DirectoryIsFile
    <2>2. LastSlash(g) # 0 => Directory(SubSeq(g, 1, LastSlash(g) - 1)) \in Files
      BY <1>2, DirectoryIsFile
    <2>3. QED
      BY <2>1, <2>2 DEF Turn
  <1>3. QED
    BY <1>1, <1>2

LEMMA DotsCounted ==
  ASSUME NEW dots, NEW i \in Nat \ {0}
  PROVE  /\ Ups(dots, 0) = 0 /\ ~Bad(dots, 0)
         /\ Ups(dots, i - 1) \in Nat
         /\ Ups(dots, i) = Ups(dots, i - 1) + (IF dots[i] = "../" THEN 1 ELSE 0)
         /\ Bad(dots, i) <=> Bad(dots, i - 1) \/ dots[i] = "bad"
  <1> DEFINE A == {j \in 1 .. i - 1 : dots[j] = "../"}
             B == {j \in 1 .. i : dots[j] = "../"}
  <1>1. Ups(dots, 0) = 0 /\ ~Bad(dots, 0)
    <2>1. {j \in 1 .. 0 : dots[j] = "../"} = {}
      OBVIOUS
    <2>2. QED
      BY <2>1, FS_EmptySet DEF Ups, Bad
  <1>2. IsFiniteSet(A) /\ Cardinality(A) \in Nat
    <2>1. IsFiniteSet(1 .. i - 1) /\ A \subseteq 1 .. i - 1
      BY FS_Interval
    <2>2. QED
      BY <2>1, FS_Subset, FS_CardinalityType
  <1>3. B = IF dots[i] = "../" THEN A \cup {i} ELSE A
    OBVIOUS
  <1>4. i \notin A
    OBVIOUS
  <1> HIDE DEF A, B
  <1>5. Cardinality(B) = Cardinality(A) + (IF dots[i] = "../" THEN 1 ELSE 0)
    BY <1>2, <1>3, <1>4, FS_AddElement
  <1>6. Bad(dots, i) <=> Bad(dots, i - 1) \/ dots[i] = "bad"
    BY DEF Bad
  <1>7. QED
    BY <1>1, <1>2, <1>5, <1>6 DEF Ups, A, B

(* Where i turns lead: nowhere after a bad dot or more "../" than there are      *)
(* directories, else as many of those up as there were "../".                    *)
Walked(f, dots, i, g) ==
  \/ g = NoFile /\ (Bad(dots, i) \/ Cardinality(Dirs(f)) < Ups(dots, i))
  \/ ~Bad(dots, i) /\ \E z : /\ UpTo(f, g, z)
                             /\ Rank(f, z) + Ups(dots, i) = Cardinality(Dirs(f))
                             /\ i > 0 => g = SubSeq(f, 1, z)

LEMMA WalkStarts ==
  ASSUME NEW f \in Files, NEW dots
  PROVE  Walked(f, dots, 0, f)
  <1> DEFINE z == LastSlash(f)
  <1>1. IsLastSlash(f, z) /\ Dirs(f) \subseteq Nat
    BY LastSlashOf, SlashesOf
  <1>2. {j \in Dirs(f) : j <= z} = Dirs(f)
    BY <1>1 DEF IsLastSlash
  <1>3. Rank(f, z) = Cardinality(Dirs(f))
    BY <1>2 DEF Rank
  <1>4. UpTo(f, f, z)
    BY <1>1 DEF UpTo, IsLastSlash
  <1>5. Ups(dots, 0) = 0 /\ ~Bad(dots, 0)
    BY DotsCounted, 1 \in Nat \ {0}
  <1>6. Rank(f, z) + Ups(dots, 0) = Cardinality(Dirs(f))
    BY <1>3, <1>5, SlashesOf
  <1> HIDE DEF z
  <1>7. QED
    BY <1>4, <1>5, <1>6 DEF Walked

LEMMA WalkGoesOn ==
  ASSUME NEW f \in Files, NEW dots \in Seq({"./", "../", "bad"}), NEW i \in 1 .. Len(dots),
         NEW g, Walked(f, dots, i - 1, g)
  PROVE  Walked(f, dots, i, Turn(g, dots[i]))
  <1> DEFINE K == Cardinality(Dirs(f))
             u == Ups(dots, i - 1)
             h == Turn(g, dots[i])
  <1>1. K \in Nat /\ u \in Nat
    BY SlashesOf, DotsCounted
  <1>2. /\ Ups(dots, i) = u + (IF dots[i] = "../" THEN 1 ELSE 0)
        /\ Bad(dots, i) <=> Bad(dots, i - 1) \/ dots[i] = "bad"
    BY DotsCounted
  <1>3. dots[i] \in {"./", "../", "bad"}
    OBVIOUS
  <1>4. CASE g = NoFile /\ (Bad(dots, i - 1) \/ K < u)
    <2>1. h = NoFile
      BY <1>4 DEF Turn
    <2> HIDE DEF h, K, u
    <2>2. Bad(dots, i) \/ K < Ups(dots, i)
      BY <1>1, <1>2, <1>4
    <2>3. QED
      BY <2>1, <2>2 DEF Walked, K, h
  <1>5. CASE dots[i] = "bad"
    <2>1. h = NoFile /\ Bad(dots, i)
      BY <1>2, <1>5 DEF Turn
    <2>2. QED
      BY <2>1 DEF Walked
  <1>6. ASSUME ~ (g = NoFile /\ (Bad(dots, i - 1) \/ K < u)), dots[i] # "bad"
        PROVE  Walked(f, dots, i, h)
    <2>1. ~Bad(dots, i - 1) /\ \E z : UpTo(f, g, z) /\ Rank(f, z) + u = K
      BY <1>6 DEF Walked
    <2>2. PICK z : UpTo(f, g, z) /\ Rank(f, z) + u = K
      BY <2>1
    <2>3. z \in 0 .. Len(f) /\ g \in Files /\ LastSlash(g) = z
      BY <2>2, LeftAt
    <2>4. g # NoFile /\ ~Bad(dots, i) /\ z \in Nat
      BY <1>2, <1>6, <2>1, <2>3, FileIsThere, SlashesOf
    <2>5. CASE dots[i] = "./"
      <3>1. h = Directory(g)
        BY <2>4, <2>5 DEF Turn
      <3>2. UpTo(f, Directory(g), z) /\ Directory(g) = SubSeq(f, 1, z)
        BY <2>2, SameDirectory
      <3>3. Ups(dots, i) = u
        BY <1>1, <1>2, <2>5
      <3>4. Rank(f, z) + Ups(dots, i) = K
        BY <2>2, <3>3
      <3> HIDE DEF h
      <3>5. QED
        BY <2>4, <3>1, <3>2, <3>4 DEF Walked, h
    <2>6. CASE dots[i] = "../" /\ z = 0
      <3>1. h = NoFile
        BY <2>3, <2>4, <2>6 DEF Turn
      <3>2. u = K /\ Ups(dots, i) = u + 1
        BY <1>1, <1>2, <2>2, <2>4, <2>6, RankOf
      <3>3. K < Ups(dots, i)
        BY <1>1, <3>2
      <3>4. QED
        BY <3>1, <3>3 DEF Walked
    <2>7. CASE dots[i] = "../" /\ z # 0
      <3>1. h = Directory(SubSeq(g, 1, LastSlash(g) - 1))
        BY <2>3, <2>4, <2>7 DEF Turn
      <3> HIDE DEF h
      <3>2. PICK l \in 0 .. z - 1 : h = SubSeq(f, 1, l) /\ UpTo(f, h, l) /\ Rank(f, l) = Rank(f, z) - 1
        BY <2>2, <2>7, <3>1, ParentDirectory
      <3>3. Ups(dots, i) = u + 1
        BY <1>2, <2>7
      <3>4. Rank(f, z) \in Nat
        BY <2>4, RankOf
      <3>5. Rank(f, l) + Ups(dots, i) = K
        BY <1>1, <2>2, <3>2, <3>3, <3>4
      <3>6. QED
        BY <2>4, <3>2, <3>5 DEF Walked, h
    <2>8. QED
      BY <1>3, <1>6, <2>5, <2>6, <2>7
  <1>7. QED
    BY <1>4, <1>5, <1>6

LEMMA DotsWalk ==
  ASSUME NEW f \in Files, NEW dots \in Seq({"./", "../", "bad"})
  PROVE  Walked(f, dots, Len(dots), AfterDots(f, dots))
  <1> DEFINE n == Len(dots)
             S == Files \cup {NoFile}
             step == [x \in S \X (1 .. n) |-> Turn(x[1], dots[x[2]])]
             Loop(a) == [i \in 0 .. n |->
                           IF i = 0 THEN f
                           ELSE IF a[i - 1] = NoFile \/ dots[i] = "bad" THEN NoFile
                           ELSE IF dots[i] = "./" THEN Directory(a[i - 1])
                           ELSE IF LastSlash(a[i - 1]) = 0 THEN NoFile
                           ELSE Directory(SubSeq(a[i - 1], 1, LastSlash(a[i - 1]) - 1))]
             walk == CHOOSE a : a = Loop(a)
  <1>1. n \in Nat
    OBVIOUS
  <1>2. step \in [S \X (1 .. n) -> S]
    BY TurnIsFile
  <1>3. \A a : Loop(a) = [i \in 0 .. n |-> IF i = 0 THEN f ELSE Turn(a[i - 1], dots[i])]
    BY DEF Turn
  <1>4. \E a : a = Loop(a)
    <2>1. f \in S
      OBVIOUS
    <2>2. PICK a : Steps(a, S, f, n, step)
      <3> HIDE DEF S, step, n
      <3>1. QED
        BY <1>1, <1>2, <2>1, StepsExist
    <2>3. a \in [0 .. n -> S] /\ a[0] = f
      BY <2>2 DEF Steps
    <2>4. ASSUME NEW i \in 1 .. n
          PROVE  a[i] = Turn(a[i - 1], dots[i])
      <3>1. a[i] = step[<<a[i - 1], i>>]
        BY <2>2, <2>4 DEF Steps
      <3>2. a[i - 1] \in S
        BY <2>3
      <3>3. QED
        BY <3>1, <3>2
    <2>5. a = [i \in 0 .. n |-> IF i = 0 THEN f ELSE Turn(a[i - 1], dots[i])]
      <3>1. \A i \in 0 .. n : a[i] = IF i = 0 THEN f ELSE Turn(a[i - 1], dots[i])
        BY <2>3, <2>4
      <3>2. QED
        BY <2>3, <3>1
    <2>6. a = Loop(a)
      <3> HIDE DEF Loop
      <3>1. QED
        BY <1>3, <2>5
    <2>7. QED
      BY <2>6
  <1>5. walk = Loop(walk)
    <2> HIDE DEF Loop
    <2>1. QED
      BY <1>4
  <1>6. AfterDots(f, dots) = walk[n]
    BY DEF AfterDots
  <1>7. walk[0] = f /\ \A i \in 1 .. n : walk[i] = Turn(walk[i - 1], dots[i])
    <2>1. walk = [i \in 0 .. n |-> IF i = 0 THEN f ELSE Turn(walk[i - 1], dots[i])]
      <3> HIDE DEF Loop, walk
      <3>1. QED
        BY <1>3, <1>5
    <2> HIDE DEF walk
    <2>2. QED
      BY <1>1, <2>1
  <1> HIDE DEF walk
  <1> DEFINE lost == {i \in 0 .. n : ~Walked(f, dots, i, walk[i])}
  <1>8. lost = {}
    <2> SUFFICES ASSUME lost # {}
                 PROVE  FALSE
      OBVIOUS
    <2>1. PICK m \in lost : \A k \in lost : m <= k
      <3>1. lost \subseteq Nat
        OBVIOUS
      <3> HIDE DEF lost
      <3>2. QED
        BY <3>1, LeastNatural
    <2>2. m # 0
      BY <1>7, <2>1, WalkStarts
    <2>3. m \in 1 .. n /\ m - 1 \in 0 .. n /\ m - 1 \notin lost
      BY <1>1, <2>1, <2>2
    <2>4. Walked(f, dots, m - 1, walk[m - 1])
      BY <2>3
    <2>5. Walked(f, dots, m, walk[m])
      BY <1>7, <2>3, <2>4, WalkGoesOn
    <2>6. QED
      BY <2>1, <2>5
  <1>9. QED
    BY <1>1, <1>6, <1>8
-----------------------------------------------------------------------------
(* How fixURL reads the escapes of a name.                                       *)
Taken(r, z) ==
  IF z # "&amp;" THEN [out |-> Append(r.out, z), skip |-> IF r.skip = 0 THEN 0 ELSE r.skip - 1]
  ELSE IF r.skip > 0 THEN [out |-> Append(r.out, "&amp;"), skip |-> 0]
  ELSE [out |-> Append(r.out, "&"), skip |-> 4]

LEMMA TakenIsFile ==
  ASSUME NEW r \in [out : Files, skip : Nat], NEW z \in Symbols
  PROVE  Taken(r, z) \in [out : Files, skip : Nat]
  <1>1. r.out \in Seq(Symbols) /\ r.skip \in Nat
    BY DEF Files
  <1>2. \A e \in Symbols : Append(r.out, e) \in Seq(Symbols)
    BY <1>1
  <1>3. {"&", "&amp;"} \subseteq Symbols
    BY SymbolsAssumption
  <1>4. CASE z # "&amp;"
    <2>1. (IF r.skip = 0 THEN 0 ELSE r.skip - 1) \in Nat
      BY <1>1
    <2>2. QED
      BY <1>2, <1>4, <2>1 DEF Taken, Files
  <1>5. CASE z = "&amp;"
    BY <1>2, <1>3, <1>5 DEF Taken, Files
  <1>6. QED
    BY <1>4, <1>5

(* DecodeAmp takes the symbols of the name one after the other.                  *)
LEMMA DecodeWalks ==
  ASSUME NEW f \in Files
  PROVE  \E walk : /\ walk[0] = [out |-> <<>>, skip |-> 0]
                   /\ \A i \in 1 .. Len(f) : walk[i] = Taken(walk[i - 1], f[i])
                   /\ \A i \in 0 .. Len(f) : walk[i] \in [out : Files, skip : Nat]
                   /\ DecodeAmp(f) = walk[Len(f)].out
  <1> DEFINE n == Len(f)
             S == [out : Files, skip : Nat]
             z == [out |-> <<>>, skip |-> 0]
             step == [x \in S \X (1 .. n) |-> Taken(x[1], f[x[2]])]
             Loop(a) == [i \in 0 .. n |->
                           IF i = 0 THEN [out |-> <<>>, skip |-> 0]
                           ELSE LET r == a[i - 1]
                                IN  IF f[i] # "&amp;"
                                    THEN [out |-> Append(r.out, f[i]),
                                          skip |-> IF r.skip = 0 THEN 0 ELSE r.skip - 1]
                                    ELSE IF r.skip > 0 THEN [out |-> Append(r.out, "&amp;"), skip |-> 0]
                                    ELSE [out |-> Append(r.out, "&"), skip |-> 4]]
             walk == CHOOSE a : a = Loop(a)
  <1>1. n \in Nat /\ \A i \in 1 .. n : f[i] \in Symbols
    BY DEF Files
  <1>2. step \in [S \X (1 .. n) -> S]
    BY <1>1, TakenIsFile
  <1>3. \A a : Loop(a) = [i \in 0 .. n |-> IF i = 0 THEN z ELSE Taken(a[i - 1], f[i])]
    BY DEF Taken
  <1>4. z \in S
    BY DEF Files
  <1>5. PICK a : Steps(a, S, z, n, step)
    <2> HIDE DEF S, step, n, z
    <2>1. QED
      BY <1>1, <1>2, <1>4, StepsExist
  <1>6. a \in [0 .. n -> S] /\ a[0] = z
    BY <1>5 DEF Steps
  <1>7. a = Loop(a)
    <2> HIDE DEF Loop, z
    <2>1. ASSUME NEW i \in 1 .. n
          PROVE  a[i] = Taken(a[i - 1], f[i])
      <3>1. a[i] = step[<<a[i - 1], i>>]
        BY <1>5 DEF Steps
      <3>2. a[i - 1] \in S
        BY <1>1, <1>6
      <3> HIDE DEF S
      <3>3. QED
        BY <3>1, <3>2
    <2>2. \A i \in 0 .. n : a[i] = IF i = 0 THEN z ELSE Taken(a[i - 1], f[i])
      BY <1>6, <2>1
    <2>3. a = [i \in 0 .. n |-> IF i = 0 THEN z ELSE Taken(a[i - 1], f[i])]
      BY <1>6, <2>2
    <2>4. QED
      BY <1>3, <2>3
  <1>8. walk = Loop(walk)
    <2> HIDE DEF Loop
    <2>1. QED
      BY <1>7
  <1>9. DecodeAmp(f) = walk[n].out
    BY DEF DecodeAmp
  <1>10. walk = [i \in 0 .. n |-> IF i = 0 THEN z ELSE Taken(walk[i - 1], f[i])]
    <2> HIDE DEF Loop, walk
    <2>1. QED
      BY <1>3, <1>8
  <1> HIDE DEF walk, Loop, z
  <1>11. walk[0] = z /\ \A i \in 1 .. n : walk[i] = Taken(walk[i - 1], f[i])
    BY <1>1, <1>10
  <1> DEFINE lost == {i \in 0 .. n : walk[i] \notin S}
  <1>12. lost = {}
    <2> SUFFICES ASSUME lost # {}
                 PROVE  FALSE
      OBVIOUS
    <2> HIDE DEF S
    <2>1. PICK m \in lost : \A k \in lost : m <= k
      <3>1. lost \subseteq Nat
        OBVIOUS
      <3> HIDE DEF lost
      <3>2. QED
        BY <3>1, LeastNatural
    <2>2. m # 0
      BY <1>4, <1>11, <2>1
    <2>3. m \in 1 .. n /\ m - 1 \in 0 .. n /\ m - 1 \notin lost
      BY <1>1, <2>1, <2>2
    <2>4. walk[m] \in S
      BY <1>1, <1>11, <2>3, TakenIsFile DEF S
    <2>5. QED
      BY <2>1, <2>4
  <1>13. QED
    BY <1>9, <1>11, <1>12 DEF z

LEMMA DecodedIsFile ==
  ASSUME NEW f \in Files
  PROVE  DecodeAmp(f) \in Files
  <1>1. PICK walk : /\ \A i \in 0 .. Len(f) : walk[i] \in [out : Files, skip : Nat]
                    /\ DecodeAmp(f) = walk[Len(f)].out
    BY DecodeWalks
  <1>2. Len(f) \in 0 .. Len(f)
    BY SlashesOf
  <1>3. walk[Len(f)] \in [out : Files, skip : Nat]
    BY <1>1, <1>2
  <1>4. QED
    BY <1>1, <1>3

FarApart(f) == \A i, j \in Escapes(f) : i < j => i + 4 < j

(* While it skips, there was an escape at most four symbols ago.                 *)
Skipping(f, i, r) == r.skip > 0 => \E j \in 1 .. i : j \in Escapes(f) /\ i + r.skip <= j + 4

DecodedTo(f, i, r) == /\ Len(r.out) = i
                      /\ \A j \in 1 .. i : r.out[j] = Unescaped(f)[j]
                      /\ Skipping(f, i, r)

LEMMA OneSymbol ==
  ASSUME NEW f, NEW i \in 1 .. Len(f), NEW r, i \in Escapes(f) => ~(r.skip > 0)
  PROVE  Taken(r, f[i]) =
           [out |-> Append(r.out, Unescaped(f)[i]),
            skip |-> IF i \in Escapes(f) THEN 4 ELSE IF r.skip = 0 THEN 0 ELSE r.skip - 1]
  <1>1. i \in Escapes(f) <=> f[i] = "&amp;"
    BY Zenon DEF Escapes
  <1>2. CASE i \in Escapes(f)
    <2>1. Taken(r, f[i]) = [out |-> Append(r.out, "&"), skip |-> 4]
      BY <1>1, <1>2, Zenon DEF Taken
    <2>2. Unescaped(f)[i] = "&"
      BY <1>1, <1>2, Zenon DEF Unescaped
    <2>3. QED
      BY <1>2, <2>1, <2>2, Zenon
  <1>3. CASE i \notin Escapes(f)
    <2>1. Taken(r, f[i]) = [out |-> Append(r.out, f[i]), skip |-> IF r.skip = 0 THEN 0 ELSE r.skip - 1]
      BY <1>1, <1>3, Zenon DEF Taken
    <2>2. Unescaped(f)[i] = f[i]
      BY <1>1, <1>3, Zenon DEF Unescaped
    <2>3. QED
      BY <1>3, <2>1, <2>2, Zenon
  <1>4. QED
    BY <1>2, <1>3

LEMMA UnescapedIsFile ==
  ASSUME NEW f \in Files, NEW i \in 1 .. Len(f)
  PROVE  Unescaped(f)[i] \in Symbols
  <1>1. f[i] \in Symbols
    BY DEF Files
  <1>2. "&" \in Symbols
    BY SymbolsAssumption, Zenon
  <1>3. Unescaped(f)[i] = "&" \/ Unescaped(f)[i] = f[i]
    BY Zenon DEF Unescaped
  <1>4. QED
    BY <1>1, <1>2, <1>3, Zenon

LEMMA DecodesOneMore ==
  ASSUME NEW f \in Files, FarApart(f), NEW n \in Nat, n = Len(f), NEW i \in 1 .. n,
         NEW r, r.out \in Files, r.skip \in Nat, DecodedTo(f, i - 1, r)
  PROVE  DecodedTo(f, i, Taken(r, f[i]))
  <1>1. PICK s : s = r.skip
    OBVIOUS
  <1>2. PICK u : u = Unescaped(f)[i]
    OBVIOUS
  <1>3. i \in 1 .. Len(f) /\ s \in Nat /\ r.out \in Seq(Symbols) /\ u \in Symbols
    BY <1>1, <1>2, UnescapedIsFile DEF Files
  <1>4. /\ Len(r.out) = i - 1
        /\ \A j \in 1 .. i - 1 : r.out[j] = Unescaped(f)[j]
        /\ s > 0 => \E j \in 1 .. i - 1 : j \in Escapes(f) /\ (i - 1) + s <= j + 4
    BY <1>1 DEF DecodedTo, Skipping
  <1>5. i \in Escapes(f) => s = 0
    <2> SUFFICES ASSUME i \in Escapes(f), s # 0
                 PROVE  FALSE
      OBVIOUS
    <2>1. PICK j \in 1 .. i - 1 : j \in Escapes(f) /\ (i - 1) + s <= j + 4
      BY <1>3, <1>4
    <2>2. j + 4 < i
      BY <2>1 DEF FarApart
    <2>3. QED
      BY <1>3, <2>1, <2>2
  <1>6. PICK t : t = Append(r.out, u)
    OBVIOUS
  <1>7. PICK x : x = Taken(r, f[i])
    OBVIOUS
  <1>8. x.out = t /\ x.skip = IF i \in Escapes(f) THEN 4 ELSE IF s = 0 THEN 0 ELSE s - 1
    <2>1. i \in Escapes(f) => ~(r.skip > 0)
      BY <1>1, <1>5
    <2>2. x = [out |-> Append(r.out, Unescaped(f)[i]),
               skip |-> IF i \in Escapes(f) THEN 4 ELSE IF r.skip = 0 THEN 0 ELSE r.skip - 1]
      BY <1>3, <1>7, <2>1, OneSymbol
    <2>3. QED
      BY <1>1, <1>2, <1>6, <2>2
  <1>9. Len(t) = i /\ \A j \in 1 .. i : t[j] = Unescaped(f)[j]
    <2>1. /\ Len(t) = Len(r.out) + 1 /\ t[Len(r.out) + 1] = u
          /\ \A j \in 1 .. Len(r.out) : t[j] = r.out[j]
      BY <1>3, <1>6, AppendProperties
    <2>2. Len(t) = i /\ t[i] = u /\ \A j \in 1 .. i - 1 : t[j] = r.out[j]
      BY <1>4, <2>1
    <2>3. \A j \in 1 .. i : j \in 1 .. i - 1 \/ j = i
      OBVIOUS
    <2>4. QED
      BY <1>2, <1>4, <2>2, <2>3
  <1>10. Skipping(f, i, x)
    <2>1. CASE i \in Escapes(f)
      <3>1. x.skip = 4 /\ i \in 1 .. i
        BY <1>8, <2>1
      <3>2. QED
        BY <2>1, <3>1 DEF Skipping
    <2>2. ASSUME i \notin Escapes(f), x.skip > 0
          PROVE  \E j \in 1 .. i : j \in Escapes(f) /\ i + x.skip <= j + 4
      <3>1. s > 0 /\ x.skip = s - 1
        BY <1>3, <1>8, <2>2
      <3>2. PICK j \in 1 .. i - 1 : j \in Escapes(f) /\ (i - 1) + s <= j + 4
        BY <1>4, <3>1
      <3>3. j \in 1 .. i /\ i + x.skip <= j + 4
        BY <1>3, <3>1, <3>2
      <3>4. QED
        BY <3>2, <3>3
    <2>3. QED
      BY <2>1, <2>2 DEF Skipping
  <1>11. QED
    BY <1>7, <1>8, <1>9, <1>10 DEF DecodedTo

(* When no escape lies within the four symbols behind another one, all are read. *)
LEMMA DecodedIsUnescaped ==
  ASSUME NEW f \in Files, FarApart(f)
  PROVE  DecodeAmp(f) = Unescaped(f)
  <1> DEFINE n == Len(f)
  <1>1. PICK walk : /\ walk[0] = [out |-> <<>>, skip |-> 0]
                    /\ \A i \in 1 .. n : walk[i] = Taken(walk[i - 1], f[i])
                    /\ \A i \in 0 .. n : walk[i] \in [out : Files, skip : Nat]
                    /\ DecodeAmp(f) = walk[n].out
    BY DecodeWalks
  <1>2. n \in Nat
    BY SlashesOf
  <1> DEFINE lost == {i \in 0 .. n : ~DecodedTo(f, i, walk[i])}
  <1>3. DecodedTo(f, 0, walk[0])
    BY <1>1 DEF DecodedTo, Skipping
  <1>4. lost = {}
    <2> SUFFICES ASSUME lost # {}
                 PROVE  FALSE
      OBVIOUS
    <2>1. PICK m \in lost : \A k \in lost : m <= k
      <3>1. lost \subseteq Nat
        OBVIOUS
      <3> HIDE DEF lost
      <3>2. QED
        BY <3>1, LeastNatural
    <2>2. m # 0
      BY <1>3, <2>1
    <2>3. m \in 1 .. n /\ m - 1 \in 0 .. n /\ m - 1 \notin lost
      BY <1>2, <2>1, <2>2
    <2>4. DecodedTo(f, m - 1, walk[m - 1]) /\ walk[m - 1] \in [out : Files, skip : Nat]
      BY <1>1, <2>3
    <2>5. DecodedTo(f, m, Taken(walk[m - 1], f[m]))
      <3>1. PICK r : r = walk[m - 1]
        OBVIOUS
      <3>2. r.out \in Files /\ r.skip \in Nat /\ DecodedTo(f, m - 1, r)
        BY <2>4, <3>1
      <3>3. DecodedTo(f, m, Taken(r, f[m]))
        BY <1>2, <2>3, <3>2, DecodesOneMore
      <3>4. QED
        BY <3>1, <3>3
    <2>6. QED
      BY <1>1, <2>1, <2>3, <2>5
  <1>5. n \in 0 .. n
    BY <1>2
  <1>6. DecodedTo(f, n, walk[n]) /\ walk[n].out \in Files
    BY <1>1, <1>4, <1>5
  <1>7. PICK t : t = walk[n].out
    OBVIOUS
  <1>8. t \in Seq(Symbols) /\ Len(t) = n /\ \A j \in 1 .. n : t[j] = Unescaped(f)[j]
    BY <1>6, <1>7 DEF DecodedTo, Files
  <1>9. t = [j \in 1 .. n |-> t[j]]
    BY <1>8
  <1>10. t = Unescaped(f)
    <2>1. Unescaped(f) = [j \in 1 .. n |-> Unescaped(f)[j]]
      BY Zenon DEF Unescaped
    <2>2. QED
      BY <1>8, <1>9, <2>1
  <1>11. QED
    BY <1>1, <1>7, <1>10

LEMMA NoEscapes ==
  ASSUME NEW f \in Files, Escapes(f) = {}
  PROVE  Unescaped(f) = f
  <1>1. f = [i \in 1 .. Len(f) |-> f[i]]
    BY DEF Files
  <1>2. \A i \in 1 .. Len(f) : f[i] # "&amp;"
    BY DEF Escapes
  <1>3. QED
    BY <1>1, <1>2 DEF Unescaped

(* The dots lead to the directory that is meant.                                 *)
LEMMA DotsLeadThere ==
  ASSUME NEW pl, pl.file \in Files, NEW link, IsLink(link), link.kind = "dotted",
         \A i \in 1 .. Len(link.dots) : link.dots[i] # "bad",
         StepsUp(link) <= Cardinality(Dirs(pl.file))
  PROVE  /\ AfterDots(pl.file, link.dots) = StartIn(pl.file, link)
         /\ StartIn(pl.file, link) \in Files
  <1> DEFINE f    == pl.file
             dots == link.dots
             n    == Len(dots)
             base == AfterDots(f, dots)
             ups  == StepsUp(link)
             keep == Cardinality(Dirs(f)) - ups
  <1>1. dots \in Seq({"./", "../", "bad"}) /\ dots # <<>>
    BY DEF IsLink
  <1>2. n \in Nat \ {0}
    BY <1>1
  <1>3. Walked(f, dots, n, base)
    BY <1>1, DotsWalk
  <1>4. ups = Ups(dots, n) /\ ups \in Nat /\ Cardinality(Dirs(f)) \in Nat
    <2>1. IsFiniteSet(1 .. n)
      <3>1. \A m \in Nat : IsFiniteSet(1 .. m)
        BY FS_Interval
      <3>2. QED
        BY <1>2, <3>1
    <2>2. PICK U : U = {i \in 1 .. n : dots[i] = "../"}
      OBVIOUS
    <2>3. U \subseteq 1 .. n
      BY <2>2
    <2>4. IsFiniteSet(U)
      BY <2>1, <2>3, FS_Subset
    <2>5. ups = Cardinality(U) /\ Ups(dots, n) = Cardinality(U)
      BY <2>2 DEF Ups, StepsUp
    <2>6. Cardinality(U) \in Nat
      BY <2>4, FS_CardinalityType
    <2>7. Cardinality(Dirs(f)) \in Nat
      BY SlashesOf, FS_CardinalityType
    <2>8. QED
      BY <2>5, <2>6, <2>7
  <1>5. ~Bad(dots, n) /\ ups <= Cardinality(Dirs(f))
    BY DEF Bad
  <1>6. StartIn(f, link) =
          IF keep <= 0 THEN <<>>
          ELSE SubSeq(f, 1, CHOOSE i \in Dirs(f) : Rank(f, i) = keep)
    BY DEF StartIn, Rank
  <1>7. f \in Files
    OBVIOUS
  <1> HIDE DEF n, f, dots, base, ups
  <1>8. PICK z : /\ UpTo(f, base, z)
                 /\ Rank(f, z) + Ups(dots, n) = Cardinality(Dirs(f)) /\ base = SubSeq(f, 1, z)
    <2>1. n > 0
      BY <1>2
    <2>2. ~(Cardinality(Dirs(f)) < Ups(dots, n))
      BY <1>4, <1>5
    <2>3. QED
      BY <1>3, <1>5, <2>1, <2>2 DEF Walked
  <1>9. z \in 0 .. Len(f) /\ base \in Files /\ Dirs(f) \subseteq Nat \ {0} /\ z \in Nat
    BY <1>7, <1>8, LeftAt, SlashesOf
  <1>10. Rank(f, z) \in Nat /\ Rank(f, 0) = 0
    BY <1>7, <1>9, RankOf
  <1>11. keep = Rank(f, z)
    BY <1>4, <1>8, <1>10
  <1> HIDE DEF keep
  <1>12. CASE keep = 0
    <2>1. z \notin Dirs(f)
      <3> SUFFICES ASSUME z \in Dirs(f)
                   PROVE  FALSE
        OBVIOUS
      <3>1. 0 \in 0 .. z - 1
        BY <1>9
      <3>2. Rank(f, 0) < Rank(f, z)
        BY <1>7, <1>9, <3>1, RankOf
      <3>3. QED
        BY <1>10, <1>11, <1>12, <3>2
    <2>2. z = 0
      BY <1>8, <2>1 DEF UpTo
    <2>3. SubSeq(f, 1, 0) = <<>>
      <3>1. SubSeq(f, 1, 0) \in Seq(Symbols) /\ Len(SubSeq(f, 1, 0)) = 0
        BY <1>7, SubSeqProperties DEF Files
      <3>2. QED
        BY <3>1, EmptySeq
    <2>4. base = <<>>
      BY <1>8, <2>2, <2>3
    <2>5. StartIn(f, link) = <<>>
      BY <1>6, <1>12
    <2>6. QED
      BY <1>9, <2>4, <2>5 DEF base, f, dots
  <1>13. CASE keep # 0
    <2>1. z # 0
      BY <1>10, <1>11, <1>13
    <2>2. z \in Dirs(f)
      BY <1>8, <2>1 DEF UpTo
    <2>3. ASSUME NEW i \in Dirs(f), Rank(f, i) = keep
          PROVE  i = z
      <3>1. i \in Nat \ {0} /\ z \in Nat \ {0}
        BY <1>9, <2>2
      <3>2. i < z => Rank(f, i) < Rank(f, z)
        BY <1>7, <2>2, <3>1, RankOf
      <3>3. z < i => Rank(f, z) < Rank(f, i)
        BY <1>7, <3>1, RankOf
      <3>4. QED
        BY <1>10, <1>11, <2>3, <3>1, <3>2, <3>3
    <2>4. (CHOOSE i \in Dirs(f) : Rank(f, i) = keep) = z
      BY <1>11, <2>2, <2>3
    <2>5. ~(keep <= 0)
      BY <1>10, <1>11, <1>13
    <2>6. StartIn(f, link) = base
      BY <1>6, <1>8, <2>4, <2>5
    <2>7. QED
      BY <1>9, <2>6 DEF base, f, dots
  <1>14. QED
    BY <1>12, <1>13

(* What fixURL makes of a link is what it means where it is Understood.          *)
LEMMA FixesAsMeant ==
  ASSUME NEW pl, pl.file \in Files, NEW link, IsLink(link)
  PROVE  Target(pl, link) = FixURL(pl, link)
  <1>1. CASE ~Understood(pl, link)
    BY <1>1 DEF Target
  <1>2. ASSUME Understood(pl, link)
        PROVE  Meaning(pl, link) = FixURL(pl, link)
    <2>1. CASE link.kind = "absolute" /\ link.javascript
      BY <2>1 DEF Meaning, FixURL, URLanalyser
    <2>2. CASE link.kind = "absolute" /\ ~link.javascript
      <3>1. link.file \in Files /\ Escapes(link.file) = {}
        BY <1>2, <2>2 DEF IsLink, Understood
      <3>2. Unescaped(link.file) = link.file
        BY <3>1, NoEscapes
      <3>3. PICK port, tail : URLanalyser(link) = PageLink(link.host, tail, link.file, port)
        BY <2>2 DEF URLanalyser
      <3>4. [URLanalyser(link) EXCEPT !.file = Unescaped(@)] = URLanalyser(link)
        BY <3>2, <3>3 DEF PageLink
      <3>5. QED
        BY <2>2, <3>4 DEF Meaning, FixURL
    <2>3. CASE link.kind \in {"rooted", "plain"}
      <3>1. link.file \in Files /\ Escapes(link.file) = {}
        BY <1>2, <2>3 DEF IsLink, Understood
      <3>2. StartIn(pl.file, link) = <<>>
        <4>1. CASE link.kind = "rooted"
          BY <4>1 DEF StartIn
        <4>2. CASE link.kind = "plain"
          <5>1. Dirs(pl.file) = {}
            BY <1>2, <4>2 DEF Understood
          <5>2. Cardinality(Dirs(pl.file)) = 0
            BY <5>1, FS_EmptySet, Zenon
          <5>3. QED
            BY <4>2, <5>2 DEF StartIn
        <4>3. QED
          BY <2>3, <4>1, <4>2
      <3>3. <<>> \o link.file = link.file
        BY <3>1, ConcatEmptySeq DEF Files
      <3>4. Unescaped(link.file) = link.file
        BY <3>1, NoEscapes
      <3>5. Meaning(pl, link) = PageLink(pl.host, NoPort, Unescaped(StartIn(pl.file, link) \o link.file), pl.port)
        BY <2>3 DEF Meaning
      <3>6. FixURL(pl, link) = PageLink(pl.host, NoPort, link.file, pl.port)
        BY <2>3 DEF FixURL
      <3>7. QED
        BY <3>2, <3>3, <3>4, <3>5, <3>6, Zenon
    <2>4. CASE link.kind = "dotted"
      <3> DEFINE base == AfterDots(pl.file, link.dots)
                 start == StartIn(pl.file, link)
      <3>1. /\ \A i \in 1 .. Len(link.dots) : link.dots[i] # "bad"
            /\ StepsUp(link) <= Cardinality(Dirs(pl.file))
            /\ FarApart(start \o link.file)
        BY <1>2, <2>4 DEF Understood, FarApart
      <3>2. base = start /\ start \in Files
        BY <2>4, <3>1, DotsLeadThere
      <3>3. link.file \in Files
        BY <2>4 DEF IsLink
      <3>4. Meaning(pl, link) = PageLink(pl.host, NoPort, Unescaped(start \o link.file), pl.port)
        BY <2>4 DEF Meaning
      <3>5. FixURL(pl, link) = IF base = NoFile THEN Unresolved
                               ELSE PageLink(pl.host, NoPort, DecodeAmp(base \o link.file), pl.port)
        BY <2>4 DEF FixURL
      <3> HIDE DEF base, start
      <3>6. start \o link.file \in Files
        BY <3>2, <3>3 DEF Files
      <3>7. DecodeAmp(start \o link.file) = Unescaped(start \o link.file)
        BY <3>1, <3>6, DecodedIsUnescaped
      <3>8. base # NoFile
        BY <3>2, FileIsThere
      <3>9. QED
        BY <3>2, <3>4, <3>5, <3>7, <3>8
    <2>5. QED
      BY <2>1, <2>2, <2>3, <2>4 DEF IsLink
  <1>3. QED
    BY <1>1, <1>2 DEF Target

LEMMA FixedHasFile ==
  ASSUME NEW pl, pl.file \in Files, NEW link, IsLink(link)
  PROVE  FixURL(pl, link) = Unresolved \/ FixURL(pl, link).file \in Files
  <1>1. CASE link.kind = "absolute"
    <2>1. FixURL(pl, link) = URLanalyser(link)
      BY <1>1 DEF FixURL
    <2>2. CASE link.javascript
      <3>1. URLanalyser(link) = Unresolved
        BY <2>2 DEF URLanalyser
      <3>2. QED
        BY <2>1, <3>1
    <2>3. CASE ~link.javascript
      <3>1. link.file \in Files
        BY <2>3, Zenon DEF IsLink
      <3>2. \/ URLanalyser(link) = PageLink(link.host, NoPort, link.file, 80)
            \/ URLanalyser(link) = PageLink(link.host, link.port, link.file, link.port)
        BY <2>3, Zenon DEF URLanalyser
      <3>3. QED
        BY <2>1, <3>1, <3>2 DEF PageLink
    <2>4. QED
      BY <2>2, <2>3, Zenon
  <1>2. CASE link.kind \in {"rooted", "plain"}
    <2>1. FixURL(pl, link) = PageLink(pl.host, NoPort, link.file, pl.port)
      BY <1>2 DEF FixURL
    <2>2. link.file \in Files
      BY <1>2 DEF IsLink
    <2>3. QED
      BY <2>1, <2>2 DEF PageLink
  <1>3. CASE link.kind = "dotted"
    <2> DEFINE base == AfterDots(pl.file, link.dots)
    <2>1. link.file \in Files /\ link.dots \in Seq({"./", "../", "bad"})
      BY <1>3 DEF IsLink
    <2>2. FixURL(pl, link) = IF base = NoFile THEN Unresolved
                             ELSE PageLink(pl.host, NoPort, DecodeAmp(base \o link.file), pl.port)
      BY <1>3 DEF FixURL
    <2>3. Walked(pl.file, link.dots, Len(link.dots), base)
      BY <2>1, DotsWalk
    <2> HIDE DEF base
    <2>4. base = NoFile \/ \E z : UpTo(pl.file, base, z)
      BY <2>3 DEF Walked
    <2>5. base = NoFile \/ base \in Files
      BY <2>4, LeftAt
    <2>6. base \in Files => base \o link.file \in Files
      BY <2>1 DEF Files
    <2>7. base \in Files => DecodeAmp(base \o link.file) \in Files
      BY <2>6, DecodedIsFile
    <2>8. QED
      BY <2>2, <2>5, <2>7 DEF PageLink
  <1>4. QED
    BY <1>1, <1>2, <1>3 DEF IsLink

-----------------------------------------------------------------------------
(* The file names that a worker comes by are of the right kind.                  *)
FilesAreRight ==
  /\ \A w \in Workers : \A pl \in BagToSet(frontier[w]) : pl.file \in Files
  /\ \A w \in Workers : page[w].file \in Files /\ holder[w].file \in Files

Scheduled == BagToSet(pushed) \cup InHands

(* What is marked has been pushed or is about to be, also while it is carried.   *)
MarkedIsScheduled ==
  /\ \A v \in Workers : KeysOf(cache[v]) \cup file[v] \subseteq Scheduled
  /\ \A w \in Workers : pc[w] \in {"demote", "spill"} => out[w] \in Scheduled

(* A link that the loop is done with was filtered or is scheduled; the one it is *)
(* about to look up may still be neither.                                        *)
DoneWith(w, pl) ==
  /\ pl # Unresolved
  /\ Filtered(pl) \/ Hash(pl) \in Scheduled \/ (pc[w] \in {"check", "checkFile"} /\ pl = holder[w])

(* The first done links of the page are, and the others are still to come.       *)
FollowedTo(w, done) ==
  LET R == Resolved(page[w])
      n == Len(Web[Address(page[w])])
  IN  /\ done \in 0 .. n
      /\ rest[w] = [j \in 1 .. n - done |-> R[done + j]]
      /\ \A j \in 1 .. done : DoneWith(w, R[j])

AtPage == {"links", "check", "checkFile", "promote", "demote", "add", "spill", "push"}

PageFollowed ==
  \A w \in Workers : pc[w] \in AtPage =>
    /\ Address(page[w]) \in DOMAIN Web
    /\ \E done \in 0 .. Len(Web[Address(page[w])]) : FollowedTo(w, done)

LinksInv == Shapes /\ FilesAreRight /\ MarkedIsScheduled /\ PageFollowed

(* The first link of those to come, and the others.                              *)
LEMMA HeadAndTail ==
  ASSUME NEW n \in Nat, NEW f, NEW s, s = [j \in 1 .. n |-> f[j]]
  PROVE  /\ s = <<>> <=> n = 0
         /\ n # 0 => Head(s) = f[1] /\ Tail(s) = [j \in 1 .. n - 1 |-> f[j + 1]]
  <1> DEFINE T == {f[j] : j \in 1 .. n}
  <1>1. s \in Seq(T) /\ Len(s) = n
    <2>1. s \in [1 .. n -> T]
      OBVIOUS
    <2> HIDE DEF T
    <2>2. QED
      BY <2>1
  <1>2. \A j \in 1 .. n : s[j] = f[j]
    OBVIOUS
  <1> HIDE DEF T
  <1>3. s = <<>> <=> n = 0
    BY <1>1, EmptySeq
  <1>4. ASSUME n # 0
        PROVE  Head(s) = f[1] /\ Tail(s) = [j \in 1 .. n - 1 |-> f[j + 1]]
    <2>1. Head(s) = s[1] /\ 1 \in 1 .. n
      BY <1>1, <1>3, <1>4, HeadTailProperties
    <2>2. Tail(s) \in Seq(T) /\ Len(Tail(s)) = n - 1 /\ \A j \in 1 .. n - 1 : Tail(s)[j] = s[j + 1]
      BY <1>1, <1>3, <1>4, HeadTailProperties
    <2>3. Tail(s) = [j \in 1 .. n - 1 |-> Tail(s)[j]]
      BY <2>2
    <2>4. \A j \in 1 .. n - 1 : Tail(s)[j] = f[j + 1]
      BY <1>2, <2>2
    <2>5. QED
      BY <1>2, <2>1, <2>3, <2>4
  <1>5. QED
    BY <1>3, <1>4

LEMMA LinksOfPage ==
  ASSUME NEW pl, pl.file \in Files, Address(pl) \in DOMAIN Web
  PROVE  LET links == Web[Address(pl)]
             R == Resolved(pl)
         IN  /\ Len(links) \in Nat
             /\ R = [i \in 1 .. Len(links) |-> R[i]]
             /\ \A i \in 1 .. Len(links) : /\ R[i] = Target(pl, links[i])
                                           /\ R[i] = Unresolved \/ R[i].file \in Files
  <1> DEFINE links == Web[Address(pl)]
             R == Resolved(pl)
  <1>1. Len(links) \in Nat /\ \A i \in 1 .. Len(links) : IsLink(links[i])
    BY ThreadWorkAssumption
  <1>2. R = [i \in 1 .. Len(links) |-> FixURL(pl, links[i])]
    BY DEF Resolved
  <1> HIDE DEF R, links
  <1>3. \A i \in 1 .. Len(links) : R[i] = FixURL(pl, links[i])
    BY <1>2
  <1>4. \A i \in 1 .. Len(links) : R[i] = Target(pl, links[i])
    BY <1>1, <1>3, FixesAsMeant
  <1>5. \A i \in 1 .. Len(links) : R[i] = Unresolved \/ R[i].file \in Files
    BY <1>1, <1>3, FixedHasFile
  <1>6. R = [i \in 1 .. Len(links) |-> R[i]]
    BY <1>2
  <1>7. QED
    BY <1>1, <1>4, <1>5, <1>6 DEF R, links

LEMMA LinksAtStart == Hashing /\ Init => LinksInv
  <1> SUFFICES ASSUME Hashing, Init
               PROVE  LinksInv
    OBVIOUS
  <1>1. \A w \in Workers : page[w] = Nothing /\ holder[w] = Nothing /\ pc[w] = "loop"
    BY DEF Init
  <1>2. Nothing.file \in Files
    BY DEF Nothing, PageLink, Files
  <1>3. \A w \in Workers : BagToSet(frontier[w]) = {}
    BY DEF Init, BagToSet, EmptyBag, SetToBag
  <1>4. FilesAreRight
    BY <1>1, <1>2, <1>3 DEF FilesAreRight
  <1>5. \A v \in Workers : KeysOf(cache[v]) = {} /\ file[v] = {}
    BY DEF Init, KeysOf
  <1>6. MarkedIsScheduled
    BY <1>1, <1>5 DEF MarkedIsScheduled
  <1>7. PageFollowed
    BY <1>1 DEF PageFollowed, AtPage
  <1>8. QED
    BY <1>4, <1>6, <1>7, ShapesAtStart DEF LinksInv

(* What is scheduled stays so.                                                   *)
LEMMA ScheduledStays ==
  ASSUME Shapes, NEW w \in Workers, Step(w)
  PROVE  Scheduled \subseteq Scheduled'
  <1>1. BagToSet(pushed) \subseteq BagToSet(pushed')
    <2>1. pushed' = pushed \/ \E h : pushed' = pushed (+) One(h)
      BY DEF Step, ReadURL, Fail, Store, GetLink, EndOfLinks, Known, NotCached, CheckFile,
             Promote, Demote, Add, Spill, AddURL
    <2>2. QED
      BY <2>1, OneMore DEF BagToSet
  <1>2. ASSUME NEW v \in Workers, pc[v] \in {"add", "spill", "push"}
        PROVE  Key(v) \in Scheduled'
    <2>1. CASE v # w
      <3>1. pc'[v] = pc[v] /\ Key(v)' = Key(v)
        BY <2>1, OthersStay
      <3>2. QED
        BY <1>2, <3>1 DEF Scheduled, InHands
    <2>2. CASE v = w /\ (Add(w) \/ Spill(w))
      <3>1. pc'[w] \in {"spill", "push"} /\ Key(w)' = Key(w)
        BY <2>2, PlacesOf
      <3>2. QED
        BY <2>2, <3>1 DEF Scheduled, InHands
    <2>3. CASE v = w /\ AddURL(w)
      <3>1. pushed' = pushed (+) One(Key(w))
        BY <2>3, PlacesOf
      <3>2. DOMAIN pushed' = DOMAIN pushed \cup {Key(w)}
        BY <3>1, OneMore
      <3>3. QED
        BY <2>3, <3>2 DEF Scheduled, BagToSet
    <2>4. CASE v = w /\ ~Add(w) /\ ~Spill(w) /\ ~AddURL(w)
      BY <1>2, <2>4, PlacesOf DEF Step
    <2>5. QED
      BY <2>1, <2>2, <2>3, <2>4
  <1>3. InHands \subseteq Scheduled'
    BY <1>2 DEF InHands
  <1>4. QED
    BY <1>1, <1>3 DEF Scheduled

LEMMA MarkedStep ==
  ASSUME Hashing, LinksInv, NEW w \in Workers, Step(w)
  PROVE  MarkedIsScheduled'
  <1> DEFINE m == Home(w)
  <1>1. Scheduled \subseteq Scheduled' /\ Shapes
    BY ScheduledStays DEF LinksInv
  <1>2. m \in Workers /\ Key(w) \in Keys
    BY KeysAndHomes
  <1>3. /\ \A v \in Workers : v # m => cache'[v] = cache[v] /\ file'[v] = file[v]
        /\ \A v \in Workers : v # w => pc'[v] = pc[v] /\ out'[v] = out[v]
    BY <1>1, CacheSteps, OthersStay
  <1>4. /\ \A v \in Workers : KeysOf(cache[v]) \cup file[v] \subseteq Scheduled'
        /\ \A v \in Workers : pc[v] \in {"demote", "spill"} => out[v] \in Scheduled'
    BY <1>1 DEF LinksInv, MarkedIsScheduled
  <1>5. PICK lru : lru = cache[m]
    OBVIOUS
  <1>6. lru \in Seq(Keys) /\ Len(lru) <= MAX_LRU /\ file \in [Workers -> SUBSET Keys]
    BY <1>1, <1>2, <1>5 DEF Shapes, SeenShapes
  <1>7. SUFFICES /\ KeysOf(cache'[m]) \cup file'[m] \subseteq Scheduled'
                 /\ pc'[w] \in {"demote", "spill"} => out'[w] \in Scheduled'
    BY <1>3, <1>4 DEF MarkedIsScheduled
  <1>8. KeysOf(lru) \cup file[m] \subseteq Scheduled'
    BY <1>2, <1>4, <1>5
  <1> HIDE DEF m
  <1>9. CASE SeenStays(w)
    <2>1. cache' = cache /\ file' = file
      BY <1>9, SeenStaysFacts
    <2>2. pc'[w] \notin {"demote", "spill"}
      BY <1>1, <1>9, PlacesOf DEF SeenStays
    <2>3. QED
      BY <1>5, <1>8, <2>1, <2>2
  <1>10. CASE Known(w)
    <2>1. /\ cache' = [cache EXCEPT ![m] = Touched(@, Key(w))] /\ file' = file
          /\ Holds(cache[m], Key(w))
      BY <1>10 DEF Known, m
    <2>2. cache'[m] = Touched(lru, Key(w)) /\ Holds(lru, Key(w))
      BY <1>1, <1>2, <1>5, <2>1 DEF Shapes, SeenShapes
    <2>3. KeysOf(Touched(lru, Key(w))) = KeysOf(lru)
      BY <1>2, <1>6, <2>2, TouchedKeys
    <2>4. KeysOf(cache'[m]) = KeysOf(lru)
      BY <2>2, <2>3, Zenon
    <2>5. pc'[w] = "links"
      BY <1>1, <1>10, PlacesOf
    <2>6. QED
      BY <1>8, <2>1, <2>4, <2>5
  <1>11. CASE Promote(w) \/ Add(w)
    <2>1. /\ cache' = [cache EXCEPT ![m] = Inserted(@, Key(w))] /\ file' = file
          /\ out' = [out EXCEPT ![w] = Evicted(cache[m])]
      BY <1>11 DEF Promote, Add, InsertCache, m
    <2>2. cache'[m] = Inserted(lru, Key(w)) /\ out'[w] = Evicted(lru)
      BY <1>1, <1>2, <1>5, <2>1 DEF Shapes, SeenShapes
    <2>3. /\ KeysOf(Inserted(lru, Key(w))) \subseteq KeysOf(lru) \cup {Key(w)}
          /\ Full(lru) => Evicted(lru) \in KeysOf(lru)
      BY <1>2, <1>6, InsertedKeys
    <2>4. KeysOf(cache'[m]) \subseteq KeysOf(lru) \cup {Key(w)}
      BY <2>2, <2>3, Zenon
    <2>5. Key(w) \in Scheduled
      <3>1. CASE Promote(w)
        <4>1. Key(w) \in file[m]
          BY <1>1, <3>1, PlacesOf DEF Shapes, FilesBehindCaches, m
        <4>2. QED
          BY <1>2, <4>1 DEF LinksInv, MarkedIsScheduled
      <3>2. CASE Add(w)
        <4>1. pc[w] = "add"
          BY <1>1, <3>2, PlacesOf
        <4>2. QED
          BY <4>1 DEF Scheduled, InHands
      <3>3. QED
        BY <1>11, <3>1, <3>2
    <2>6. pc'[w] \in {"demote", "spill"} => Full(lru)
      <3>1. CASE Promote(w)
        BY <1>1, <1>2, <1>5, <3>1, PlacesOf DEF Shapes, FilesBehindCaches, m
      <3>2. CASE Add(w)
        BY <1>1, <1>5, <3>2, PlacesOf DEF m
      <3>3. QED
        BY <1>11, <3>1, <3>2
    <2>7. QED
      BY <1>1, <1>8, <2>1, <2>2, <2>3, <2>4, <2>5, <2>6
  <1>12. CASE Demote(w) \/ Spill(w)
    <2>1. cache' = cache /\ file' = [file EXCEPT ![m] = @ \cup {out[w]}]
      BY <1>12 DEF Demote, Spill, InsertFile, m
    <2>2. file'[m] = file[m] \cup {out[w]}
      BY <1>2, <1>6, <2>1
    <2>3. pc[w] \in {"demote", "spill"} /\ pc'[w] \in {"links", "push"}
      BY <1>1, <1>12, PlacesOf
    <2>4. out[w] \in Scheduled'
      BY <1>4, <2>3
    <2>5. QED
      BY <1>5, <1>8, <2>1, <2>2, <2>3, <2>4
  <1>13. QED
    BY <1>9, <1>10, <1>11, <1>12, AllSteps

LEMMA FilesStep ==
  ASSUME LinksInv, NEW w \in Workers, Step(w)
  PROVE  FilesAreRight'
  <1>1. Nothing.file \in Files
    BY DEF Nothing, PageLink, Files
  <1>2. ASSUME GetLink(w)
        PROVE  NextLink(w).file \in Files
    <2> DEFINE R == Resolved(page[w])
               n == Len(Web[Address(page[w])])
    <2>1. Address(page[w]) \in DOMAIN Web /\ \E done : FollowedTo(w, done)
      BY <1>2 DEF GetLink, Goto, LinksInv, PageFollowed, AtPage
    <2>2. PICK done : FollowedTo(w, done)
      BY <2>1
    <2>3. n \in Nat /\ \A i \in 1 .. n : R[i] = Unresolved \/ R[i].file \in Files
      BY <2>1, LinksOfPage DEF LinksInv, FilesAreRight
    <2>4. done \in 0 .. n /\ rest[w] = [j \in 1 .. n - done |-> R[done + j]]
      BY <2>2 DEF FollowedTo
    <2> HIDE DEF R, n
    <2>5. rest[w] # <<>> /\ NextLink(w) = Head(rest[w]) /\ NextLink(w) # Unresolved
      BY <1>2 DEF GetLink, NextLink
    <2>6. n - done # 0 /\ Head(rest[w]) = R[done + 1]
      <3> DEFINE m == n - done
                 f == [j \in 1 .. m |-> R[done + j]]
      <3>1. m \in Nat /\ rest[w] = [j \in 1 .. m |-> f[j]]
        BY <2>3, <2>4
      <3>2. m # 0 => f[1] = R[done + 1]
        BY <3>1
      <3> HIDE DEF m, f
      <3>3. m # 0 /\ Head(rest[w]) = f[1]
        BY <2>5, <3>1, HeadAndTail
      <3>4. QED
        BY <3>2, <3>3 DEF m
    <2>7. done + 1 \in 1 .. n
      BY <2>3, <2>4, <2>6
    <2>8. QED
      BY <2>3, <2>5, <2>6, <2>7
  <1>3. \A v \in Workers : page'[v].file \in Files
    <2>1. CASE ReadURL(w)
      <3>1. PICK pl \in BagToSet(frontier[w]) : page' = [page EXCEPT ![w] = pl]
        BY <2>1 DEF ReadURL
      <3>2. QED
        BY <3>1 DEF LinksInv, FilesAreRight, Shapes, WorkShapes
    <2>2. CASE ~ReadURL(w)
      <3>1. page' = page \/ page' = [page EXCEPT ![w] = Nothing]
        BY <2>2 DEF Step, Fail, Store, GetLink, EndOfLinks, Known, NotCached, CheckFile,
                          Promote, Demote, Add, Spill, AddURL
      <3>2. QED
        BY <1>1, <3>1 DEF LinksInv, FilesAreRight, Shapes, WorkShapes
    <2>3. QED
      BY <2>1, <2>2
  <1>4. \A v \in Workers : holder'[v].file \in Files
    <2>1. CASE GetLink(w)
      <3>1. holder' = holder \/ holder' = [holder EXCEPT ![w] = NextLink(w)]
        BY <2>1 DEF GetLink
      <3>2. QED
        BY <1>2, <2>1, <3>1 DEF LinksInv, FilesAreRight, Shapes, WorkShapes
    <2>2. CASE ~GetLink(w)
      <3>1. holder' = holder \/ holder' = [holder EXCEPT ![w] = Nothing]
        BY <2>2 DEF Step, ReadURL, Fail, Store, EndOfLinks, Known, NotCached, CheckFile,
                          Promote, Demote, Add, Spill, AddURL
      <3>2. QED
        BY <1>1, <3>1 DEF LinksInv, FilesAreRight, Shapes, WorkShapes
    <2>3. QED
      BY <2>1, <2>2
  <1>5. ASSUME NEW v \in Workers, NEW pl \in BagToSet(frontier'[v])
        PROVE  pl.file \in Files
    <2>1. CASE ReadURL(w)
      <3>1. PICK q : frontier' = [frontier EXCEPT ![w] = @ (-) One(q)]
        BY <2>1 DEF ReadURL
      <3>2. frontier'[v] = frontier[v] \/ frontier'[v] = frontier[v] (-) One(q)
        BY <3>1 DEF LinksInv, Shapes, WorkShapes
      <3>3. DOMAIN (frontier[v] (-) One(q)) \subseteq DOMAIN frontier[v]
        BY DEF (-)
      <3>4. pl \in BagToSet(frontier[v])
        BY <1>5, <3>2, <3>3 DEF BagToSet
      <3>5. QED
        BY <3>4 DEF LinksInv, FilesAreRight
    <2>2. CASE AddURL(w)
      <3> DEFINE q == holder[w]
                 to == Home(w)
      <3>1. frontier' = [frontier EXCEPT ![to] = @ (+) One(q)]
        BY <2>2 DEF AddURL
      <3> HIDE DEF to
      <3>2. frontier'[v] = frontier[v] \/ frontier'[v] = frontier[v] (+) One(q)
        BY <3>1 DEF LinksInv, Shapes, WorkShapes
      <3>3. DOMAIN (frontier[v] (+) One(q)) = DOMAIN frontier[v] \cup {q}
        <4> HIDE DEF q
        <4>1. DOMAIN One(q) = {q}
          BY DEF One, SetToBag
        <4>2. QED
          BY <4>1 DEF (+)
      <3>4. pl \in BagToSet(frontier[v]) \/ pl = q
        BY <1>5, <3>2, <3>3 DEF BagToSet
      <3>5. QED
        BY <3>4 DEF LinksInv, FilesAreRight
    <2>3. CASE ~ReadURL(w) /\ ~AddURL(w)
      <3>1. frontier' = frontier
        BY <2>3 DEF Step, Fail, Store, GetLink, EndOfLinks, Known, NotCached, CheckFile,
                          Promote, Demote, Add, Spill
      <3>2. QED
        BY <1>5, <3>1 DEF LinksInv, FilesAreRight
    <2>4. QED
      BY <2>1, <2>2, <2>3
  <1>6. QED
    BY <1>3, <1>4, <1>5 DEF FilesAreRight

(* What w is done with it stays done with, while it is at the page.              *)
LEMMA FollowedStays ==
  ASSUME NEW v \in Workers, NEW done, FollowedTo(v, done), Scheduled \subseteq Scheduled',
         page'[v] = page[v], rest'[v] = rest[v],
         \A pl : pc[v] \in {"check", "checkFile"} /\ pl = holder[v] =>
                   \/ Hash(pl) \in Scheduled'
                   \/ pc'[v] \in {"check", "checkFile"} /\ pl = holder'[v]
  PROVE  FollowedTo(v, done)'
  <1>1. \A pl : DoneWith(v, pl) => DoneWith(v, pl)'
    BY DEF DoneWith
  <1> DEFINE R == Resolved(page[v])
             n == Len(Web[Address(page[v])])
  <1>2. R' = R /\ n' = n
    BY DEF Resolved, Address
  <1>3. /\ done \in 0 .. n
        /\ rest[v] = [j \in 1 .. n - done |-> R[done + j]]
        /\ \A j \in 1 .. done : DoneWith(v, R[j])
    BY DEF FollowedTo
  <1> HIDE DEF R, n
  <1>4. \A j \in 1 .. done : DoneWith(v, R[j])'
    BY <1>1, <1>2, <1>3
  <1>5. /\ done \in 0 .. n'
        /\ rest'[v] = [j \in 1 .. n' - done |-> R'[done + j]]
    BY <1>2, <1>3
  <1>6. QED
    BY <1>2, <1>4, <1>5 DEF FollowedTo, R, n

(* The steps with a link in hand.                                                *)
AtLink(w) == \/ Known(w) \/ NotCached(w) \/ CheckFile(w) \/ Promote(w) \/ Demote(w)
             \/ Add(w) \/ Spill(w) \/ AddURL(w)

LEMMA FollowedStep ==
  ASSUME Hashing, LinksInv, NEW w \in Workers, Step(w), Shapes'
  PROVE  PageFollowed'
  <1>1. Scheduled \subseteq Scheduled'
    BY ScheduledStays DEF LinksInv
  <1>2. ASSUME NEW v \in Workers, v # w, pc'[v] \in AtPage
        PROVE  /\ Address(page'[v]) \in DOMAIN Web
               /\ \E done \in 0 .. Len(Web[Address(page'[v])]) : FollowedTo(v, done)'
    <2>1. pc'[v] = pc[v] /\ page'[v] = page[v] /\ rest'[v] = rest[v] /\ holder'[v] = holder[v]
      BY <1>2, OthersStay DEF LinksInv
    <2>2. Address(page[v]) \in DOMAIN Web
      BY <1>2, <2>1 DEF LinksInv, PageFollowed
    <2>3. PICK done \in 0 .. Len(Web[Address(page[v])]) : FollowedTo(v, done)
      BY <1>2, <2>1 DEF LinksInv, PageFollowed
    <2>4. FollowedTo(v, done)'
      BY <1>1, <2>1, <2>3, FollowedStays
    <2>5. QED
      BY <2>1, <2>2, <2>3, <2>4
  <1>3. ASSUME pc'[w] \in AtPage
        PROVE  /\ Address(page'[w]) \in DOMAIN Web
               /\ \E done \in 0 .. Len(Web[Address(page'[w])]) : FollowedTo(w, done)'
    <2>1. Store(w) \/ GetLink(w) \/ AtLink(w)
      <3>1. ~ReadURL(w) /\ ~Fail(w) /\ ~EndOfLinks(w)
        BY <1>3 DEF ReadURL, Fail, EndOfLinks, Goto, AtPage, LinksInv, Shapes, WorkShapes
      <3>2. QED
        BY <3>1, Zenon DEF Step, AtLink
    <2>2. page' = page
      BY <2>1 DEF Store, GetLink, AtLink, Known, NotCached, CheckFile, Promote, Demote, Add, Spill, AddURL
    <2> DEFINE R == Resolved(page[w])
               n == Len(Web[Address(page[w])])
    <2>3. R' = R /\ n' = n
      BY <2>2 DEF Resolved, Address
    <2>4. CASE Store(w)
      <3>1. Address(page[w]) \in DOMAIN Web /\ rest'[w] = R
        BY <2>4 DEF Store, LinksInv, Shapes, WorkShapes
      <3>2. n \in Nat /\ R = [i \in 1 .. n |-> R[i]]
        BY <3>1, LinksOfPage DEF LinksInv, FilesAreRight
      <3> HIDE DEF R, n
      <3>3. 0 \in 0 .. n /\ rest'[w] = [j \in 1 .. n - 0 |-> R[0 + j]]
        <4>1. \A j \in 1 .. n : 0 + j = j
          BY <3>2
        <4>2. [j \in 1 .. n - 0 |-> R[0 + j]] = [j \in 1 .. n |-> R[j]]
          BY <3>2, <4>1
        <4>3. QED
          BY <3>1, <3>2, <4>2
      <3>4. FollowedTo(w, 0)'
        BY <2>3, <3>3 DEF FollowedTo, R, n
      <3>5. QED
        BY <2>2, <3>1, <3>3, <3>4 DEF n
    <2>5. ASSUME ~Store(w)
          PROVE  pc[w] \in AtPage
      BY <2>1, <2>5, PlacesOf DEF LinksInv, GetLink, Goto, AtLink, AtPage
    <2>6. ASSUME ~Store(w)
          PROVE  Address(page[w]) \in DOMAIN Web /\ \E done \in 0 .. n : FollowedTo(w, done)
      BY <2>5, <2>6 DEF LinksInv, PageFollowed
    <2>7. CASE AtLink(w)
      <3>1. ~Store(w) /\ rest' = rest
        <4>1. rest' = rest
          BY <2>7 DEF AtLink, Known, NotCached, CheckFile, Promote, Demote, Add, Spill, AddURL
        <4>2. pc[w] # "fetch"
          BY <2>7, PlacesOf DEF LinksInv, AtLink
        <4>3. QED
          BY <4>1, <4>2 DEF Store, Goto
      <3>2. PICK done \in 0 .. n : FollowedTo(w, done)
        BY <2>6, <3>1
      <3>3. ASSUME NEW pl, pc[w] \in {"check", "checkFile"}, pl = holder[w]
            PROVE  \/ Hash(pl) \in Scheduled'
                   \/ pc'[w] \in {"check", "checkFile"} /\ pl = holder'[w]
        <4>1. Hash(pl) = Key(w) /\ Home(w) \in Workers /\ Shapes
          BY <3>3, KeysAndHomes DEF Key, LinksInv
        <4>2. CASE Known(w)
          <5>1. Holds(cache[Home(w)], Key(w))
            BY <4>2 DEF Known
          <5>2. Key(w) \in KeysOf(cache[Home(w)])
            BY <5>1 DEF Holds, KeysOf
          <5>3. Key(w) \in Scheduled
            BY <4>1, <5>2 DEF LinksInv, MarkedIsScheduled
          <5>4. QED
            BY <1>1, <4>1, <5>3
        <4>3. CASE NotCached(w)
          <5>1. pc'[w] = "checkFile" /\ holder' = holder
            BY <4>1, <4>3, PlacesOf DEF NotCached
          <5>2. QED
            BY <3>3, <5>1
        <4>4. CASE CheckFile(w)
          <5>1. CASE Key(w) \in file[Home(w)]
            <6>1. Key(w) \in Scheduled
              BY <4>1, <5>1 DEF LinksInv, MarkedIsScheduled
            <6>2. QED
              BY <1>1, <4>1, <6>1
          <5>2. CASE Key(w) \notin file[Home(w)]
            <6>1. pc'[w] = "add" /\ Key(w)' = Key(w)
              BY <4>1, <4>4, <5>2, PlacesOf
            <6>2. Key(w) \in Scheduled'
              BY <6>1 DEF Scheduled, InHands
            <6>3. QED
              BY <4>1, <6>2
          <5>3. QED
            BY <5>1, <5>2
        <4>5. CASE ~(Known(w) \/ NotCached(w) \/ CheckFile(w))
          BY <2>7, <3>3, <4>1, <4>5, PlacesOf DEF AtLink
        <4>6. QED
          BY <4>2, <4>3, <4>4, <4>5
      <3>4. page'[w] = page[w] /\ rest'[w] = rest[w]
        BY <2>2, <3>1
      <3>5. FollowedTo(w, done)'
        BY <1>1, <3>2, <3>3, <3>4, FollowedStays
      <3>6. QED
        BY <2>2, <2>6, <3>1, <3>2, <3>5
    <2>8. CASE GetLink(w)
      <3>1. ~Store(w) /\ pc[w] = "links"
        BY <2>8 DEF GetLink, Goto, Store
      <3>2. PICK done \in 0 .. n : FollowedTo(w, done)
        BY <2>6, <3>1
      <3>3. n \in Nat
        BY <2>6, <3>1, LinksOfPage DEF LinksInv, FilesAreRight
      <3>4. /\ rest[w] = [j \in 1 .. n - done |-> R[done + j]]
            /\ \A j \in 1 .. done : DoneWith(w, R[j])
        BY <3>2 DEF FollowedTo
      <3>5. /\ rest[w] # <<>> /\ NextLink(w) = Head(rest[w]) /\ NextLink(w) # Unresolved
            /\ rest'[w] = Tail(rest[w])
        BY <2>8 DEF GetLink, NextLink, LinksInv, Shapes, WorkShapes
      <3> DEFINE m == n - done
                 f == [j \in 1 .. m |-> R[done + j]]
      <3>6. m \in Nat /\ rest[w] = [j \in 1 .. m |-> f[j]]
        <4> HIDE DEF R, n
        <4>1. QED
          BY <3>3, <3>4
      <3>7. m # 0 /\ Head(rest[w]) = f[1] /\ Tail(rest[w]) = [j \in 1 .. m - 1 |-> f[j + 1]]
        <4> HIDE DEF m, f
        <4>1. QED
          BY <3>5, <3>6, HeadAndTail
      <3>8. done + 1 \in 0 .. n /\ NextLink(w) = R[done + 1]
        <4> HIDE DEF R, n
        <4>1. f[1] = R[done + 1]
          BY <3>6, <3>7
        <4>2. QED
          BY <3>3, <3>5, <3>6, <3>7, <4>1
      <3>9. rest'[w] = [j \in 1 .. n - (done + 1) |-> R[(done + 1) + j]]
        <4> HIDE DEF R, n
        <4>1. m - 1 = n - (done + 1)
          BY <3>3
        <4>2. \A j \in 1 .. m - 1 : f[j + 1] = R[(done + 1) + j]
          <5> SUFFICES ASSUME NEW j \in 1 .. m - 1
                       PROVE  f[j + 1] = R[(done + 1) + j]
            OBVIOUS
          <5>1. j + 1 \in 1 .. m /\ done + (j + 1) = (done + 1) + j
            BY <3>3, <3>6
          <5>2. QED
            BY <5>1
        <4> HIDE DEF m, f
        <4>3. QED
          BY <3>5, <3>7, <4>1, <4>2
      <3>10. Filtered(NextLink(w)) \/ (pc'[w] = "check" /\ holder'[w] = NextLink(w))
        BY <2>8 DEF GetLink, Goto, LinksInv, Shapes, WorkShapes
      <3>11. ASSUME NEW pl, pl = R[done + 1]
             PROVE  DoneWith(w, pl)'
        BY <3>5, <3>8, <3>10, <3>11 DEF DoneWith
      <3>12. ASSUME NEW pl, DoneWith(w, pl)
             PROVE  DoneWith(w, pl)'
        BY <1>1, <3>1, <3>12 DEF DoneWith
      <3>13. \A j \in 1 .. done + 1 : DoneWith(w, R[j])'
        <4>1. \A j \in 1 .. done + 1 : j \in 1 .. done \/ j = done + 1
          BY <3>3
        <4> HIDE DEF R, n, m
        <4>2. \A pl : (\E j \in 1 .. done + 1 : pl = R[j]) => DoneWith(w, pl)'
          BY <3>4, <3>11, <3>12, <4>1
        <4>3. \A j \in 1 .. done + 1 : \A pl : pl = R[j] => DoneWith(w, pl)'
          BY <4>2
        <4>4. QED
          BY <2>3, <4>3
      <3> HIDE DEF m, f
      <3>14. FollowedTo(w, done + 1)'
        <4> HIDE DEF R, n
        <4>1. /\ done + 1 \in 0 .. n'
              /\ rest'[w] = [j \in 1 .. n' - (done + 1) |-> R'[(done + 1) + j]]
          BY <2>3, <3>8, <3>9
        <4>2. QED
          BY <3>13, <4>1 DEF FollowedTo, R, n
      <3>15. QED
        BY <2>2, <2>6, <3>1, <3>8, <3>14
    <2>9. QED
      BY <2>1, <2>4, <2>7, <2>8
  <1>4. QED
    BY <1>2, <1>3 DEF PageFollowed

LEMMA LinksSeed ==
  ASSUME Hashing, LinksInv, PushSeed
  PROVE  LinksInv'
  <1>1. /\ page' = page /\ rest' = rest /\ holder' = holder /\ pc' = pc
        /\ \A w \in Workers : pc[w] = "loop"
        /\ nextLine \in 1 .. Len(Seeds) /\ Shapes'
    BY SeedSteps DEF LinksInv
  <1>2. PICK m \in Workers, hash \in SeedHashes(Seeds[nextLine]) :
          /\ hash \in Keys
          /\ frontier' = [frontier EXCEPT ![m] = @ (+) One(Seeds[nextLine])]
          /\ pushed' = pushed (+) One(hash)
          /\ cache'[m] = Inserted(cache[m], hash)
          /\ file'[m] = IF Full(cache[m]) THEN file[m] \cup {Evicted(cache[m])} ELSE file[m]
          /\ \A v \in Workers : v # m => cache'[v] = cache[v] /\ file'[v] = file[v]
    BY SeedSteps DEF LinksInv
  <1>3. Scheduled \subseteq Scheduled' /\ hash \in Scheduled'
    <2>1. DOMAIN pushed' = DOMAIN pushed \cup {hash}
      BY <1>2, OneMore DEF LinksInv
    <2>2. InHands = {}
      BY <1>1 DEF InHands
    <2>3. QED
      BY <2>1, <2>2 DEF Scheduled, BagToSet
  <1>4. FilesAreRight'
    <2>1. Seeds[nextLine].file \in Files
      BY <1>1, ThreadWorkAssumption
    <2>2. ASSUME NEW v \in Workers, NEW pl \in BagToSet(frontier'[v])
          PROVE  pl.file \in Files
      <3> DEFINE q == Seeds[nextLine]
      <3>1. frontier'[v] = frontier[v] \/ frontier'[v] = frontier[v] (+) One(q)
        BY <1>2 DEF LinksInv, Shapes, WorkShapes
      <3>2. DOMAIN (frontier[v] (+) One(q)) = DOMAIN frontier[v] \cup {q}
        <4> HIDE DEF q
        <4>1. DOMAIN One(q) = {q}
          BY DEF One, SetToBag
        <4>2. QED
          BY <4>1 DEF (+)
      <3>3. pl \in BagToSet(frontier[v]) \/ pl = q
        BY <2>2, <3>1, <3>2 DEF BagToSet
      <3>4. QED
        BY <2>1, <3>3 DEF LinksInv, FilesAreRight
    <2>3. QED
      BY <1>1, <2>2 DEF LinksInv, FilesAreRight
  <1>5. MarkedIsScheduled'
    <2>1. PICK lru : lru = cache[m]
      OBVIOUS
    <2>2. lru \in Seq(Keys) /\ Len(lru) <= MAX_LRU
      BY <2>1 DEF LinksInv, Shapes, SeenShapes
    <2>3. /\ KeysOf(Inserted(lru, hash)) \subseteq KeysOf(lru) \cup {hash}
          /\ Full(lru) => Evicted(lru) \in KeysOf(lru)
      BY <1>2, <2>2, InsertedKeys
    <2>4. \A v \in Workers : KeysOf(cache[v]) \cup file[v] \subseteq Scheduled'
      BY <1>3 DEF LinksInv, MarkedIsScheduled
    <2>5. KeysOf(cache'[m]) \subseteq KeysOf(lru) \cup {hash}
      BY <1>2, <2>1, <2>3, Zenon
    <2>6. file'[m] \subseteq file[m] \cup KeysOf(lru)
      BY <1>2, <2>1, <2>3
    <2>7. KeysOf(cache'[m]) \cup file'[m] \subseteq Scheduled'
      BY <1>3, <2>1, <2>4, <2>5, <2>6
    <2>8. QED
      BY <1>1, <1>2, <2>4, <2>7 DEF MarkedIsScheduled
  <1>6. PageFollowed'
    BY <1>1 DEF PageFollowed, AtPage
  <1>7. QED
    BY <1>1, <1>4, <1>5, <1>6 DEF LinksInv

LEMMA LinksStep == Hashing /\ LinksInv /\ [Next]_vars => LinksInv'
  <1> SUFFICES ASSUME Hashing, LinksInv, [Next]_vars
               PROVE  LinksInv'
    OBVIOUS
  <1>1. Shapes'
    BY ShapesKept DEF LinksInv
  <1>2. CASE UNCHANGED vars
    <2>1. /\ UNCHANGED <<cache, file, out, frontier, pushed, pc, page, rest, holder>>
      BY <1>2 DEF vars
    <2>2. Scheduled' = Scheduled
      BY <2>1 DEF Scheduled, InHands, Key
    <2>3. FilesAreRight' /\ MarkedIsScheduled'
      BY <2>1, <2>2 DEF LinksInv, FilesAreRight, MarkedIsScheduled
    <2>4. \A v \in Workers : \A done : FollowedTo(v, done) => FollowedTo(v, done)'
      BY <2>1, <2>2, FollowedStays
    <2>5. PageFollowed'
      BY <2>1, <2>4 DEF LinksInv, PageFollowed
    <2>6. QED
      BY <1>1, <2>3, <2>5 DEF LinksInv
  <1>3. ASSUME NEW w \in Workers, Step(w)
        PROVE  LinksInv'
    BY <1>1, <1>3, FilesStep, MarkedStep, FollowedStep DEF LinksInv
  <1>4. QED
    BY <1>2, <1>3, LinksSeed DEF Next

(* Where getLink stops, each link before that place is filtered or scheduled.    *)
LEMMA EndMeansScheduled ==
  ASSUME LinksInv, NEW w \in Workers, EndOfLinks(w), NEW pl \in LinksOf(page[w])
  PROVE  Hash(pl) \in Scheduled
  <1> DEFINE R == Resolved(page[w])
             links == Web[Address(page[w])]
             n == Len(links)
             ts == [i \in 1 .. n |-> Target(page[w], links[i])]
  <1>1. pc[w] = "links" /\ NextLink(w) = Unresolved
    BY DEF EndOfLinks, Goto
  <1>2. Address(page[w]) \in DOMAIN Web /\ \E done \in 0 .. n : FollowedTo(w, done)
    BY <1>1 DEF LinksInv, PageFollowed, AtPage
  <1>3. n \in Nat /\ \A i \in 1 .. n : R[i] = ts[i]
    BY <1>2, LinksOfPage DEF LinksInv, FilesAreRight
  <1>4. PICK done \in 0 .. n : FollowedTo(w, done)
    BY <1>2
  <1>5. /\ rest[w] = [j \in 1 .. n - done |-> R[done + j]]
        /\ \A j \in 1 .. done : DoneWith(w, R[j])
    BY <1>4 DEF FollowedTo
  <1>6. PICK i \in 1 .. n : /\ pl = ts[i] /\ \A k \in 1 .. i : ts[k] # Unresolved
                            /\ ~ \E j \in 1 .. n : pl = ts[j] /\ ts[j] # Unresolved /\ Filtered(ts[j])
    BY DEF LinksOf
  <1> HIDE DEF R, links, n, ts
  <1>7. ~Filtered(pl)
    BY <1>3, <1>6
  <1>8. i \in 1 .. done
    <2> SUFFICES ASSUME i > done
                 PROVE  FALSE
      BY <1>3, <1>6
    <2> DEFINE q == n - done
               f == [j \in 1 .. q |-> R[done + j]]
    <2>1. q \in Nat \ {0} /\ rest[w] = [j \in 1 .. q |-> f[j]] /\ f[1] = R[done + 1]
      BY <1>3, <1>4, <1>5
    <2> HIDE DEF q, f
    <2>2. rest[w] # <<>> /\ Head(rest[w]) = R[done + 1]
      BY <2>1, HeadAndTail
    <2>3. R[done + 1] = Unresolved
      BY <1>1, <2>2 DEF NextLink
    <2>4. done + 1 \in 1 .. i /\ done + 1 \in 1 .. n
      BY <1>3, <1>4, <1>6
    <2>5. QED
      BY <1>3, <1>6, <2>3, <2>4
  <1>9. DoneWith(w, pl)
    BY <1>3, <1>5, <1>6, <1>8
  <1>10. QED
    BY <1>1, <1>7, <1>9 DEF DoneWith

(* When the loop over a page is over, no link on it has been lost, whoever       *)
(* marked it and however it went from a cache to a file and back: a URL with its *)
(* hash is pushed, or about to be.  Hashes select workers, and may be shared.    *)
THEOREM NoLinkIsLost == Hashing => (Spec => LinksAreScheduled)
  <1> SUFFICES ASSUME Hashing
               PROVE  Spec => LinksAreScheduled
    OBVIOUS
  <1>1. LinksInv /\ [Next]_vars => LinksInv'
    BY LinksStep
  <1>2. LinksInv /\ [Next]_vars =>
          [\A w \in Workers : pc[w] = "links" /\ pc'[w] = "loop" =>
             \A pl \in LinksOf(page[w]) : Hash(pl) \in BagToSet(pushed) \cup InHands]_vars
    <2> SUFFICES ASSUME LinksInv, [Next]_vars, vars' # vars,
                        NEW w \in Workers, pc[w] = "links", pc'[w] = "loop",
                        NEW pl \in LinksOf(page[w])
                 PROVE  Hash(pl) \in Scheduled
      BY DEF Scheduled
    <2>1. PICK v \in Workers : Step(v)
      <3>1. ~PushSeed
        BY SeedSteps DEF LinksInv
      <3>2. QED
        BY <3>1 DEF Next
    <2>2. v = w
      <3> SUFFICES ASSUME v # w
                   PROVE  FALSE
        OBVIOUS
      <3>1. pc'[w] = pc[w]
        BY <2>1, OthersStay DEF LinksInv
      <3>2. QED
        BY <3>1
    <2>3. EndOfLinks(w)
      <3>1. ~(GetLink(w) \/ Store(w))
        BY DEF GetLink, Store, Goto, LinksInv, Shapes, WorkShapes
      <3>2. ~(ReadURL(w) \/ Fail(w))
        BY DEF ReadURL, Fail, Goto
      <3>3. QED
        BY <2>1, <2>2, <3>1, <3>2, PlacesOf DEF Step, LinksInv
    <2>4. QED
      BY <2>3, EndMeansScheduled
  <1>3. Init => LinksInv
    BY LinksAtStart
  <1>4. QED
    BY <1>1, <1>2, <1>3, PTL DEF Spec, LinksAreScheduled

-----------------------------------------------------------------------------
(* The pages come from rio: what is put together from the chunks of a response.  *)
(* A digit of a size is none of the characters that end it.                      *)
LEMMA Digits ==
  /\ Digit \subseteq Char
  /\ "CR" \notin Digit /\ "LF" \notin Digit /\ ";" \notin Digit
  <1>1. \A i \in DOMAIN HexDigits :
          HexDigits[i] \in {"0", "1", "2", "3", "4", "5", "6", "7", "8", "9",
                            "a", "b", "c", "d", "e", "f"}
    BY DEF HexDigits
  <1>2. QED
    BY <1>1 DEF Digit, Char

(* Sequences that each go on where the one before ends all begin the last one.   *)
GoesOn(S, m, s) == \A i \in 1 .. m : \E x \in Seq(S) : s[i] = s[i - 1] \o x

Begin(m, s) == \A k \in 0 .. m : /\ Len(s[k]) <= Len(s[m])
                                 /\ \A j \in 1 .. Len(s[k]) : s[m][j] = s[k][j]

LEMMA PartsBegin ==
  ASSUME NEW S, NEW m \in Nat, NEW s \in [0 .. m -> Seq(S)], GoesOn(S, m, s)
  PROVE  Begin(m, s)
  <1> DEFINE Begins(k) == /\ Len(s[k]) <= Len(s[m])
                          /\ \A j \in 1 .. Len(s[k]) : s[m][j] = s[k][j]
             bad == {d \in 0 .. m : ~Begins(m - d)}
  <1>1. Begins(m)
    OBVIOUS
  <1>2. ASSUME NEW k \in 1 .. m, Begins(k)
        PROVE  Begins(k - 1)
    <2>1. PICK x \in Seq(S) : s[k] = s[k - 1] \o x
      BY DEF GoesOn
    <2>2. s[k - 1] \in Seq(S) /\ s[k] \in Seq(S) /\ s[m] \in Seq(S)
      OBVIOUS
    <2>3. /\ Len(s[k]) = Len(s[k - 1]) + Len(x)
          /\ \A j \in 1 .. Len(s[k - 1]) : s[k][j] = s[k - 1][j]
      BY <2>1, <2>2, ConcatProperties, LenProperties
    <2>4. Len(s[k]) \in Nat /\ Len(s[k - 1]) \in Nat /\ Len(x) \in Nat /\ Len(s[m]) \in Nat
      BY <2>2, LenProperties
    <2>5. QED
      BY <1>2, <2>3, <2>4
  <1> HIDE DEF Begins
  <1>3. bad = {}
    <2> SUFFICES ASSUME bad # {}
                 PROVE  FALSE
      OBVIOUS
    <2>1. PICK d \in bad : \A e \in bad : d <= e
      <3>1. bad \subseteq Nat
        OBVIOUS
      <3> HIDE DEF bad
      <3>2. QED
        BY <3>1, LeastNatural
    <2>2. d # 0
      BY <1>1, <2>1
    <2>3. d \in 1 .. m /\ ~Begins(m - d)
      BY <2>1, <2>2
    <2>4. Begins(m - d + 1)
      <3>1. d - 1 \in 0 .. m /\ m - (d - 1) = m - d + 1
        BY <2>3
      <3>2. d - 1 \notin bad
        <4> HIDE DEF bad
        <4>1. QED
          BY <2>1, <2>3
      <3>3. QED
        BY <3>1, <3>2
    <2>5. m - d + 1 \in 1 .. m /\ m - d + 1 - 1 = m - d
      BY <2>3
    <2>6. Begins(m - d)
      BY <1>2, <2>4, <2>5
    <2>7. QED
      BY <2>3, <2>6
  <1>4. ASSUME NEW k \in 0 .. m
        PROVE  Begins(k)
    <2>1. m - k \in 0 .. m /\ m - (m - k) = k
      OBVIOUS
    <2>2. QED
      BY <1>3, <2>1
  <1>5. QED
    BY <1>4 DEF Begins, Begin

(* What the server has sent after each chunk, and what it has said with it.      *)
EndOfChunk == <<"CR", "LF">>

SentParts(chunks, s) ==
  /\ s \in [0 .. Len(chunks) -> Seq(Char)]
  /\ s[0] = <<>>
  /\ \A i \in 1 .. Len(chunks) :
       s[i] = s[i - 1] \o Line(chunks[i]) \o chunks[i].data \o EndOfChunk
  /\ Sent(chunks) = s[Len(chunks)]

MeantParts(chunks, b) ==
  /\ b \in [0 .. Len(chunks) -> Seq(Char)]
  /\ b[0] = <<>>
  /\ \A i \in 1 .. Len(chunks) : b[i] = b[i - 1] \o chunks[i].data
  /\ Meant(chunks) = b[Len(chunks)]

LEMMA ChunkIs ==
  ASSUME NEW chunks \in Responses
  PROVE  /\ Len(chunks) \in Nat \ {0}
         /\ \A i \in 1 .. Len(chunks) :
              /\ chunks[i].digits \in Seq(Digit) /\ chunks[i].ext \in BOOLEAN
              /\ chunks[i].data \in Seq(Char)
              /\ Len(chunks[i].digits) \in Nat \ {0}
              /\ Len(chunks[i].data) = ValueOf(chunks[i].digits)
              /\ Len(chunks[i].data) = 0 <=> i = Len(chunks)
  <1> DEFINE C == [digits : Seq(Digit), ext : BOOLEAN, data : Seq(Char)]
  <1>1. chunks \in Seq(C) /\ chunks # <<>> /\ TmpLen \in Nat
    BY RioAssumption
  <1>2. Len(chunks) \in Nat \ {0}
    <2> HIDE DEF C
    <2>1. QED
      BY <1>1, LenProperties, EmptySeq
  <1>3. ASSUME NEW i \in 1 .. Len(chunks)
        PROVE  chunks[i] \in C
    <2> HIDE DEF C
    <2>1. QED
      BY <1>1, ElementOfSeq
  <1>4. ASSUME NEW i \in 1 .. Len(chunks)
        PROVE  /\ chunks[i].digits # <<>>
               /\ Len(chunks[i].data) = ValueOf(chunks[i].digits)
               /\ chunks[i].data = <<>> <=> i = Len(chunks)
    BY RioAssumption
  <1>5. ASSUME NEW i \in 1 .. Len(chunks)
        PROVE  /\ chunks[i].digits \in Seq(Digit) /\ chunks[i].ext \in BOOLEAN
               /\ chunks[i].data \in Seq(Char)
    BY <1>3
  <1>6. ASSUME NEW i \in 1 .. Len(chunks)
        PROVE  Len(chunks[i].data) = 0 <=> i = Len(chunks)
    <2>1. chunks[i].data \in Seq(Char)
      BY <1>5
    <2>2. Len(chunks[i].data) = 0 <=> chunks[i].data = <<>>
      BY <2>1, EmptySeq, LenProperties
    <2>3. QED
      BY <1>4, <2>2
  <1>7. ASSUME NEW i \in 1 .. Len(chunks)
        PROVE  Len(chunks[i].digits) \in Nat \ {0}
    <2>1. PICK t : t = chunks[i].digits
      OBVIOUS
    <2>2. t \in Seq(Digit)
      BY <1>5, <2>1
    <2>3. t # <<>>
      BY <1>4, <2>1
    <2>4. Len(t) \in Nat \ {0}
      BY <2>2, <2>3, EmptySeq, LenProperties
    <2>5. QED
      BY <2>1, <2>4
  <1>8. QED
    BY <1>1, <1>2, <1>4, <1>5, <1>6, <1>7

LEMMA Pair ==
  ASSUME NEW S, NEW x \in S, NEW y \in S
  PROVE  <<x, y>> \in Seq(S) /\ Len(<<x, y>>) = 2 /\ <<x, y>>[1] = x /\ <<x, y>>[2] = y
OBVIOUS

LEMMA LineIs ==
  ASSUME NEW chunks \in Responses, NEW i \in 1 .. Len(chunks)
  PROVE  /\ Line(chunks[i]) \in Seq(Char)
         /\ EndOfChunk \in Seq(Char)
  <1>1. chunks[i].digits \in Seq(Char)
    BY ChunkIs, Digits, SeqMonotonic
  <1>2. EndOfChunk \in Seq(Char) /\ <<"CR", "LF">> \in Seq(Char)
    <2>1. "CR" \in Char /\ "LF" \in Char
      BY DEF Char
    <2>2. QED
      BY <2>1, Pair DEF EndOfChunk
  <1>3. (IF chunks[i].ext THEN <<";", "x">> ELSE <<>>) \in Seq(Char)
    <2>1. ";" \in Char /\ "x" \in Char
      BY DEF Char
    <2>2. <<";", "x">> \in Seq(Char)
      BY <2>1, Pair
    <2>3. <<>> \in Seq(Char)
      BY EmptySeq
    <2>4. QED
      BY <2>2, <2>3
  <1>4. Line(chunks[i]) \in Seq(Char)
    BY <1>1, <1>2, <1>3, ConcatProperties DEF Line
  <1>5. QED
    BY <1>2, <1>4

LEMMA SentInParts ==
  ASSUME NEW chunks \in Responses
  PROVE  \E s : SentParts(chunks, s)
  <1> DEFINE m == Len(chunks)
             S == Seq(Char)
             On(t, i) == t \o Line(chunks[i]) \o chunks[i].data \o <<"CR", "LF">>
             step == [x \in S \X (1 .. m) |-> On(x[1], x[2])]
             All(s) == [i \in 0 .. m |-> IF i = 0 THEN <<>>
                        ELSE s[i - 1] \o Line(chunks[i]) \o chunks[i].data \o <<"CR", "LF">>]
             all == CHOOSE s : s = All(s)
  <1>1. m \in Nat
    BY ChunkIs
  <1>0. \A s : All(s) = [i \in 0 .. m |-> IF i = 0 THEN <<>> ELSE On(s[i - 1], i)]
    OBVIOUS
  <1>2. ASSUME NEW t \in S, NEW i \in 1 .. m
        PROVE  On(t, i) \in S
    <2>1. Line(chunks[i]) \in S /\ chunks[i].data \in S /\ <<"CR", "LF">> \in S
      BY ChunkIs, LineIs DEF EndOfChunk
    <2>2. t \o Line(chunks[i]) \in S
      BY <2>1, ConcatProperties
    <2>3. t \o Line(chunks[i]) \o chunks[i].data \in S
      BY <2>1, <2>2, ConcatProperties
    <2>4. QED
      BY <2>1, <2>3, ConcatProperties
  <1>3. <<>> \in S
    BY EmptySeq
  <1>4. step \in [S \X (1 .. m) -> S]
    <2> HIDE DEF S, m, On
    <2>1. QED
      BY <1>2
  <1>5. PICK s : Steps(s, S, <<>>, m, step)
    <2> HIDE DEF S, m, step
    <2>1. QED
      BY <1>1, <1>3, <1>4, StepsExist
  <1>6. /\ s \in [0 .. m -> S] /\ s[0] = <<>>
        /\ \A i \in 1 .. m : s[i] = On(s[i - 1], i)
    <2>1. s \in [0 .. m -> S] /\ s[0] = <<>> /\ \A i \in 1 .. m : s[i] = step[<<s[i - 1], i>>]
      <3> HIDE DEF S, m, step
      <3>1. QED
        BY <1>5 DEF Steps
    <2> HIDE DEF S, m, On
    <2>2. ASSUME NEW i \in 1 .. m
          PROVE  s[i] = On(s[i - 1], i)
      <3>1. s[i - 1] \in S
        BY <1>1, <2>1
      <3>2. QED
        BY <2>1, <3>1
    <2>3. QED
      BY <2>1, <2>2
  <1>7. s = All(s)
    <2> HIDE DEF S, m, On, All
    <2>1. \A i \in 0 .. m : s[i] = IF i = 0 THEN <<>> ELSE On(s[i - 1], i)
      BY <1>1, <1>6
    <2>2. s = [i \in 0 .. m |-> IF i = 0 THEN <<>> ELSE On(s[i - 1], i)]
      BY <1>6, <2>1
    <2>3. QED
      BY <1>0, <2>2
  <1>8. all = All(all)
    <2> HIDE DEF All
    <2>1. QED
      BY <1>7
  <1>9. Sent(chunks) = all[m]
    BY DEF Sent
  <1>10. all \in [0 .. m -> S]
    <2> DEFINE off == {i \in 0 .. m : all[i] \notin S}
    <2>1. all = [i \in 0 .. m |-> all[i]]
      <3> HIDE DEF all
      <3>1. QED
        BY <1>8
    <2>2. /\ all[0] = <<>>
          /\ \A i \in 1 .. m : all[i] = On(all[i - 1], i)
      <3>1. all = [i \in 0 .. m |-> IF i = 0 THEN <<>> ELSE On(all[i - 1], i)]
        <4> HIDE DEF all, All, On
        <4>1. QED
          BY <1>0, <1>8
      <3> HIDE DEF all, m, On
      <3>2. QED
        BY <1>1, <3>1
    <2> HIDE DEF all, m, On, S
    <2>3. off = {}
      <3> SUFFICES ASSUME off # {}
                   PROVE  FALSE
        OBVIOUS
      <3>1. PICK d \in off : \A e \in off : d <= e
        <4>1. off \subseteq Nat
          BY <1>1
        <4> HIDE DEF off
        <4>2. QED
          BY <4>1, LeastNatural
      <3>2. d \in 1 .. m /\ all[d] \notin S
        BY <1>1, <1>3, <2>2, <3>1
      <3>3. d - 1 \in 0 .. m /\ d - 1 \notin off
        <4> HIDE DEF off
        <4>1. QED
          BY <1>1, <3>1, <3>2
      <3>4. QED
        BY <1>2, <2>2, <3>2, <3>3
    <2>4. QED
      BY <2>1, <2>3
  <1>11. SentParts(chunks, all)
    <2>1. /\ all[0] = <<>>
          /\ \A i \in 1 .. m : all[i] = On(all[i - 1], i)
      <3>1. all = [i \in 0 .. m |-> IF i = 0 THEN <<>> ELSE On(all[i - 1], i)]
        <4> HIDE DEF all, All, On
        <4>1. QED
          BY <1>0, <1>8
      <3> HIDE DEF all, m, On
      <3>2. QED
        BY <1>1, <3>1
    <2> HIDE DEF all
    <2>2. QED
      BY <1>9, <1>10, <2>1 DEF SentParts, EndOfChunk
  <1>12. QED
    BY <1>11

LEMMA MeantInParts ==
  ASSUME NEW chunks \in Responses
  PROVE  \E s : MeantParts(chunks, s)
  <1> DEFINE m == Len(chunks)
             S == Seq(Char)
             On(t, i) == t \o chunks[i].data
             step == [x \in S \X (1 .. m) |-> On(x[1], x[2])]
             All(s) == [i \in 0 .. m |-> IF i = 0 THEN <<>> ELSE s[i - 1] \o chunks[i].data]
             all == CHOOSE s : s = All(s)
  <1>1. m \in Nat
    BY ChunkIs
  <1>0. \A s : All(s) = [i \in 0 .. m |-> IF i = 0 THEN <<>> ELSE On(s[i - 1], i)]
    OBVIOUS
  <1>2. ASSUME NEW t \in S, NEW i \in 1 .. m
        PROVE  On(t, i) \in S
    <2>1. chunks[i].data \in S
      BY ChunkIs
    <2>2. QED
      BY <2>1, ConcatProperties
  <1>3. <<>> \in S
    BY EmptySeq
  <1>4. step \in [S \X (1 .. m) -> S]
    <2> HIDE DEF S, m, On
    <2>1. QED
      BY <1>2
  <1>5. PICK s : Steps(s, S, <<>>, m, step)
    <2> HIDE DEF S, m, step
    <2>1. QED
      BY <1>1, <1>3, <1>4, StepsExist
  <1>6. /\ s \in [0 .. m -> S] /\ s[0] = <<>>
        /\ \A i \in 1 .. m : s[i] = On(s[i - 1], i)
    <2>1. s \in [0 .. m -> S] /\ s[0] = <<>> /\ \A i \in 1 .. m : s[i] = step[<<s[i - 1], i>>]
      <3> HIDE DEF S, m, step
      <3>1. QED
        BY <1>5 DEF Steps
    <2> HIDE DEF S, m, On
    <2>2. ASSUME NEW i \in 1 .. m
          PROVE  s[i] = On(s[i - 1], i)
      <3>1. s[i - 1] \in S
        BY <1>1, <2>1
      <3>2. QED
        BY <2>1, <3>1
    <2>3. QED
      BY <2>1, <2>2
  <1>7. s = All(s)
    <2> HIDE DEF S, m, On, All
    <2>1. \A i \in 0 .. m : s[i] = IF i = 0 THEN <<>> ELSE On(s[i - 1], i)
      BY <1>1, <1>6
    <2>2. s = [i \in 0 .. m |-> IF i = 0 THEN <<>> ELSE On(s[i - 1], i)]
      BY <1>6, <2>1
    <2>3. QED
      BY <1>0, <2>2
  <1>8. all = All(all)
    <2> HIDE DEF All
    <2>1. QED
      BY <1>7
  <1>9. Meant(chunks) = all[m]
    BY DEF Meant
  <1>10. all \in [0 .. m -> S]
    <2> DEFINE off == {i \in 0 .. m : all[i] \notin S}
    <2>1. all = [i \in 0 .. m |-> all[i]]
      <3> HIDE DEF all
      <3>1. QED
        BY <1>8
    <2>2. /\ all[0] = <<>>
          /\ \A i \in 1 .. m : all[i] = On(all[i - 1], i)
      <3>1. all = [i \in 0 .. m |-> IF i = 0 THEN <<>> ELSE On(all[i - 1], i)]
        <4> HIDE DEF all, All, On
        <4>1. QED
          BY <1>0, <1>8
      <3> HIDE DEF all, m, On
      <3>2. QED
        BY <1>1, <3>1
    <2> HIDE DEF all, m, On, S
    <2>3. off = {}
      <3> SUFFICES ASSUME off # {}
                   PROVE  FALSE
        OBVIOUS
      <3>1. PICK d \in off : \A e \in off : d <= e
        <4>1. off \subseteq Nat
          BY <1>1
        <4> HIDE DEF off
        <4>2. QED
          BY <4>1, LeastNatural
      <3>2. d \in 1 .. m /\ all[d] \notin S
        BY <1>1, <1>3, <2>2, <3>1
      <3>3. d - 1 \in 0 .. m /\ d - 1 \notin off
        <4> HIDE DEF off
        <4>1. QED
          BY <1>1, <3>1, <3>2
      <3>4. QED
        BY <1>2, <2>2, <3>2, <3>3
    <2>4. QED
      BY <2>1, <2>3
  <1>11. MeantParts(chunks, all)
    <2>1. /\ all[0] = <<>>
          /\ \A i \in 1 .. m : all[i] = On(all[i - 1], i)
      <3>1. all = [i \in 0 .. m |-> IF i = 0 THEN <<>> ELSE On(all[i - 1], i)]
        <4> HIDE DEF all, All, On
        <4>1. QED
          BY <1>0, <1>8
      <3> HIDE DEF all, m, On
      <3>2. QED
        BY <1>1, <3>1
    <2> HIDE DEF all
    <2>2. QED
      BY <1>9, <1>10, <2>1 DEF MeantParts
  <1>12. QED
    BY <1>11

(* Two, and four, sequences one after the other.                                 *)
LEMMA TwoParts ==
  ASSUME NEW S, NEW a \in Seq(S), NEW b \in Seq(S)
  PROVE  /\ a \o b \in Seq(S)
         /\ Len(a) \in Nat /\ Len(b) \in Nat /\ Len(a \o b) = Len(a) + Len(b)
         /\ \A j \in 1 .. Len(a) : (a \o b)[j] = a[j]
         /\ \A j \in 1 .. Len(b) : (a \o b)[Len(a) + j] = b[j]
  <1>1. Len(a) \in Nat /\ Len(b) \in Nat
    BY LenProperties
  <1>2. /\ a \o b \in Seq(S)
        /\ Len(a \o b) = Len(a) + Len(b)
        /\ \A i \in 1 .. Len(a) + Len(b) :
             (a \o b)[i] = IF i <= Len(a) THEN a[i] ELSE b[i - Len(a)]
    BY ConcatProperties
  <1>3. ASSUME NEW j \in 1 .. Len(b)
        PROVE  (a \o b)[Len(a) + j] = b[j]
    <2>1. Len(a) + j \in 1 .. Len(a) + Len(b) /\ ~ (Len(a) + j <= Len(a))
          /\ Len(a) + j - Len(a) = j
      BY <1>1
    <2>2. QED
      BY <1>2, <2>1
  <1>4. ASSUME NEW j \in 1 .. Len(a)
        PROVE  (a \o b)[j] = a[j]
    BY <1>1, <1>2
  <1>5. QED
    BY <1>1, <1>2, <1>3, <1>4

FourIn(S, a, b, d, e, all) ==
  /\ Len(all) = Len(a) + Len(b) + Len(d) + Len(e)
  /\ \A j \in 1 .. Len(a) : all[j] = a[j]
  /\ \A j \in 1 .. Len(b) : all[Len(a) + j] = b[j]
  /\ \A j \in 1 .. Len(d) : all[Len(a) + Len(b) + j] = d[j]
  /\ \A j \in 1 .. Len(e) : all[Len(a) + Len(b) + Len(d) + j] = e[j]
  /\ \E r \in Seq(S) : all = a \o r

LEMMA FourParts ==
  ASSUME NEW S, NEW a \in Seq(S), NEW b \in Seq(S), NEW d \in Seq(S), NEW e \in Seq(S)
  PROVE  FourIn(S, a, b, d, e, a \o b \o d \o e)
  <1>1. PICK x : x = a \o b
    OBVIOUS
  <1>2. PICK y : y = x \o d
    OBVIOUS
  <1>3. PICK z : z = y \o e
    OBVIOUS
  <1>4. z = a \o b \o d \o e
    BY <1>1, <1>2, <1>3
  <1>0. x \in Seq(S) /\ y \in Seq(S)
    <2>1. x \in Seq(S)
      BY <1>1, ConcatProperties
    <2>2. QED
      BY <1>2, <2>1, ConcatProperties
  <1>5. /\ x \in Seq(S) /\ Len(x) = Len(a) + Len(b)
        /\ \A j \in 1 .. Len(a) : x[j] = a[j]
        /\ \A j \in 1 .. Len(b) : x[Len(a) + j] = b[j]
    BY <1>1, TwoParts
  <1>6. /\ y \in Seq(S) /\ Len(y) = Len(x) + Len(d)
        /\ \A j \in 1 .. Len(x) : y[j] = x[j]
        /\ \A j \in 1 .. Len(d) : y[Len(x) + j] = d[j]
    BY <1>0, <1>2, TwoParts
  <1>7. /\ z \in Seq(S) /\ Len(z) = Len(y) + Len(e)
        /\ \A j \in 1 .. Len(y) : z[j] = y[j]
        /\ \A j \in 1 .. Len(e) : z[Len(y) + j] = e[j]
    BY <1>0, <1>3, TwoParts
  <1>8. Len(a) \in Nat /\ Len(b) \in Nat /\ Len(d) \in Nat /\ Len(e) \in Nat
    BY LenProperties
  <1>9. \E r \in Seq(S) : z = a \o r
    <2>1. b \o d \in Seq(S) /\ (b \o d) \o e \in Seq(S)
      BY ConcatProperties
    <2>2. y = a \o (b \o d)
      BY <1>1, <1>2, ConcatAssociative
    <2>3. z = a \o ((b \o d) \o e)
      <3>1. PICK u : u = b \o d
        OBVIOUS
      <3>2. u \in Seq(S) /\ z = (a \o u) \o e
        BY <1>3, <2>1, <2>2, <3>1
      <3>3. u \in Seq(S)
        BY <3>2
      <3>4. (a \o u) \o e = a \o (u \o e)
        BY <3>3, ConcatAssociative, SMTT(60)
      <3>5. QED
        BY <3>1, <3>2, <3>4
    <2>4. QED
      BY <2>1, <2>3
  <1>10. /\ Len(z) = Len(a) + Len(b) + Len(d) + Len(e)
         /\ \A j \in 1 .. Len(a) : z[j] = a[j]
         /\ \A j \in 1 .. Len(b) : z[Len(a) + j] = b[j]
         /\ \A j \in 1 .. Len(d) : z[Len(a) + Len(b) + j] = d[j]
         /\ \A j \in 1 .. Len(e) : z[Len(a) + Len(b) + Len(d) + j] = e[j]
    <2>1. Len(x) \in Nat /\ Len(y) \in Nat
      BY <1>5, <1>6, <1>8
    <2>2. \A j \in 1 .. Len(x) : z[j] = x[j]
      BY <1>6, <1>7, <1>8, <2>1
    <2>3. \A j \in 1 .. Len(d) : z[Len(x) + j] = d[j]
      BY <1>6, <1>7, <1>8, <2>1
    <2>4. \A j \in 1 .. Len(a) : z[j] = a[j]
      BY <1>5, <1>8, <2>2
    <2>5. \A j \in 1 .. Len(b) : z[Len(a) + j] = b[j]
      BY <1>5, <1>8, <2>2
    <2>6. /\ Len(x) = Len(a) + Len(b) /\ Len(y) = Len(x) + Len(d) /\ Len(z) = Len(y) + Len(e)
          /\ \A j \in 1 .. Len(e) : z[Len(y) + j] = e[j]
      BY <1>5, <1>6, <1>7
    <2>7. \A j \in 1 .. Len(d) : z[Len(a) + Len(b) + j] = d[j]
      BY <2>3, <2>6, Zenon
    <2>8. Len(y) = Len(a) + Len(b) + Len(d)
      BY <2>6, Zenon
    <2>9. \A j \in 1 .. Len(e) : z[Len(a) + Len(b) + Len(d) + j] = e[j]
      BY <2>6, <2>8, Zenon
    <2>10. Len(z) = Len(a) + Len(b) + Len(d) + Len(e)
      BY <2>6, <2>8, Zenon
    <2>11. QED
      BY <2>4, <2>5, <2>7, <2>9, <2>10
  <1>11. QED
    BY <1>4, <1>9, <1>10, Zenon DEF FourIn

(* The line of a chunk: the digits, perhaps an extension, and the line end.      *)
LineLen(chunk) == Len(chunk.digits) + (IF chunk.ext THEN 4 ELSE 2)

LineHas(chunk, line) ==
  LET d == Len(chunk.digits)
  IN  /\ \A j \in 1 .. d : line[j] = chunk.digits[j]
      /\ ~chunk.ext => line[d + 1] = "CR" /\ line[d + 2] = "LF"
      /\ chunk.ext => /\ line[d + 1] = ";" /\ line[d + 2] = "x"
                      /\ line[d + 3] = "CR" /\ line[d + 4] = "LF"

LEMMA TwoMore ==
  ASSUME NEW S, NEW a \in Seq(S), NEW p \in S, NEW q \in S
  PROVE  LET line == a \o <<p, q>>
         IN  /\ line \in Seq(S)
             /\ Len(a) \in Nat /\ Len(line) = Len(a) + 2
             /\ \A j \in 1 .. Len(a) : line[j] = a[j]
             /\ line[Len(a) + 1] = p /\ line[Len(a) + 2] = q
  <1>1. PICK b : b = <<p, q>>
    OBVIOUS
  <1>2. b \in Seq(S) /\ Len(b) = 2 /\ b[1] = p /\ b[2] = q
    BY <1>1, Pair
  <1>3. b \in Seq(S)
    BY <1>2
  <1>4. PICK line : line = a \o b
    OBVIOUS
  <1>5. /\ line \in Seq(S) /\ Len(a) \in Nat /\ Len(line) = Len(a) + Len(b)
        /\ \A j \in 1 .. Len(a) : line[j] = a[j]
        /\ \A j \in 1 .. Len(b) : line[Len(a) + j] = b[j]
    BY <1>3, <1>4, TwoParts
  <1>6. 1 \in 1 .. Len(b) /\ 2 \in 1 .. Len(b)
    BY <1>2
  <1>7. line[Len(a) + 1] = p /\ line[Len(a) + 2] = q
    BY <1>2, <1>5, <1>6
  <1>8. QED
    BY <1>1, <1>2, <1>4, <1>5, <1>7

LEMMA FourMore ==
  ASSUME NEW S, NEW a \in Seq(S), NEW t \in S, NEW u \in S, NEW p \in S, NEW q \in S
  PROVE  LET line == a \o <<t, u>> \o <<p, q>>
         IN  /\ line \in Seq(S)
             /\ Len(line) = Len(a) + 4
             /\ \A j \in 1 .. Len(a) : line[j] = a[j]
             /\ line[Len(a) + 1] = t /\ line[Len(a) + 2] = u
             /\ line[Len(a) + 3] = p /\ line[Len(a) + 4] = q
  <1>1. PICK b : b = a \o <<t, u>>
    OBVIOUS
  <1>2. /\ b \in Seq(S) /\ Len(a) \in Nat /\ Len(b) = Len(a) + 2
        /\ \A j \in 1 .. Len(a) : b[j] = a[j]
        /\ b[Len(a) + 1] = t /\ b[Len(a) + 2] = u
    BY <1>1, TwoMore
  <1>3. b \in Seq(S)
    BY <1>2
  <1>4. PICK line : line = b \o <<p, q>>
    OBVIOUS
  <1>5. /\ line \in Seq(S) /\ Len(line) = Len(b) + 2
        /\ \A j \in 1 .. Len(b) : line[j] = b[j]
        /\ line[Len(b) + 1] = p /\ line[Len(b) + 2] = q
    BY <1>3, <1>4, TwoMore
  <1>6. /\ Len(line) = Len(a) + 4
        /\ \A j \in 1 .. Len(a) : line[j] = a[j]
        /\ line[Len(a) + 1] = t /\ line[Len(a) + 2] = u
        /\ line[Len(a) + 3] = p /\ line[Len(a) + 4] = q
    <2>1. PICK n : n = Len(a)
      OBVIOUS
    <2>2. n \in Nat /\ Len(b) = n + 2
      BY <1>2, <2>1
    <2>3. line[n + 2 + 1] = p /\ line[n + 2 + 2] = q
      BY <1>5, <2>2
    <2>4. QED
      BY <1>2, <1>5, <2>1, <2>2, <2>3
  <1>7. QED
    BY <1>1, <1>4, <1>5, <1>6

LEMMA LineParts ==
  ASSUME NEW chunk, chunk.digits \in Seq(Digit), chunk.ext \in BOOLEAN
  PROVE  /\ Line(chunk) \in Seq(Char)
         /\ Len(chunk.digits) \in Nat
         /\ Len(Line(chunk)) = LineLen(chunk)
         /\ LineHas(chunk, Line(chunk))
  <1>1. PICK digits : digits = chunk.digits
    OBVIOUS
  <1>2. digits \in Seq(Char) /\ Len(digits) \in Nat
    BY <1>1, Digits, SeqMonotonic, LenProperties
  <1>3. "CR" \in Char /\ "LF" \in Char /\ ";" \in Char /\ "x" \in Char
    BY DEF Char
  <1>4. digits \in Seq(Char)
    BY <1>2
  <1>5. CASE chunk.ext
    <2>1. Line(chunk) = digits \o <<";", "x">> \o <<"CR", "LF">>
      BY <1>1, <1>5 DEF Line
    <2>2. LET line == digits \o <<";", "x">> \o <<"CR", "LF">>
          IN  /\ line \in Seq(Char)
              /\ Len(line) = Len(digits) + 4
              /\ \A j \in 1 .. Len(digits) : line[j] = digits[j]
              /\ line[Len(digits) + 1] = ";" /\ line[Len(digits) + 2] = "x"
              /\ line[Len(digits) + 3] = "CR" /\ line[Len(digits) + 4] = "LF"
      <3>1. PICK t, u, p, q : t = ";" /\ u = "x" /\ p = "CR" /\ q = "LF"
        OBVIOUS
      <3>2. t \in Char /\ u \in Char /\ p \in Char /\ q \in Char
        BY <1>3, <3>1
      <3>3. LET line == digits \o <<t, u>> \o <<p, q>>
            IN  /\ line \in Seq(Char)
                /\ Len(line) = Len(digits) + 4
                /\ \A j \in 1 .. Len(digits) : line[j] = digits[j]
                /\ line[Len(digits) + 1] = t /\ line[Len(digits) + 2] = u
                /\ line[Len(digits) + 3] = p /\ line[Len(digits) + 4] = q
        BY <1>4, <3>2, FourMore
      <3>4. QED
        BY <3>1, <3>3, Zenon
    <2>3. /\ Line(chunk) \in Seq(Char)
          /\ Len(Line(chunk)) = Len(digits) + 4
          /\ \A j \in 1 .. Len(digits) : Line(chunk)[j] = digits[j]
          /\ Line(chunk)[Len(digits) + 1] = ";" /\ Line(chunk)[Len(digits) + 2] = "x"
          /\ Line(chunk)[Len(digits) + 3] = "CR" /\ Line(chunk)[Len(digits) + 4] = "LF"
      BY <2>1, <2>2, Zenon
    <2>4. QED
      BY <1>1, <1>2, <1>5, <2>3, Zenon DEF LineLen, LineHas
  <1>6. CASE ~chunk.ext
    <2>1. Line(chunk) = digits \o <<>> \o <<"CR", "LF">>
      BY <1>1, <1>6 DEF Line
    <2>2. Line(chunk) = digits \o <<"CR", "LF">>
      BY <1>4, <2>1, ConcatEmptySeq
    <2>3. LET line == digits \o <<"CR", "LF">>
          IN  /\ line \in Seq(Char)
              /\ Len(digits) \in Nat /\ Len(line) = Len(digits) + 2
              /\ \A j \in 1 .. Len(digits) : line[j] = digits[j]
              /\ line[Len(digits) + 1] = "CR" /\ line[Len(digits) + 2] = "LF"
      <3>1. PICK p, q : p = "CR" /\ q = "LF"
        OBVIOUS
      <3>2. p \in Char /\ q \in Char
        BY <1>3, <3>1
      <3>3. LET line == digits \o <<p, q>>
            IN  /\ line \in Seq(Char)
                /\ Len(digits) \in Nat /\ Len(line) = Len(digits) + 2
                /\ \A j \in 1 .. Len(digits) : line[j] = digits[j]
                /\ line[Len(digits) + 1] = p /\ line[Len(digits) + 2] = q
        BY <1>4, <3>2, TwoMore
      <3>4. QED
        BY <3>1, <3>3, Zenon
    <2>4. /\ Line(chunk) \in Seq(Char)
          /\ Len(Line(chunk)) = Len(digits) + 2
          /\ \A j \in 1 .. Len(digits) : Line(chunk)[j] = digits[j]
          /\ Line(chunk)[Len(digits) + 1] = "CR" /\ Line(chunk)[Len(digits) + 2] = "LF"
      BY <2>2, <2>3, Zenon
    <2>5. QED
      BY <1>1, <1>2, <1>6, <2>4, Zenon DEF LineLen, LineHas
  <1>7. QED
    BY <1>5, <1>6

(* Where the parts of a chunk are in what is sent, in which all chunks before it *)
(* have base bytes.                                                              *)
ChunkAt(chunk, stream, base) ==
  LET body == base + LineLen(chunk)
      next == body + Len(chunk.data)
  IN  /\ next + 2 <= Len(stream)
      /\ \A j \in 1 .. LineLen(chunk) : stream[base + j] = Line(chunk)[j]
      /\ \A j \in 1 .. Len(chunk.data) : stream[body + j] = chunk.data[j]
      /\ \A j \in 1 .. 2 : stream[next + j] = EndOfChunk[j]

ChunkIn(chunks, s, i) ==
  /\ Len(s[i - 1]) \in Nat
  /\ LineLen(chunks[i]) \in Nat
  /\ ChunkAt(chunks[i], Sent(chunks), Len(s[i - 1]))
  /\ Len(s[i]) = Len(s[i - 1]) + LineLen(chunks[i]) + Len(chunks[i].data) + 2

LEMMA ChunkIsThere ==
  ASSUME NEW chunks \in Responses, NEW i \in 1 .. Len(chunks),
         NEW s, SentParts(chunks, s)
  PROVE  ChunkIn(chunks, s, i)
  <1>1. PICK m : m = Len(chunks)
    OBVIOUS
  <1>2. m \in Nat
    BY <1>1, ChunkIs
  <1>3. s \in [0 .. m -> Seq(Char)] /\ Sent(chunks) = s[m]
    BY <1>1 DEF SentParts
  <1>4. PICK z : z = EndOfChunk
    OBVIOUS
  <1>5. z \in Seq(Char) /\ Len(z) = 2
    <2>1. "CR" \in Char /\ "LF" \in Char
      BY DEF Char
    <2>2. QED
      BY <1>4, <2>1, Pair DEF EndOfChunk
  <1>6. ASSUME NEW k \in 1 .. m
        PROVE  /\ s[k] = s[k - 1] \o Line(chunks[k]) \o chunks[k].data \o z
               /\ s[k - 1] \in Seq(Char) /\ Line(chunks[k]) \in Seq(Char)
               /\ chunks[k].data \in Seq(Char)
    <2>1. k - 1 \in 0 .. m /\ k \in 1 .. Len(chunks)
      BY <1>1, <1>2
    <2>2. s[k - 1] \in Seq(Char)
      BY <1>3, <2>1
    <2>3. Line(chunks[k]) \in Seq(Char) /\ chunks[k].data \in Seq(Char)
      BY <2>1, ChunkIs, LineIs
    <2>4. s[k] = s[k - 1] \o Line(chunks[k]) \o chunks[k].data \o z
      BY <1>4, <2>1, Zenon DEF SentParts
    <2>5. QED
      BY <2>2, <2>3, <2>4
  <1>7. ASSUME NEW k \in 1 .. m
        PROVE  \E r \in Seq(Char) : s[k] = s[k - 1] \o r
    <2>1. PICK a, b, d : a = s[k - 1] /\ b = Line(chunks[k]) /\ d = chunks[k].data
      OBVIOUS
    <2>2. /\ a \in Seq(Char) /\ b \in Seq(Char)
          /\ d \in Seq(Char) /\ z \in Seq(Char)
      BY <1>5, <1>6, <2>1
    <2>3. FourIn(Char, a, b, d, z, a \o b \o d \o z)
      BY <2>2, FourParts
    <2>4. s[k] = a \o b \o d \o z
      BY <1>6, <2>1, Zenon
    <2>5. QED
      BY <2>1, <2>3, <2>4, Zenon DEF FourIn
  <1>8. \A k \in 0 .. m : /\ Len(s[k]) <= Len(s[m])
                          /\ \A j \in 1 .. Len(s[k]) : s[m][j] = s[k][j]
    <2>1. s \in [0 .. m -> Seq(Char)]
      BY <1>3
    <2>2. m \in Nat
      BY <1>2
    <2>3. GoesOn(Char, m, s)
      BY <1>7, Zenon DEF GoesOn
    <2>4. Begin(m, s)
      BY <2>1, <2>2, <2>3, PartsBegin
    <2>5. QED
      BY <2>4, Zenon DEF Begin
  <1>9. i \in 1 .. m /\ i \in 0 .. m /\ i - 1 \in 0 .. m
    BY <1>1, <1>2
  <1>10. PICK all, y, p, l, e : /\ all = s[m] /\ y = s[i] /\ p = s[i - 1]
                                /\ l = Line(chunks[i]) /\ e = chunks[i].data
    OBVIOUS
  <1>11. Len(y) <= Len(all) /\ \A j \in 1 .. Len(y) : all[j] = y[j]
    BY <1>8, <1>9, <1>10, Zenon
  <1>12. /\ p \in Seq(Char) /\ l \in Seq(Char)
         /\ e \in Seq(Char) /\ all \in Seq(Char)
    <2>1. /\ s[i - 1] \in Seq(Char) /\ Line(chunks[i]) \in Seq(Char)
          /\ chunks[i].data \in Seq(Char)
      BY <1>6, <1>9, Zenon
    <2>2. m \in 0 .. m
      BY <1>2
    <2>3. s[m] \in Seq(Char)
      BY <1>3, <2>2
    <2>4. QED
      BY <1>10, <2>1, <2>3, Zenon
  <1>13. y = p \o l \o e \o z
    BY <1>6, <1>9, <1>10, Zenon
  <1>14. PICK base, a, b, n, w : /\ base = Len(p) /\ a = Len(l) /\ b = Len(e)
                                 /\ n = Len(y) /\ w = Len(all)
    OBVIOUS
  <1>15. base \in Nat /\ a \in Nat /\ b \in Nat /\ w \in Nat
    BY <1>12, <1>14, LenProperties
  <1>16. /\ n = base + a + b + 2
         /\ \A j \in 1 .. a : y[base + j] = l[j]
         /\ \A j \in 1 .. b : y[base + a + j] = e[j]
         /\ \A j \in 1 .. 2 : y[base + a + b + j] = z[j]
    <2>1. z \in Seq(Char)
      BY <1>5
    <2>2. FourIn(Char, p, l, e, z, p \o l \o e \o z)
      BY <1>12, <2>1, FourParts
    <2>3. FourIn(Char, p, l, e, z, y)
      BY <1>13, <2>2
    <2>4. QED
      BY <1>5, <1>14, <2>3, Zenon DEF FourIn
  <1>17. n <= w /\ \A j \in 1 .. n : all[j] = y[j]
    BY <1>11, <1>14
  <1>18. /\ \A j \in 1 .. a : all[base + j] = l[j]
         /\ \A j \in 1 .. b : all[base + a + j] = e[j]
         /\ \A j \in 1 .. 2 : all[base + a + b + j] = z[j]
    <2>1. /\ \A j \in 1 .. a : base + j \in 1 .. n
          /\ \A j \in 1 .. b : base + a + j \in 1 .. n
          /\ \A j \in 1 .. 2 : base + a + b + j \in 1 .. n
      BY <1>15, <1>16
    <2>2. QED
      BY <1>16, <1>17, <2>1, Zenon
  <1>19. a = LineLen(chunks[i])
    <2>1. chunks[i].digits \in Seq(Digit) /\ chunks[i].ext \in BOOLEAN
      BY ChunkIs
    <2>2. QED
      BY <1>10, <1>14, <2>1, LineParts
  <1>20. base + a + b + 2 <= w
    BY <1>15, <1>16, <1>17
  <1>21. ChunkAt(chunks[i], all, base)
    <2>1. b = Len(chunks[i].data) /\ w = Len(all)
      BY <1>10, <1>14
    <2>2. QED
      BY <1>4, <1>10, <1>18, <1>19, <1>20, <2>1, Zenon DEF ChunkAt
  <1>22. QED
    BY <1>3, <1>10, <1>14, <1>15, <1>16, <1>19, <1>21, Zenon DEF ChunkIn

(* What has been said before a chunk, its data, and what has been said with it.  *)
DataIn(chunks, b, i) ==
  /\ Len(b[i - 1]) \in Nat /\ Len(Meant(chunks)) \in Nat
  /\ Len(b[i]) = Len(b[i - 1]) + Len(chunks[i].data)
  /\ Len(b[i]) <= Len(Meant(chunks))
  /\ \A j \in 1 .. Len(chunks[i].data) :
       Meant(chunks)[Len(b[i - 1]) + j] = chunks[i].data[j]

LEMMA DataIsThere ==
  ASSUME NEW chunks \in Responses, NEW i \in 1 .. Len(chunks),
         NEW b, MeantParts(chunks, b)
  PROVE  DataIn(chunks, b, i)
  <1>1. PICK m : m = Len(chunks)
    OBVIOUS
  <1>2. m \in Nat
    BY <1>1, ChunkIs
  <1>3. b \in [0 .. m -> Seq(Char)] /\ Meant(chunks) = b[m]
    BY <1>1 DEF MeantParts
  <1>4. ASSUME NEW k \in 1 .. m
        PROVE  /\ b[k] = b[k - 1] \o chunks[k].data
               /\ b[k - 1] \in Seq(Char) /\ chunks[k].data \in Seq(Char)
    <2>1. k - 1 \in 0 .. m /\ k \in 1 .. Len(chunks)
      BY <1>1, <1>2
    <2>2. b[k - 1] \in Seq(Char)
      BY <1>3, <2>1
    <2>3. chunks[k].data \in Seq(Char)
      BY <2>1, ChunkIs
    <2>4. b[k] = b[k - 1] \o chunks[k].data
      BY <2>1, Zenon DEF MeantParts
    <2>5. QED
      BY <2>2, <2>3, <2>4
  <1>5. \A k \in 0 .. m : /\ Len(b[k]) <= Len(b[m])
                          /\ \A j \in 1 .. Len(b[k]) : b[m][j] = b[k][j]
    <2>1. b \in [0 .. m -> Seq(Char)]
      BY <1>3
    <2>2. GoesOn(Char, m, b)
      BY <1>4, Zenon DEF GoesOn
    <2>3. m \in Nat
      BY <1>2
    <2>4. Begin(m, b)
      BY <2>1, <2>2, <2>3, PartsBegin
    <2>5. QED
      BY <2>4, Zenon DEF Begin
  <1>6. i \in 1 .. m /\ i \in 0 .. m /\ i - 1 \in 0 .. m
    BY <1>1, <1>2
  <1>7. PICK all, y, p, e : all = b[m] /\ y = b[i] /\ p = b[i - 1] /\ e = chunks[i].data
    OBVIOUS
  <1>8. p \in Seq(Char) /\ e \in Seq(Char) /\ all \in Seq(Char)
    <2>1. b[i - 1] \in Seq(Char) /\ chunks[i].data \in Seq(Char)
      BY <1>4, <1>6, Zenon
    <2>2. m \in 0 .. m
      BY <1>2
    <2>3. b[m] \in Seq(Char)
      BY <1>3, <2>2
    <2>4. QED
      BY <1>7, <2>1, <2>3, Zenon
  <1>9. y = p \o e
    BY <1>4, <1>6, <1>7, Zenon
  <1>10. /\ Len(p) \in Nat /\ Len(e) \in Nat /\ Len(y) = Len(p) + Len(e)
         /\ \A j \in 1 .. Len(e) : y[Len(p) + j] = e[j]
    BY <1>8, <1>9, TwoParts
  <1>11. Len(all) \in Nat
    BY <1>8, LenProperties
  <1>12. Len(y) <= Len(all) /\ \A j \in 1 .. Len(y) : all[j] = y[j]
    BY <1>5, <1>6, <1>7, Zenon
  <1>13. \A j \in 1 .. Len(e) : all[Len(p) + j] = e[j]
    <2>1. PICK base, n : base = Len(p) /\ n = Len(e)
      OBVIOUS
    <2>2. /\ base \in Nat /\ n \in Nat
          /\ \A j \in 1 .. base + n : all[j] = y[j]
          /\ \A j \in 1 .. n : y[base + j] = e[j]
      BY <1>10, <1>12, <2>1, Zenon
    <2>3. \A j \in 1 .. n : all[base + j] = e[j]
      BY <2>2
    <2>4. QED
      BY <2>1, <2>3
  <1>14. QED
    BY <1>3, <1>7, <1>10, <1>11, <1>12, <1>13, Zenon DEF DataIn

-----------------------------------------------------------------------------
(* Where rio is in the response, for each point it can be at: how far into which *)
(* chunk it has read, and how much of the data it has put together.  A search    *)
(* that has not read a character yet has found 1 at most, when it was            *)
(* interrupted; then it goes by the character that it has read last.             *)
SentTo(chunks)  == CHOOSE s : SentParts(chunks, s)
MeantTo(chunks) == CHOOSE b : MeantParts(chunks, b)

Start(chunks, k) == Len(SentTo(chunks)[k - 1])
Said(chunks, k)  == Len(MeantTo(chunks)[k - 1])

At(k, bytes, data) == /\ k \in 1 .. Len(response)
                      /\ taken = Start(response, k) + bytes
                      /\ Len(usrbuf) = Said(response, k) + data

Fresh == rn = 0 \/ rn = 1

AtBegin == taken = 0 /\ tmp = <<>> /\ usrbuf = <<>>

AtSize ==
  \E k, d \in Nat : /\ At(k, d, 0)
                    /\ d <= Len(response[k].digits)
                    /\ tmp \in Seq(Digit) /\ Len(tmp) = d
                    /\ \A j \in 1 .. d : tmp[j] = response[k].digits[j]

AtSizeLF ==
  \E k, e \in Nat :
    /\ At(k, e, 0) /\ e < LineLen(response[k])
    /\ Line(response[k])[e + 1] = "LF" =>
         tmp = response[k].digits /\ e + 1 = LineLen(response[k])

AtExtension ==
  \E k, e \in Nat :
    /\ At(k, e, 0) /\ tmp = response[k].digits
    /\ Len(response[k].digits) <= e /\ e < LineLen(response[k])
    /\ \/ /\ Fresh
          /\ e = Len(response[k].digits) \/ (e = Len(response[k].digits) + 1 /\ response[k].ext)
       \/ /\ Len(response[k].digits) < e
          /\ c = Line(response[k])[e] /\ rn = IF c = "CR" THEN 1 ELSE 0

AtReadn ==
  \E k, g \in Nat : /\ At(k, LineLen(response[k]) + g, g)
                    /\ g < Len(response[k].data) /\ nleft = Len(response[k].data) - g

AtBoundary ==
  \E k, e \in Nat :
    /\ At(k, LineLen(response[k]) + Len(response[k].data) + e, Len(response[k].data))
    /\ Len(response[k].data) # 0
    /\ \/ e = 0 /\ Fresh
       \/ e = 1 /\ rn = 1 /\ c = "CR"

(* What is put together is the beginning of what was meant.                      *)
Decoded == /\ usrbuf \in Seq(Char)
           /\ Len(usrbuf) <= Len(Meant(response))
           /\ Len(usrbuf) <= MAX_BUFFER + 1
           /\ \A j \in 1 .. Len(usrbuf) : usrbuf[j] = Meant(response)[j]

Place == /\ rioPc \in {"writen", "size", "sizeLF", "extension", "readn", "boundary",
                       "done", "failed", "overrun"}
         /\ rioPc = "writen" => AtBegin
         /\ rioPc = "size" => AtSize
         /\ rioPc = "sizeLF" => AtSizeLF
         /\ rioPc = "extension" => AtExtension
         /\ rioPc = "readn" => AtReadn
         /\ rioPc = "boundary" => AtBoundary
         /\ rioPc = "done" => Len(usrbuf) = Len(Meant(response))
         /\ rioPc = "overrun" => Len(Meant(response)) > MAX_BUFFER + 1

OnTrack == response \in Responses /\ Decoded /\ Place

RioInv == astray \/ OnTrack

ChunkOf(chunks, k) ==
  LET chunk == chunks[k]
      start == Start(chunks, k)
      said  == Said(chunks, k)
      e     == Len(chunk.data)
  IN  /\ k \in Nat /\ start \in Nat /\ said \in Nat
      /\ LineLen(chunk) \in Nat /\ e \in Nat /\ Len(chunk.digits) \in Nat
      /\ ChunkAt(chunk, Sent(chunks), start)
      /\ Len(Meant(chunks)) \in Nat /\ said + e <= Len(Meant(chunks))
      /\ \A j \in 1 .. e : Meant(chunks)[said + j] = chunk.data[j]
      /\ e # 0 => /\ k + 1 \in 1 .. Len(chunks)
                  /\ Start(chunks, k + 1) = start + LineLen(chunk) + e + 2
                  /\ Said(chunks, k + 1) = said + e
      /\ e = 0 => said = Len(Meant(chunks))

LEMMA ChunkPlace ==
  ASSUME NEW chunks \in Responses, NEW k \in 1 .. Len(chunks)
  PROVE  ChunkOf(chunks, k)
  <1>1. PICK s : s = SentTo(chunks)
    OBVIOUS
  <1>2. SentParts(chunks, s)
    BY <1>1, SentInParts DEF SentTo
  <1>3. PICK b : b = MeantTo(chunks)
    OBVIOUS
  <1>4. MeantParts(chunks, b)
    BY <1>3, MeantInParts DEF MeantTo
  <1>5. /\ Len(chunks) \in Nat
        /\ Len(chunks[k].data) \in Nat /\ Len(chunks[k].digits) \in Nat
        /\ Len(chunks[k].data) = 0 <=> k = Len(chunks)
    <2>1. chunks[k].data \in Seq(Char)
      BY ChunkIs
    <2>2. QED
      BY <2>1, ChunkIs, LenProperties
  <1>6. /\ Len(s[k - 1]) \in Nat /\ LineLen(chunks[k]) \in Nat
        /\ ChunkAt(chunks[k], Sent(chunks), Len(s[k - 1]))
        /\ Len(s[k]) = Len(s[k - 1]) + LineLen(chunks[k]) + Len(chunks[k].data) + 2
    <2>1. ChunkIn(chunks, s, k)
      BY <1>2, ChunkIsThere
    <2>2. QED
      BY <2>1, Zenon DEF ChunkIn
  <1>7. /\ Len(b[k - 1]) \in Nat /\ Len(Meant(chunks)) \in Nat
        /\ Len(b[k]) = Len(b[k - 1]) + Len(chunks[k].data)
        /\ Len(b[k]) <= Len(Meant(chunks))
        /\ \A j \in 1 .. Len(chunks[k].data) :
             Meant(chunks)[Len(b[k - 1]) + j] = chunks[k].data[j]
    <2>1. DataIn(chunks, b, k)
      BY <1>4, DataIsThere
    <2>2. QED
      BY <2>1, Zenon DEF DataIn
  <1>8. Start(chunks, k) = Len(s[k - 1]) /\ Said(chunks, k) = Len(b[k - 1])
    BY <1>1, <1>3 DEF Start, Said
  <1>9. k + 1 - 1 = k
    BY <1>5
  <1>10. Start(chunks, k + 1) = Len(s[k]) /\ Said(chunks, k + 1) = Len(b[k])
    BY <1>1, <1>3, <1>9 DEF Start, Said
  <1>11. Len(chunks[k].data) = 0 => Len(b[k - 1]) = Len(Meant(chunks))
    <2>1. ASSUME k = Len(chunks)
          PROVE  Meant(chunks) = b[k]
      BY <1>4, <2>1, Zenon DEF MeantParts
    <2>2. QED
      BY <1>5, <1>7, <2>1
  <1>12. Len(chunks[k].data) # 0 => k + 1 \in 1 .. Len(chunks)
    BY <1>5
  <1>13. k \in Nat
    BY <1>5
  <1>14. PICK e, l, st, sd, mt : /\ e = Len(chunks[k].data) /\ l = LineLen(chunks[k])
                                 /\ st = Len(s[k - 1]) /\ sd = Len(b[k - 1])
                                 /\ mt = Len(Meant(chunks))
    OBVIOUS
  <1>15. sd + e <= mt
    BY <1>7, <1>14
  <1>16. e # 0 => Len(s[k]) = st + l + e + 2 /\ Len(b[k]) = sd + e
    BY <1>6, <1>7, <1>14
  <1>17. QED
    BY <1>5, <1>6, <1>7, <1>8, <1>10, <1>11, <1>12, <1>13, <1>14, <1>15, <1>16, Zenon
       DEF ChunkOf

LEMMA FirstChunk ==
  ASSUME NEW chunks \in Responses
  PROVE  1 \in 1 .. Len(chunks) /\ Start(chunks, 1) = 0 /\ Said(chunks, 1) = 0
  <1>1. 1 \in 1 .. Len(chunks)
    BY ChunkIs
  <1>2. SentTo(chunks)[0] = <<>>
    BY SentInParts DEF SentTo, SentParts
  <1>3. MeantTo(chunks)[0] = <<>>
    BY MeantInParts DEF MeantTo, MeantParts
  <1>4. Len(<<>>) = 0 /\ 1 - 1 = 0
    BY EmptySeq
  <1>5. Start(chunks, 1) = 0 /\ Said(chunks, 1) = 0
    BY <1>2, <1>3, <1>4 DEF Start, Said
  <1>6. QED
    BY <1>1, <1>5

(* The next characters of a chunk, by where it is.                               *)
LEMMA NextInLine ==
  ASSUME response \in Responses,
         NEW k \in 1 .. Len(response), NEW d \in Nat,
         taken = Start(response, k) + d, d < LineLen(response[k]), NEW x, Read(x)
  PROVE  /\ x = Line(response[k])[d + 1]
         /\ taken' = Start(response, k) + (d + 1)
  <1>1. ChunkOf(response, k)
    BY ChunkPlace
  <1>2. PICK st, l : st = Start(response, k) /\ l = LineLen(response[k])
    OBVIOUS
  <1>3. st \in Nat /\ l \in Nat
    BY <1>1, <1>2 DEF ChunkOf
  <1>4. \A j \in 1 .. l : Stream[st + j] = Line(response[k])[j]
    BY <1>1, <1>2, Zenon DEF ChunkOf, ChunkAt, Stream
  <1>5. d + 1 \in 1 .. l /\ taken + 1 = st + (d + 1)
    BY <1>2, <1>3
  <1>6. x = Stream[taken + 1] /\ taken' = taken + 1
    BY DEF Read
  <1>7. QED
    BY <1>2, <1>4, <1>5, <1>6

LEMMA NextInEnd ==
  ASSUME response \in Responses,
         NEW k \in 1 .. Len(response), NEW e \in 0 .. 1,
         taken = Start(response, k) + (LineLen(response[k]) + Len(response[k].data) + e),
         NEW x, Read(x)
  PROVE  /\ x = IF e = 0 THEN "CR" ELSE "LF"
         /\ taken' = Start(response, k) + (LineLen(response[k]) + Len(response[k].data) + (e + 1))
  <1>1. ChunkOf(response, k)
    BY ChunkPlace
  <1>2. PICK st, l, n : /\ st = Start(response, k) /\ l = LineLen(response[k])
                        /\ n = Len(response[k].data)
    OBVIOUS
  <1>3. st \in Nat /\ l \in Nat /\ n \in Nat
    BY <1>1, <1>2 DEF ChunkOf
  <1>4. \A j \in 1 .. 2 : Stream[st + l + n + j] = EndOfChunk[j]
    BY <1>1, <1>2, Zenon DEF ChunkOf, ChunkAt, Stream
  <1>5. e + 1 \in 1 .. 2 /\ taken + 1 = st + l + n + (e + 1)
    <2>1. taken = st + (l + n + e)
      BY <1>2, Zenon
    <2>2. e \in {0, 1}
      OBVIOUS
    <2>3. e + 1 \in 1 .. 2
      BY <2>2
    <2>4. st + (l + n + e) + 1 = st + l + n + (e + 1)
      BY <1>3, <2>2
    <2>5. QED
      BY <2>1, <2>3, <2>4, Zenon
  <1>6. x = Stream[taken + 1] /\ taken' = taken + 1
    BY DEF Read
  <1>7. x = EndOfChunk[e + 1]
    BY <1>4, <1>5, <1>6
  <1>8. EndOfChunk[1] = "CR" /\ EndOfChunk[2] = "LF"
    BY DEF EndOfChunk
  <1>9. x = IF e = 0 THEN "CR" ELSE "LF"
    <2>1. CASE e = 0
      <3>1. e + 1 = 1
        BY <2>1
      <3>2. QED
        BY <1>7, <1>8, <2>1, <3>1
    <2>2. CASE e = 1
      <3>1. e + 1 = 2
        BY <2>2
      <3>2. QED
        BY <1>7, <1>8, <2>2, <3>1
    <2>3. QED
      BY <2>1, <2>2
  <1>10. taken' = st + (l + n + (e + 1))
    BY <1>3, <1>5, <1>6
  <1>11. QED
    BY <1>2, <1>9, <1>10

(* Rio's steps.  The body stays what it is wherever it is not read.              *)
LEMMA BodyKept ==
  ASSUME OnTrack, response' = response, usrbuf' = usrbuf
  PROVE  response' \in Responses /\ Decoded'
  <1>1. Decoded /\ response \in Responses
    BY DEF OnTrack
  <1>2. QED
    BY <1>1, Zenon DEF Decoded

LEMMA StartOnTrack ==
  ASSUME RioInit
  PROVE  OnTrack
  <1>1. /\ response \in Responses /\ taken = 0 /\ tmp = <<>> /\ usrbuf = <<>>
        /\ rioPc = "writen"
    BY DEF RioInit
  <1>2. Decoded
    <2>1. ChunkOf(response, 1)
      BY <1>1, FirstChunk, ChunkPlace
    <2>2. Len(Meant(response)) \in Nat
      BY <2>1 DEF ChunkOf
    <2>3. usrbuf \in Seq(Char) /\ Len(usrbuf) = 0
      BY <1>1, EmptySeq
    <2>4. MAX_BUFFER \in Nat
      BY RioAssumption
    <2>5. 0 <= MAX_BUFFER + 1
      BY <2>4
    <2>6. QED
      BY <2>2, <2>3, <2>5 DEF Decoded
  <1>3. AtBegin
    BY <1>1 DEF AtBegin
  <1>4. Place
    BY <1>1, <1>3, Zenon DEF Place
  <1>5. QED
    BY <1>1, <1>2, <1>4 DEF OnTrack

(* A size is read from the beginning of a chunk.                                 *)
LEMMA ArriveAtSize ==
  ASSUME response \in Responses, response' = response,
         NEW k \in 1 .. Len(response), taken' = Start(response, k),
         Len(usrbuf') = Said(response, k), tmp' = <<>>
  PROVE  AtSize'
  <1>1. ChunkOf(response, k)
    BY ChunkPlace
  <1>2. PICK st, sd, n : /\ st = Start(response, k) /\ sd = Said(response, k)
                         /\ n = Len(response[k].digits)
    OBVIOUS
  <1>3. st \in Nat /\ sd \in Nat /\ n \in Nat /\ k \in Nat
    BY <1>1, <1>2 DEF ChunkOf
  <1>4. taken' = st + 0 /\ Len(usrbuf') = sd + 0 /\ 0 <= n
    BY <1>2, <1>3
  <1>5. tmp' \in Seq(Digit) /\ Len(tmp') = 0
    BY EmptySeq
  <1>6. At(k, 0, 0)'
    BY <1>2, <1>4, Zenon DEF At
  <1>7. \A j \in 1 .. 0 : tmp'[j] = response'[k].digits[j]
    OBVIOUS
  <1>8. 0 \in Nat /\ 0 <= Len(response'[k].digits)
    BY <1>2, <1>4
  <1>9. QED
    BY <1>3, <1>5, <1>6, <1>7, <1>8, Zenon DEF AtSize

(* A size of digits alone is read as it is.                                      *)
LEMMA ScannedDigits ==
  ASSUME NEW t \in Seq(Digit)
  PROVE  Scanned(t) = t
  <1> DEFINE spans == {s \in (0 .. Len(t)) \X (0 .. Len(t)) :
                         /\ \A i \in 1 .. s[1] : t[i] = "LF"
                         /\ \A i \in s[1] + 1 .. s[2] : t[i] \in Digit}
             span == CHOOSE s \in spans : \A r \in spans : r[2] <= s[2]
  <1>1. PICK n : n = Len(t)
    OBVIOUS
  <1>2. n \in Nat /\ \A i \in 1 .. n : t[i] \in Digit
    BY <1>1, LenProperties, ElementOfSeq
  <1>3. \A s \in spans : /\ s[1] = 0 /\ s[2] \in 0 .. n
                         /\ s = <<s[1], s[2]>>
    <2> SUFFICES ASSUME NEW s \in spans
                 PROVE  s[1] = 0 /\ s[2] \in 0 .. n /\ s = <<s[1], s[2]>>
      OBVIOUS
    <2>1. s[1] \in 0 .. n /\ s[2] \in 0 .. n /\ \A i \in 1 .. s[1] : t[i] = "LF"
      BY <1>1
    <2>2. s[1] = 0
      <3> SUFFICES ASSUME s[1] # 0
                   PROVE  FALSE
        OBVIOUS
      <3>1. 1 \in 1 .. s[1] /\ 1 \in 1 .. n
        BY <1>2, <2>1
      <3>2. t[1] = "LF" /\ t[1] \in Digit
        BY <1>2, <2>1, <3>1
      <3>3. QED
        BY <3>2, Digits
    <2>3. QED
      BY <2>1, <2>2
  <1>4. <<0, n>> \in spans
    BY <1>1, <1>2
  <1>5. \A r \in spans : r[2] <= <<0, n>>[2]
    BY <1>2, <1>3
  <1> HIDE DEF spans
  <1>6. span \in spans /\ \A r \in spans : r[2] <= span[2]
    BY <1>4, <1>5
  <1>7. span[1] = 0 /\ span[2] = n
    BY <1>2, <1>3, <1>4, <1>6
  <1> HIDE DEF span
  <1>8. Scanned(t) = SubSeq(t, span[1] + 1, span[2])
    BY DEF Scanned, span, spans
  <1>9. SubSeq(t, 1, n) = t
    <2>1. PICK s : s = SubSeq(t, 1, n)
      OBVIOUS
    <2>2. /\ s \in Seq(Digit) /\ Len(s) = IF 1 <= n THEN n - 1 + 1 ELSE 0
          /\ \A i \in 1 .. n - 1 + 1 : s[i] = t[1 + i - 1]
      BY <1>2, <2>1, SubSeqProperties
    <2>3. s \in Seq(Digit) /\ Len(s) = Len(t)
      BY <1>1, <1>2, <2>2
    <2>4. \A i \in 1 .. Len(s) : s[i] = t[i]
      BY <1>1, <1>2, <2>2, <2>3
    <2>5. QED
      BY <2>1, <2>3, <2>4, SeqEqual
  <1>10. QED
    BY <1>7, <1>8, <1>9

(* Behind the line of a chunk its data are read, or all has been read.           *)
LEMMA ArriveAtBody ==
  ASSUME response \in Responses, response' = response, usrbuf' = usrbuf,
         NEW k \in 1 .. Len(response), tmp = response[k].digits,
         taken' = Start(response, k) + LineLen(response[k]),
         Len(usrbuf) = Said(response, k) + 0, StartChunk
  PROVE  Place'
  <1>1. ChunkOf(response, k)
    BY ChunkPlace
  <1>2. PICK st, sd, l, n, mt : /\ st = Start(response, k) /\ sd = Said(response, k)
                                /\ l = LineLen(response[k]) /\ n = Len(response[k].data)
                                /\ mt = Len(Meant(response))
    OBVIOUS
  <1>3. /\ st \in Nat /\ sd \in Nat /\ l \in Nat /\ n \in Nat /\ k \in Nat
        /\ n = 0 => sd = mt
    BY <1>1, <1>2, Zenon DEF ChunkOf
  <1>4. nleft' = n /\ rioPc' = IF n = 0 THEN "done" ELSE "readn"
    <2>1. n = ValueOf(tmp)
      BY <1>2, ChunkIs
    <2>2. PICK t : t = tmp
      OBVIOUS
    <2>3. t \in Seq(Digit) /\ Len(t) \in Nat \ {0}
      BY <2>2, ChunkIs
    <2>4. t \in Seq(Digit)
      BY <2>3
    <2>5. Scanned(t) = t /\ t # <<>>
      BY <2>3, <2>4, ScannedDigits, EmptySeq
    <2>6. chunksize' = n
      BY <2>1, <2>2, <2>5, Zenon DEF StartChunk
    <2>7. QED
      BY <2>6, Zenon DEF StartChunk
  <1>5. CASE n = 0
    <2>1. rioPc' = "done"
      BY <1>4, <1>5
    <2>2. Len(usrbuf') = mt
      BY <1>2, <1>3, <1>5
    <2>3. Len(usrbuf') = Len(Meant(response'))
      BY <1>2, <2>2
    <2>4. QED
      BY <2>1, <2>3, Zenon DEF Place
  <1>6. CASE n # 0
    <2>1. rioPc' = "readn"
      BY <1>4, <1>6
    <2>2. taken' = st + (l + 0) /\ 0 < n /\ nleft' = n - 0 /\ 0 \in Nat
      <3>1. nleft' = n /\ taken' = st + l
        BY <1>2, <1>4, Zenon
      <3>2. st \in Nat /\ l \in Nat /\ n \in Nat /\ n # 0
        BY <1>3, <1>6, Zenon
      <3>3. l + 0 = l /\ 0 < n /\ n - 0 = n /\ 0 \in Nat
        BY <3>2
      <3>4. QED
        BY <3>1, <3>3, Zenon
    <2>3. At(k, LineLen(response[k]) + 0, 0)'
      BY <1>2, <2>2, Zenon DEF At
    <2>4. AtReadn'
      BY <1>2, <1>3, <2>2, <2>3, Zenon DEF AtReadn
    <2>5. QED
      BY <2>1, <2>4, Zenon DEF Place
  <1>7. QED
    BY <1>5, <1>6

LEMMA WritenStep ==
  ASSUME OnTrack, Writen
  PROVE  OnTrack'
  <1>1. /\ rioPc = "writen" /\ response' = response /\ usrbuf' = usrbuf
        /\ taken' = taken /\ tmp' = tmp /\ rioPc' \in {"writen", "size"}
    BY DEF Writen
  <1>2. response' \in Responses /\ Decoded'
    BY <1>1, BodyKept
  <1>3. AtBegin /\ response \in Responses
    BY <1>1 DEF OnTrack, Place
  <1>4. CASE rioPc' = "writen"
    <2>1. AtBegin'
      BY <1>1, <1>3 DEF AtBegin
    <2>2. Place'
      BY <1>4, <2>1, Zenon DEF Place
    <2>3. QED
      BY <1>2, <2>2 DEF OnTrack
  <1>5. CASE rioPc' = "size"
    <2>1. 1 \in 1 .. Len(response) /\ Start(response, 1) = 0 /\ Said(response, 1) = 0
      BY <1>3, FirstChunk
    <2>2. taken' = 0 /\ Len(usrbuf') = 0 /\ tmp' = <<>>
      BY <1>1, <1>3, EmptySeq DEF AtBegin
    <2>3. AtSize'
      BY <1>1, <1>3, <2>1, <2>2, ArriveAtSize
    <2>4. Place'
      BY <1>5, <2>3, Zenon DEF Place
    <2>5. QED
      BY <1>2, <2>4 DEF OnTrack
  <1>6. QED
    BY <1>1, <1>4, <1>5

LEMMA InterruptSizeStep ==
  ASSUME OnTrack, InterruptSize
  PROVE  OnTrack'
  <1>1. rioPc' = "failed" /\ response' = response /\ usrbuf' = usrbuf
    BY DEF InterruptSize, net
  <1>2. response' \in Responses /\ Decoded'
    BY <1>1, BodyKept
  <1>3. Place'
    BY <1>1, Zenon DEF Place
  <1>4. QED
    BY <1>2, <1>3 DEF OnTrack

LEMMA Unchanged ==
  ASSUME OnTrack, UNCHANGED rioVars
  PROVE  OnTrack'
  <1>1. /\ response' = response /\ taken' = taken /\ rioPc' = rioPc /\ tmp' = tmp
        /\ nleft' = nleft /\ c' = c /\ rn' = rn /\ usrbuf' = usrbuf
    BY DEF rioVars
  <1>2. response' \in Responses /\ Decoded'
    BY <1>1, BodyKept
  <1>3. Place
    BY DEF OnTrack
  <1>4. /\ AtBegin => AtBegin'
        /\ AtSize => AtSize'
        /\ AtSizeLF => AtSizeLF'
    BY <1>1, Zenon DEF AtBegin, AtSize, AtSizeLF, At
  <1>5. /\ AtExtension => AtExtension'
        /\ AtReadn => AtReadn'
        /\ AtBoundary => AtBoundary'
    BY <1>1, Zenon DEF AtExtension, AtReadn, AtBoundary, At, Fresh
  <1>6. Place'
    BY <1>1, <1>3, <1>4, <1>5, Zenon DEF Place
  <1>7. QED
    BY <1>2, <1>6 DEF OnTrack

LEMMA LineOf ==
  ASSUME response \in Responses, NEW k \in 1 .. Len(response)
  PROVE  /\ LineHas(response[k], Line(response[k]))
         /\ Len(response[k].digits) \in Nat \ {0}
         /\ LineLen(response[k]) \in Nat
         /\ response[k].ext \in BOOLEAN
         /\ response[k].ext => LineLen(response[k]) = Len(response[k].digits) + 4
         /\ ~response[k].ext => LineLen(response[k]) = Len(response[k].digits) + 2
         /\ response[k].digits \in Seq(Digit)
  <1>1. /\ response[k].digits \in Seq(Digit) /\ response[k].ext \in BOOLEAN
        /\ Len(response[k].digits) \in Nat \ {0}
    BY ChunkIs
  <1>2. LineHas(response[k], Line(response[k]))
    BY <1>1, LineParts
  <1>3. PICK n, l, ext : /\ n = Len(response[k].digits) /\ ext = response[k].ext
                         /\ l = LineLen(response[k])
    OBVIOUS
  <1>4. l = n + (IF ext THEN 4 ELSE 2)
    BY <1>3, Zenon DEF LineLen
  <1>5. n \in Nat \ {0} /\ ext \in BOOLEAN
    BY <1>1, <1>3, Zenon
  <1>6. n \in Nat \ {0} /\ l \in Nat /\ (ext => l = n + 4) /\ (~ext => l = n + 2)
    <2>1. CASE ext
      BY <1>4, <1>5, <2>1
    <2>2. CASE ~ext
      BY <1>4, <1>5, <2>2
    <2>3. QED
      BY <2>1, <2>2
  <1>7. QED
    BY <1>1, <1>2, <1>3, <1>6, Zenon

(* The character a size is read up to: another digit, or the one that ends it.   *)
LEMMA NextOfSize ==
  ASSUME response \in Responses, NEW k \in 1 .. Len(response),
         NEW d \in 0 .. Len(response[k].digits), taken = Start(response, k) + d,
         NEW x, Read(x)
  PROVE  /\ taken' = Start(response, k) + (d + 1)
         /\ d < Len(response[k].digits) => x = response[k].digits[d + 1] /\ x \in Digit
         /\ d = Len(response[k].digits) => x = IF response[k].ext THEN ";" ELSE "CR"
  <1>1. /\ LineHas(response[k], Line(response[k]))
        /\ Len(response[k].digits) \in Nat
        /\ d \in Nat /\ d < LineLen(response[k])
        /\ response[k].digits \in Seq(Digit)
    <2>1. PICK n, l : n = Len(response[k].digits) /\ l = LineLen(response[k])
      OBVIOUS
    <2>2. n \in Nat /\ (l = n + 4 \/ l = n + 2) /\ d \in 0 .. n
      BY <2>1, LineOf, Zenon
    <2>3. d \in Nat /\ d < l
      BY <2>2
    <2>4. QED
      BY <2>1, <2>2, <2>3, LineOf, Zenon
  <1>2. x = Line(response[k])[d + 1] /\ taken' = Start(response, k) + (d + 1)
    BY <1>1, NextInLine
  <1>3. PICK n : n = Len(response[k].digits)
    OBVIOUS
  <1>4. ASSUME d < n
        PROVE  x = response[k].digits[d + 1] /\ x \in Digit
    <2>1. d + 1 \in 1 .. n
      BY <1>1, <1>3, <1>4
    <2>2. Line(response[k])[d + 1] = response[k].digits[d + 1]
      BY <1>1, <1>3, <2>1, Zenon DEF LineHas
    <2>3. response[k].digits[d + 1] \in Digit
      <3>1. PICK s : s = response[k].digits
        OBVIOUS
      <3>2. s \in Seq(Digit) /\ d + 1 \in 1 .. Len(s)
        BY <1>1, <1>3, <2>1, <3>1
      <3>3. s[d + 1] \in Digit
        BY <3>2, ElementOfSeq
      <3>4. QED
        BY <3>1, <3>3
    <2>4. QED
      BY <1>2, <2>2, <2>3
  <1>5. ASSUME d = n
        PROVE  x = IF response[k].ext THEN ";" ELSE "CR"
    <2>1. x = Line(response[k])[n + 1]
      BY <1>2, <1>5
    <2>2. QED
      BY <1>1, <1>3, <2>1, Zenon DEF LineHas
  <1>6. QED
    BY <1>2, <1>3, <1>4, <1>5, Zenon

LEMMA ReadSizeStep ==
  ASSUME OnTrack, ReadSize, ~astray'
  PROVE  OnTrack'
  <1>1. rioPc = "size" /\ response' = response /\ usrbuf' = usrbuf
    BY DEF ReadSize, net
  <1>2. response' \in Responses /\ Decoded'
    BY <1>1, BodyKept
  <1>3. AtSize /\ response \in Responses
    BY <1>1 DEF OnTrack, Place
  <1>4. PICK k, d \in Nat : /\ At(k, d, 0)
                            /\ d <= Len(response[k].digits)
                            /\ tmp \in Seq(Digit) /\ Len(tmp) = d
                            /\ \A j \in 1 .. d : tmp[j] = response[k].digits[j]
    BY <1>3 DEF AtSize
  <1>5. /\ k \in 1 .. Len(response) /\ taken = Start(response, k) + d
        /\ Len(usrbuf) = Said(response, k) + 0
    BY <1>4 DEF At
  <1>6. PICK n : n = Len(response[k].digits)
    OBVIOUS
  <1>7. n \in Nat
    BY <1>3, <1>5, <1>6, LineOf
  <1>8. d \in 0 .. Len(response[k].digits)
    BY <1>4, <1>6, <1>7
  <1>9. PICK x \in Char :
          /\ Read(x)
          /\ \/ x \notin {"CR", ";"} /\ tmp' = Append(tmp, x) /\ rioPc' = rioPc
             \/ x \notin {"CR", ";"} /\ FullTmp(Append(tmp, x))
             \/ x = "CR" /\ rioPc' = "sizeLF" /\ tmp' = tmp
             \/ x = ";" /\ rioPc' = "extension" /\ rn' = 0 /\ tmp' = tmp
    BY DEF ReadSize, BeginSearch
  <1>10. /\ taken' = Start(response, k) + (d + 1)
         /\ d < n => x = response[k].digits[d + 1] /\ x \in Digit
         /\ d = n => x = IF response[k].ext THEN ";" ELSE "CR"
    BY <1>3, <1>5, <1>6, <1>8, <1>9, NextOfSize
  <1>11. CASE d < n
    <2>1. x \in Digit /\ x = response[k].digits[d + 1]
      BY <1>10, <1>11
    <2>2. PICK t : t = Append(tmp, x)
      OBVIOUS
    <2>3. /\ t \in Seq(Digit) /\ Len(t) = d + 1
          /\ \A j \in 1 .. d + 1 : t[j] = response[k].digits[j]
      <3>1. PICK u : u = tmp
        OBVIOUS
      <3>2. u \in Seq(Digit) /\ Len(u) = d /\ t = Append(u, x)
        BY <1>4, <2>2, <3>1
      <3>3. u \in Seq(Digit)
        BY <3>2
      <3>4. /\ t \in Seq(Digit) /\ Len(t) = Len(u) + 1
            /\ \A j \in 1 .. Len(u) : t[j] = u[j]
            /\ t[Len(u) + 1] = x
        BY <2>1, <3>2, <3>3, AppendProperties
      <3>5. /\ Len(t) = d + 1
            /\ \A j \in 1 .. d : t[j] = response[k].digits[j]
            /\ t[d + 1] = response[k].digits[d + 1]
        BY <1>4, <2>1, <3>1, <3>2, <3>4, Zenon
      <3>6. \A j \in 1 .. d + 1 : j \in 1 .. d \/ j = d + 1
        BY <1>4
      <3>7. QED
        BY <3>4, <3>5, <3>6, Zenon
    <2>4. d + 1 \in Nat /\ d + 1 <= n
      BY <1>4, <1>7, <1>11
    <2>5. At(k, d + 1, 0)'
      BY <1>1, <1>5, <1>10, Zenon DEF At
    <2>6. CASE tmp' = t /\ rioPc' = "size"
      <3>1. AtSize'
        BY <1>1, <1>4, <1>6, <2>3, <2>4, <2>5, <2>6, Zenon DEF AtSize
      <3>2. Place'
        BY <2>6, <3>1, Zenon DEF Place
      <3>3. QED
        BY <1>2, <3>2 DEF OnTrack
    <2>7. CASE FullTmp(t)
      <3>1. ChunkOf(response, k)
        BY <1>3, <1>5, ChunkPlace
      <3>2. PICK st, l, line : /\ st = Start(response, k) /\ l = LineLen(response[k])
                               /\ line = Line(response[k])
        OBVIOUS
      <3>3. st \in Nat /\ l \in Nat /\ n + 2 <= l
        <4>1. st \in Nat /\ (l = n + 2 \/ l = n + 4)
          BY <1>3, <1>5, <1>6, <3>1, <3>2, LineOf, Zenon DEF ChunkOf
        <4>2. QED
          BY <1>7, <4>1
      <3>4. d + 2 \in 1 .. l /\ d + 1 < l /\ taken + 2 = st + (d + 2)
        BY <1>4, <1>5, <1>7, <2>4, <3>2, <3>3
      <3>5. /\ d + 1 < n => line[d + 2] \in Digit
            /\ d + 1 = n => line[d + 2] \in {"CR", ";"}
        <4>1. LineHas(response[k], line) /\ response[k].digits \in Seq(Digit)
          BY <1>3, <1>5, <3>2, LineOf
        <4>2. ASSUME d + 1 < n
              PROVE  line[d + 2] \in Digit
          <5>1. d + 2 \in 1 .. n
            BY <1>4, <1>7, <4>2
          <5>2. line[d + 2] = response[k].digits[d + 2]
            BY <1>6, <4>1, <5>1, Zenon DEF LineHas
          <5>3. PICK s : s = response[k].digits
            OBVIOUS
          <5>4. s \in Seq(Digit) /\ d + 2 \in 1 .. Len(s)
            BY <1>6, <4>1, <5>1, <5>3
          <5>5. s \in Seq(Digit)
            BY <5>4
          <5>6. s[d + 2] \in Digit
            BY <5>4, <5>5, ElementOfSeq
          <5>7. QED
            BY <5>2, <5>3, <5>6
        <4>3. ASSUME d + 1 = n
              PROVE  line[d + 2] \in {"CR", ";"}
          <5>1. d + 2 = n + 1
            BY <1>4, <4>3
          <5>2. line[n + 1] = "CR" \/ line[n + 1] = ";"
            BY <1>6, <4>1, Zenon DEF LineHas
          <5>3. QED
            BY <5>1, <5>2
        <4>4. QED
          BY <4>2, <4>3
      <3>6. Stream[taken + 2] = line[d + 2] /\ taken + 2 \in 1 .. Len(Stream)
        <4>1. /\ \A j \in 1 .. l : Stream[st + j] = line[j]
              /\ st + l + Len(response[k].data) + 2 <= Len(Stream)
              /\ Len(response[k].data) \in Nat
          BY <3>1, <3>2, Zenon DEF ChunkOf, ChunkAt, Stream
        <4>2. PICK e, z : e = Len(response[k].data) /\ z = Len(Stream)
          OBVIOUS
        <4>3. e \in Nat /\ st + l + e + 2 <= z /\ z \in Nat
          <5>1. PICK s : s = SentTo(response)
            OBVIOUS
          <5>2. SentParts(response, s)
            BY <1>3, <5>1, SentInParts DEF SentTo
          <5>3. PICK m : m = Len(response)
            OBVIOUS
          <5>4. m \in Nat /\ s \in [0 .. m -> Seq(Char)] /\ Stream = s[m]
            BY <1>3, <5>2, <5>3, ChunkIs DEF SentParts, Stream
          <5>5. s[m] \in Seq(Char)
            BY <5>4
          <5>6. PICK u : u = s[m]
            OBVIOUS
          <5>7. u \in Seq(Char) /\ z = Len(u)
            BY <4>2, <5>4, <5>5, <5>6
          <5>8. u \in Seq(Char)
            BY <5>7
          <5>9. Len(u) \in Nat
            BY <5>8, LenProperties
          <5>10. st + l + e + 2 <= z
            BY <4>1, <4>2
          <5>11. QED
            BY <4>1, <4>2, <5>7, <5>9, <5>10
        <4>4. taken + 2 \in 1 .. z
          BY <3>3, <3>4, <4>3
        <4>5. d + 2 \in 1 .. l /\ taken + 2 = st + (d + 2)
          BY <3>4, Zenon
        <4>6. Stream[st + (d + 2)] = line[d + 2]
          BY <4>1, <4>5, Zenon
        <4>7. Stream[taken + 2] = line[d + 2]
          BY <4>5, <4>6, Zenon
        <4>8. QED
          BY <4>2, <4>4, <4>7, Zenon
      <3>7. CASE tmp' = t /\ rioPc' = "sizeLF"
        <4>1. line[d + 2] # "LF"
          <5>1. d + 1 < n \/ d + 1 = n
            BY <1>7, <2>4
          <5>2. QED
            BY <3>5, <5>1, Digits
        <4>2. d + 1 + 1 = d + 2
          BY <1>4
        <4>3. Line(response'[k])[d + 1 + 1] # "LF"
          BY <1>1, <3>2, <4>1, <4>2, Zenon
        <4>4. d + 1 < LineLen(response'[k])
          BY <1>1, <3>2, <3>4, Zenon
        <4>5. AtSizeLF'
          BY <1>4, <2>4, <2>5, <4>3, <4>4, Zenon DEF AtSizeLF
        <4>6. Place'
          BY <3>7, <4>5, Zenon DEF Place
        <4>7. QED
          BY <1>2, <4>6 DEF OnTrack
      <3>8. ASSUME NEW more \in Behind, tmp' = t \o more, rioPc' = "extension", rn' = 0,
                   astray' = (\/ astray \/ more # <<>>
                              \/ taken + 2 \in 1 .. Len(Stream) /\ Stream[taken + 2] \in Digit)
            PROVE  OnTrack'
        <4>1. more = <<>> /\ Stream[taken + 2] \notin Digit
          BY <3>6, <3>8, Zenon
        <4>2. d + 1 = n
          <5>1. ~ (d + 1 < n)
            BY <3>5, <3>6, <4>1
          <5>2. QED
            BY <1>7, <2>4, <5>1
        <4>3. tmp' = response[k].digits
          <5>1. t \in Seq(Digit)
            BY <2>3
          <5>2. t \o <<>> = t
            BY <5>1, ConcatEmptySeq
          <5>3. PICK s : s = response[k].digits
            OBVIOUS
          <5>4. s \in Seq(Digit) /\ Len(s) = n
            BY <1>3, <1>5, <1>6, <5>3, LineOf
          <5>5. s \in Seq(Digit)
            BY <5>4
          <5>6. Len(t) = Len(s) /\ \A j \in 1 .. Len(t) : t[j] = s[j]
            BY <2>3, <4>2, <5>3, <5>4
          <5>7. t = s
            BY <5>1, <5>5, <5>6, SeqEqual
          <5>8. QED
            BY <3>8, <4>1, <5>2, <5>3, <5>7
        <4>4. At(k, n, 0)'
          BY <2>5, <4>2
        <4>5. n = Len(response'[k].digits) /\ n <= n /\ n < LineLen(response'[k])
          <5>1. n <= n /\ n < l
            BY <1>7, <3>3
          <5>2. QED
            BY <1>1, <1>6, <3>2, <5>1
        <4>6. Fresh'
          BY <3>8, Zenon DEF Fresh
        <4>7. AtExtension'
          BY <1>1, <1>4, <1>7, <4>3, <4>4, <4>5, <4>6, Zenon DEF AtExtension
        <4>8. Place'
          BY <3>8, <4>7, Zenon DEF Place
        <4>9. QED
          BY <1>2, <4>8 DEF OnTrack
      <3>9. QED
        <4>1. \/ tmp' = t /\ rioPc' = "sizeLF"
              \/ \E more \in Behind :
                   /\ tmp' = t \o more /\ rioPc' = "extension" /\ rn' = 0
                   /\ astray' = (\/ astray \/ more # <<>>
                                 \/ taken + 2 \in 1 .. Len(Stream) /\ Stream[taken + 2] \in Digit)
          BY <2>7, Zenon DEF FullTmp, BeginSearch
        <4>2. QED
          BY <3>7, <3>8, <4>1, Zenon
    <2>8. (tmp' = t /\ rioPc' = "size") \/ FullTmp(t)
      BY <1>1, <1>9, <2>1, <2>2, Digits, Zenon
    <2>9. QED
      BY <2>6, <2>7, <2>8
  <1>12. CASE d = n
    <2>1. x = IF response[k].ext THEN ";" ELSE "CR"
      BY <1>10, <1>12
    <2>2. tmp' = response[k].digits
      <3>1. tmp' = tmp
        BY <1>9, <2>1, Digits, Zenon
      <3>2. PICK t, s : t = tmp /\ s = response[k].digits
        OBVIOUS
      <3>3. t \in Seq(Digit) /\ Len(t) = n /\ \A j \in 1 .. n : t[j] = s[j]
        BY <1>4, <1>12, <3>2, Zenon
      <3>4. s \in Seq(Digit) /\ Len(s) = n
        BY <1>3, <1>5, <1>6, <3>2, LineOf
      <3>5. t \in Seq(Digit)
        BY <3>3
      <3>6. s \in Seq(Digit)
        BY <3>4
      <3>7. Len(t) = Len(s) /\ \A j \in 1 .. Len(t) : t[j] = s[j]
        BY <3>3, <3>4
      <3>8. t = s
        BY <3>5, <3>6, <3>7, SeqEqual
      <3>9. QED
        BY <3>1, <3>2, <3>8
    <2>3. CASE response[k].ext
      <3>1. rioPc' = "extension" /\ rn' = 0
        BY <1>9, <2>1, <2>3, Digits, Zenon
      <3>2. At(k, n + 1, 0)'
        BY <1>1, <1>5, <1>10, <1>12, Zenon DEF At
      <3>3. Fresh'
        BY <3>1, Zenon DEF Fresh
      <3>4. n + 1 \in Nat /\ n <= n + 1
        BY <1>7
      <3>5. n + 1 < LineLen(response'[k])
        <4>1. LineLen(response[k]) = n + 4
          BY <1>3, <1>5, <1>6, <2>3, LineOf
        <4>2. n + 1 < LineLen(response[k])
          BY <1>7, <4>1
        <4>3. QED
          BY <1>1, <4>2
      <3>6. AtExtension'
        BY <1>1, <1>4, <1>6, <2>2, <2>3, <3>2, <3>3, <3>4, <3>5, Zenon DEF AtExtension
      <3>7. Place'
        BY <3>1, <3>6, Zenon DEF Place
      <3>8. QED
        BY <1>2, <3>7 DEF OnTrack
    <2>4. CASE ~response[k].ext
      <3>1. rioPc' = "sizeLF"
        BY <1>9, <2>1, <2>4, Digits, Zenon
      <3>2. At(k, n + 1, 0)'
        BY <1>1, <1>5, <1>10, <1>12, Zenon DEF At
      <3>3. AtSizeLF'
        <4>1. LineLen(response[k]) = n + 2
          BY <1>3, <1>5, <1>6, <2>4, LineOf
        <4>2. n + 1 \in Nat /\ n + 1 < n + 2 /\ n + 1 + 1 = n + 2
          BY <1>7
        <4>3. QED
          BY <1>1, <1>4, <2>2, <3>2, <4>1, <4>2, Zenon DEF AtSizeLF
      <3>4. Place'
        BY <3>1, <3>3, Zenon DEF Place
      <3>5. QED
        BY <1>2, <3>4 DEF OnTrack
    <2>5. QED
      BY <2>3, <2>4
  <1>13. d < n \/ d = n
    BY <1>6, <1>7, <1>8
  <1>14. QED
    BY <1>11, <1>12, <1>13

LEMMA ReadSizeLFStep ==
  ASSUME OnTrack, ReadSizeLF
  PROVE  OnTrack'
  <1>1. rioPc = "sizeLF" /\ response' = response /\ usrbuf' = usrbuf
    BY DEF ReadSizeLF, net
  <1>2. response' \in Responses /\ Decoded'
    BY <1>1, BodyKept
  <1>3. AtSizeLF /\ response \in Responses
    BY <1>1 DEF OnTrack, Place
  <1>4. PICK k, e \in Nat :
          /\ At(k, e, 0) /\ e < LineLen(response[k])
          /\ Line(response[k])[e + 1] = "LF" =>
               tmp = response[k].digits /\ e + 1 = LineLen(response[k])
    BY <1>3 DEF AtSizeLF
  <1>5. /\ k \in 1 .. Len(response) /\ taken = Start(response, k) + e
        /\ Len(usrbuf) = Said(response, k) + 0
    BY <1>4 DEF At
  <1>6. PICK x \in Char : /\ Read(x)
                          /\ IF x = "LF" THEN StartChunk ELSE rioPc' = "failed"
    BY DEF ReadSizeLF
  <1>7. x = Line(response[k])[e + 1] /\ taken' = Start(response, k) + (e + 1)
    <2>1. Read(x)
      BY <1>6, Zenon
    <2>2. QED
      BY <1>3, <1>4, <1>5, <2>1, NextInLine
  <1>8. CASE x = "LF"
    <2>1. StartChunk /\ tmp = response[k].digits
      BY <1>4, <1>6, <1>7, <1>8, Zenon
    <2>2. taken' = Start(response, k) + LineLen(response[k])
      BY <1>4, <1>7, <1>8, Zenon
    <2>3. k \in 1 .. Len(response) /\ Len(usrbuf) = Said(response, k) + 0
      BY <1>5
    <2>4. Place'
      BY <1>1, <1>3, <2>1, <2>2, <2>3, ArriveAtBody
    <2>5. QED
      BY <1>2, <2>4 DEF OnTrack
  <1>9. CASE x # "LF"
    <2>1. rioPc' = "failed"
      BY <1>6, <1>9, Zenon
    <2>2. Place'
      BY <2>1, Zenon DEF Place
    <2>3. QED
      BY <1>2, <2>2 DEF OnTrack
  <1>10. QED
    BY <1>8, <1>9

(* A piece of a stream that goes on where the body ends.                         *)
BodyIs(S, body, n, meant) == /\ body \in Seq(S) /\ Len(body) = n
                             /\ \A j \in 1 .. n : body[j] = meant[j]

LEMMA MoreOfBody ==
  ASSUME NEW S, NEW body, NEW m \in Nat, NEW meant, BodyIs(S, body, m, meant),
         NEW stream, NEW t \in Nat, NEW n \in Nat \ {0},
         \A j \in 1 .. n : stream[t + j] \in S /\ stream[t + j] = meant[m + j]
  PROVE  BodyIs(S, body \o SubSeq(stream, t + 1, t + n), m + n, meant)
  <1>1. body \in Seq(S)
    BY DEF BodyIs
  <1>2. Len(body) = m /\ \A j \in 1 .. m : body[j] = meant[j]
    BY DEF BodyIs
  <1>3. PICK r : r = SubSeq(stream, t + 1, t + n)
    OBVIOUS
  <1>4. /\ r \in Seq(S) /\ Len(r) = n
        /\ \A j \in 1 .. n : r[j] = stream[t + j]
    <2>1. t + 1 \in Int /\ t + n \in Int /\ t + 1 <= t + n /\ t + n - (t + 1) + 1 = n
      OBVIOUS
    <2>2. \A i \in t + 1 .. t + n : stream[i] \in S
      <3>1. ASSUME NEW i \in t + 1 .. t + n
            PROVE  stream[i] \in S
        <4>1. i - t \in 1 .. n /\ t + (i - t) = i
          OBVIOUS
        <4>2. stream[t + (i - t)] \in S
          BY <4>1
        <4>3. QED
          BY <4>1, <4>2
      <3>2. QED
        BY <3>1
    <2>3. /\ r \in Seq(S)
          /\ Len(r) = IF t + 1 <= t + n THEN t + n - (t + 1) + 1 ELSE 0
          /\ \A i \in 1 .. t + n - (t + 1) + 1 : r[i] = stream[t + 1 + i - 1]
      BY <1>3, <2>1, <2>2, SubSeqProperties
    <2>4. \A j \in 1 .. n : t + 1 + j - 1 = t + j
      OBVIOUS
    <2>5. QED
      BY <2>1, <2>3, <2>4
  <1>5. r \in Seq(S)
    BY <1>4
  <1>6. PICK u : u = body \o r
    OBVIOUS
  <1>7. /\ u \in Seq(S) /\ Len(u) = m + n
        /\ \A j \in 1 .. m : u[j] = body[j]
        /\ \A j \in 1 .. n : u[m + j] = r[j]
    <2>1. /\ u \in Seq(S) /\ Len(u) = Len(body) + Len(r)
          /\ \A j \in 1 .. Len(body) : u[j] = body[j]
          /\ \A j \in 1 .. Len(r) : u[Len(body) + j] = r[j]
      BY <1>1, <1>5, <1>6, TwoParts
    <2>2. Len(body) = m /\ Len(r) = n
      BY <1>2, <1>4
    <2>3. QED
      BY <2>1, <2>2, Zenon
  <1>8. ASSUME NEW j \in 1 .. m + n
        PROVE  u[j] = meant[j]
    <2>1. CASE j \in 1 .. m
      BY <1>2, <1>7, <2>1
    <2>2. CASE j \notin 1 .. m
      <3>1. j - m \in 1 .. n /\ m + (j - m) = j
        BY <2>2
      <3>2. u[m + (j - m)] = r[j - m] /\ r[j - m] = stream[t + (j - m)]
            /\ stream[t + (j - m)] = meant[m + (j - m)]
        BY <1>4, <1>7, <3>1
      <3>3. QED
        BY <3>1, <3>2
    <2>3. QED
      BY <2>1, <2>2
  <1>9. QED
    BY <1>3, <1>6, <1>7, <1>8, Zenon DEF BodyIs

LEMMA ReadnStep ==
  ASSUME OnTrack, Readn
  PROVE  OnTrack'
  <1>1. rioPc = "readn" /\ response' = response
    BY DEF Readn, net
  <1>2. AtReadn /\ response \in Responses /\ Decoded
    BY <1>1 DEF OnTrack, Place
  <1>3. PICK k, g \in Nat : /\ At(k, LineLen(response[k]) + g, g)
                            /\ g < Len(response[k].data) /\ nleft = Len(response[k].data) - g
    BY <1>2 DEF AtReadn
  <1>4. PICK n \in 1 .. Len(Stream) - taken :
          /\ n <= nleft
          /\ taken' = taken + n
          /\ nleft' = nleft - n
          /\ ~Fits(n) => rioPc' = "overrun" /\ usrbuf' = usrbuf
          /\ Fits(n) => /\ usrbuf' = usrbuf \o SubSeq(Stream, taken + 1, taken + n)
                        /\ n = nleft => rioPc' = "boundary" /\ rn' = 0
                        /\ n # nleft => rioPc' = rioPc
    BY DEF Readn, BeginSearch
  <1>5. k \in 1 .. Len(response)
    BY <1>3 DEF At
  <1>6. ChunkOf(response, k)
    BY <1>2, <1>5, ChunkPlace
  <1>7. PICK st, sd, l, e, mt, t :
          /\ st = Start(response, k) /\ sd = Said(response, k) /\ l = LineLen(response[k])
          /\ e = Len(response[k].data) /\ mt = Len(Meant(response)) /\ t = taken
    OBVIOUS
  <1>8. st \in Nat /\ sd \in Nat /\ l \in Nat /\ e \in Nat /\ mt \in Nat /\ sd + e <= mt
    BY <1>6, <1>7, Zenon DEF ChunkOf
  <1>9. t = st + (l + g) /\ Len(usrbuf) = sd + g /\ g < e /\ nleft = e - g
    BY <1>3, <1>7, Zenon DEF At
  <1>10. /\ n \in Nat \ {0} /\ g + n <= e /\ t \in Nat /\ sd + g \in Nat
         /\ t + n = st + (l + (g + n))
         /\ sd + g + n = sd + (g + n)
         /\ e - g - n = e - (g + n)
         /\ n = e - g <=> g + n = e
    <2>1. n \in Int /\ 1 <= n /\ n <= e - g
      BY <1>4, <1>9
    <2>2. QED
      BY <1>8, <1>9, <2>1
  <1>11. PICK str, mn : str = Stream /\ mn = Meant(response)
    OBVIOUS
  <1>12. ASSUME NEW j \in 1 .. n
         PROVE  str[t + j] \in Char /\ str[t + j] = mn[sd + g + j]
    <2>1. /\ g + j \in 1 .. e /\ t + j = st + l + (g + j) /\ sd + g + j = sd + (g + j)
      BY <1>8, <1>9, <1>10
    <2>2. Stream[st + l + (g + j)] = response[k].data[g + j]
      BY <1>6, <1>7, <2>1, Zenon DEF ChunkOf, ChunkAt, Stream
    <2>3. mn[sd + (g + j)] = response[k].data[g + j]
      BY <1>6, <1>7, <1>11, <2>1, Zenon DEF ChunkOf
    <2>4. response[k].data[g + j] \in Char
      <3>1. PICK s : s = response[k].data
        OBVIOUS
      <3>2. s \in Seq(Char) /\ g + j \in 1 .. Len(s)
        BY <1>2, <1>5, <1>7, <2>1, <3>1, ChunkIs
      <3>3. s \in Seq(Char)
        BY <3>2
      <3>4. s[g + j] \in Char
        BY <3>2, <3>3, ElementOfSeq
      <3>5. QED
        BY <3>1, <3>4
    <2>5. QED
      BY <1>11, <2>1, <2>2, <2>3, <2>4, Zenon
  <1>13. BodyIs(Char, usrbuf, sd + g, mn)
    BY <1>2, <1>9, <1>11, Zenon DEF Decoded, BodyIs
  <1>14. BodyIs(Char, usrbuf \o SubSeq(str, t + 1, t + n), sd + g + n, mn)
    <2>1. PICK body, m : body = usrbuf /\ m = sd + g
      OBVIOUS
    <2>2. m \in Nat /\ BodyIs(Char, body, m, mn)
      BY <1>10, <1>13, <2>1
    <2>3. \A j \in 1 .. n : str[t + j] \in Char /\ str[t + j] = mn[m + j]
      BY <1>12, <2>1, Zenon
    <2>4. t \in Nat /\ n \in Nat \ {0}
      BY <1>10
    <2>5. BodyIs(Char, body \o SubSeq(str, t + 1, t + n), m + n, mn)
      BY <2>2, <2>3, <2>4, MoreOfBody
    <2>6. QED
      BY <2>1, <2>5, Zenon
  <1>0. CASE ~Fits(n)
    <2>1. rioPc' = "overrun" /\ usrbuf' = usrbuf
      BY <1>0, <1>4
    <2>2. response' \in Responses /\ Decoded'
      BY <1>1, <2>1, BodyKept
    <2>3. MAX_BUFFER \in Nat
      BY RioAssumption
    <2>4. ~ (sd + g + n <= MAX_BUFFER + 1)
      BY <1>0, <1>9 DEF Fits
    <2>5. mt > MAX_BUFFER + 1
      BY <1>8, <1>10, <2>3, <2>4
    <2>6. Len(Meant(response')) > MAX_BUFFER + 1
      BY <1>1, <1>7, <2>5
    <2>7. Place'
      BY <2>1, <2>6, Zenon DEF Place
    <2>8. QED
      BY <2>2, <2>7 DEF OnTrack
  <1> SUFFICES ASSUME Fits(n)
               PROVE  OnTrack'
    BY <1>0
  <1>15. BodyIs(Char, usrbuf', sd + (g + n), mn)
    <2>1. usrbuf' = usrbuf \o SubSeq(str, t + 1, t + n)
      BY <1>4, <1>7, <1>11, Zenon
    <2>2. QED
      BY <1>10, <1>14, <2>1, Zenon
  <1>16. response' \in Responses /\ Decoded'
    <2>1. sd + (g + n) <= mt
      BY <1>8, <1>10
    <2>2. sd + g + n <= MAX_BUFFER + 1
      BY <1>9 DEF Fits
    <2>3. sd + (g + n) <= MAX_BUFFER + 1
      BY <1>10, <2>2, Zenon
    <2>4. QED
      BY <1>1, <1>2, <1>7, <1>11, <1>15, <2>1, <2>3, Zenon DEF BodyIs, Decoded
  <1>17. Len(usrbuf') = sd + (g + n) /\ taken' = st + (l + (g + n)) /\ nleft' = e - (g + n)
    <2>1. Len(usrbuf') = sd + (g + n)
      BY <1>15 DEF BodyIs
    <2>2. taken' = t + n /\ nleft' = e - g - n
      BY <1>4, <1>7, <1>9, Zenon
    <2>3. QED
      BY <1>10, <2>1, <2>2, Zenon
  <1>18. CASE n = nleft
    <2>1. rioPc' = "boundary" /\ rn' = 0 /\ g + n = e
      BY <1>4, <1>9, <1>10, <1>18, Zenon
    <2>2. taken' = st + (l + e + 0) /\ Len(usrbuf') = sd + e /\ e # 0 /\ 0 \in Nat
      <3>1. l + e = l + e + 0 /\ e # 0
        BY <1>8, <1>9
      <3>2. QED
        BY <1>17, <2>1, <3>1, Zenon
    <2>3. At(k, LineLen(response[k]) + Len(response[k].data) + 0, Len(response[k].data))'
      BY <1>1, <1>5, <1>7, <2>2, Zenon DEF At
    <2>4. Fresh'
      BY <2>1, Zenon DEF Fresh
    <2>5. AtBoundary'
      BY <1>1, <1>3, <1>7, <2>2, <2>3, <2>4, Zenon DEF AtBoundary
    <2>6. Place'
      BY <2>1, <2>5, Zenon DEF Place
    <2>7. QED
      BY <1>16, <2>6 DEF OnTrack
  <1>19. CASE n # nleft
    <2>1. rioPc' = "readn"
      BY <1>1, <1>4, <1>19, Zenon
    <2>2. g + n \in Nat /\ g + n < e
      <3>1. n # e - g
        BY <1>9, <1>19
      <3>2. QED
        BY <1>8, <1>10, <3>1
    <2>3. At(k, LineLen(response[k]) + (g + n), g + n)'
      BY <1>1, <1>5, <1>7, <1>17, Zenon DEF At
    <2>4. AtReadn'
      BY <1>1, <1>3, <1>7, <1>17, <2>2, <2>3, Zenon DEF AtReadn
    <2>5. Place'
      BY <2>1, <2>4, Zenon DEF Place
    <2>6. QED
      BY <1>16, <2>5 DEF OnTrack
  <1>20. QED
    BY <1>18, <1>19

(* A search that is not at its end stays where it is; interrupted before it has  *)
(* read a character it has found one at most, or goes astray.                    *)
LEMMA SearchGoesOn ==
  ASSUME NEW x, Search(x), Found(x) # 2
  PROVE  /\ rioPc' = rioPc /\ tmp' = tmp /\ response' = response /\ usrbuf' = usrbuf
         /\ c' = x /\ rn' = Found(x)
  <1>1. /\ rn' = Found(x) /\ c' = x
        /\ response' = response /\ usrbuf' = usrbuf
        /\ rn' # 2 => rioPc' = rioPc /\ tmp' = tmp
    BY DEF Search, net
  <1>2. QED
    BY <1>1

LEMMA FreshSearch ==
  ASSUME Fresh, InterruptSearch, ~astray'
  PROVE  Found(c) # 2 /\ Fresh'
  <1>1. Search(c) /\ Found(c) # 2
    BY DEF InterruptSearch
  <1>2. Found(c) = 0 \/ Found(c) = 1
    <2>1. Found(c) = IF c = "CR" THEN 1 ELSE IF c = "LF" THEN rn + 1 ELSE 0
      BY DEF Found
    <2>2. rn + 1 = 1 \/ rn + 1 = 2
      BY DEF Fresh
    <2>3. QED
      BY <1>1, <2>1, <2>2, Zenon
  <1>3. rn' = Found(c)
    BY <1>1, SearchGoesOn
  <1>4. QED
    BY <1>1, <1>2, <1>3 DEF Fresh

LEMMA FoundIs ==
  /\ Found("CR") = 1
  /\ rn = 1 => Found("LF") = 2
  /\ \A x : x # "LF" => Found(x) = (IF x = "CR" THEN 1 ELSE 0) /\ Found(x) # 2
  <1>1. \A x : x # "LF" => Found(x) = (IF x = "CR" THEN 1 ELSE 0)
    BY DEF Found
  <1>2. QED
    BY <1>1 DEF Found

(* The end of the line of a chunk, behind its digits: LF is its last character,  *)
(* and the one before it CR.                                                     *)
LEMMA EndOfLine ==
  ASSUME response \in Responses, NEW k \in 1 .. Len(response),
         NEW j \in Nat, Len(response[k].digits) < j, j <= LineLen(response[k])
  PROVE  /\ j < LineLen(response[k]) => Line(response[k])[j] # "LF"
         /\ j = LineLen(response[k]) => Line(response[k])[j] = "LF" /\ Line(response[k])[j - 1] = "CR"
  <1>1. PICK n, l, line, ext : /\ n = Len(response[k].digits) /\ l = LineLen(response[k])
                               /\ line = Line(response[k]) /\ ext = response[k].ext
    OBVIOUS
  <1>2. /\ n \in Nat /\ (ext => l = n + 4) /\ (~ext => l = n + 2)
        /\ LineHas(response[k], line)
    BY <1>1, LineOf
  <1>3. /\ ~ext => line[n + 1] = "CR" /\ line[n + 2] = "LF"
        /\ ext => /\ line[n + 1] = ";" /\ line[n + 2] = "x"
                  /\ line[n + 3] = "CR" /\ line[n + 4] = "LF"
    BY <1>1, <1>2, Zenon DEF LineHas
  <1>4. n < j /\ j <= l
    BY <1>1
  <1>5. CASE ext
    <2>1. j = n + 1 \/ j = n + 2 \/ j = n + 3 \/ j = n + 4
      BY <1>2, <1>4, <1>5
    <2>2. j = n + 4 <=> j = l
      BY <1>2, <1>5
    <2>3. n + 4 - 1 = n + 3 /\ ~ (n + 4 < n + 4)
      BY <1>2
    <2>4. j < l => line[j] # "LF"
      BY <1>2, <1>3, <1>5, <2>1, <2>3
    <2>5. ASSUME j = l
          PROVE  line[j] = "LF" /\ line[j - 1] = "CR"
      <3>1. j = n + 4 /\ j - 1 = n + 3
        <4>1. j = n + 4
          BY <2>2, <2>5
        <4>2. QED
          BY <1>2, <4>1
      <3>2. line[n + 4] = "LF" /\ line[n + 3] = "CR"
        BY <1>3, <1>5, Zenon
      <3>3. QED
        BY <3>1, <3>2, Zenon
    <2>6. QED
      BY <1>1, <2>4, <2>5
  <1>6. CASE ~ext
    <2>1. j = n + 1 \/ j = n + 2
      BY <1>2, <1>4, <1>6
    <2>2. j = n + 2 <=> j = l
      BY <1>2, <1>6
    <2>3. n + 2 - 1 = n + 1 /\ ~ (n + 2 < n + 2)
      BY <1>2
    <2>4. j < l => line[j] # "LF"
      BY <1>2, <1>3, <1>6, <2>1, <2>3
    <2>5. ASSUME j = l
          PROVE  line[j] = "LF" /\ line[j - 1] = "CR"
      <3>1. j = n + 2 /\ j - 1 = n + 1
        <4>1. j = n + 2
          BY <2>2, <2>5
        <4>2. QED
          BY <1>2, <4>1
      <3>2. line[n + 2] = "LF" /\ line[n + 1] = "CR"
        BY <1>3, <1>6, Zenon
      <3>3. QED
        BY <3>1, <3>2, Zenon
    <2>6. QED
      BY <1>1, <2>4, <2>5
  <1>7. QED
    BY <1>5, <1>6

LEMMA ExtensionStep ==
  ASSUME OnTrack, rioPc = "extension", SearchNext \/ InterruptSearch, ~astray'
  PROVE  OnTrack'
  <1>1. response' = response /\ usrbuf' = usrbuf
    BY DEF SearchNext, InterruptSearch, Search, net
  <1>2. response' \in Responses /\ Decoded'
    BY <1>1, BodyKept
  <1>3. AtExtension /\ response \in Responses
    BY DEF OnTrack, Place
  <1>4. PICK k, e \in Nat :
          /\ At(k, e, 0) /\ tmp = response[k].digits
          /\ Len(response[k].digits) <= e /\ e < LineLen(response[k])
          /\ \/ /\ Fresh
                /\ e = Len(response[k].digits) \/ (e = Len(response[k].digits) + 1 /\ response[k].ext)
             \/ /\ Len(response[k].digits) < e
                /\ c = Line(response[k])[e] /\ rn = IF c = "CR" THEN 1 ELSE 0
    BY <1>3 DEF AtExtension
  <1>5. PICK n, l, line : /\ n = Len(response[k].digits) /\ l = LineLen(response[k])
                          /\ line = Line(response[k])
    OBVIOUS
  <1>6. /\ k \in 1 .. Len(response) /\ taken = Start(response, k) + e
        /\ Len(usrbuf) = Said(response, k) + 0
    BY <1>4 DEF At
  <1>7. /\ n \in Nat /\ l \in Nat /\ n <= e /\ e < l
        /\ (response[k].ext => l = n + 4) /\ n + 2 <= l
    <2>1. /\ n \in Nat /\ l \in Nat /\ response[k].ext \in BOOLEAN
          /\ response[k].ext => l = n + 4
          /\ ~response[k].ext => l = n + 2
      BY <1>3, <1>5, <1>6, LineOf
    <2>2. QED
      BY <1>4, <1>5, <2>1
  <1>8. ASSUME rioPc' = "extension", tmp' = tmp, NEW f \in Nat,
               taken' = Start(response, k) + f, n <= f, f < l,
               \/ Fresh' /\ (f = n \/ (f = n + 1 /\ response[k].ext))
               \/ n < f /\ c' = line[f] /\ rn' = IF c' = "CR" THEN 1 ELSE 0
        PROVE  OnTrack'
    <2>1. At(k, f, 0)'
      BY <1>1, <1>6, <1>8, Zenon DEF At
    <2>2. AtExtension'
      BY <1>1, <1>4, <1>5, <1>8, <2>1, Zenon DEF AtExtension
    <2>3. Place'
      BY <1>8, <2>2, Zenon DEF Place
    <2>4. QED
      BY <1>2, <2>3 DEF OnTrack
  <1>9. CASE InterruptSearch
    <2>1. Search(c) /\ taken' = taken
      BY <1>9 DEF InterruptSearch
    <2>2. CASE Fresh /\ (e = n \/ (e = n + 1 /\ response[k].ext))
      <3>1. Found(c) # 2 /\ Fresh'
        BY <1>9, <2>2, FreshSearch
      <3>2. rioPc' = "extension" /\ tmp' = tmp
        BY <2>1, <3>1, SearchGoesOn
      <3>3. QED
        BY <1>4, <1>6, <1>7, <1>8, <2>1, <2>2, <3>1, <3>2
    <2>3. CASE n < e /\ c = line[e] /\ rn = IF c = "CR" THEN 1 ELSE 0
      <3>1. c # "LF"
        BY <1>3, <1>5, <1>6, <1>7, <2>3, EndOfLine
      <3>2. Found(c) = (IF c = "CR" THEN 1 ELSE 0) /\ Found(c) # 2
        BY <3>1, FoundIs
      <3>3. rioPc' = "extension" /\ tmp' = tmp /\ c' = c /\ rn' = Found(c)
        BY <2>1, <3>2, SearchGoesOn
      <3>4. rn' = IF c' = "CR" THEN 1 ELSE 0
        BY <3>2, <3>3, Zenon
      <3>5. c' = line[e]
        BY <2>3, <3>3
      <3>6. taken' = Start(response, k) + e
        BY <1>6, <2>1
      <3>7. QED
        BY <1>4, <1>7, <1>8, <2>3, <3>3, <3>4, <3>5, <3>6, Zenon
    <2>4. QED
      BY <1>4, <1>5, <2>2, <2>3, Zenon
  <1>10. CASE SearchNext
    <2>1. PICK x \in Char : Read(x) /\ Search(x)
      BY <1>10 DEF SearchNext
    <2>2. x = line[e + 1] /\ taken' = Start(response, k) + (e + 1)
      BY <1>3, <1>4, <1>5, <1>6, <2>1, NextInLine
    <2>3. e + 1 \in Nat /\ n < e + 1 /\ n <= e + 1 /\ e + 1 <= l /\ e + 1 - 1 = e
      BY <1>4, <1>7
    <2>4. /\ e + 1 < l => line[e + 1] # "LF"
          /\ e + 1 = l => line[e + 1] = "LF" /\ line[e + 1 - 1] = "CR"
      <3>1. PICK j : j = e + 1
        OBVIOUS
      <3>2. j \in Nat /\ Len(response[k].digits) < j /\ j <= LineLen(response[k])
        BY <1>5, <2>3, <3>1
      <3>3. QED
        BY <1>3, <1>5, <1>6, <3>1, <3>2, EndOfLine
    <2>5. CASE e + 1 < l
      <3>1. x # "LF"
        BY <2>2, <2>4, <2>5
      <3>2. Found(x) = (IF x = "CR" THEN 1 ELSE 0) /\ Found(x) # 2
        BY <3>1, FoundIs
      <3>3. rioPc' = "extension" /\ tmp' = tmp /\ c' = x /\ rn' = Found(x)
        BY <2>1, <3>2, SearchGoesOn
      <3>4. rn' = IF c' = "CR" THEN 1 ELSE 0
        BY <3>2, <3>3, Zenon
      <3>5. c' = line[e + 1]
        BY <2>2, <3>3
      <3>6. QED
        BY <1>8, <2>2, <2>3, <2>5, <3>3, <3>4, <3>5, Zenon
    <2>6. CASE e + 1 = l
      <3>1. x = "LF" /\ line[e] = "CR"
        BY <2>2, <2>3, <2>4, <2>6
      <3>2. ~ (e = n \/ (e = n + 1 /\ response[k].ext))
        BY <1>7, <2>6
      <3>3. c = line[e] /\ rn = IF c = "CR" THEN 1 ELSE 0
        BY <1>4, <1>5, <3>2, Zenon
      <3>4. rn = 1
        BY <3>1, <3>3
      <3>5. Found(x) = 2
        BY <3>1, <3>4, FoundIs
      <3>6. StartChunk
        BY <2>1, <3>5, Zenon DEF Search
      <3>7. taken' = Start(response, k) + LineLen(response[k])
        BY <1>5, <2>2, <2>6, Zenon
      <3>8. Place'
        BY <1>1, <1>3, <1>4, <1>6, <3>6, <3>7, ArriveAtBody
      <3>9. QED
        BY <1>2, <3>8 DEF OnTrack
    <2>7. QED
      BY <1>7, <2>3, <2>5, <2>6
  <1>11. QED
    BY <1>9, <1>10

LEMMA BoundaryStep ==
  ASSUME OnTrack, rioPc = "boundary", SearchNext \/ InterruptSearch, ~astray'
  PROVE  OnTrack'
  <1>1. response' = response /\ usrbuf' = usrbuf
    BY DEF SearchNext, InterruptSearch, Search, net
  <1>2. response' \in Responses /\ Decoded'
    BY <1>1, BodyKept
  <1>3. AtBoundary /\ response \in Responses
    BY DEF OnTrack, Place
  <1>4. PICK k, e \in Nat :
          /\ At(k, LineLen(response[k]) + Len(response[k].data) + e, Len(response[k].data))
          /\ Len(response[k].data) # 0
          /\ \/ e = 0 /\ Fresh
             \/ e = 1 /\ rn = 1 /\ c = "CR"
    BY <1>3 DEF AtBoundary
  <1>5. PICK l, n : l = LineLen(response[k]) /\ n = Len(response[k].data)
    OBVIOUS
  <1>6. /\ k \in 1 .. Len(response) /\ taken = Start(response, k) + (l + n + e)
        /\ Len(usrbuf) = Said(response, k) + n /\ n # 0
    BY <1>4, <1>5 DEF At
  <1>7. ASSUME rioPc' = "boundary", NEW f \in Nat,
               taken' = Start(response, k) + (l + n + f),
               \/ f = 0 /\ Fresh'
               \/ f = 1 /\ rn' = 1 /\ c' = "CR"
        PROVE  OnTrack'
    <2>1. At(k, LineLen(response[k]) + Len(response[k].data) + f, Len(response[k].data))'
      BY <1>1, <1>5, <1>6, <1>7, Zenon DEF At
    <2>2. AtBoundary'
      BY <1>1, <1>4, <1>7, <2>1, Zenon DEF AtBoundary
    <2>3. Place'
      BY <1>7, <2>2, Zenon DEF Place
    <2>4. QED
      BY <1>2, <2>3 DEF OnTrack
  <1>8. CASE InterruptSearch
    <2>1. Search(c) /\ taken' = taken
      BY <1>8 DEF InterruptSearch
    <2>2. CASE e = 0
      <3>1. Fresh
        BY <1>4, <2>2
      <3>2. Found(c) # 2 /\ Fresh'
        BY <1>8, <3>1, FreshSearch
      <3>3. rioPc' = "boundary"
        BY <2>1, <3>2, SearchGoesOn
      <3>4. QED
        BY <1>6, <1>7, <2>1, <2>2, <3>2, <3>3
    <2>3. CASE e = 1
      <3>1. c = "CR"
        BY <1>4, <2>3
      <3>2. Found(c) = 1
        BY <3>1, FoundIs
      <3>3. Found(c) # 2
        BY <3>2
      <3>4. rioPc' = "boundary" /\ c' = "CR" /\ rn' = 1
        BY <2>1, <3>1, <3>2, <3>3, SearchGoesOn
      <3>5. QED
        BY <1>6, <1>7, <2>1, <2>3, <3>4
    <2>4. QED
      BY <1>4, <2>2, <2>3
  <1>9. CASE SearchNext
    <2>1. PICK x \in Char : Read(x) /\ Search(x)
      BY <1>9 DEF SearchNext
    <2>2. e \in 0 .. 1
      <3>1. e = 0 \/ e = 1
        BY <1>4
      <3>2. QED
        BY <3>1
    <2>3. /\ x = IF e = 0 THEN "CR" ELSE "LF"
          /\ taken' = Start(response, k) + (l + n + (e + 1))
      <3>1. taken = Start(response, k) + (LineLen(response[k]) + Len(response[k].data) + e)
        BY <1>5, <1>6, Zenon
      <3>2. /\ x = IF e = 0 THEN "CR" ELSE "LF"
            /\ taken' = Start(response, k) + (LineLen(response[k]) + Len(response[k].data) + (e + 1))
        BY <1>3, <1>6, <2>1, <2>2, <3>1, NextInEnd
      <3>3. QED
        BY <1>5, <3>2, Zenon
    <2>4. CASE e = 0
      <3>1. x = "CR"
        BY <2>3, <2>4
      <3>2. Found(x) = 1
        BY <3>1, FoundIs
      <3>3. Found(x) # 2
        BY <3>2
      <3>4. rioPc' = "boundary" /\ c' = "CR" /\ rn' = 1
        BY <2>1, <3>1, <3>2, <3>3, SearchGoesOn
      <3>5. e + 1 = 1 /\ 1 \in Nat
        BY <2>4
      <3>6. taken' = Start(response, k) + (l + n + 1)
        BY <2>3, <3>5, Zenon
      <3>7. QED
        BY <1>7, <3>4, <3>5, <3>6, Zenon
    <2>5. CASE e = 1
      <3>1. x = "LF"
        <4>1. e # 0
          BY <2>5
        <4>2. QED
          BY <2>3, <4>1
      <3>2. Found(x) = 2
        BY <1>4, <2>5, <3>1, FoundIs
      <3>3. rioPc' = "size" /\ tmp' = <<>>
        <4>1. rioPc # "extension"
          OBVIOUS
        <4>2. QED
          BY <2>1, <3>2, <4>1, Zenon DEF Search
      <3>4. ChunkOf(response, k)
        BY <1>3, <1>6, ChunkPlace
      <3>5. PICK st, sd : st = Start(response, k) /\ sd = Said(response, k)
        OBVIOUS
      <3>6. /\ st \in Nat /\ sd \in Nat /\ l \in Nat /\ n \in Nat
            /\ k + 1 \in 1 .. Len(response)
            /\ Start(response, k + 1) = st + l + n + 2
            /\ Said(response, k + 1) = sd + n
        BY <1>4, <1>5, <3>4, <3>5, Zenon DEF ChunkOf
      <3>7. st + l + n + 2 = st + (l + n + (e + 1))
        BY <2>5, <3>6
      <3>8. taken' = Start(response, k + 1) /\ Len(usrbuf') = Said(response, k + 1)
        BY <1>1, <1>6, <2>3, <3>5, <3>6, <3>7, Zenon
      <3>9. k + 1 \in 1 .. Len(response)
        BY <3>6
      <3>10. AtSize'
        BY <1>1, <1>3, <3>3, <3>8, <3>9, ArriveAtSize
      <3>11. Place'
        BY <3>3, <3>10, Zenon DEF Place
      <3>12. QED
        BY <1>2, <3>11 DEF OnTrack
    <2>6. QED
      BY <1>4, <2>4, <2>5
  <1>10. QED
    BY <1>8, <1>9

(* astray once, astray for ever; until then rio is on track.                     *)
LEMMA NextRioInv ==
  ASSUME RioInv, [RioNext]_rioVars
  PROVE  RioInv'
  <1>1. astray => astray'
    BY DEF RioNext, RioStep, Writen, ReadSize, FullTmp, ReadSizeLF, Readn, SearchNext,
           InterruptSize, InterruptSearch, rioVars
  <1> SUFFICES ASSUME OnTrack, ~astray'
               PROVE  OnTrack'
    BY <1>1 DEF RioInv
  <1>2. CASE Writen
    BY <1>2, WritenStep
  <1>3. CASE ReadSize
    BY <1>3, ReadSizeStep
  <1>4. CASE ReadSizeLF
    BY <1>4, ReadSizeLFStep
  <1>5. CASE Readn
    BY <1>5, ReadnStep
  <1>6. CASE SearchNext \/ InterruptSearch
    <2>1. rioPc = "extension" \/ rioPc = "boundary"
      BY <1>6 DEF SearchNext, InterruptSearch, Search
    <2>2. QED
      BY <1>6, <2>1, ExtensionStep, BoundaryStep
  <1>7. CASE InterruptSize
    BY <1>7, InterruptSizeStep
  <1>8. CASE UNCHANGED rioVars
    BY <1>8, Unchanged
  <1>9. QED
    BY <1>2, <1>3, <1>4, <1>5, <1>6, <1>7, <1>8 DEF RioNext, RioStep

LEMMA DecodesFrom ==
  ASSUME RioInv
  PROVE  DecodesChunks
  <1> SUFFICES ASSUME OnTrack, ~astray
               PROVE  DecodesChunks
    BY DEF RioInv, DecodesChunks
  <1>1. response \in Responses /\ Decoded /\ Place
    BY DEF OnTrack
  <1>2. 1 \in 1 .. Len(response) /\ ChunkOf(response, 1)
    BY <1>1, FirstChunk, ChunkPlace
  <1>3. PICK b : b = MeantTo(response)
    OBVIOUS
  <1>4. MeantParts(response, b)
    BY <1>1, <1>3, MeantInParts DEF MeantTo
  <1>5. PICK mn, u : mn = Meant(response) /\ u = usrbuf
    OBVIOUS
  <1>6. mn \in Seq(Char)
    <2>1. PICK m : m = Len(response)
      OBVIOUS
    <2>2. m \in Nat
      BY <1>1, <2>1, ChunkIs
    <2>3. b \in [0 .. m -> Seq(Char)] /\ mn = b[m]
      BY <1>4, <1>5, <2>1, Zenon DEF MeantParts
    <2>4. QED
      BY <2>2, <2>3
  <1>7. /\ u \in Seq(Char) /\ Len(u) <= Len(mn)
        /\ \A j \in 1 .. Len(u) : u[j] = mn[j]
    BY <1>1, <1>5, Zenon DEF Decoded
  <1>8. u \in Seq(Char)
    BY <1>7
  <1>9. Len(u) \in Nat /\ Len(mn) \in Nat
    BY <1>6, <1>8, LenProperties
  <1>10. SubSeq(mn, 1, Len(u)) = u
    <2>1. PICK n, s : n = Len(u) /\ s = SubSeq(mn, 1, n)
      OBVIOUS
    <2>2. n \in Nat /\ n <= Len(mn)
      BY <1>7, <1>9, <2>1
    <2>3. \A i \in 1 .. n : mn[i] \in Char
      BY <1>6, <1>9, <2>2, ElementOfSeq
    <2>4. s \in Seq(Char) /\ Len(s) = n /\ \A i \in 1 .. n : s[i] = mn[i]
      <3>1. /\ s \in Seq(Char) /\ Len(s) = IF 1 <= n THEN n - 1 + 1 ELSE 0
            /\ \A i \in 1 .. n - 1 + 1 : s[i] = mn[1 + i - 1]
        BY <2>1, <2>2, <2>3, SubSeqProperties
      <3>2. QED
        BY <2>2, <3>1
    <2>5. s \in Seq(Char)
      BY <2>4
    <2>6. Len(s) = Len(u) /\ \A i \in 1 .. Len(s) : s[i] = u[i]
      BY <1>7, <2>1, <2>4
    <2>7. s = u
      BY <1>8, <2>5, <2>6, SeqEqual
    <2>8. QED
      BY <2>1, <2>7
  <1>11. ASSUME rioPc = "done"
         PROVE  u = mn
    <2>1. Len(u) = Len(mn)
      BY <1>1, <1>5, <1>11, Zenon DEF Place
    <2>2. QED
      BY <1>6, <1>7, <1>8, <2>1, SeqEqual
  <1>12. Len(usrbuf) <= MAX_BUFFER + 1
    BY <1>1 DEF Decoded
  <1>13. rioPc = "overrun" => Len(Meant(response)) > MAX_BUFFER + 1
    BY <1>1 DEF Place
  <1>14. QED
    BY <1>5, <1>10, <1>11, <1>12, <1>13, Zenon DEF DecodesChunks

(* rio puts together what the server means, whatever the responses are, however  *)
(* the network cuts them into pieces, and wherever a search is interrupted: a    *)
(* response that is read to its end is the data of its chunks and fits the       *)
(* buffer, before that, or when it fails, the body is the beginning of them, and *)
(* only one that is too large runs over the buffer's end.  The code holds to     *)
(* this until it goes astray: at a size of four digits or more with a digit in   *)
(* the memory behind it, at one of more than four, or when interruptions end a   *)
(* search.                                                                       *)
THEOREM BodyDecoded == RioSpec => []DecodesChunks
  <1>1. RioInit => RioInv
    BY StartOnTrack DEF RioInv
  <1>2. RioInv /\ [RioNext]_rioVars => RioInv'
    BY NextRioInv
  <1>3. RioInv => DecodesChunks
    BY DecodesFrom
  <1>4. QED
    BY <1>1, <1>2, <1>3, PTL DEF RioSpec
=============================================================================
