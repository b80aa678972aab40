------------------------------- MODULE BTreeProofs -------------------------------
(* Proofs about the B-tree file, for all keys, node sizes and words.  First the  *)
(* search in one node, adding an item to it and its split; then that every node  *)
(* keeps its types and enough keys and the tree its balance, far keys included;  *)
(* then, for near keys, that the file is a table of keys.                        *)
EXTENDS BTree, SequenceTheorems, FiniteSetTheorems, TLAPS

(* A set of naturals that is not empty has a least element.                      *)
LEMMA LeastNatural ==
  ASSUME NEW S, S \subseteq Nat, S # {}
  PROVE  \E m \in S : \A k \in S : m <= k
  <1>1. PICK x \in S : \A y \in S : ~ (<<y, x>> \in OpToRel(<, Nat))
    BY NatLessThanWellFounded, WFMin
  <1>2. \A y \in S : ~ (y < x)
    BY <1>1 DEF OpToRel
  <1>3. QED
    BY <1>2

(* One that is bounded has a greatest.                                           *)
LEMMA GreatestInRange ==
  ASSUME NEW n \in Nat, NEW S, S \subseteq 0 .. n, S # {}
  PROVE  \E m \in S : \A k \in S : k <= m
  <1> DEFINE R == {n - k : k \in S}
  <1>1. R \subseteq Nat
    BY \A k \in 0 .. n : n - k \in Nat
  <1>2. R # {}
    OBVIOUS
  <1>3. PICK m \in R : \A k \in R : m <= k
    <2> HIDE DEF R
    <2>1. QED
      BY <1>1, <1>2, LeastNatural
  <1>4. n - m \in S /\ m \in Int
    OBVIOUS
  <1>5. \A k \in S : k <= n - m
    BY <1>3, <1>4
  <1>6. QED
    BY <1>4, <1>5

-----------------------------------------------------------------------------
(* Keys are near when no difference of two of them overflows, or when the build  *)
(* does not wrap.                                                                *)
Near == ~Wraps \/ \A a, b \in Key : a - b \in -Half .. Half - 1

(* The types of the constants, without the interval that the keys are from.     *)
LEMMA Constants ==
  /\ Half \in Nat /\ Key \subseteq Int
  /\ \A k \in Key : -Half - 1 < k /\ k < Half
  /\ MinKeys \in Nat \ {0} /\ MaxKeys \in Nat /\ MaxKeys >= 2 * MinKeys
BY BTreeAssumption

(* No difference of near keys overflows: SearchNode compares the numbers.       *)
LEMMA NearDifference ==
  ASSUME Near, NEW a \in Key, NEW b \in Key
  PROVE  Difference(a, b) = a - b
BY DEF Near, Difference

-----------------------------------------------------------------------------
(* t is s with e at place p.                                                     *)
IsInsertion(t, s, p, e) ==
  /\ Len(t) = Len(s) + 1
  /\ \A i \in 1 .. Len(s) + 1 :
       t[i] = IF i < p THEN s[i] ELSE IF i = p THEN e ELSE s[i - 1]

(* InsertAt, which the loop of AddItem is, inserts.                             *)
LEMMA InsertedAt ==
  ASSUME NEW S, NEW s \in Seq(S), NEW e \in S, NEW p \in 1 .. Len(s) + 1
  PROVE  InsertAt(s, p, e) \in Seq(S) /\ IsInsertion(InsertAt(s, p, e), s, p, e)
  <1> DEFINE low == SubSeq(s, 1, p - 1)
             high == SubSeq(s, p, Len(s))
  <1>1. /\ low \in Seq(S) /\ Len(low) = p - 1
        /\ \A i \in 1 .. p - 1 : low[i] = s[i]
    BY SubSeqProperties
  <1>2. /\ high \in Seq(S) /\ Len(high) = Len(s) - p + 1
        /\ \A i \in 1 .. Len(s) - p + 1 : high[i] = s[p + i - 1]
    BY SubSeqProperties
  <1> HIDE DEF low, high
  <1> DEFINE front == low \o <<e>>
  <1>3. /\ front \in Seq(S) /\ Len(front) = p
        /\ \A i \in 1 .. p : front[i] = IF i < p THEN s[i] ELSE e
    BY <1>1
  <1> HIDE DEF front
  <1> DEFINE t == front \o high
  <1>4. t \in Seq(S) /\ Len(t) = Len(s) + 1
    <2>1. t \in Seq(S) /\ Len(t) = Len(front) + Len(high)
      BY <1>2, <1>3, ConcatProperties
    <2>2. QED
      BY <2>1, <1>2, <1>3
  <1>5. \A i \in 1 .. Len(s) + 1 :
          t[i] = IF i < p THEN s[i] ELSE IF i = p THEN e ELSE s[i - 1]
    <2>1. \A i \in 1 .. Len(s) + 1 : t[i] = IF i <= p THEN front[i] ELSE high[i - p]
      BY <1>2, <1>3, ConcatProperties
    <2>2. QED
      BY <2>1, <1>2, <1>3
  <1>6. InsertAt(s, p, e) = t
    BY DEF InsertAt, t, front, low, high
  <1> HIDE DEF t
  <1>7. QED
    BY <1>4, <1>5, <1>6 DEF IsInsertion

(* A sequence without its last element.                                         *)
LEMMA FrontOf ==
  ASSUME NEW S, NEW s \in Seq(S), Len(s) > 0
  PROVE  /\ Front(s) \in Seq(S) /\ Len(Front(s)) = Len(s) - 1
         /\ \A i \in 1 .. Len(s) - 1 : Front(s)[i] = s[i]
         /\ Last(s) = s[Len(s)] /\ Last(s) \in S
  <1>1. Len(s) \in Nat /\ \A i \in 1 .. Len(s) : s[i] \in S
    OBVIOUS
  <1>2. /\ Front(s) \in Seq(S) /\ Len(Front(s)) = Len(s) - 1
        /\ \A i \in 1 .. Len(s) - 1 : Front(s)[i] = s[i]
    <2> DEFINE n == Len(s) - 1
    <2>1. n \in Nat /\ \A i \in 1 .. n : s[i] \in S
      BY <1>1
    <2> HIDE DEF n
    <2>2. /\ SubSeq(s, 1, n) \in Seq(S) /\ Len(SubSeq(s, 1, n)) = n
          /\ \A i \in 1 .. n : SubSeq(s, 1, n)[i] = s[i]
      BY <2>1, SubSeqProperties
    <2>3. QED
      BY <2>2 DEF Front, n
  <1>3. QED
    BY <1>1, <1>2 DEF Last

-----------------------------------------------------------------------------
(* A node with keys between a and b: the bounds of its branches, and its order.  *)
NodeIn(B) == [key : Seq(Key), branch : Seq(B)]
Whole(node) == Len(node.branch) = Len(node.key) + 1

Left(node, a, i) == IF i = 1 THEN a ELSE node.key[i - 1]
Right(node, b, i) == IF i = Len(node.key) + 1 THEN b ELSE node.key[i]

Sorted(node, a, b) ==
  /\ \A i \in 1 .. Len(node.key) : a < node.key[i] /\ node.key[i] < b
  /\ \A i, j \in 1 .. Len(node.key) : i < j => node.key[i] < node.key[j]

Has(node, k) == \E i \in 1 .. Len(node.key) : node.key[i] = k

(* Among sorted near keys the scan from the right stops at the last one that    *)
(* target is not below; the keys left of it are below target too.               *)
LEMMA LocationOf ==
  ASSUME Near, NEW B, NEW node \in NodeIn(B), NEW a \in Int, NEW b \in Int,
         Sorted(node, a, b), NEW target \in Key
  PROVE  LET p == Location(target, node)
         IN  /\ p \in 0 .. Len(node.key)
             /\ \A i \in 1 .. Len(node.key) : i <= p <=> node.key[i] <= target
  <1> USE DEF NodeIn
  <1>1. Len(node.key) \in Nat /\ \A i \in 1 .. Len(node.key) : node.key[i] \in Key
    OBVIOUS
  <1> DEFINE notBelow == {i \in 1 .. Len(node.key) : Difference(target, node.key[i]) >= 0}
             p == Location(target, node)
  <1>2. notBelow = {i \in 1 .. Len(node.key) : node.key[i] <= target}
    <2>1. \A i \in 1 .. Len(node.key) :
            Difference(target, node.key[i]) = target - node.key[i]
      BY <1>1, NearDifference
    <2>2. target \in Int /\ \A i \in 1 .. Len(node.key) : node.key[i] \in Int
      BY <1>1, Constants
    <2>3. QED
      BY <2>1, <2>2
  <1>3. p = IF 1 \notin notBelow THEN 0 ELSE Max(notBelow)
    BY DEF Location
  <1>4. notBelow \subseteq 0 .. Len(node.key)
    OBVIOUS
  <1>5. \A i \in 1 .. Len(node.key) : node.key[i] \in Int /\ target \in Int
    BY <1>1, Constants
  <1>6. ASSUME 1 \notin notBelow
        PROVE  /\ p \in 0 .. Len(node.key)
               /\ \A i \in 1 .. Len(node.key) : i <= p <=> node.key[i] <= target
    <2>1. \A i \in 1 .. Len(node.key) : ~(node.key[i] <= target)
      <3>1. \A i \in 1 .. Len(node.key) : node.key[1] <= node.key[i]
        BY <1>1, <1>5 DEF Sorted
      <3>2. QED
        BY <3>1, <1>1, <1>2, <1>5, <1>6
    <2>2. p = 0
      BY <1>3, <1>6
    <2> HIDE DEF p, notBelow
    <2>3. QED
      BY <2>1, <2>2, <1>1
  <1>7. ASSUME 1 \in notBelow
        PROVE  /\ p \in 0 .. Len(node.key)
               /\ \A i \in 1 .. Len(node.key) : i <= p <=> node.key[i] <= target
    <2> HIDE DEF notBelow
    <2>1. \E m \in notBelow : \A k \in notBelow : m >= k
      BY <1>1, <1>4, <1>7, GreatestInRange
    <2>2. p \in notBelow /\ \A k \in notBelow : p >= k
      <3>1. p = CHOOSE m \in notBelow : \A k \in notBelow : m >= k
        BY <1>3, <1>7 DEF Max
      <3> HIDE DEF p
      <3>2. QED
        BY <3>1, <2>1
    <2> HIDE DEF p
    <2>3. \A i \in 1 .. Len(node.key) : i <= p => node.key[i] <= target
      BY <2>2, <1>1, <1>2, <1>5 DEF Sorted
    <2>4. QED
      BY <2>2, <2>3, <1>1, <1>2
  <1>8. QED
    BY <1>6, <1>7

(* SearchNode: it finds a key that is in the node, and else the gap it fits in.  *)
LEMMA SearchNode ==
  ASSUME Near, NEW B, NEW node \in NodeIn(B), Whole(node),
         NEW a \in Int, NEW b \in Int, Sorted(node, a, b),
         NEW target \in Key, a < target, target < b
  PROVE  LET p == Location(target, node)
         IN  /\ p \in 0 .. Len(node.key)
             /\ Found(target, node) <=> Has(node, target)
             /\ ~Found(target, node) =>
                  /\ Left(node, a, p + 1) < target /\ target < Right(node, b, p + 1)
                  /\ Child(target, node) = node.branch[p + 1]
  <1> DEFINE p == Location(target, node)
  <1>1. /\ Len(node.key) \in Nat /\ target \in Int
        /\ \A i \in 1 .. Len(node.key) : node.key[i] \in Key /\ node.key[i] \in Int
    <2>1. Len(node.key) \in Nat /\ \A i \in 1 .. Len(node.key) : node.key[i] \in Key
      BY DEF NodeIn
    <2>2. QED
      BY <2>1, Constants
  <1>2. /\ p \in 0 .. Len(node.key)
        /\ \A i \in 1 .. Len(node.key) : i <= p <=> node.key[i] <= target
    BY LocationOf
  <1>3. Found(target, node) <=> p > 0 /\ Difference(target, node.key[p]) = 0
    BY DEF Found
  <1>4. Child(target, node) = node.branch[p + 1]
    BY DEF Child
  <1> HIDE DEF p
  <1>5. Found(target, node) <=> p > 0 /\ target = node.key[p]
    <2>1. p > 0 => Difference(target, node.key[p]) = target - node.key[p]
      BY <1>1, <1>2, NearDifference
    <2>2. QED
      BY <2>1, <1>1, <1>2, <1>3
  <1>6. Found(target, node) <=> Has(node, target)
    BY <1>1, <1>2, <1>5 DEF Has, Sorted
  <1>7. ASSUME ~Found(target, node)
        PROVE  Left(node, a, p + 1) < target /\ target < Right(node, b, p + 1)
    <2>1. p + 1 - 1 = p /\ (p + 1 = 1 <=> p = 0) /\ (p + 1 = Len(node.key) + 1 <=> p = Len(node.key))
      BY <1>1, <1>2
    <2>2. p # 0 => p \in 1 .. Len(node.key) /\ node.key[p] < target
      BY <1>1, <1>2, <1>5, <1>7
    <2>3. p # Len(node.key) => p + 1 \in 1 .. Len(node.key) /\ ~(p + 1 <= p)
      BY <1>1, <1>2
    <2>4. p # Len(node.key) => target < node.key[p + 1]
      BY <1>1, <1>2, <2>3
    <2>5. QED
      BY <2>1, <2>2, <2>4 DEF Left, Right
  <1>8. QED
    BY <1>2, <1>4, <1>6, <1>7 DEF p
-----------------------------------------------------------------------------
(* wide is node with item behind place keys and right behind the item.           *)
IsWidened(wide, node, item, right, place) ==
  /\ Len(wide.key) = Len(node.key) + 1
  /\ \A i \in 1 .. Len(node.key) + 1 :
       wide.key[i] = IF i < place + 1 THEN node.key[i]
                     ELSE IF i = place + 1 THEN item ELSE node.key[i - 1]
  /\ \A i \in 1 .. Len(node.key) + 2 :
       wide.branch[i] = IF i < place + 2 THEN node.branch[i]
                        ELSE IF i = place + 2 THEN right ELSE node.branch[i - 1]

(* AddItem keeps a node whole and moves what is behind the place.               *)
LEMMA Widened ==
  ASSUME NEW B, NEW node \in NodeIn(B), Whole(node),
         NEW item \in Key, NEW right \in B, NEW place \in 0 .. Len(node.key)
  PROVE  LET wide == AddItem(item, right, node, place)
         IN  /\ wide \in NodeIn(B) /\ Whole(wide)
             /\ IsWidened(wide, node, item, right, place)
  <1> DEFINE k == InsertAt(node.key, place + 1, item)
             b == InsertAt(node.branch, place + 2, right)
  <1>1. /\ node.key \in Seq(Key) /\ node.branch \in Seq(B)
        /\ Len(node.key) \in Nat /\ Len(node.branch) = Len(node.key) + 1
    BY DEF NodeIn, Whole
  <1>2. place + 1 \in 1 .. Len(node.key) + 1 /\ place + 2 \in 1 .. Len(node.branch) + 1
    BY <1>1
  <1>3. k \in Seq(Key) /\ IsInsertion(k, node.key, place + 1, item)
    BY <1>1, <1>2, InsertedAt
  <1>4. b \in Seq(B) /\ IsInsertion(b, node.branch, place + 2, right)
    BY <1>1, <1>2, InsertedAt
  <1>5. AddItem(item, right, node, place) = [key |-> k, branch |-> b]
    BY DEF AddItem
  <1> HIDE DEF k, b
  <1>6. Len(k) = Len(node.key) + 1 /\ Len(b) = Len(node.key) + 2
    BY <1>1, <1>3, <1>4 DEF IsInsertion
  <1>7. \A i \in 1 .. Len(node.key) + 2 :
          b[i] = IF i < place + 2 THEN node.branch[i]
                 ELSE IF i = place + 2 THEN right ELSE node.branch[i - 1]
    BY <1>1, <1>4 DEF IsInsertion
  <1>8. QED
    BY <1>3, <1>4, <1>5, <1>6, <1>7 DEF NodeIn, Whole, IsWidened, IsInsertion

(* A node cut off at both ends, as Split makes them with its loop.               *)
LEMMA CutOff ==
  ASSUME NEW S, NEW s \in Seq(S), NEW m \in 1 .. Len(s) + 1, NEW n \in 0 .. Len(s),
         m <= n + 1
  PROVE  /\ SubSeq(s, m, n) \in Seq(S) /\ Len(SubSeq(s, m, n)) = n - m + 1
         /\ \A i \in 1 .. n - m + 1 : SubSeq(s, m, n)[i] = s[m + i - 1]
  <1>1. Len(s) \in Nat /\ \A i \in m .. n : s[i] \in S
    OBVIOUS
  <1>2. m \in Int /\ n \in Int
    BY <1>1
  <1>3. QED
    BY <1>1, <1>2, SubSeqProperties

(* The left half when its last item, with the branch behind it, has left it.    *)
LEMMA WithoutLastOf ==
  ASSUME NEW B, NEW left \in NodeIn(B), Whole(left), Len(left.key) > 0
  PROVE  LET cut == WithoutLast(left)
         IN  /\ cut \in NodeIn(B) /\ Whole(cut) /\ Len(cut.key) = Len(left.key) - 1
             /\ \A i \in 1 .. Len(left.key) - 1 : cut.key[i] = left.key[i]
             /\ \A i \in 1 .. Len(left.key) : cut.branch[i] = left.branch[i]
  <1> DEFINE k == left.key
             b == left.branch
  <1>1. /\ k \in Seq(Key) /\ b \in Seq(B) /\ Len(k) \in Nat /\ Len(k) > 0
        /\ Len(b) = Len(k) + 1
    BY DEF NodeIn, Whole
  <1>2. WithoutLast(left) = [key |-> Front(k), branch |-> Front(b)]
    BY DEF WithoutLast
  <1> HIDE DEF k, b
  <1>3. /\ Front(k) \in Seq(Key) /\ Len(Front(k)) = Len(k) - 1
        /\ \A i \in 1 .. Len(k) - 1 : Front(k)[i] = k[i]
    BY <1>1, FrontOf
  <1>4. Len(b) > 0
    BY <1>1
  <1>5. /\ Front(b) \in Seq(B) /\ Len(Front(b)) = Len(b) - 1
        /\ \A i \in 1 .. Len(b) - 1 : Front(b)[i] = b[i]
    BY <1>1, <1>4, FrontOf
  <1>6. QED
    BY <1>1, <1>2, <1>3, <1>5 DEF NodeIn, Whole, k, b

(* node is right with branch in front.                                           *)
HasFirst(node, right, branch) ==
  /\ Whole(node) /\ node.key = right.key
  /\ \A i \in 1 .. Len(right.branch) :
       node.branch[i] = IF i = 1 THEN branch ELSE right.branch[i]

(* The right half when it has got the branch that left the other one.           *)
LEMMA WithFirstOf ==
  ASSUME NEW B, NEW right \in NodeIn(B), Whole(right), NEW branch \in B
  PROVE  LET node == WithFirst(right, branch)
         IN  node \in NodeIn(B) /\ HasFirst(node, right, branch)
  <1>1. /\ right.branch \in Seq(B) /\ Len(right.branch) \in Nat
        /\ Len(right.branch) >= 1
    BY DEF NodeIn, Whole
  <1> DEFINE b == [right.branch EXCEPT ![1] = branch]
  <1>2. /\ b \in Seq(B) /\ Len(b) = Len(right.branch)
        /\ \A i \in 1 .. Len(right.branch) :
             b[i] = IF i = 1 THEN branch ELSE right.branch[i]
    BY <1>1, ExceptSeq
  <1>3. WithFirst(right, branch) = [right EXCEPT !.branch = b]
    BY DEF WithFirst
  <1> HIDE DEF b
  <1>4. QED
    BY <1>2, <1>3 DEF NodeIn, Whole, HasFirst

(* The two parts a full node is cut into before the item is added.               *)
Low(node, m) == [key    |-> SubSeq(node.key, 1, m),
                 branch |-> SubSeq(node.branch, 1, m + 1)]
High(node, m) == [key    |-> SubSeq(node.key, m + 1, MaxKeys),
                  branch |-> <<NilPtr>> \o SubSeq(node.branch, m + 2, MaxKeys + 1)]

IsLow(low, node, m) ==
  /\ Whole(low) /\ Len(low.key) = m
  /\ \A i \in 1 .. m : low.key[i] = node.key[i]
  /\ \A i \in 1 .. m + 1 : low.branch[i] = node.branch[i]

IsHigh(high, node, m) ==
  /\ Whole(high) /\ Len(high.key) = MaxKeys - m
  /\ \A i \in 1 .. MaxKeys - m : high.key[i] = node.key[m + i]
  /\ \A i \in 2 .. MaxKeys - m + 1 : high.branch[i] = node.branch[m + i]

(* The parts are whole nodes, and what is in them is where it was.              *)
LEMMA Parts ==
  ASSUME NEW B, NilPtr \in B, NEW node \in NodeIn(B), Whole(node),
         Len(node.key) = MaxKeys, NEW m \in 0 .. MaxKeys
  PROVE  /\ Low(node, m) \in NodeIn(B) /\ IsLow(Low(node, m), node, m)
         /\ High(node, m) \in NodeIn(B) /\ IsHigh(High(node, m), node, m)
  <1> DEFINE k == node.key
             b == node.branch
  <1>1. /\ k \in Seq(Key) /\ b \in Seq(B) /\ MaxKeys \in Nat
        /\ Len(k) = MaxKeys /\ Len(b) = MaxKeys + 1
    BY Constants DEF NodeIn, Whole
  <1>2. /\ Low(node, m) = [key |-> SubSeq(k, 1, m), branch |-> SubSeq(b, 1, m + 1)]
        /\ High(node, m) = [key    |-> SubSeq(k, m + 1, MaxKeys),
                            branch |-> <<NilPtr>> \o SubSeq(b, m + 2, MaxKeys + 1)]
    BY DEF Low, High
  <1> HIDE DEF k, b
  <1>3. /\ SubSeq(k, 1, m) \in Seq(Key) /\ Len(SubSeq(k, 1, m)) = m
        /\ \A i \in 1 .. m : SubSeq(k, 1, m)[i] = k[i]
    BY <1>1, CutOff
  <1>4. /\ SubSeq(b, 1, m + 1) \in Seq(B) /\ Len(SubSeq(b, 1, m + 1)) = m + 1
        /\ \A i \in 1 .. m + 1 : SubSeq(b, 1, m + 1)[i] = b[i]
    <2>1. m + 1 \in 0 .. Len(b) /\ 1 \in 1 .. Len(b) + 1 /\ 1 <= m + 1 + 1
      BY <1>1
    <2> DEFINE n == m + 1
    <2> HIDE DEF n
    <2>2. /\ SubSeq(b, 1, n) \in Seq(B) /\ Len(SubSeq(b, 1, n)) = n - 1 + 1
          /\ \A i \in 1 .. n - 1 + 1 : SubSeq(b, 1, n)[i] = b[1 + i - 1]
      BY <1>1, <2>1, CutOff DEF n
    <2>3. n - 1 + 1 = m + 1
      BY DEF n
    <2>4. QED
      BY <2>2, <2>3 DEF n
  <1>5. /\ SubSeq(k, m + 1, MaxKeys) \in Seq(Key)
        /\ Len(SubSeq(k, m + 1, MaxKeys)) = MaxKeys - m
        /\ \A i \in 1 .. MaxKeys - m : SubSeq(k, m + 1, MaxKeys)[i] = k[m + i]
    <2> DEFINE n == m + 1
    <2>1. n \in 1 .. Len(k) + 1 /\ MaxKeys \in 0 .. Len(k) /\ n <= MaxKeys + 1
      BY <1>1
    <2>2. MaxKeys - n + 1 = MaxKeys - m /\ \A i \in Int : n + i - 1 = m + i
      BY <1>1
    <2> HIDE DEF n
    <2>3. /\ SubSeq(k, n, MaxKeys) \in Seq(Key)
          /\ Len(SubSeq(k, n, MaxKeys)) = MaxKeys - n + 1
          /\ \A i \in 1 .. MaxKeys - n + 1 : SubSeq(k, n, MaxKeys)[i] = k[n + i - 1]
      BY <1>1, <2>1, CutOff
    <2>4. QED
      BY <2>2, <2>3 DEF n
  <1> DEFINE t == SubSeq(b, m + 2, MaxKeys + 1)
  <1>6. /\ t \in Seq(B) /\ Len(t) = MaxKeys - m
        /\ \A i \in 1 .. MaxKeys - m : t[i] = b[m + 1 + i]
    <2> DEFINE n == m + 2
               l == MaxKeys + 1
    <2>1. n \in 1 .. Len(b) + 1 /\ l \in 0 .. Len(b) /\ n <= l + 1
      BY <1>1
    <2>2. l - n + 1 = MaxKeys - m /\ \A i \in Int : n + i - 1 = m + 1 + i
      BY <1>1
    <2> HIDE DEF n, l
    <2>3. /\ SubSeq(b, n, l) \in Seq(B)
          /\ Len(SubSeq(b, n, l)) = l - n + 1
          /\ \A i \in 1 .. l - n + 1 : SubSeq(b, n, l)[i] = b[n + i - 1]
      BY <1>1, <2>1, CutOff
    <2>4. QED
      BY <2>2, <2>3 DEF n, l
  <1> HIDE DEF t
  <1> DEFINE u == <<NilPtr>> \o t
  <1>7. /\ u \in Seq(B) /\ Len(u) = MaxKeys - m + 1
        /\ \A i \in 2 .. MaxKeys - m + 1 : u[i] = b[m + i]
    <2>1. /\ u \in Seq(B) /\ Len(u) = 1 + Len(t)
          /\ \A i \in 2 .. 1 + Len(t) : u[i] = t[i - 1]
      BY <1>6, ConcatProperties
    <2> HIDE DEF u
    <2>2. \A i \in 2 .. MaxKeys - m + 1 : i - 1 \in 1 .. MaxKeys - m /\ m + 1 + (i - 1) = m + i
      BY <1>1
    <2>3. Len(u) = MaxKeys - m + 1
      BY <1>1, <1>6, <2>1
    <2>4. ASSUME NEW i \in 2 .. MaxKeys - m + 1 PROVE u[i] = b[m + i]
      <3>1. u[i] = t[i - 1]
        BY <1>1, <1>6, <2>1
      <3>2. t[i - 1] = b[m + 1 + (i - 1)]
        BY <1>6, <2>2
      <3>3. QED
        BY <2>2, <3>1, <3>2
    <2>5. QED
      BY <2>1, <2>3, <2>4
  <1>8. High(node, m) = [key |-> SubSeq(k, m + 1, MaxKeys), branch |-> u]
    BY <1>2 DEF t, u
  <1> HIDE DEF u
  <1>9. QED
    BY <1>1, <1>2, <1>3, <1>4, <1>5, <1>7, <1>8 DEF NodeIn, Whole, IsLow, IsHigh, k, b
(* Split: the item goes up that is the one behind the first MinKeys of the node  *)
(* with the item added; what is left and right of it are the two nodes.          *)
IsCut(cut, wide) ==
  /\ cut.item = wide.key[MinKeys + 1]
  /\ Whole(cut.left) /\ Len(cut.left.key) = MinKeys
  /\ \A i \in 1 .. MinKeys : cut.left.key[i] = wide.key[i]
  /\ \A i \in 1 .. MinKeys + 1 : cut.left.branch[i] = wide.branch[i]
  /\ Whole(cut.right) /\ Len(cut.right.key) = MaxKeys - MinKeys
  /\ \A i \in 1 .. MaxKeys - MinKeys : cut.right.key[i] = wide.key[MinKeys + 1 + i]
  /\ \A i \in 1 .. MaxKeys - MinKeys + 1 :
       cut.right.branch[i] = wide.branch[MinKeys + 1 + i]

(* The two nodes before the last item leaves the left one and the right one gets *)
(* its first branch.                                                             *)
AlmostCut(left, rest, wide) ==
  /\ Whole(left) /\ Len(left.key) = MinKeys + 1
  /\ \A i \in 1 .. MinKeys + 1 : left.key[i] = wide.key[i]
  /\ \A i \in 1 .. MinKeys + 2 : left.branch[i] = wide.branch[i]
  /\ Whole(rest) /\ Len(rest.key) = MaxKeys - MinKeys
  /\ \A i \in 1 .. MaxKeys - MinKeys : rest.key[i] = wide.key[MinKeys + 1 + i]
  /\ \A i \in 2 .. MaxKeys - MinKeys + 1 : rest.branch[i] = wide.branch[MinKeys + 1 + i]

(* When the item belongs to the left half, adding it there does what adding it  *)
(* to the whole node would do to that part of it.                               *)
LEMMA CutLeft ==
  ASSUME NEW B, NilPtr \in B, NEW node \in NodeIn(B), Whole(node),
         Len(node.key) = MaxKeys, NEW item \in Key, NEW right \in B,
         NEW place \in 0 .. MinKeys,
         NEW wide, IsWidened(wide, node, item, right, place)
  PROVE  LET left == AddItem(item, right, Low(node, MinKeys), place)
             rest == High(node, MinKeys)
         IN  left \in NodeIn(B) /\ rest \in NodeIn(B) /\ AlmostCut(left, rest, wide)
  <1> DEFINE low  == Low(node, MinKeys)
             left == AddItem(item, right, low, place)
             rest == High(node, MinKeys)
  <1>1. /\ MaxKeys \in Nat /\ MinKeys \in Nat /\ MinKeys < MaxKeys
        /\ MinKeys \in 0 .. MaxKeys
    BY Constants
  <1>2. low \in NodeIn(B) /\ IsLow(low, node, MinKeys)
    BY <1>1, Parts
  <1>3. rest \in NodeIn(B) /\ IsHigh(rest, node, MinKeys)
    BY <1>1, Parts
  <1> HIDE DEF low
  <1>4. Whole(low) /\ place \in 0 .. Len(low.key)
    BY <1>2 DEF IsLow
  <1>5. left \in NodeIn(B) /\ Whole(left) /\ IsWidened(left, low, item, right, place)
    BY <1>2, <1>4, Widened
  <1> HIDE DEF left, rest
  <1> Len(low.key) = MinKeys
    BY <1>2 DEF IsLow
  <1>6. ASSUME NEW i \in 1 .. MinKeys + 1 PROVE left.key[i] = wide.key[i]
    <2>1. left.key[i] = IF i < place + 1 THEN low.key[i]
                        ELSE IF i = place + 1 THEN item ELSE low.key[i - 1]
      BY <1>5 DEF IsWidened
    <2>2. i \in 1 .. Len(node.key) + 1
      BY <1>1
    <2>3. wide.key[i] = IF i < place + 1 THEN node.key[i]
                        ELSE IF i = place + 1 THEN item ELSE node.key[i - 1]
      BY <2>2 DEF IsWidened
    <2>4. i < place + 1 => low.key[i] = node.key[i]
      BY <1>1, <1>2 DEF IsLow
    <2>5. i > place + 1 => low.key[i - 1] = node.key[i - 1]
      <3>1. i > place + 1 => i - 1 \in 1 .. MinKeys
        BY <1>1
      <3>2. QED
        BY <1>2, <3>1 DEF IsLow
    <2>6. QED
      BY <1>1, <2>1, <2>3, <2>4, <2>5
  <1>7. ASSUME NEW i \in 1 .. MinKeys + 2 PROVE left.branch[i] = wide.branch[i]
    <2>1. left.branch[i] = IF i < place + 2 THEN low.branch[i]
                           ELSE IF i = place + 2 THEN right ELSE low.branch[i - 1]
      BY <1>5 DEF IsWidened
    <2>2. i \in 1 .. Len(node.key) + 2
      BY <1>1
    <2>3. wide.branch[i] = IF i < place + 2 THEN node.branch[i]
                           ELSE IF i = place + 2 THEN right ELSE node.branch[i - 1]
      BY <2>2 DEF IsWidened
    <2>4. i < place + 2 => low.branch[i] = node.branch[i]
      BY <1>1, <1>2 DEF IsLow
    <2>5. i > place + 2 => low.branch[i - 1] = node.branch[i - 1]
      <3>1. i > place + 2 => i - 1 \in 1 .. MinKeys + 1
        BY <1>1
      <3>2. QED
        BY <1>2, <3>1 DEF IsLow
    <2>6. QED
      BY <1>1, <2>1, <2>3, <2>4, <2>5
  <1>8. ASSUME NEW i \in 1 .. MaxKeys - MinKeys
        PROVE  rest.key[i] = wide.key[MinKeys + 1 + i]
    <2> DEFINE j == MinKeys + 1 + i
    <2>1. /\ j \in 1 .. Len(node.key) + 1 /\ ~(j < place + 1) /\ j # place + 1
          /\ j - 1 = MinKeys + i
      BY <1>1
    <2> HIDE DEF j
    <2>2. wide.key[j] = node.key[j - 1]
      BY <2>1 DEF IsWidened
    <2>3. QED
      BY <1>3, <2>1, <2>2 DEF IsHigh, j
  <1>9. ASSUME NEW i \in 2 .. MaxKeys - MinKeys + 1
        PROVE  rest.branch[i] = wide.branch[MinKeys + 1 + i]
    <2> DEFINE j == MinKeys + 1 + i
    <2>1. /\ j \in 1 .. Len(node.key) + 2 /\ ~(j < place + 2) /\ j # place + 2
          /\ j - 1 = MinKeys + i
      BY <1>1
    <2> HIDE DEF j
    <2>2. wide.branch[j] = node.branch[j - 1]
      BY <2>1 DEF IsWidened
    <2>3. QED
      BY <1>3, <2>1, <2>2 DEF IsHigh, j
  <1>10. Len(left.key) = MinKeys + 1
    BY <1>2, <1>5 DEF IsLow, IsWidened
  <1>11. AlmostCut(left, rest, wide)
    BY <1>3, <1>5, <1>6, <1>7, <1>8, <1>9, <1>10 DEF AlmostCut, IsHigh
  <1>12. QED
    BY <1>3, <1>5, <1>11 DEF left, rest, low

(* When the item belongs to the right half, the same, a median further right.   *)
LEMMA CutRight ==
  ASSUME NEW B, NilPtr \in B, NEW node \in NodeIn(B), Whole(node),
         Len(node.key) = MaxKeys, NEW item \in Key, NEW right \in B,
         NEW place \in MinKeys + 1 .. MaxKeys,
         NEW wide, IsWidened(wide, node, item, right, place)
  PROVE  LET m    == MinKeys + 1
             left == Low(node, m)
             rest == AddItem(item, right, High(node, m), place - m)
         IN  left \in NodeIn(B) /\ rest \in NodeIn(B) /\ AlmostCut(left, rest, wide)
  <1> DEFINE m    == MinKeys + 1
             p    == place - m
             left == Low(node, m)
             high == High(node, m)
             rest == AddItem(item, right, high, p)
  <1>1. /\ MaxKeys \in Nat /\ MinKeys \in Nat /\ MinKeys < MaxKeys
        /\ m \in 0 .. MaxKeys /\ p \in 0 .. MaxKeys - m
    BY Constants
  <1> HIDE DEF m
  <1>2. left \in NodeIn(B) /\ IsLow(left, node, m)
    BY <1>1, Parts
  <1>3. high \in NodeIn(B) /\ IsHigh(high, node, m)
    BY <1>1, Parts
  <1> HIDE DEF high, left, p
  <1>4. Whole(high) /\ p \in 0 .. Len(high.key)
    BY <1>1, <1>3 DEF IsHigh
  <1>5. rest \in NodeIn(B) /\ Whole(rest) /\ IsWidened(rest, high, item, right, p)
    BY <1>3, <1>4, Widened
  <1> HIDE DEF rest
  <1>6. ASSUME NEW i \in 1 .. m PROVE left.key[i] = wide.key[i]
    <2>1. i \in 1 .. Len(node.key) + 1 /\ i < place + 1
      BY <1>1 DEF m
    <2>2. QED
      BY <1>2, <2>1 DEF IsLow, IsWidened
  <1>7. ASSUME NEW i \in 1 .. m + 1 PROVE left.branch[i] = wide.branch[i]
    <2>1. i \in 1 .. Len(node.key) + 2 /\ i < place + 2
      BY <1>1 DEF m
    <2>2. QED
      BY <1>2, <2>1 DEF IsLow, IsWidened
  <1>8. Len(rest.key) = MaxKeys - MinKeys /\ MaxKeys - MinKeys = MaxKeys - m + 1
    BY <1>1, <1>3, <1>5 DEF IsHigh, IsWidened, m
  <1>9. ASSUME NEW i \in 1 .. MaxKeys - MinKeys PROVE rest.key[i] = wide.key[m + i]
    <2>1. rest.key[i] = IF i < p + 1 THEN high.key[i]
                        ELSE IF i = p + 1 THEN item ELSE high.key[i - 1]
      BY <1>1, <1>3, <1>5, <1>8 DEF IsHigh, IsWidened
    <2>2. wide.key[m + i] = IF m + i < place + 1 THEN node.key[m + i]
                            ELSE IF m + i = place + 1 THEN item ELSE node.key[m + i - 1]
      <3>index. PICK j : j = m + i
        OBVIOUS
      <3>1. j \in 1 .. Len(node.key) + 1
        BY <1>1, <1>8, <3>index
      <3>2. wide.key[j] = IF j < place + 1 THEN node.key[j]
                         ELSE IF j = place + 1 THEN item ELSE node.key[j - 1]
        BY <3>1 DEF IsWidened
      <3>3. m \in Int /\ i \in Int /\ place \in Int
        BY <1>1
      <3>4. QED
        BY <3>2, <3>3, <3>index
    <2>3. i < p + 1 => high.key[i] = node.key[m + i]
      <3>1. i < p + 1 => i \in 1 .. MaxKeys - m
        BY <1>1
      <3>2. QED
        BY <1>3, <3>1 DEF IsHigh
    <2>4. i > p + 1 => high.key[i - 1] = node.key[m + i - 1]
      <3>1. i > p + 1 => i - 1 \in 1 .. MaxKeys - m /\ m + (i - 1) = m + i - 1
        BY <1>1, <1>8
      <3>2. QED
        BY <1>3, <3>1 DEF IsHigh
    <2>5. (i < p + 1 <=> m + i < place + 1) /\ (i = p + 1 <=> m + i = place + 1)
      BY <1>1 DEF p
    <2>6. QED
      BY <1>1, <2>1, <2>2, <2>3, <2>4, <2>5
  <1>10. ASSUME NEW i \in 2 .. MaxKeys - MinKeys + 1
         PROVE  rest.branch[i] = wide.branch[m + i]
    <2>1. rest.branch[i] = IF i < p + 2 THEN high.branch[i]
                           ELSE IF i = p + 2 THEN right ELSE high.branch[i - 1]
      BY <1>1, <1>3, <1>5, <1>8 DEF IsHigh, IsWidened
    <2>2. wide.branch[m + i] = IF m + i < place + 2 THEN node.branch[m + i]
                               ELSE IF m + i = place + 2 THEN right
                               ELSE node.branch[m + i - 1]
      <3>index. PICK j : j = m + i
        OBVIOUS
      <3>1. j \in 1 .. Len(node.key) + 2
        BY <1>1, <1>8, <3>index
      <3>2. wide.branch[j] = IF j < place + 2 THEN node.branch[j]
                         ELSE IF j = place + 2 THEN right ELSE node.branch[j - 1]
        BY <3>1 DEF IsWidened
      <3>3. m \in Int /\ i \in Int /\ place \in Int
        BY <1>1
      <3>4. QED
        BY <3>2, <3>3, <3>index
    <2>3. i < p + 2 => high.branch[i] = node.branch[m + i]
      <3>1. i < p + 2 => i \in 2 .. MaxKeys - m + 1
        BY <1>1
      <3>2. QED
        BY <1>3, <3>1 DEF IsHigh
    <2>4. i > p + 2 => high.branch[i - 1] = node.branch[m + i - 1]
      <3>1. i > p + 2 => i - 1 \in 2 .. MaxKeys - m + 1 /\ m + (i - 1) = m + i - 1
        BY <1>1, <1>8
      <3>2. QED
        BY <1>3, <3>1 DEF IsHigh
    <2>5. (i < p + 2 <=> m + i < place + 2) /\ (i = p + 2 <=> m + i = place + 2)
      BY <1>1 DEF p
    <2>6. QED
      BY <1>1, <2>1, <2>2, <2>3, <2>4, <2>5
  <1>11. AlmostCut(left, rest, wide)
    BY <1>1, <1>2, <1>5, <1>6, <1>7, <1>8, <1>9, <1>10 DEF AlmostCut, IsLow, m
  <1>12. QED
    BY <1>2, <1>5, <1>11 DEF left, rest, high, p, m

(* Split loses nothing and adds nothing but the item: its halves and the item   *)
(* that moves up are, in this order, the keys and branches of the node with the *)
(* item added, wherever in the node that belongs.                               *)
LEMMA SplitCuts ==
  ASSUME NEW B, NilPtr \in B, NEW node \in NodeIn(B), Whole(node),
         Len(node.key) = MaxKeys, NEW item \in Key, NEW right \in B,
         NEW place \in 0 .. MaxKeys
  PROVE  LET wide == AddItem(item, right, node, place)
             cut  == Halves(item, right, node, place)
         IN  /\ cut.left \in NodeIn(B) /\ cut.right \in NodeIn(B) /\ cut.item \in Key
             /\ IsCut(cut, wide)
  <1> DEFINE wide == AddItem(item, right, node, place)
             cut  == Halves(item, right, node, place)
             m    == Median(place)
             left == IF place <= MinKeys THEN AddItem(item, right, Low(node, m), place)
                                         ELSE Low(node, m)
             rest == IF place <= MinKeys THEN High(node, m)
                                         ELSE AddItem(item, right, High(node, m), place - m)
  <1>1. cut = [left  |-> WithoutLast(left), item |-> Last(left.key),
               right |-> WithFirst(rest, Last(left.branch))]
    BY DEF Halves, Low, High
  <1>2. MaxKeys \in Nat /\ MinKeys \in Nat /\ MinKeys < MaxKeys
    BY Constants
  <1>3. place \in 0 .. Len(node.key)
    OBVIOUS
  <1>4. wide \in NodeIn(B) /\ Whole(wide) /\ IsWidened(wide, node, item, right, place)
    BY <1>3, Widened
  <1> HIDE DEF wide
  <1>5. left \in NodeIn(B) /\ rest \in NodeIn(B) /\ AlmostCut(left, rest, wide)
    <2>1. CASE place <= MinKeys
      <3>1. m = MinKeys /\ place \in 0 .. MinKeys
        BY <1>2, <2>1 DEF Median
      <3> HIDE DEF m
      <3>2. left = AddItem(item, right, Low(node, MinKeys), place) /\ rest = High(node, MinKeys)
        BY <2>1, <3>1
      <3> HIDE DEF left, rest
      <3>3. QED
        BY <1>4, <3>1, <3>2, CutLeft
    <2>2. CASE ~(place <= MinKeys)
      <3>1. m = MinKeys + 1 /\ place \in MinKeys + 1 .. MaxKeys
        BY <1>2, <2>2 DEF Median
      <3> HIDE DEF m
      <3>2. /\ left = Low(node, MinKeys + 1)
            /\ rest = AddItem(item, right, High(node, MinKeys + 1), place - (MinKeys + 1))
        BY <2>2, <3>1
      <3> HIDE DEF left, rest
      <3>3. QED
        BY <1>4, <3>1, <3>2, CutRight
    <2>3. QED
      BY <2>1, <2>2
  <1> HIDE DEF m, left, rest
  <1>6. /\ left.key \in Seq(Key) /\ left.branch \in Seq(B)
        /\ Len(left.key) = MinKeys + 1 /\ Len(left.branch) = MinKeys + 2
    BY <1>2, <1>5 DEF AlmostCut, NodeIn, Whole
  <1>7. /\ Last(left.key) = wide.key[MinKeys + 1] /\ Last(left.key) \in Key
        /\ Last(left.branch) = wide.branch[MinKeys + 2] /\ Last(left.branch) \in B
    BY <1>2, <1>5, <1>6 DEF AlmostCut, Last
  <1>8. /\ WithoutLast(left) \in NodeIn(B) /\ Whole(WithoutLast(left))
        /\ Len(WithoutLast(left).key) = MinKeys
        /\ \A i \in 1 .. MinKeys : WithoutLast(left).key[i] = left.key[i]
        /\ \A i \in 1 .. MinKeys + 1 : WithoutLast(left).branch[i] = left.branch[i]
    <2>1. Whole(left) /\ Len(left.key) > 0 /\ MinKeys + 1 - 1 = MinKeys
      BY <1>2, <1>5, <1>6 DEF AlmostCut
    <2>2. /\ WithoutLast(left) \in NodeIn(B) /\ Whole(WithoutLast(left))
          /\ Len(WithoutLast(left).key) = Len(left.key) - 1
          /\ \A i \in 1 .. Len(left.key) - 1 : WithoutLast(left).key[i] = left.key[i]
          /\ \A i \in 1 .. Len(left.key) : WithoutLast(left).branch[i] = left.branch[i]
      BY <1>5, <2>1, WithoutLastOf
    <2>3. Len(left.key) - 1 = MinKeys /\ Len(left.key) = MinKeys + 1
      BY <1>2, <1>6
    <2>4. QED
      BY <2>2, <2>3
  <1> DEFINE front == WithFirst(rest, Last(left.branch))
  <1>9. /\ front \in NodeIn(B) /\ Whole(front) /\ front.key = rest.key
        /\ \A i \in 1 .. Len(rest.branch) :
             front.branch[i] = IF i = 1 THEN Last(left.branch) ELSE rest.branch[i]
    <2>1. Whole(rest) /\ Last(left.branch) \in B
      BY <1>5, <1>7 DEF AlmostCut
    <2> DEFINE first == Last(left.branch)
    <2> HIDE DEF first
    <2>2. first \in B
      BY <2>1 DEF first
    <2>3. WithFirst(rest, first) \in NodeIn(B) /\ HasFirst(WithFirst(rest, first), rest, first)
      BY <1>5, <2>1, <2>2, WithFirstOf
    <2>4. QED
      BY <2>3 DEF first, HasFirst
  <1> HIDE DEF front, cut
  <1>10. cut.left = WithoutLast(left) /\ cut.item = Last(left.key) /\ cut.right = front
    BY <1>1 DEF front
  <1>11. Len(rest.branch) = MaxKeys - MinKeys + 1
    BY <1>5 DEF AlmostCut, Whole
  <1>12. ASSUME NEW i \in 1 .. MaxKeys - MinKeys + 1
         PROVE  front.branch[i] = wide.branch[MinKeys + 1 + i]
    <2>1. front.branch[i] = IF i = 1 THEN Last(left.branch) ELSE rest.branch[i]
      BY <1>9, <1>11
    <2>2. i # 1 => i \in 2 .. MaxKeys - MinKeys + 1
      BY <1>2
    <2>3. i # 1 => rest.branch[i] = wide.branch[MinKeys + 1 + i]
      BY <1>5, <2>2 DEF AlmostCut
    <2>4. i = 1 => MinKeys + 1 + i = MinKeys + 2
      BY <1>2
    <2>5. QED
      BY <1>7, <2>1, <2>3, <2>4
  <1>13. /\ \A i \in 1 .. MinKeys : cut.left.key[i] = wide.key[i]
         /\ \A i \in 1 .. MinKeys + 1 : cut.left.branch[i] = wide.branch[i]
    <2>1. /\ \A i \in 1 .. MinKeys : i \in 1 .. MinKeys + 1
          /\ \A i \in 1 .. MinKeys + 1 : i \in 1 .. MinKeys + 2
      BY <1>2
    <2>2. QED
      BY <1>5, <1>8, <1>10, <2>1 DEF AlmostCut
  <1>14. IsCut(cut, wide)
    BY <1>5, <1>7, <1>8, <1>9, <1>10, <1>12, <1>13 DEF AlmostCut, IsCut
  <1>15. QED
    BY <1>7, <1>8, <1>9, <1>10, <1>14 DEF cut, wide

-----------------------------------------------------------------------------
Branches == {NilPtr} \cup 1 .. NumNodes

(* A level for every node: those of its branches are all one less, and none is 0 *)
(* but the level of NilPtr.                                                      *)
Levelled(level) ==
  /\ level[NilPtr] = 0
  /\ \A n \in 1 .. NumNodes : \A i \in 1 .. Len(file[n].branch) :
       level[n] = level[file[n].branch[i]] + 1

(* The waiting calls of PushDown go down from the root, a level each.            *)
PathDown(level) ==
  \A i \in 1 .. Len(path) :
    /\ level[path[i].node] = level[root] - i + 1
    /\ path[i].place <= Len(file[path[i].node].key)

(* The call that is not waiting is a level further down, and so is the node that *)
(* a split adds for the last of them.                                            *)
Deepest(level) ==
  /\ pc = "down" => level[at] = level[root] - Len(path)
  /\ pc = "up" => level[moved.right] = level[root] - Len(path)

FromRoot ==
  /\ pc \in {"idle", "find"} => path = <<>>
  /\ path # <<>> => path[1].node = root
  /\ pc = "down" /\ path = <<>> => at = root

(* The root has enough keys when a new root is to go above it.                   *)
EnoughInRoot == pc = "up" /\ path = <<>> /\ root # NilPtr => Len(file[root].key) >= MinKeys

Levels(level) == Levelled(level) /\ PathDown(level) /\ Deepest(level)

Formed == TypeOK /\ FromRoot /\ EnoughKeys /\ EnoughInRoot

Built == Formed /\ \E level \in [Branches -> Nat] : Levels(level)

-----------------------------------------------------------------------------
(* The initial tree is empty: the only level is that of NilPtr.                  *)
LEMMA BuiltAtStart == Init => Built
  <1> SUFFICES ASSUME Init PROVE Built
    OBVIOUS
  <1>1. Len(file) = 0 /\ Len(path) = 0 /\ file \in Seq(Node)
    BY DEF Init
  <1>2. TypeOK
    <2>1. path \in Seq([node : 1 .. NumNodes, place : 0 .. MaxKeys])
      BY EmptySeq DEF Init
    <2>2. header \in [items : Nat, root : {NilPtr} \cup 1 .. NumNodes]
      BY DEF Init
    <2>3. NumNodes = 0
      BY <1>1 DEF NumNodes
    <2>4. /\ pc = "idle" /\ moved = NoItem /\ root = NilPtr /\ at = NilPtr
          /\ numItems = 0 /\ key \in Key /\ answer = FALSE
      BY DEF Init
    <2>5. \A n \in 1 .. NumNodes : WellFormed(file[n])
      BY <2>3
    <2>6. pc # "up" /\ pc \in {"idle", "down", "up", "find"} /\ answer \in BOOLEAN
      BY <2>4
    <2>7. numItems \in Nat
      BY <2>4
    <2> HIDE <2>3
    <2>8. QED
      BY <1>1, <2>1, <2>2, <2>4, <2>5, <2>6, <2>7 DEF TypeOK
  <1>3. FromRoot /\ EnoughKeys /\ EnoughInRoot
    BY <1>1 DEF Init, FromRoot, EnoughKeys, EnoughInRoot, NumNodes
  <1> DEFINE level == [b \in Branches |-> 0]
  <1>4. level \in [Branches -> Nat] /\ level[NilPtr] = 0
    BY DEF Branches
  <1>5. Levels(level)
    BY <1>1, <1>4 DEF Init, Levels, Levelled, PathDown, Deepest, NumNodes
  <1>6. QED
    BY <1>2, <1>3, <1>4, <1>5 DEF Built, Formed

-----------------------------------------------------------------------------
(* Files of nodes whose branches are in B.                                       *)
NodesOK(f, B) == f \in Seq(NodeIn(B)) /\ \A n \in 1 .. Len(f) : WellFormed(f[n])

(* What TypeOK says of the nodes.                                               *)
LEMMA FileTypes ==
  ASSUME TypeOK
  PROVE  /\ NodesOK(file, Branches) /\ NumNodes = Len(file) /\ NumNodes \in Nat
         /\ NilPtr \in Branches
         /\ \A n \in 1 .. NumNodes :
              /\ file[n] \in NodeIn(Branches) /\ Whole(file[n])
              /\ Len(file[n].key) \in 1 .. MaxKeys
              /\ Len(file[n].key) \in Nat /\ Len(file[n].branch) = Len(file[n].key) + 1
              /\ \A i \in 1 .. Len(file[n].branch) : file[n].branch[i] \in Branches
  <1>1. NodesOK(file, Branches) /\ NumNodes = Len(file) /\ NilPtr \in Branches
    BY DEF TypeOK, NodesOK, Node, NodeIn, NumNodes, Branches
  <1>2. ASSUME NEW n \in 1 .. NumNodes
        PROVE  file[n] \in NodeIn(Branches) /\ WellFormed(file[n])
    BY <1>1 DEF NodesOK
  <1>3. ASSUME NEW n \in 1 .. NumNodes
        PROVE  /\ Len(file[n].key) \in Nat
               /\ \A i \in 1 .. Len(file[n].branch) : file[n].branch[i] \in Branches
    BY <1>2 DEF NodeIn
  <1>4. NumNodes \in Nat
    BY <1>1 DEF NodesOK
  <1>5. QED
    BY <1>1, <1>2, <1>3, <1>4 DEF WellFormed, Whole

(* g is f with node as its node n, which may be a new one behind the others.     *)
IsWith(g, f, n, node) ==
  /\ Len(g) = IF n = Len(f) + 1 THEN n ELSE Len(f)
  /\ \A m \in 1 .. Len(g) : g[m] = IF m = n THEN node ELSE f[m]

(* Writing a well-formed node over another.                                     *)
LEMMA Rewritten ==
  ASSUME NEW B, NEW f, NodesOK(f, B), NEW n \in 1 .. Len(f),
         NEW node \in NodeIn(B), WellFormed(node)
  PROVE  LET g == [f EXCEPT ![n] = node]
         IN  NodesOK(g, B) /\ IsWith(g, f, n, node)
  <1> DEFINE g == [f EXCEPT ![n] = node]
  <1>1. /\ g \in Seq(NodeIn(B)) /\ Len(g) = Len(f)
        /\ \A m \in 1 .. Len(f) : g[m] = IF m = n THEN node ELSE f[m]
    BY ExceptSeq DEF NodesOK
  <1>2. n # Len(f) + 1
    BY DEF NodesOK
  <1> HIDE DEF g
  <1>3. QED
    BY <1>1, <1>2 DEF NodesOK, IsWith, g

(* Writing a well-formed node behind the others.                                *)
LEMMA Appended ==
  ASSUME NEW B, NEW C, B \subseteq C, NEW f, NodesOK(f, B),
         NEW node \in NodeIn(C), WellFormed(node)
  PROVE  LET g == Append(f, node)
         IN  NodesOK(g, C) /\ IsWith(g, f, Len(f) + 1, node)
  <1> DEFINE g == Append(f, node)
  <1>1. \A s \in Seq(B) : s \in Seq(C)
    BY SeqMonotonic
  <1>2. NodeIn(B) \subseteq NodeIn(C)
    BY <1>1 DEF NodeIn
  <1>3. f \in Seq(NodeIn(C)) /\ Len(f) \in Nat
    BY <1>2, SeqMonotonic DEF NodesOK
  <1>4. g \in Seq(NodeIn(C)) /\ Len(g) = Len(f) + 1
        /\ \A m \in 1 .. Len(f) + 1 : g[m] = IF m = Len(f) + 1 THEN node ELSE f[m]
    BY <1>3
  <1> HIDE DEF g
  <1>5. QED
    BY <1>3, <1>4 DEF NodesOK, IsWith, g

(* SearchNode leads to a branch of the node, whatever the order of its keys.    *)
LEMMA LocationIn ==
  ASSUME NEW B, NEW node \in NodeIn(B), Whole(node), NEW target
  PROVE  /\ Location(target, node) \in 0 .. Len(node.key)
         /\ Child(target, node) \in B
  <1>1. Len(node.key) \in Nat /\ \A i \in 1 .. Len(node.branch) : node.branch[i] \in B
    BY DEF NodeIn
  <1> DEFINE notBelow == {i \in 1 .. Len(node.key) : Difference(target, node.key[i]) >= 0}
  <1>2. Location(target, node) = IF 1 \notin notBelow THEN 0 ELSE Max(notBelow)
    BY DEF Location
  <1>3. notBelow \subseteq 0 .. Len(node.key)
    OBVIOUS
  <1> HIDE DEF notBelow
  <1>4. 1 \in notBelow => Max(notBelow) \in notBelow
    <2> SUFFICES ASSUME 1 \in notBelow PROVE Max(notBelow) \in notBelow
      OBVIOUS
    <2>1. \E m \in notBelow : \A k \in notBelow : m >= k
      BY <1>1, <1>3, GreatestInRange
    <2>2. Max(notBelow) = CHOOSE m \in notBelow : \A k \in notBelow : m >= k
      BY DEF Max
    <2>3. QED
      BY <2>1, <2>2
  <1>5. Location(target, node) \in 0 .. Len(node.key)
    <2>1. CASE 1 \in notBelow
      BY <1>2, <1>3, <1>4, <2>1
    <2>2. CASE 1 \notin notBelow
      BY <1>1, <1>2, <2>2
    <2>3. QED
      BY <2>1, <2>2
  <1>6. QED
    BY <1>1, <1>5 DEF Child, Whole

-----------------------------------------------------------------------------
(* The steps that change no node.                                                *)
ReadStep == \/ \E k \in Key : Insert(k) \/ Retrieve(k)
            \/ Duplicate \/ PushDown \/ Bottom \/ Look \/ Return

(* They leave the tree well built; PushDown goes a level down.                  *)
LEMMA LevelsWhileRead ==
  ASSUME Formed, ReadStep, NEW level \in [Branches -> Nat], Levels(level)
  PROVE  Formed' /\ Branches' = Branches /\ Levels(level)'
  <1>1. TypeOK /\ FromRoot /\ EnoughKeys /\ EnoughInRoot
    BY DEF Formed
  <1>2. Levels(level)
    OBVIOUS
  <1> USE <1>1
  <1>same. UNCHANGED <<file, numItems, root, header>>
    BY DEF ReadStep, Insert, Retrieve, Duplicate, PushDown, Bottom, Look, Return
  <1>3. /\ Branches' = Branches /\ NumNodes' = NumNodes
        /\ EnoughKeys' /\ Levelled(level)'
    BY <1>2, <1>same DEF Branches, NumNodes, EnoughKeys, Levels, Levelled
  <1>4. SUFFICES TypeOK' /\ FromRoot' /\ EnoughInRoot' /\ PathDown(level)' /\ Deepest(level)'
    BY <1>2, <1>3 DEF Formed, Levels
  <1>5. ASSUME NEW k \in Key, Insert(k)
        PROVE  TypeOK' /\ FromRoot' /\ EnoughInRoot' /\ PathDown(level)' /\ Deepest(level)'
    <2>1. pc = "idle" /\ path = <<>>
      BY <1>5 DEF Insert, FromRoot
    <2>2. TypeOK'
      BY <1>5 DEF Insert, TypeOK, Node, NumNodes, WellFormed
    <2>3. FromRoot' /\ EnoughInRoot' /\ PathDown(level)'
      BY <1>5, <2>1 DEF Insert, FromRoot, EnoughInRoot, PathDown
    <2>4. Deepest(level)'
      BY <1>2, <1>5, <2>1 DEF Insert, Deepest, TypeOK, Branches
    <2>5. QED
      BY <2>2, <2>3, <2>4
  <1>6. ASSUME NEW k \in Key, Retrieve(k)
        PROVE  TypeOK' /\ FromRoot' /\ EnoughInRoot' /\ PathDown(level)' /\ Deepest(level)'
    <2>1. TypeOK'
      BY <1>6 DEF Retrieve, TypeOK, Node, NumNodes, WellFormed
    <2>2. QED
      BY <1>6, <2>1 DEF Retrieve, FromRoot, EnoughInRoot, PathDown, Deepest
  <1>7. ASSUME Duplicate
        PROVE  TypeOK' /\ FromRoot' /\ EnoughInRoot' /\ PathDown(level)' /\ Deepest(level)'
    <2>1. TypeOK'
      <3>1. path' \in Seq([node : 1 .. NumNodes, place : 0 .. MaxKeys])
        BY <1>7, EmptySeq DEF Duplicate
      <3>2. QED
        BY <1>7, <3>1 DEF Duplicate, TypeOK, Node, NumNodes, WellFormed
    <2>2. Len(path') = 0
      BY <1>7 DEF Duplicate
    <2>3. QED
      BY <1>7, <2>1, <2>2 DEF Duplicate, FromRoot, EnoughInRoot, PathDown, Deepest
  <1>8. ASSUME PushDown
        PROVE  TypeOK' /\ FromRoot' /\ EnoughInRoot' /\ PathDown(level)' /\ Deepest(level)'
    <2> DEFINE call == [node |-> at, place |-> Location(key, file[at])]
    <2>1. at \in 1 .. NumNodes /\ pc = "down" /\ pc' = "down" /\ path' = Append(path, call)
      BY <1>8 DEF PushDown, TypeOK
    <2>2. /\ Location(key, file[at]) \in 0 .. Len(file[at].key)
          /\ at' = file[at].branch[Location(key, file[at]) + 1] /\ at' \in Branches
      BY <1>8, <2>1, FileTypes, LocationIn DEF PushDown, Child
    <2>3. call \in [node : 1 .. NumNodes, place : 0 .. MaxKeys]
          /\ call.node = at /\ call.place <= Len(file[at].key)
      <3> DEFINE p == Location(key, file[at])
      <3>1. Len(file[at].key) \in 1 .. MaxKeys /\ MaxKeys \in Nat
        BY <2>1, FileTypes, Constants
      <3>2. p \in 0 .. Len(file[at].key)
        BY <2>2
      <3> HIDE DEF p
      <3>3. p \in 0 .. MaxKeys /\ p <= Len(file[at].key)
        BY <3>1, <3>2
      <3>4. call = [node |-> at, place |-> p]
        BY DEF p
      <3> HIDE DEF call
      <3>5. QED
        BY <2>1, <3>3, <3>4
    <2>4. path \in Seq([node : 1 .. NumNodes, place : 0 .. MaxKeys])
      BY DEF TypeOK
    <2> HIDE DEF call
    <2>5. /\ path' \in Seq([node : 1 .. NumNodes, place : 0 .. MaxKeys])
          /\ Len(path) \in Nat /\ Len(path') = Len(path) + 1
          /\ \A i \in 1 .. Len(path) + 1 : path'[i] = IF i = Len(path) + 1 THEN call ELSE path[i]
      BY <2>1, <2>3, <2>4
    <2>6. TypeOK'
      BY <1>8, <2>1, <2>2, <2>5 DEF PushDown, TypeOK, Node, NumNodes, WellFormed, Branches
    <2>7. FromRoot'
      <3>1. path'[1].node = root
        <4>1. CASE path = <<>>
          BY <2>1, <2>3, <2>5, <4>1 DEF FromRoot
        <4>2. CASE path # <<>>
          <5>1. 1 \in 1 .. Len(path)
            BY <2>4, <4>2, EmptySeq
          <5>2. path'[1] = path[1]
            BY <2>5, <5>1
          <5>3. QED
            BY <4>2, <5>2 DEF FromRoot
        <4>3. QED
          BY <4>1, <4>2
      <3>2. QED
        BY <1>8, <2>1, <3>1 DEF FromRoot, PushDown
    <2>8. EnoughInRoot'
      BY <2>1 DEF EnoughInRoot
    <2>9. level[at] = level[root] - Len(path) /\ level[at] = level[at'] + 1
      <3>1. level[at] = level[root] - Len(path)
        BY <1>2, <2>1 DEF Levels, Deepest
      <3>2. Location(key, file[at]) + 1 \in 1 .. Len(file[at].branch)
        <4> DEFINE p == Location(key, file[at])
        <4>1. p \in 0 .. Len(file[at].key)
          BY <2>2
        <4>2. Len(file[at].key) \in Nat /\ Len(file[at].branch) = Len(file[at].key) + 1
          BY <2>1, FileTypes
        <4> HIDE DEF p
        <4>3. p + 1 \in 1 .. Len(file[at].branch)
          BY <4>1, <4>2
        <4>4. QED
          BY <4>3 DEF p
      <3>3. level[at] = level[at'] + 1
        BY <1>2, <2>1, <2>2, <3>2 DEF Levels, Levelled
      <3>4. QED
        BY <3>1, <3>3
    <2>10. level[at'] \in Nat /\ level[at] \in Nat /\ level[root] \in Nat
      BY <1>2, <2>1, <2>2 DEF TypeOK, Branches
    <2>11. Deepest(level)'
      <3>1. level[at'] = level[root] - Len(path')
        BY <2>5, <2>9, <2>10
      <3>2. root' = root /\ pc' # "up"
        BY <1>8, <2>1 DEF PushDown
      <3>3. QED
        BY <3>1, <3>2 DEF Deepest
    <2>12. PathDown(level)'
      <3>1. ASSUME NEW i \in 1 .. Len(path) + 1
            PROVE  /\ level[path'[i].node] = level[root] - i + 1
                   /\ path'[i].place <= Len(file[path'[i].node].key)
        <4>1. CASE i = Len(path) + 1
          <5>1. path'[i] = call
            BY <2>5, <4>1
          <5>2. level[at] = level[root] - i + 1
            BY <2>5, <2>9, <2>10, <4>1
          <5>3. QED
            BY <2>3, <5>1, <5>2
        <4>2. CASE i # Len(path) + 1
          <5>1. i \in 1 .. Len(path) /\ path'[i] = path[i]
            BY <2>5, <4>2
          <5>2. QED
            BY <1>2, <5>1 DEF Levels, PathDown
        <4>3. QED
          BY <4>1, <4>2
      <3>2. QED
        BY <1>8, <2>5, <3>1 DEF PathDown, PushDown
    <2>13. QED
      BY <2>6, <2>7, <2>8, <2>11, <2>12
  <1>9. ASSUME Bottom
        PROVE  TypeOK' /\ FromRoot' /\ EnoughInRoot' /\ PathDown(level)' /\ Deepest(level)'
    <2>1. pc = "down" /\ pc' = "up" /\ at = NilPtr /\ moved' = [item |-> key, right |-> NilPtr]
      BY <1>9 DEF Bottom
    <2>2. TypeOK'
      BY <1>9, <2>1 DEF Bottom, TypeOK, Node, NumNodes, WellFormed
    <2>3. FromRoot'
      BY <1>9, <2>1 DEF Bottom, FromRoot
    <2>enough. EnoughInRoot'
      BY <1>9, <2>1 DEF Bottom, FromRoot, EnoughInRoot
    <2>down. PathDown(level)'
      BY <1>2, <1>9 DEF Bottom, Levels, PathDown
    <2>4. Deepest(level)'
      BY <1>2, <1>9, <2>1 DEF Bottom, Levels, Deepest
    <2>5. QED
      BY <2>2, <2>3, <2>enough, <2>down, <2>4
  <1>10. ASSUME Look
         PROVE  TypeOK' /\ FromRoot' /\ EnoughInRoot' /\ PathDown(level)' /\ Deepest(level)'
    <2>1. at \in 1 .. NumNodes
      BY <1>10 DEF Look, TypeOK
    <2>2. at' \in Branches
      BY <1>10, <2>1, FileTypes, LocationIn DEF Look
    <2>3. TypeOK'
      BY <1>10, <2>2 DEF Look, TypeOK, Node, NumNodes, WellFormed, Branches
    <2>4. QED
      BY <1>10, <2>3 DEF Look, FromRoot, EnoughInRoot, PathDown, Deepest
  <1>11. ASSUME Return
         PROVE  TypeOK' /\ FromRoot' /\ EnoughInRoot' /\ PathDown(level)' /\ Deepest(level)'
    <2>1. TypeOK'
      BY <1>11 DEF Return, TypeOK, Node, NumNodes, WellFormed
    <2>2. QED
      BY <1>11, <2>1 DEF Return, FromRoot, EnoughInRoot, PathDown, Deepest
  <1>12. QED
    BY <1>5, <1>6, <1>7, <1>8, <1>9, <1>10, <1>11 DEF ReadStep

-----------------------------------------------------------------------------
(* All branches of a node lead to nodes of the level l.                          *)
AllAt(node, level, l) == \A i \in 1 .. Len(node.branch) : level[node.branch[i]] = l

(* AddItem keeps that when the branch it adds leads there too.                   *)
LEMMA WideLevels ==
  ASSUME NEW node, NEW wide, NEW item, NEW right, NEW place \in 0 .. Len(node.key),
         IsWidened(wide, node, item, right, place), Len(node.key) \in Nat,
         Whole(node), Whole(wide), NEW level, NEW l,
         AllAt(node, level, l), level[right] = l
  PROVE  AllAt(wide, level, l)
  <1> SUFFICES ASSUME NEW i \in 1 .. Len(wide.branch)
               PROVE  level[wide.branch[i]] = l
    BY DEF AllAt
  <1>1. Len(wide.branch) = Len(node.key) + 2 /\ Len(node.branch) = Len(node.key) + 1
    BY DEF IsWidened, Whole
  <1>2. wide.branch[i] = IF i < place + 2 THEN node.branch[i]
                         ELSE IF i = place + 2 THEN right ELSE node.branch[i - 1]
    BY <1>1 DEF IsWidened
  <1>3. i < place + 2 => i \in 1 .. Len(node.branch)
    BY <1>1
  <1>4. ~(i < place + 2) /\ i # place + 2 => i - 1 \in 1 .. Len(node.branch)
    BY <1>1
  <1>5. QED
    BY <1>2, <1>3, <1>4 DEF AllAt

(* The call that waits last, and its node.                                       *)
LEMMA CallerOnPath ==
  ASSUME Built, path # <<>>, NEW level \in [Branches -> Nat], Levels(level)
  PROVE  /\ Caller = path[Len(path)] /\ Len(path) \in Nat \ {0}
         /\ Caller.node \in 1 .. NumNodes /\ Caller.place \in Nat
         /\ Caller.place <= Len(file[Caller.node].key)
         /\ level[Caller.node] = level[root] - Len(path) + 1
         /\ root \in Branches
  <1>1. TypeOK
    BY DEF Built, Formed
  <1>2. path \in Seq([node : 1 .. NumNodes, place : 0 .. MaxKeys]) /\ MaxKeys \in Nat
    BY <1>1, Constants DEF TypeOK
  <1>3. Caller = path[Len(path)] /\ Len(path) \in Nat \ {0}
    BY <1>2, EmptySeq DEF Caller, Last
  <1>4. Len(path) \in 1 .. Len(path)
    BY <1>3
  <1>5. Caller \in [node : 1 .. NumNodes, place : 0 .. MaxKeys]
    BY <1>2, <1>3, <1>4, ElementOfSeq
  <1>6. Caller.node \in 1 .. NumNodes /\ Caller.place \in Nat
    BY <1>2, <1>5
  <1>7. /\ Caller.place <= Len(file[Caller.node].key)
        /\ level[Caller.node] = level[root] - Len(path) + 1
    BY <1>3, <1>4 DEF Levels, PathDown
  <1>8. root \in Branches
    BY <1>1 DEF TypeOK, Branches
  <1>9. QED
    BY <1>3, <1>6, <1>7, <1>8

(* On the way up the branches of its node lead as far down as the node that a    *)
(* split has added for it.                                                       *)
LEMMA CallerFacts ==
  ASSUME Built, pc = "up", path # <<>>,
         NEW level \in [Branches -> Nat], Levels(level)
  PROVE  /\ moved.item \in Key /\ moved.right \in Branches
         /\ level[moved.right] = level[root] - Len(path)
         /\ level[Caller.node] = level[moved.right] + 1 /\ level[moved.right] \in Nat
         /\ AllAt(file[Caller.node], level, level[moved.right])
  <1>1. TypeOK
    BY DEF Built, Formed
  <1>2. /\ Caller.node \in 1 .. NumNodes /\ Len(path) \in Nat \ {0}
        /\ level[Caller.node] = level[root] - Len(path) + 1 /\ root \in Branches
    BY CallerOnPath
  <1>3. moved.item \in Key /\ moved.right \in Branches
    BY <1>1 DEF TypeOK, Branches
  <1>4. level[moved.right] = level[root] - Len(path)
    BY DEF Levels, Deepest
  <1>5. level[root] \in Nat /\ level[moved.right] \in Nat
    BY <1>2, <1>3
  <1>6. level[Caller.node] = level[moved.right] + 1
    BY <1>2, <1>4, <1>5
  <1>7. ASSUME NEW i \in 1 .. Len(file[Caller.node].branch)
        PROVE  level[file[Caller.node].branch[i]] = level[moved.right]
    <2> DEFINE b == file[Caller.node].branch[i]
    <2>1. b \in Branches
      BY <1>1, <1>2, FileTypes
    <2>2. level[Caller.node] = level[b] + 1
      BY <1>2 DEF Levels, Levelled
    <2>3. level[b] \in Nat
      BY <2>1
    <2> HIDE DEF b
    <2>4. level[b] = level[moved.right]
      BY <1>5, <1>6, <2>2, <2>3
    <2>5. QED
      BY <2>4 DEF b
  <1>8. QED
    BY <1>3, <1>4, <1>5, <1>6, <1>7 DEF AllAt

(* What the end of an insertion leaves, whatever node it added the last item to. *)
LEMMA BuiltByInserted ==
  ASSUME Built, pc = "up", Inserted, NEW S, S = {NilPtr} \cup 1 .. Len(file'),
         NodesOK(file', S), root' \in S, Len(file') >= Len(file)
  PROVE  TypeOK' /\ FromRoot' /\ EnoughInRoot' /\ Branches' = S /\ NumNodes' = Len(file')
  <1>1. TypeOK
    BY DEF Built, Formed
  <1>2. NumNodes' = Len(file') /\ Branches' = S
    BY DEF NumNodes, Branches
  <1>3. /\ pc' = "idle" /\ answer' = TRUE /\ path' = <<>> /\ moved' = NoItem
        /\ numItems' = numItems + 1 /\ header' = [items |-> numItems + 1, root |-> root']
        /\ key' = key /\ at' = at
    BY DEF Inserted
  <1>4. /\ file' \in Seq(Node)' /\ \A n \in 1 .. NumNodes' : WellFormed(file'[n])
        /\ Branches \subseteq S
    <2>1. Node' = NodeIn(S)
      BY <1>2 DEF Node, NodeIn, Branches
    <2>2. NumNodes <= Len(file') /\ NumNodes \in Nat
      BY <1>1, FileTypes
    <2>3. Len(file') \in Nat
      BY DEF NodesOK
    <2>4. Branches \subseteq S
      BY <2>2, <2>3 DEF Branches
    <2>5. QED
      BY <1>2, <2>1, <2>4 DEF NodesOK
  <1>5. path' \in Seq([node : 1 .. NumNodes', place : 0 .. MaxKeys])
    BY <1>3, EmptySeq
  <1>6. numItems + 1 \in Nat /\ key \in Key /\ at \in S
    BY <1>1, <1>4 DEF TypeOK, Branches
  <1>7. header' \in [items : Nat, root : S]
    BY <1>3, <1>6
  <1>8. TypeOK'
    BY <1>2, <1>3, <1>4, <1>5, <1>6, <1>7 DEF TypeOK, Branches, WellFormed
  <1>9. FromRoot' /\ EnoughInRoot'
    BY <1>3 DEF FromRoot, EnoughInRoot
  <1>10. QED
    BY <1>2, <1>8, <1>9

(* What Place makes of the file: the node that has room gets the item.           *)
IsPlaced(c, wide) ==
  /\ Branches' = Branches /\ NumNodes' = NumNodes /\ file'[c] = wide
  /\ \A n \in 1 .. NumNodes : n # c => file'[n] = file[n]

(* The node of the last call is rewritten so, and stays well-formed; its new      *)
(* branch leads to a node of the level that the others lead to.                   *)
LEMMA PlaceFile ==
  ASSUME Built, Place, NEW level \in [Branches -> Nat], Levels(level)
  PROVE  LET c    == Caller.node
             wide == AddItem(moved.item, moved.right, file[c], Caller.place)
         IN  /\ IsPlaced(c, wide) /\ NodesOK(file', Branches)
             /\ wide \in NodeIn(Branches) /\ Whole(wide)
             /\ IsWidened(wide, file[c], moved.item, moved.right, Caller.place)
             /\ AllAt(wide, level, level[moved.right])
  <1>2. TypeOK /\ EnoughKeys
    BY DEF Built, Formed
  <1> DEFINE c == Caller.node
             node == file[c]
             wide == AddItem(moved.item, moved.right, node, Caller.place)
  <1>3. pc = "up" /\ path # <<>>
    BY DEF Place
  <1>4. /\ file' = [file EXCEPT ![c] = wide] /\ root' = root /\ Len(node.key) < MaxKeys
        /\ Inserted
    BY DEF Place
  <1>5. /\ c \in 1 .. NumNodes /\ Caller.place \in 0 .. Len(node.key)
        /\ moved.item \in Key /\ moved.right \in Branches /\ root \in Branches
        /\ AllAt(node, level, level[moved.right]) /\ level[c] = level[moved.right] + 1
    BY <1>2, <1>3, CallerOnPath, CallerFacts, FileTypes
  <1>6. /\ node \in NodeIn(Branches) /\ Whole(node) /\ Len(node.key) \in Nat
        /\ Len(node.branch) = Len(node.key) + 1 /\ NodesOK(file, Branches)
        /\ NumNodes = Len(file) /\ NumNodes \in Nat /\ Len(node.key) >= 1
    BY <1>2, <1>5, FileTypes
  <1> HIDE DEF node, c
  <1>7. /\ wide \in NodeIn(Branches) /\ Whole(wide)
        /\ IsWidened(wide, node, moved.item, moved.right, Caller.place)
    BY <1>5, <1>6, Widened
  <1> HIDE DEF wide
  <1>8. Len(wide.key) = Len(node.key) + 1 /\ Len(wide.branch) = Len(node.key) + 2
    BY <1>6, <1>7 DEF IsWidened, Whole
  <1>9. WellFormed(wide)
    BY <1>4, <1>6, <1>7, <1>8, Constants DEF WellFormed, Whole
  <1>10. /\ NodesOK(file', Branches) /\ Len(file') = NumNodes
         /\ \A n \in 1 .. NumNodes : file'[n] = IF n = c THEN wide ELSE file[n]
    <2>1. c \in 1 .. Len(file)
      BY <1>5, <1>6
    <2>2. NodesOK(file', Branches) /\ IsWith(file', file, c, wide)
      BY <1>4, <1>6, <1>7, <1>9, <2>1, Rewritten
    <2>3. c # Len(file) + 1
      BY <1>6, <2>1
    <2>4. QED
      BY <1>6, <2>2, <2>3 DEF IsWith
  <1>11. IsPlaced(c, wide)
    BY <1>5, <1>6, <1>10 DEF IsPlaced, Branches, NumNodes
  <1>12. AllAt(wide, level, level[moved.right])
    BY <1>5, <1>6, <1>7, WideLevels
  <1>13. QED
    BY <1>7, <1>10, <1>11, <1>12 DEF wide, node, c

(* The levels are still right, since the new branch is like the others.          *)
LEMMA LevelsByPlace ==
  ASSUME Built, Place, NEW level \in [Branches -> Nat], Levels(level)
  PROVE  Formed' /\ Branches' = Branches /\ Levels(level)'
  <1>1. Levels(level)
    OBVIOUS
  <1>2. TypeOK /\ EnoughKeys
    BY DEF Built, Formed
  <1> DEFINE c == Caller.node
             wide == AddItem(moved.item, moved.right, file[c], Caller.place)
  <1>3. pc = "up" /\ path # <<>> /\ root' = root /\ Inserted
    BY DEF Place
  <1>4. /\ IsPlaced(c, wide) /\ NodesOK(file', Branches)
        /\ IsWidened(wide, file[c], moved.item, moved.right, Caller.place)
        /\ AllAt(wide, level, level[moved.right])
    BY PlaceFile
  <1>5. /\ c \in 1 .. NumNodes /\ root \in Branches
        /\ level[c] = level[moved.right] + 1
    BY <1>3, CallerOnPath, CallerFacts
  <1> HIDE DEF c, wide
  <1>6. /\ TypeOK' /\ FromRoot' /\ EnoughInRoot'
        /\ Branches' = Branches /\ NumNodes' = NumNodes
    <2>1. Branches' = {NilPtr} \cup 1 .. Len(file') /\ root' \in Branches
      BY <1>3, <1>5 DEF Branches, NumNodes
    <2>2. Branches' = Branches /\ NumNodes' = NumNodes /\ Len(file') >= Len(file)
      BY <1>2, <1>4, FileTypes DEF IsPlaced, NumNodes
    <2>3. QED
      BY <1>3, <1>4, <2>1, <2>2, BuiltByInserted
  <1>7. EnoughKeys'
    <2> SUFFICES ASSUME NEW n \in 1 .. NumNodes, n # root
                 PROVE  Len(file'[n].key) >= MinKeys
      BY <1>3, <1>6 DEF EnoughKeys
    <2>1. Len(file[n].key) >= MinKeys /\ Len(file[n].key) \in Nat
      BY <1>2, FileTypes DEF EnoughKeys
    <2>2. n = c => Len(file'[n].key) = Len(file[n].key) + 1
      BY <1>4 DEF IsPlaced, IsWidened
    <2>3. n # c => file'[n] = file[n]
      BY <1>4 DEF IsPlaced
    <2>4. QED
      BY <2>1, <2>2, <2>3, Constants
  <1>8. Levelled(level)'
    <2>1. ASSUME NEW n \in 1 .. NumNodes, NEW i \in 1 .. Len(file'[n].branch)
          PROVE  level[n] = level[file'[n].branch[i]] + 1
      <3>1. CASE n = c
        <4>1. file'[n] = wide
          BY <1>4, <3>1 DEF IsPlaced
        <4>2. level[file'[n].branch[i]] = level[moved.right]
          BY <1>4, <4>1 DEF AllAt
        <4>3. QED
          BY <1>5, <3>1, <4>2
      <3>2. CASE n # c
        <4>1. file'[n] = file[n]
          BY <1>4, <3>2 DEF IsPlaced
        <4>2. QED
          BY <1>1, <4>1 DEF Levels, Levelled
      <3>3. QED
        BY <3>1, <3>2
    <2>2. level[NilPtr] = 0
      BY <1>1 DEF Levels, Levelled
    <2>3. QED
      BY <1>6, <2>1, <2>2 DEF Levelled
  <1>9. PathDown(level)' /\ Deepest(level)'
    BY <1>3 DEF Inserted, PathDown, Deepest
  <1>10. QED
    BY <1>6, <1>7, <1>8, <1>9 DEF Formed, Levels

(* The halves of a split lead to nodes of the level that the whole led to.      *)
LEMMA CutLevels ==
  ASSUME NEW cut, NEW wide, IsCut(cut, wide), NEW level, NEW l,
         Len(wide.branch) = MaxKeys + 2, AllAt(wide, level, l)
  PROVE  /\ AllAt(cut.left, level, l) /\ AllAt(cut.right, level, l)
         /\ Len(cut.left.key) = MinKeys /\ Len(cut.right.key) = MaxKeys - MinKeys
         /\ WellFormed(cut.left) /\ WellFormed(cut.right)
  <1>1. /\ MinKeys \in Nat \ {0} /\ MaxKeys \in Nat /\ MaxKeys >= 2 * MinKeys
    BY Constants
  <1>2. /\ Len(cut.left.branch) = MinKeys + 1
        /\ Len(cut.right.branch) = MaxKeys - MinKeys + 1
        /\ Len(cut.left.key) = MinKeys /\ Len(cut.right.key) = MaxKeys - MinKeys
    BY <1>1 DEF IsCut, Whole
  <1>3. ASSUME NEW i \in 1 .. MinKeys + 1 PROVE level[cut.left.branch[i]] = l
    <2>1. i \in 1 .. MaxKeys + 2
      BY <1>1
    <2>2. level[wide.branch[i]] = l
      BY <2>1 DEF AllAt
    <2>3. QED
      BY <2>2 DEF IsCut
  <1>4. ASSUME NEW i \in 1 .. MaxKeys - MinKeys + 1 PROVE level[cut.right.branch[i]] = l
    <2>1. MinKeys + 1 + i \in 1 .. MaxKeys + 2
      BY <1>1
    <2>2. level[wide.branch[MinKeys + 1 + i]] = l
      BY <2>1 DEF AllAt
    <2>3. QED
      BY <2>2 DEF IsCut
  <1>5. QED
    BY <1>1, <1>2, <1>3, <1>4 DEF AllAt, WellFormed

(* The path without the call that ends.                                         *)
LEMMA FrontOfPath ==
  ASSUME TypeOK, path # <<>>
  PROVE  /\ Front(path) \in Seq([node : 1 .. NumNodes, place : 0 .. MaxKeys])
         /\ Len(path) \in Nat \ {0} /\ Len(Front(path)) = Len(path) - 1
         /\ \A i \in 1 .. Len(path) - 1 : Front(path)[i] = path[i]
  <1>1. path \in Seq([node : 1 .. NumNodes, place : 0 .. MaxKeys])
    BY DEF TypeOK
  <1>2. Len(path) \in Nat \ {0}
    BY <1>1, EmptySeq
  <1>3. Len(path) > 0
    BY <1>2
  <1>4. QED
    BY <1>1, <1>2, <1>3, FrontOf

(* What Split makes of the file: a half stays, the other is a new node.          *)
IsSplit(c, cut) ==
  /\ NumNodes' = NumNodes + 1
  /\ file'[NumNodes + 1] = cut.right /\ file'[c] = cut.left
  /\ \A n \in 1 .. NumNodes : n # c => file'[n] = file[n]

(* The node of the last call is cut so: it with the item added is what the two   *)
(* halves and the item between them are made of.                                 *)
LEMMA SplitFile ==
  ASSUME Built, Split, NEW level \in [Branches -> Nat], Levels(level)
  PROVE  LET c    == Caller.node
             wide == AddItem(moved.item, moved.right, file[c], Caller.place)
             cut  == Halves(moved.item, moved.right, file[c], Caller.place)
         IN  /\ IsSplit(c, cut) /\ NodesOK(file', Branches)
             /\ wide \in NodeIn(Branches) /\ Whole(wide) /\ IsCut(cut, wide)
             /\ Len(wide.key) = MaxKeys + 1
             /\ IsWidened(wide, file[c], moved.item, moved.right, Caller.place)
             /\ moved' = [item |-> cut.item, right |-> NumNodes + 1] /\ cut.item \in Key
             /\ Len(cut.left.key) = MinKeys /\ Len(cut.right.key) = MaxKeys - MinKeys
             /\ AllAt(cut.left, level, level[moved.right])
             /\ AllAt(cut.right, level, level[moved.right])
  <1> DEFINE c    == Caller.node
             node == file[c]
             wide == AddItem(moved.item, moved.right, node, Caller.place)
             cut  == Halves(moved.item, moved.right, node, Caller.place)
             half == [file EXCEPT ![c] = cut.left]
  <1>1. TypeOK /\ pc = "up" /\ path # <<>> /\ Len(node.key) = MaxKeys
    BY DEF Built, Formed, Split
  <1>2. /\ file' = Append(half, cut.right)
        /\ moved' = [item |-> cut.item, right |-> NumNodes + 1]
    BY DEF Split
  <1>3. /\ c \in 1 .. NumNodes /\ Caller.place \in 0 .. Len(node.key)
        /\ moved.item \in Key /\ moved.right \in Branches
        /\ AllAt(node, level, level[moved.right])
    BY <1>1, CallerOnPath, CallerFacts, FileTypes
  <1>4. /\ node \in NodeIn(Branches) /\ Whole(node) /\ Len(node.key) \in Nat
        /\ NodesOK(file, Branches) /\ NumNodes = Len(file) /\ NilPtr \in Branches
    BY <1>1, <1>3, FileTypes
  <1> HIDE DEF node, c
  <1>5. /\ wide \in NodeIn(Branches) /\ Whole(wide)
        /\ IsWidened(wide, node, moved.item, moved.right, Caller.place)
    BY <1>3, <1>4, Widened
  <1>6. Caller.place \in 0 .. MaxKeys
    BY <1>1, <1>3
  <1>7. /\ cut.left \in NodeIn(Branches) /\ cut.right \in NodeIn(Branches)
        /\ cut.item \in Key /\ IsCut(cut, wide)
    BY <1>1, <1>3, <1>4, <1>6, SplitCuts
  <1> HIDE DEF wide, cut
  <1>8. AllAt(wide, level, level[moved.right])
    BY <1>3, <1>4, <1>5, WideLevels
  <1>9. Len(wide.branch) = MaxKeys + 2
    BY <1>1, <1>4, <1>5, Constants DEF Whole, IsWidened
  <1>10. /\ AllAt(cut.left, level, level[moved.right])
         /\ AllAt(cut.right, level, level[moved.right])
         /\ Len(cut.left.key) = MinKeys /\ Len(cut.right.key) = MaxKeys - MinKeys
         /\ WellFormed(cut.left) /\ WellFormed(cut.right)
    BY <1>7, <1>8, <1>9, CutLevels
  <1>11. NodesOK(half, Branches) /\ IsWith(half, file, c, cut.left)
    <2>1. c \in 1 .. Len(file)
      BY <1>3, <1>4
    <2>2. QED
      BY <1>4, <1>7, <1>10, <2>1, Rewritten
  <1>12. Len(half) = NumNodes
    <2>1. c # Len(file) + 1
      BY <1>3, <1>4 DEF NodesOK
    <2>2. QED
      BY <1>4, <1>11, <2>1 DEF IsWith
  <1> HIDE DEF half
  <1>13. NodesOK(file', Branches) /\ IsWith(file', half, NumNodes + 1, cut.right)
    <2>1. NodesOK(file', Branches) /\ IsWith(file', half, Len(half) + 1, cut.right)
      BY <1>2, <1>7, <1>10, <1>11, Appended
    <2>2. QED
      BY <1>12, <2>1
  <1>14. IsSplit(c, cut)
    <2>1. \A n \in 1 .. NumNodes : half[n] = IF n = c THEN cut.left ELSE file[n]
      BY <1>4, <1>11, <1>12 DEF IsWith
    <2>2. /\ Len(file') = NumNodes + 1
          /\ \A n \in 1 .. NumNodes + 1 :
               file'[n] = IF n = NumNodes + 1 THEN cut.right ELSE half[n]
      BY <1>12, <1>13 DEF IsWith
    <2>3. NumNodes' = Len(file')
      BY DEF NumNodes
    <2>4. NumNodes + 1 \in 1 .. NumNodes + 1
      BY <1>4 DEF NodesOK
    <2>5. \A n \in 1 .. NumNodes : n \in 1 .. NumNodes + 1 /\ n # NumNodes + 1
      BY <1>4 DEF NodesOK
    <2>6. \A n \in 1 .. NumNodes : file'[n] = half[n]
      BY <2>2, <2>5
    <2>7. QED
      BY <1>3, <2>1, <2>2, <2>3, <2>4, <2>6 DEF IsSplit
  <1>15. Len(wide.key) = MaxKeys + 1
    BY <1>1, <1>5 DEF IsWidened
  <1>16. QED
    BY <1>2, <1>5, <1>7, <1>10, <1>13, <1>14, <1>15 DEF wide, cut, node, c

(* The levels with that of the new node.                                        *)
Extends(after, level, l) ==
  after[NumNodes + 1] = l /\ \A b \in Branches : after[b] = level[b]

(* A split leaves the tree well built: the calls that still wait are at nodes of *)
(* other levels than the one it cuts, so their places stay valid.                *)
LEMMA LevelsBySplit ==
  ASSUME Built, Split, NEW level \in [Branches -> Nat], Levels(level)
  PROVE  /\ Formed' /\ Branches' = Branches \cup {NumNodes + 1}
         /\ \E after \in [Branches' -> Nat] :
              Levels(after)' /\ Extends(after, level, level[Caller.node])
  <1>1. Levels(level)
    OBVIOUS
  <1>2. TypeOK /\ EnoughKeys /\ FromRoot
    BY DEF Built, Formed
  <1> DEFINE c    == Caller.node
             cut  == Halves(moved.item, moved.right, file[c], Caller.place)
             l    == level[moved.right]
  <1>3. /\ IsSplit(c, cut) /\ NodesOK(file', Branches)
        /\ moved' = [item |-> cut.item, right |-> NumNodes + 1] /\ cut.item \in Key
        /\ Len(cut.left.key) = MinKeys /\ Len(cut.right.key) = MaxKeys - MinKeys
        /\ AllAt(cut.left, level, l) /\ AllAt(cut.right, level, l)
    BY <1>1, SplitFile
  <1>4. /\ pc = "up" /\ pc' = "up" /\ path # <<>> /\ path' = Front(path)
        /\ root' = root /\ numItems' = numItems /\ header' = header /\ key' = key
        /\ at' = at /\ answer' = answer
    BY DEF Split
  <1>5. /\ Caller = path[Len(path)] /\ c \in 1 .. NumNodes
        /\ level[c] = level[root] - Len(path) + 1 /\ level[c] = l + 1
        /\ l \in Nat /\ root \in Branches
    BY <1>1, <1>4, CallerOnPath, CallerFacts DEF l
  <1>6. NumNodes = Len(file) /\ NumNodes \in Nat /\ NilPtr \in Branches
    BY <1>2, FileTypes
  <1> HIDE DEF c, cut, l
  <1>7. /\ NumNodes' = NumNodes + 1
        /\ file'[NumNodes + 1] = cut.right /\ file'[c] = cut.left
        /\ \A n \in 1 .. NumNodes : n # c => file'[n] = file[n]
    BY <1>3 DEF IsSplit
  <1>8. Branches' = Branches \cup {NumNodes + 1} /\ NumNodes + 1 \notin Branches
    BY <1>6, <1>7 DEF Branches, NilPtr
  <1>9. /\ path' \in Seq([node : 1 .. NumNodes, place : 0 .. MaxKeys])
        /\ Len(path) \in Nat \ {0} /\ Len(path') = Len(path) - 1
        /\ \A i \in 1 .. Len(path) - 1 : path'[i] = path[i]
    BY <1>2, <1>4, FrontOfPath
  <1>10. TypeOK'
    <2>1. Node' = NodeIn(Branches')
      BY DEF Node, NodeIn, Branches
    <2>2. file' \in Seq(Node)' /\ \A n \in 1 .. NumNodes' : WellFormed(file'[n])
      <3>1. \A s \in Seq(Branches) : s \in Seq(Branches')
        BY <1>8, SeqMonotonic
      <3>2. NodeIn(Branches) \subseteq Node'
        BY <2>1, <3>1 DEF NodeIn
      <3>3. file' \in Seq(Node)'
        BY <1>3, <3>2, SeqMonotonic DEF NodesOK
      <3>4. QED
        BY <1>3, <3>3 DEF NodesOK, NumNodes
    <2>3. path' \in Seq([node : 1 .. NumNodes', place : 0 .. MaxKeys])
      <3>1. 1 .. NumNodes \subseteq 1 .. NumNodes'
        BY <1>6, <1>7
      <3>2. [node : 1 .. NumNodes, place : 0 .. MaxKeys]
              \subseteq [node : 1 .. NumNodes', place : 0 .. MaxKeys]
        BY <3>1
      <3>3. QED
        BY <1>9, <3>2, SeqMonotonic
    <2>4. moved' \in [item : Key, right : Branches']
      BY <1>3, <1>8
    <2>5. header' \in [items : Nat, root : Branches']
      BY <1>2, <1>4, <1>8 DEF TypeOK, Branches
    <2>6. root' \in Branches' /\ at' \in Branches'
      BY <1>2, <1>4, <1>8 DEF TypeOK, Branches
    <2>7. numItems' \in Nat /\ key' \in Key /\ answer' \in BOOLEAN
      BY <1>2, <1>4 DEF TypeOK
    <2>8. QED
      BY <1>4, <2>2, <2>3, <2>4, <2>5, <2>6, <2>7 DEF TypeOK, Branches, WellFormed
  <1>11. FromRoot'
    <2>1. path' # <<>> => path'[1].node = root
      <3>1. path' # <<>> => 1 \in 1 .. Len(path) - 1
        BY <1>9, EmptySeq
      <3>2. QED
        BY <1>2, <1>4, <1>9, <3>1 DEF FromRoot
    <2>2. QED
      BY <1>4, <2>1 DEF FromRoot
  <1>12. EnoughKeys' /\ EnoughInRoot'
    <2>1. ASSUME NEW n \in 1 .. NumNodes + 1, n # root
          PROVE  Len(file'[n].key) >= MinKeys
      <3>1. n = NumNodes + 1 => Len(file'[n].key) >= MinKeys
        BY <1>3, <1>7, Constants
      <3>2. n = c => Len(file'[n].key) >= MinKeys
        BY <1>3, <1>7, Constants
      <3>3. n \in 1 .. NumNodes /\ n # c => Len(file'[n].key) >= MinKeys
        BY <1>2, <1>7, <2>1 DEF EnoughKeys
      <3>4. QED
        BY <1>6, <3>1, <3>2, <3>3
    <2>2. ASSUME path' = <<>> PROVE Len(file'[root].key) >= MinKeys
      <3>1. Len(path') = 0
        BY <2>2
      <3>2. Len(path) = 1
        BY <1>9, <3>1
      <3>3. c = root
        BY <1>2, <1>4, <1>5, <3>2 DEF FromRoot, c
      <3>4. QED
        BY <1>3, <1>7, <3>3, Constants
    <2>3. QED
      BY <1>4, <1>7, <2>1, <2>2 DEF EnoughKeys, EnoughInRoot
  <1>13. PICK after \in [Branches' -> Nat] :
           /\ after[NumNodes + 1] = l + 1
           /\ \A b \in Branches : after[b] = level[b]
    <2> DEFINE f == [b \in Branches' |-> IF b = NumNodes + 1 THEN l + 1 ELSE level[b]]
    <2>1. /\ f \in [Branches' -> Nat] /\ f[NumNodes + 1] = l + 1
          /\ \A b \in Branches : f[b] = level[b]
      BY <1>5, <1>8
    <2> HIDE DEF f
    <2>2. QED
      BY <2>1
  <1>14. Levelled(after)'
    <2>1. AllAt(cut.left, after, l) /\ AllAt(cut.right, after, l)
      <3>1. ASSUME NEW n \in 1 .. NumNodes + 1, AllAt(file'[n], level, l)
            PROVE  AllAt(file'[n], after, l)
        <4>1. file'[n] \in NodeIn(Branches)
          BY <1>3, <1>7 DEF NodesOK, NumNodes
        <4>2. \A i \in 1 .. Len(file'[n].branch) : file'[n].branch[i] \in Branches
          BY <4>1 DEF NodeIn
        <4>3. QED
          BY <1>13, <3>1, <4>2 DEF AllAt
      <3>2. c \in 1 .. NumNodes + 1 /\ NumNodes + 1 \in 1 .. NumNodes + 1
        BY <1>5, <1>6
      <3>3. QED
        BY <1>3, <1>7, <3>1, <3>2
    <2>2. ASSUME NEW n \in 1 .. NumNodes + 1, NEW i \in 1 .. Len(file'[n].branch)
          PROVE  after[n] = after[file'[n].branch[i]] + 1
      <3>1. CASE n = NumNodes + 1
        BY <1>7, <1>13, <2>1, <3>1 DEF AllAt
      <3>2. CASE n = c
        <4>1. after[n] = l + 1
          BY <1>5, <1>13, <3>2 DEF Branches
        <4>2. QED
          BY <1>7, <2>1, <3>2, <4>1 DEF AllAt
      <3>3. CASE n \in 1 .. NumNodes /\ n # c
        <4>1. file'[n] = file[n]
          BY <1>7, <3>3
        <4>2. level[n] = level[file[n].branch[i]] + 1
          BY <1>1, <3>3, <4>1 DEF Levels, Levelled
        <4>3. file[n].branch[i] \in Branches /\ n \in Branches
          BY <1>2, <3>3, <4>1, FileTypes DEF Branches
        <4>4. QED
          BY <1>13, <4>1, <4>2, <4>3
      <3>4. QED
        BY <1>6, <3>1, <3>2, <3>3
    <2>3. after[NilPtr] = 0
      BY <1>1, <1>6, <1>13 DEF Levels, Levelled
    <2>4. QED
      BY <1>7, <2>2, <2>3 DEF Levelled
  <1>15. PathDown(after)'
    <2> SUFFICES ASSUME NEW i \in 1 .. Len(path) - 1
                 PROVE  /\ after[path[i].node] = after[root] - i + 1
                        /\ path[i].place <= Len(file'[path[i].node].key)
      <3>1. Len(path') = Len(path) - 1 /\ root' = root
        BY <1>4, <1>9
      <3>2. \A i \in 1 .. Len(path) - 1 : path'[i] = path[i]
        BY <1>9
      <3>3. QED
        BY <3>1, <3>2 DEF PathDown
    <2>1. i \in 1 .. Len(path)
      BY <1>9
    <2>2. /\ level[path[i].node] = level[root] - i + 1
          /\ path[i].place <= Len(file[path[i].node].key)
      BY <1>1, <2>1 DEF Levels, PathDown
    <2>3. path[i].node \in 1 .. NumNodes
      <3>1. path \in Seq([node : 1 .. NumNodes, place : 0 .. MaxKeys])
        BY <1>2 DEF TypeOK
      <3>2. path[i] \in [node : 1 .. NumNodes, place : 0 .. MaxKeys]
        BY <2>1, <3>1, ElementOfSeq
      <3>3. QED
        BY <3>2
    <2>4. path[i].node \in Branches /\ level[root] \in Nat
      BY <1>5, <2>3 DEF Branches
    <2>5. path[i].node # c
      <3>1. level[path[i].node] # level[c]
        BY <1>5, <1>9, <2>2, <2>4
      <3>2. QED
        BY <3>1
    <2>6. after[path[i].node] = level[path[i].node] /\ after[root] = level[root]
      BY <1>5, <1>13, <2>4
    <2>7. QED
      BY <1>7, <2>2, <2>3, <2>5, <2>6
  <1>16. Deepest(after)'
    <2>1. moved'.right = NumNodes + 1
      BY <1>3
    <2>2. after[NumNodes + 1] = after[root] - Len(path')
      <3>1. level[root] \in Nat /\ after[root] = level[root]
        BY <1>5, <1>13
      <3>2. QED
        BY <1>5, <1>9, <1>13, <3>1
    <2>3. QED
      BY <1>4, <2>1, <2>2 DEF Deepest
  <1>17. QED
    BY <1>5, <1>8, <1>10, <1>11, <1>12, <1>13, <1>14, <1>15, <1>16
       DEF Formed, Levels, Extends, c

(* What Grow makes of the file: a new root over the old one.                     *)
IsGrown ==
  /\ NumNodes' = NumNodes + 1
  /\ file'[NumNodes + 1] = [key |-> <<moved.item>>, branch |-> <<root, moved.right>>]
  /\ \A n \in 1 .. NumNodes : file'[n] = file[n]

(* A new root: the old one and the node split from it are of one level.          *)
LEMMA LevelsByGrow ==
  ASSUME Built, Grow, NEW level \in [Branches -> Nat], Levels(level)
  PROVE  /\ IsGrown /\ Formed' /\ Branches' = Branches \cup {NumNodes + 1}
         /\ \E after \in [Branches' -> Nat] :
              Levels(after)' /\ Extends(after, level, level[root] + 1)
  <1>1. Levels(level)
    OBVIOUS
  <1>2. TypeOK /\ EnoughKeys /\ EnoughInRoot
    BY DEF Built, Formed
  <1> DEFINE new == [key |-> <<moved.item>>, branch |-> <<root, moved.right>>]
  <1>3. /\ pc = "up" /\ path = <<>> /\ file' = Append(file, new)
        /\ root' = NumNodes + 1 /\ Inserted
    BY DEF Grow
  <1>4. /\ root \in Branches /\ moved.item \in Key /\ moved.right \in Branches
        /\ level[root] \in Nat
    BY <1>2, <1>3 DEF TypeOK, Branches
  <1>5. /\ NumNodes = Len(file) /\ NumNodes \in Nat /\ NilPtr \in Branches
        /\ NodesOK(file, Branches)
    BY <1>2, FileTypes
  <1>6. new \in NodeIn(Branches) /\ WellFormed(new)
    BY <1>4, Constants DEF NodeIn, WellFormed
  <1>7. Len(new.branch) = 2 /\ new.branch[1] = root /\ new.branch[2] = moved.right
    OBVIOUS
  <1> HIDE DEF new
  <1>8. level[moved.right] = level[root]
    <2>1. Len(path) = 0
      BY <1>3
    <2>2. QED
      BY <1>1, <1>3, <1>4, <2>1 DEF Levels, Deepest
  <1> DEFINE S == Branches \cup {NumNodes + 1}
  <1>9. NodesOK(file', S) /\ IsWith(file', file, Len(file) + 1, new)
    <2>1. Branches \subseteq S /\ \A s \in Seq(Branches) : s \in Seq(S)
      BY SeqMonotonic
    <2>2. new \in NodeIn(S)
      BY <1>6, <2>1 DEF NodeIn
    <2> HIDE DEF S
    <2>3. QED
      BY <1>3, <1>5, <1>6, <2>1, <2>2, Appended
  <1>10. /\ Len(file') = NumNodes + 1 /\ file'[NumNodes + 1] = new
         /\ \A n \in 1 .. NumNodes : file'[n] = file[n]
    <2>1. /\ Len(file') = NumNodes + 1
          /\ \A n \in 1 .. NumNodes + 1 : file'[n] = IF n = NumNodes + 1 THEN new ELSE file[n]
      BY <1>5, <1>9 DEF IsWith
    <2>2. NumNodes + 1 \in 1 .. NumNodes + 1
          /\ \A n \in 1 .. NumNodes : n \in 1 .. NumNodes + 1 /\ n # NumNodes + 1
      BY <1>5
    <2>3. QED
      BY <2>1, <2>2
  <1>11. NumNodes + 1 \notin Branches /\ S = {NilPtr} \cup 1 .. Len(file')
    BY <1>5, <1>10 DEF Branches, NilPtr
  <1>12. /\ TypeOK' /\ FromRoot' /\ EnoughInRoot'
         /\ Branches' = S /\ NumNodes' = NumNodes + 1
    <2>1. root' \in S /\ Len(file') >= Len(file)
      BY <1>3, <1>5, <1>10
    <2> HIDE DEF S
    <2>2. QED
      BY <1>3, <1>9, <1>10, <1>11, <2>1, BuiltByInserted
  <1>13. EnoughKeys'
    <2>1. ASSUME NEW n \in 1 .. NumNodes PROVE Len(file'[n].key) >= MinKeys
      <3>1. n # root => Len(file[n].key) >= MinKeys
        BY <1>2 DEF EnoughKeys
      <3>2. n = root => n # NilPtr
        BY <1>5 DEF NilPtr
      <3>3. n = root => Len(file[n].key) >= MinKeys
        BY <1>2, <1>3, <3>2 DEF EnoughInRoot
      <3>4. QED
        BY <1>10, <3>1, <3>3
    <2>2. QED
      BY <1>3, <1>5, <1>12, <2>1 DEF EnoughKeys
  <1>14. PICK after \in [Branches' -> Nat] :
           /\ after[NumNodes + 1] = level[root] + 1
           /\ \A b \in Branches : after[b] = level[b]
    <2> DEFINE f == [b \in Branches' |-> IF b = NumNodes + 1 THEN level[root] + 1 ELSE level[b]]
    <2>1. /\ f \in [Branches' -> Nat] /\ f[NumNodes + 1] = level[root] + 1
          /\ \A b \in Branches : f[b] = level[b]
      BY <1>4, <1>11, <1>12
    <2> HIDE DEF f
    <2>2. QED
      BY <2>1
  <1>15. Levelled(after)'
    <2>1. ASSUME NEW n \in 1 .. NumNodes + 1, NEW i \in 1 .. Len(file'[n].branch)
          PROVE  after[n] = after[file'[n].branch[i]] + 1
      <3>1. CASE n = NumNodes + 1
        <4>1. file'[n].branch[i] \in {root, moved.right}
          BY <1>7, <1>10, <3>1
        <4>2. QED
          BY <1>4, <1>8, <1>14, <3>1, <4>1
      <3>2. CASE n \in 1 .. NumNodes
        <4>1. file'[n] = file[n]
          BY <1>10, <3>2
        <4>2. level[n] = level[file[n].branch[i]] + 1
          BY <1>1, <3>2, <4>1 DEF Levels, Levelled
        <4>3. file[n].branch[i] \in Branches /\ n \in Branches
          BY <1>2, <3>2, <4>1, FileTypes DEF Branches
        <4>4. QED
          BY <1>14, <4>1, <4>2, <4>3
      <3>3. QED
        BY <1>5, <3>1, <3>2
    <2>2. after[NilPtr] = 0
      BY <1>1, <1>5, <1>14 DEF Levels, Levelled
    <2>3. QED
      BY <1>12, <2>1, <2>2 DEF Levelled
  <1>16. PathDown(after)' /\ Deepest(after)'
    BY <1>3 DEF Inserted, PathDown, Deepest
  <1>17. IsGrown
    BY <1>10, <1>12 DEF IsGrown, new
  <1>18. QED
    BY <1>12, <1>13, <1>14, <1>15, <1>16, <1>17 DEF Formed, Levels, Extends

-----------------------------------------------------------------------------
(* Every step leaves the tree well built.                                        *)
LEMMA BuiltByStep ==
  ASSUME Built, [Next]_vars
  PROVE  Built'
  <1>1. CASE Next
    <2>1. Formed /\ \E level \in [Branches -> Nat] : Levels(level)
      BY DEF Built
    <2>2. PICK level \in [Branches -> Nat] : Levels(level)
      BY <2>1
    <2>3. Formed' /\ \E after \in [Branches' -> Nat] : Levels(after)'
      <3>1. CASE ReadStep
        BY <2>1, <2>2, <3>1, LevelsWhileRead
      <3>2. CASE Place
        BY <2>2, <3>2, LevelsByPlace
      <3>3. CASE Split
        BY <2>2, <3>3, LevelsBySplit
      <3>4. CASE Grow
        BY <2>2, <3>4, LevelsByGrow
      <3>5. QED
        BY <1>1, <3>1, <3>2, <3>3, <3>4 DEF Next, Step, ReadStep
    <2>4. QED
      BY <2>3 DEF Built
  <1>2. CASE UNCHANGED vars
    <2>1. UNCHANGED <<file, numItems, root, header, pc, key, at, path, moved, answer>>
      BY <1>2 DEF vars
    <2>2. UNCHANGED <<TypeOK, FromRoot, EnoughKeys, EnoughInRoot, Branches>>
      BY <2>1 DEF TypeOK, FromRoot, EnoughKeys, EnoughInRoot, Branches, NumNodes,
                  Node, WellFormed
    <2>3. ASSUME NEW level, Levels(level) PROVE Levels(level)'
      BY <2>1, <2>3 DEF Levels, Levelled, PathDown, Deepest, NumNodes
    <2>4. QED
      BY <2>2, <2>3 DEF Built, Formed
  <1>3. QED
    BY <1>1, <1>2

(* The tree is well built in every reachable state.                              *)
THEOREM WellBuilt == Spec => []Built
BY BuiltAtStart, BuiltByStep, PTL DEF Spec

(* Every variable keeps its type: no branch leads out of the file, and Count     *)
(* never exceeds the array.                                                      *)
THEOREM TypeCorrect == Spec => []TypeOK
  <1>1. Built => TypeOK
    BY DEF Built, Formed
  <1>2. QED
    BY WellBuilt, <1>1, PTL

(* Every node but the root has MinKeys keys.                                     *)
THEOREM NodesHaveEnoughKeys == Spec => []EnoughKeys
  <1>1. Built => EnoughKeys
    BY DEF Built, Formed
  <1>2. QED
    BY WellBuilt, <1>1, PTL

(* The height of a node is its level: the way down its first branches is as long *)
(* as every other.  The node of least level whose height were another would have *)
(* a first branch of still less.                                                 *)
LEMMA HeightIsLevel ==
  ASSUME TypeOK, NEW level \in [Branches -> Nat], Levelled(level)
  PROVE  \A b \in Branches : Height[b] = level[b]
  <1> DEFINE Up(h) == [n \in Branches |-> IF n = NilPtr THEN 0 ELSE 1 + h[file[n].branch[1]]]
  <1>1. \A n \in Branches : n # NilPtr =>
          /\ n \in 1 .. NumNodes /\ file[n].branch[1] \in Branches
          /\ level[n] = level[file[n].branch[1]] + 1
    <2> SUFFICES ASSUME NEW n \in 1 .. NumNodes
                 PROVE  /\ file[n].branch[1] \in Branches
                        /\ level[n] = level[file[n].branch[1]] + 1
      BY DEF Branches
    <2>1. 1 \in 1 .. Len(file[n].branch)
      BY FileTypes
    <2>2. QED
      BY <2>1, FileTypes DEF Levelled
  <1>2. level = Up(level)
    <2>1. \A n \in Branches : level[n] = Up(level)[n]
      BY <1>1 DEF Levelled
    <2>2. QED
      BY <2>1
  <1>3. Height = CHOOSE h : h = Up(h)
    BY DEF Height, Branches
  <1>4. Height = Up(Height)
    BY <1>2, <1>3
  <1>5. /\ Height[NilPtr] = 0
        /\ \A n \in Branches : n # NilPtr => Height[n] = 1 + Height[file[n].branch[1]]
    BY <1>4, FileTypes
  <1> HIDE DEF Up
  <1> DEFINE D == {level[b] : b \in {x \in Branches : Height[x] # level[x]}}
  <1>6. ASSUME D # {} PROVE FALSE
    <2>1. PICK m \in D : \A k \in D : m <= k
      <3>1. D \subseteq Nat
        OBVIOUS
      <3> HIDE DEF D
      <3>2. QED
        BY <1>6, <3>1, LeastNatural
    <2>2. PICK b \in Branches : Height[b] # level[b] /\ level[b] = m
      BY <2>1
    <2>3. b # NilPtr
      BY <1>5, <2>2 DEF Levelled
    <2> DEFINE d == file[b].branch[1]
    <2>4. d \in Branches /\ level[b] = level[d] + 1 /\ Height[b] = 1 + Height[d]
      BY <1>1, <1>5, <2>2, <2>3
    <2> HIDE DEF d
    <2>5. level[d] \in Nat /\ level[b] \in Nat
      BY <2>2, <2>4
    <2>6. level[d] \notin D
      BY <2>1, <2>2, <2>4, <2>5
    <2>7. Height[d] = level[d]
      BY <2>4, <2>6
    <2>8. QED
      BY <2>2, <2>4, <2>5, <2>7
  <1>7. QED
    BY <1>6

(* All ways from the root down are equally long between calls.                   *)
THEOREM AlwaysBalanced == Spec => []Balanced
  <1>1. Built => Balanced
    <2> SUFFICES ASSUME Built, NEW n \in 1 .. NumNodes, NEW i \in 1 .. Len(file[n].branch)
                 PROVE  Height[file[n].branch[i]] = Height[n] - 1
      BY DEF Balanced
    <2>1. TypeOK
      BY DEF Built, Formed
    <2>2. PICK level \in [Branches -> Nat] : Levelled(level)
      BY DEF Built, Formed, Levels
    <2>3. n \in Branches /\ file[n].branch[i] \in Branches
      BY <2>1, FileTypes DEF Branches
    <2>4. level[n] = level[file[n].branch[i]] + 1
      BY <2>2 DEF Levelled
    <2>5. /\ Height[n] = level[n]
          /\ Height[file[n].branch[i]] = level[file[n].branch[i]]
      BY <2>1, <2>2, <2>3, HeightIsLevel
    <2>6. level[file[n].branch[i]] \in Nat
      BY <2>3
    <2>7. QED
      BY <2>4, <2>5, <2>6
  <1>2. QED
    BY WellBuilt, <1>1, PTL

-----------------------------------------------------------------------------
Nodes == 1 .. NumNodes

(* The branch i of a node with the range a to b leads to a node whose range is   *)
(* the gap between the keys there.                                               *)
Leads(node, a, b, i, lo, hi) ==
  LET c == node.branch[i]
  IN  c # NilPtr => lo[c] = Left(node, a, i) /\ hi[c] = Right(node, b, i)

AllLead(node, a, b, lo, hi) ==
  \A i \in 1 .. Len(node.branch) : Leads(node, a, b, i, lo, hi)

-----------------------------------------------------------------------------
(* The gaps of a node.                                                           *)
KeyTypes(node) == /\ Len(node.key) \in Nat
                  /\ \A i \in 1 .. Len(node.key) : node.key[i] \in Int

(* Keys are integers, so that the order of numbers is theirs.                    *)
LEMMA KeysAreInts ==
  ASSUME NEW B, NEW node \in NodeIn(B)
  PROVE  KeyTypes(node)
  <1>1. Len(node.key) \in Nat /\ \A i \in 1 .. Len(node.key) : node.key[i] \in Key
    BY DEF NodeIn
  <1>2. QED
    BY <1>1, Constants DEF KeyTypes

(* The gap on either side of a key is not empty and lies within the range.       *)
LEMMA GapInRange ==
  ASSUME NEW node, KeyTypes(node), Len(node.key) > 0, NEW a \in Int, NEW b \in Int,
         Sorted(node, a, b), NEW i \in 1 .. Len(node.key) + 1
  PROVE  /\ Left(node, a, i) \in Int /\ Right(node, b, i) \in Int
         /\ a <= Left(node, a, i) /\ Left(node, a, i) < Right(node, b, i)
         /\ Right(node, b, i) <= b
  <1>1. i # 1 => i - 1 \in 1 .. Len(node.key)
    BY DEF KeyTypes
  <1>2. i # Len(node.key) + 1 => i \in 1 .. Len(node.key)
    BY DEF KeyTypes
  <1>3. /\ Left(node, a, i) \in Int /\ a <= Left(node, a, i)
        /\ i # 1 => Left(node, a, i) = node.key[i - 1]
    BY <1>1 DEF Left, Sorted, KeyTypes
  <1>4. /\ Right(node, b, i) \in Int /\ Right(node, b, i) <= b
        /\ i # Len(node.key) + 1 => Right(node, b, i) = node.key[i]
    BY <1>2 DEF Right, Sorted, KeyTypes
  <1>5. Left(node, a, i) < Right(node, b, i)
    <2>1. CASE i = 1
      <3>1. 1 \in 1 .. Len(node.key) /\ i # Len(node.key) + 1
        BY <2>1 DEF KeyTypes
      <3>2. QED
        BY <2>1, <3>1 DEF Left, Right, Sorted
    <2>2. CASE i = Len(node.key) + 1
      <3>1. i # 1
        BY <2>2 DEF KeyTypes
      <3>2. QED
        BY <1>1, <2>2, <3>1 DEF Left, Right, Sorted
    <2>3. CASE i # 1 /\ i # Len(node.key) + 1
      <3>1. i - 1 < i
        OBVIOUS
      <3>2. QED
        BY <1>1, <1>2, <2>3, <3>1 DEF Left, Right, Sorted
    <2>4. QED
      BY <2>1, <2>2, <2>3
  <1>6. QED
    BY <1>3, <1>4, <1>5

(* No key of the node is in a gap of it.                                         *)
LEMMA GapHasNoKey ==
  ASSUME NEW node, KeyTypes(node), NEW a \in Int, NEW b \in Int, Sorted(node, a, b),
         NEW i \in 1 .. Len(node.key) + 1, NEW j \in 1 .. Len(node.key)
  PROVE  node.key[j] <= Left(node, a, i) \/ Right(node, b, i) <= node.key[j]
  <1>0. \A k \in 1 .. Len(node.key) : node.key[k] \in Int
    BY DEF KeyTypes
  <1> DEFINE k(l) == node.key[l]
             n    == Len(node.key)
  <1>1. CASE j < i
    <2>1. i # 1 /\ i - 1 \in 1 .. n /\ (j < i - 1 \/ j = i - 1)
      BY <1>1 DEF KeyTypes
    <2>2. k(j) <= k(i - 1)
      <3>1. j < i - 1 => k(j) < k(i - 1)
        BY <2>1 DEF Sorted
      <3>2. k(j) \in Int /\ k(i - 1) \in Int
        BY <1>0, <2>1
      <3> HIDE DEF k
      <3>3. QED
        BY <2>1, <3>1, <3>2
    <2>3. QED
      BY <2>1, <2>2 DEF Left
  <1>2. CASE ~(j < i)
    <2>1. i # n + 1 /\ i \in 1 .. n /\ (i < j \/ i = j)
      BY <1>2 DEF KeyTypes
    <2>2. k(i) <= k(j)
      <3>1. i < j => k(i) < k(j)
        BY <2>1 DEF Sorted
      <3>2. k(j) \in Int /\ k(i) \in Int
        BY <1>0, <2>1
      <3> HIDE DEF k
      <3>3. QED
        BY <2>1, <3>1, <3>2
    <2>3. QED
      BY <2>1, <2>2 DEF Right
  <1>3. QED
    BY <1>1, <1>2

(* Of two gaps the one further right starts where the other ends, or later.      *)
LEMMA GapsApart ==
  ASSUME NEW node, KeyTypes(node), NEW a \in Int, NEW b \in Int, Sorted(node, a, b),
         NEW i \in 1 .. Len(node.key) + 1, NEW j \in 1 .. Len(node.key) + 1, i < j
  PROVE  Right(node, b, i) <= Left(node, a, j)
  <1>1. /\ i # Len(node.key) + 1 /\ i \in 1 .. Len(node.key)
        /\ j # 1 /\ j - 1 \in 1 .. Len(node.key) /\ (i < j - 1 \/ i = j - 1)
    BY DEF KeyTypes
  <1>2. node.key[i] <= node.key[j - 1]
    BY <1>1 DEF Sorted, KeyTypes
  <1>3. QED
    BY <1>1, <1>2 DEF Left, Right

-----------------------------------------------------------------------------
(* A node with an item in the gap behind its first place keys.                   *)
LEMMA WideSorted ==
  ASSUME NEW node, KeyTypes(node), NEW a \in Int, NEW b \in Int, Sorted(node, a, b),
         NEW place \in 0 .. Len(node.key), NEW item \in Int,
         Left(node, a, place + 1) < item, item < Right(node, b, place + 1),
         NEW wide, NEW right, IsWidened(wide, node, item, right, place), a < item, item < b
  PROVE  Sorted(wide, a, b) /\ KeyTypes(wide)
  <1>1. /\ Len(wide.key) = Len(node.key) + 1 /\ Len(node.key) \in Nat
        /\ \A i \in 1 .. Len(node.key) + 1 :
             /\ i < place + 1 => wide.key[i] = node.key[i]
             /\ i = place + 1 => wide.key[i] = item
             /\ i > place + 1 => wide.key[i] = node.key[i - 1]
    BY DEF IsWidened, KeyTypes
  <1>2. \A i \in 1 .. Len(node.key) : i < place + 1 => node.key[i] < item
    <2> SUFFICES ASSUME NEW i \in 1 .. Len(node.key), i < place + 1
                 PROVE  node.key[i] < item
      OBVIOUS
    <2>1. place + 1 # 1 /\ place \in 1 .. Len(node.key) /\ (i < place \/ i = place)
          /\ place + 1 - 1 = place
      BY <1>1
    <2>2. node.key[i] <= node.key[place]
      BY <2>1 DEF Sorted, KeyTypes
    <2>3. node.key[place] < item
      BY <2>1 DEF Left
    <2>4. node.key[i] \in Int /\ node.key[place] \in Int
      BY <2>1 DEF KeyTypes
    <2>5. QED
      BY <2>2, <2>3, <2>4
  <1>3. \A i \in 1 .. Len(node.key) : i >= place + 1 => item < node.key[i]
    <2> SUFFICES ASSUME NEW i \in 1 .. Len(node.key), i >= place + 1
                 PROVE  item < node.key[i]
      OBVIOUS
    <2>1. /\ place + 1 # Len(node.key) + 1 /\ place + 1 \in 1 .. Len(node.key)
          /\ place + 1 < i \/ place + 1 = i
      BY <1>1
    <2>2. node.key[place + 1] <= node.key[i]
      BY <2>1 DEF Sorted, KeyTypes
    <2>3. item < node.key[place + 1]
      BY <2>1 DEF Right
    <2>4. node.key[i] \in Int /\ node.key[place + 1] \in Int
      BY <2>1 DEF KeyTypes
    <2>5. QED
      BY <2>2, <2>3, <2>4
  <1>4. ASSUME NEW i \in 1 .. Len(node.key) + 1
        PROVE  wide.key[i] \in Int /\ a < wide.key[i] /\ wide.key[i] < b
    <2>1. i < place + 1 => i \in 1 .. Len(node.key)
      BY <1>1
    <2>2. i > place + 1 => i - 1 \in 1 .. Len(node.key)
      BY <1>1
    <2>3. CASE i < place + 1
      BY <1>1, <2>1, <2>3 DEF Sorted, KeyTypes
    <2>4. CASE i = place + 1
      BY <1>1, <2>4
    <2>5. CASE i > place + 1
      BY <1>1, <2>2, <2>5 DEF Sorted, KeyTypes
    <2>6. QED
      BY <1>1, <2>3, <2>4, <2>5
  <1>5. ASSUME NEW i \in 1 .. Len(node.key) + 1, NEW j \in 1 .. Len(node.key) + 1, i < j
        PROVE  wide.key[i] < wide.key[j]
    <2>1. CASE j < place + 1
      <3>1. i < place + 1 /\ i \in 1 .. Len(node.key) /\ j \in 1 .. Len(node.key)
        BY <1>1, <1>5, <2>1
      <3>2. QED
        BY <1>1, <1>5, <2>1, <3>1 DEF Sorted
    <2>2. CASE j = place + 1
      <3>1. i < place + 1 /\ i \in 1 .. Len(node.key)
        BY <1>1, <1>5, <2>2
      <3>2. QED
        BY <1>1, <1>2, <2>2, <3>1
    <2>3. CASE j > place + 1
      <3>1. j - 1 \in 1 .. Len(node.key) /\ j - 1 >= place + 1 /\ wide.key[j] = node.key[j - 1]
        BY <1>1, <2>3
      <3>2. CASE i < place + 1
        <4>1. i \in 1 .. Len(node.key) /\ i < j - 1
          BY <1>1, <2>3, <3>2
        <4>2. QED
          BY <1>1, <3>1, <3>2, <4>1 DEF Sorted
      <3>3. CASE i = place + 1
        BY <1>1, <1>3, <3>1, <3>3
      <3>4. CASE i > place + 1
        <4>1. i - 1 \in 1 .. Len(node.key) /\ i - 1 < j - 1
          BY <1>1, <1>5, <3>4
        <4>2. QED
          BY <1>1, <3>1, <3>4, <4>1 DEF Sorted
      <3>5. QED
        BY <1>1, <3>2, <3>3, <3>4
    <2>4. QED
      BY <1>1, <2>1, <2>2, <2>3
  <1>6. QED
    BY <1>1, <1>4, <1>5 DEF Sorted, KeyTypes

(* The gaps of it: the one of the item is parted, the others are as before.      *)
HasGaps(wide, node, a, b, item, right, place) ==
  /\ \A i \in 1 .. Len(node.key) + 1 : i < place + 1 =>
       /\ wide.branch[i] = node.branch[i]
       /\ Left(wide, a, i) = Left(node, a, i) /\ Right(wide, b, i) = Right(node, b, i)
  /\ wide.branch[place + 1] = node.branch[place + 1]
  /\ Left(wide, a, place + 1) = Left(node, a, place + 1)
  /\ Right(wide, b, place + 1) = item
  /\ wide.branch[place + 2] = right
  /\ Left(wide, a, place + 2) = item
  /\ Right(wide, b, place + 2) = Right(node, b, place + 1)
  /\ \A i \in 1 .. Len(node.key) + 2 : i > place + 2 =>
       /\ wide.branch[i] = node.branch[i - 1]
       /\ Left(wide, a, i) = Left(node, a, i - 1)
       /\ Right(wide, b, i) = Right(node, b, i - 1)

(* AddItem parts the gap it adds the item to, and moves those behind it.         *)
LEMMA WideGaps ==
  ASSUME NEW node, Len(node.key) \in Nat, NEW a, NEW b,
         NEW place \in 0 .. Len(node.key), NEW item,
         NEW wide, NEW right, IsWidened(wide, node, item, right, place)
  PROVE  HasGaps(wide, node, a, b, item, right, place)
  <1>1. /\ Len(wide.key) = Len(node.key) + 1
        /\ \A i \in 1 .. Len(node.key) + 1 :
             /\ i < place + 1 => wide.key[i] = node.key[i]
             /\ i = place + 1 => wide.key[i] = item
             /\ i > place + 1 => wide.key[i] = node.key[i - 1]
        /\ \A i \in 1 .. Len(node.key) + 2 :
             /\ i < place + 2 => wide.branch[i] = node.branch[i]
             /\ i = place + 2 => wide.branch[i] = right
             /\ i > place + 2 => wide.branch[i] = node.branch[i - 1]
    <2>1. \A i \in 1 .. Len(node.key) + 1 :
             /\ i < place + 1 => wide.key[i] = node.key[i]
             /\ i = place + 1 => wide.key[i] = item
             /\ i > place + 1 => wide.key[i] = node.key[i - 1]
      BY DEF IsWidened
    <2>2. \A i \in 1 .. Len(node.key) + 2 :
             /\ i < place + 2 => wide.branch[i] = node.branch[i]
             /\ i = place + 2 => wide.branch[i] = right
             /\ i > place + 2 => wide.branch[i] = node.branch[i - 1]
      BY DEF IsWidened
    <2>3. QED
      BY <2>1, <2>2 DEF IsWidened
  <1>2. /\ place + 1 \in 1 .. Len(node.key) + 1 /\ place + 2 \in 1 .. Len(node.key) + 2
        /\ place + 1 < place + 2 /\ place + 1 \in 1 .. Len(node.key) + 2
    OBVIOUS
  <1>3. ASSUME NEW i \in 1 .. Len(node.key) + 1, i < place + 1
        PROVE  /\ wide.branch[i] = node.branch[i]
               /\ Left(wide, a, i) = Left(node, a, i) /\ Right(wide, b, i) = Right(node, b, i)
    <2>1. i \in 1 .. Len(node.key) + 2 /\ i < place + 2 /\ i # Len(node.key) + 1
          /\ i # Len(wide.key) + 1
      BY <1>1, <1>3
    <2>2. i # 1 => i - 1 \in 1 .. Len(node.key) + 1 /\ i - 1 < place + 1
      BY <1>3
    <2>3. QED
      BY <1>1, <1>3, <2>1, <2>2 DEF Left, Right
  <1>4. /\ wide.branch[place + 1] = node.branch[place + 1]
        /\ Left(wide, a, place + 1) = Left(node, a, place + 1)
        /\ Right(wide, b, place + 1) = item
    <2>1. /\ place + 1 # 1 => place + 1 - 1 \in 1 .. Len(node.key) + 1 /\ place + 1 - 1 < place + 1
          /\ place + 1 # Len(wide.key) + 1
      BY <1>1
    <2>2. QED
      BY <1>1, <1>2, <2>1 DEF Left, Right
  <1>5. /\ wide.branch[place + 2] = right
        /\ Left(wide, a, place + 2) = item
        /\ Right(wide, b, place + 2) = Right(node, b, place + 1)
    <2>1. place + 2 # 1 /\ place + 2 - 1 = place + 1
      OBVIOUS
    <2>2. place + 2 = Len(wide.key) + 1 <=> place + 1 = Len(node.key) + 1
      BY <1>1
    <2>3. place + 2 # Len(wide.key) + 1 =>
            place + 2 \in 1 .. Len(node.key) + 1 /\ place + 2 > place + 1
      BY <1>1
    <2>4. QED
      BY <1>1, <1>2, <2>1, <2>2, <2>3 DEF Left, Right
  <1>6. ASSUME NEW i \in 1 .. Len(node.key) + 2, i > place + 2
        PROVE  /\ wide.branch[i] = node.branch[i - 1]
               /\ Left(wide, a, i) = Left(node, a, i - 1)
               /\ Right(wide, b, i) = Right(node, b, i - 1)
    <2>1. /\ i # 1 /\ i - 1 # 1 /\ i - 1 \in 1 .. Len(node.key) + 1 /\ i - 1 > place + 1
          /\ i = Len(wide.key) + 1 <=> i - 1 = Len(node.key) + 1
      BY <1>1, <1>6
    <2>2. i # Len(wide.key) + 1 => i \in 1 .. Len(node.key) + 1 /\ i > place + 1
      BY <1>1, <1>6
    <2>3. QED
      BY <1>1, <1>6, <2>1, <2>2 DEF Left, Right
  <1>7. QED
    BY <1>3, <1>4, <1>5, <1>6 DEF HasGaps

(* When the nodes on both sides of the item have the parts of its gap as ranges, *)
(* all branches of the new node lead where they should.                          *)
LEMMA WideLeads ==
  ASSUME NEW node, Len(node.key) \in Nat, Whole(node), NEW a, NEW b,
         NEW place \in 0 .. Len(node.key), NEW item, NEW lo, NEW hi,
         NEW wide, NEW right, IsWidened(wide, node, item, right, place), Whole(wide),
         \A i \in 1 .. Len(node.branch) : i # place + 1 => Leads(node, a, b, i, lo, hi),
         LET c == node.branch[place + 1]
         IN  c # NilPtr => lo[c] = Left(node, a, place + 1) /\ hi[c] = item,
         right # NilPtr => lo[right] = item /\ hi[right] = Right(node, b, place + 1)
  PROVE  AllLead(wide, a, b, lo, hi)
  <1>1. Len(node.branch) = Len(node.key) + 1 /\ Len(wide.branch) = Len(node.key) + 2
    BY DEF Whole, IsWidened
  <1> SUFFICES ASSUME NEW i \in 1 .. Len(node.key) + 2
               PROVE  Leads(wide, a, b, i, lo, hi)
    BY <1>1 DEF AllLead
  <1>gaps. HasGaps(wide, node, a, b, item, right, place)
    BY WideGaps
  <1>2. CASE i < place + 1
    <2>1. i \in 1 .. Len(node.key) + 1 /\ i # place + 1
      BY <1>2
    <2>2. Leads(node, a, b, i, lo, hi)
      BY <1>1, <2>1
    <2>3. /\ wide.branch[i] = node.branch[i]
          /\ Left(wide, a, i) = Left(node, a, i) /\ Right(wide, b, i) = Right(node, b, i)
      BY <1>2, <2>1, <1>gaps DEF HasGaps
    <2>4. QED
      BY <2>2, <2>3 DEF Leads
  <1>3. CASE i = place + 1
    <2>1. /\ wide.branch[i] = node.branch[i]
          /\ Left(wide, a, i) = Left(node, a, i) /\ Right(wide, b, i) = item
      BY <1>3, <1>gaps DEF HasGaps
    <2>2. QED
      BY <1>3, <2>1 DEF Leads
  <1>4. CASE i = place + 2
    <2>1. /\ wide.branch[i] = right
          /\ Left(wide, a, i) = item /\ Right(wide, b, i) = Right(node, b, place + 1)
      BY <1>4, <1>gaps DEF HasGaps
    <2>2. QED
      BY <2>1 DEF Leads
  <1>5. CASE i > place + 2
    <2>1. i - 1 \in 1 .. Len(node.key) + 1 /\ i - 1 # place + 1
      BY <1>5
    <2>2. Leads(node, a, b, i - 1, lo, hi)
      BY <1>1, <2>1
    <2>3. /\ wide.branch[i] = node.branch[i - 1]
          /\ Left(wide, a, i) = Left(node, a, i - 1) /\ Right(wide, b, i) = Right(node, b, i - 1)
      BY <1>5, <1>gaps DEF HasGaps
    <2>4. QED
      BY <2>2, <2>3 DEF Leads
  <1>6. QED
    BY <1>2, <1>3, <1>4, <1>5

-----------------------------------------------------------------------------
(* The halves of a node: the item that moves up parts the range of it.           *)
LEMMA CutSorted ==
  ASSUME NEW wide, KeyTypes(wide), Len(wide.key) = MaxKeys + 1,
         NEW a \in Int, NEW b \in Int, Sorted(wide, a, b), NEW cut, IsCut(cut, wide)
  PROVE  /\ a < cut.item /\ cut.item < b /\ cut.item \in Int
         /\ Sorted(cut.left, a, cut.item) /\ Sorted(cut.right, cut.item, b)
  <1>1. /\ MinKeys \in Nat /\ MaxKeys \in Nat /\ MinKeys < MaxKeys
        /\ Len(cut.left.key) = MinKeys /\ Len(cut.right.key) = MaxKeys - MinKeys
        /\ cut.item = wide.key[MinKeys + 1]
        /\ \A i \in 1 .. MinKeys : cut.left.key[i] = wide.key[i]
        /\ \A i \in 1 .. MaxKeys - MinKeys : cut.right.key[i] = wide.key[MinKeys + 1 + i]
    <2>1. MinKeys \in Nat /\ MaxKeys \in Nat /\ MinKeys < MaxKeys
      BY Constants
    <2>2. QED
      BY <2>1 DEF IsCut
  <1>2. MinKeys + 1 \in 1 .. Len(wide.key)
    BY <1>1
  <1>3. a < cut.item /\ cut.item < b /\ cut.item \in Int
    BY <1>1, <1>2 DEF Sorted, KeyTypes
  <1>4. Sorted(cut.left, a, cut.item)
    <2>1. \A i \in 1 .. MinKeys : i \in 1 .. Len(wide.key) /\ i < MinKeys + 1
      BY <1>1
    <2>2. QED
      BY <1>1, <1>2, <2>1 DEF Sorted
  <1>5. Sorted(cut.right, cut.item, b)
    <2>1. ASSUME NEW i \in 1 .. MaxKeys - MinKeys
          PROVE  cut.item < cut.right.key[i] /\ cut.right.key[i] < b
      <3>1. MinKeys + 1 + i \in 1 .. Len(wide.key) /\ MinKeys + 1 < MinKeys + 1 + i
        BY <1>1
      <3>2. QED
        BY <1>1, <1>2, <3>1 DEF Sorted
    <2>2. ASSUME NEW i \in 1 .. MaxKeys - MinKeys, NEW j \in 1 .. MaxKeys - MinKeys, i < j
          PROVE  cut.right.key[i] < cut.right.key[j]
      <3>1. /\ MinKeys + 1 + i \in 1 .. Len(wide.key) /\ MinKeys + 1 + j \in 1 .. Len(wide.key)
            /\ MinKeys + 1 + i < MinKeys + 1 + j
        <4>1. MinKeys \in Nat /\ MaxKeys \in Nat
          BY <1>1
        <4>2. QED
          BY <2>2, <4>1
      <3>2. QED
        BY <1>1, <3>1 DEF Sorted
    <2>3. QED
      BY <1>1, <2>1, <2>2 DEF Sorted
  <1>6. QED
    BY <1>3, <1>4, <1>5

(* Split keeps where the branches lead: the halves take them over in order.      *)
LEMMA CutLeads ==
  ASSUME NEW wide, Whole(wide), Len(wide.key) = MaxKeys + 1, NEW a, NEW b,
         NEW lo, NEW hi, AllLead(wide, a, b, lo, hi), NEW cut, IsCut(cut, wide)
  PROVE  /\ AllLead(cut.left, a, cut.item, lo, hi)
         /\ AllLead(cut.right, cut.item, b, lo, hi)
  <1>1. /\ MinKeys \in Nat /\ MaxKeys \in Nat /\ MinKeys < MaxKeys
        /\ Len(wide.branch) = MaxKeys + 2
    BY Constants DEF Whole
  <1>2. /\ Len(cut.left.key) = MinKeys /\ Len(cut.left.branch) = MinKeys + 1
        /\ Len(cut.right.key) = MaxKeys - MinKeys
        /\ Len(cut.right.branch) = MaxKeys - MinKeys + 1
        /\ cut.item = wide.key[MinKeys + 1]
        /\ \A i \in 1 .. MinKeys : cut.left.key[i] = wide.key[i]
        /\ \A i \in 1 .. MinKeys + 1 : cut.left.branch[i] = wide.branch[i]
        /\ \A i \in 1 .. MaxKeys - MinKeys : cut.right.key[i] = wide.key[MinKeys + 1 + i]
        /\ \A i \in 1 .. MaxKeys - MinKeys + 1 :
             cut.right.branch[i] = wide.branch[MinKeys + 1 + i]
    BY DEF IsCut, Whole
  <1>3. ASSUME NEW i \in 1 .. MinKeys + 1
        PROVE  Leads(cut.left, a, cut.item, i, lo, hi)
    <2>1. i \in 1 .. Len(wide.branch) /\ i # Len(wide.key) + 1
      BY <1>1
    <2>2. Leads(wide, a, b, i, lo, hi)
      BY <2>1 DEF AllLead
    <2>3. i # 1 => i - 1 \in 1 .. MinKeys
      BY <1>1
    <2>4. Left(cut.left, a, i) = Left(wide, a, i)
      BY <1>2, <2>3 DEF Left
    <2>5. Right(cut.left, cut.item, i) = Right(wide, b, i)
      <3>1. i # MinKeys + 1 => i \in 1 .. MinKeys
        BY <1>1
      <3>2. QED
        BY <1>2, <2>1, <3>1 DEF Right
    <2>6. QED
      BY <1>2, <2>2, <2>4, <2>5 DEF Leads
  <1>4. ASSUME NEW i \in 1 .. MaxKeys - MinKeys + 1
        PROVE  Leads(cut.right, cut.item, b, i, lo, hi)
    <2> DEFINE j == MinKeys + 1 + i
    <2>1. j \in 1 .. Len(wide.branch) /\ j # 1
      BY <1>1
    <2>2. Leads(wide, a, b, j, lo, hi)
      BY <2>1 DEF AllLead
    <2>3. cut.right.branch[i] = wide.branch[j]
      BY <1>2
    <2>4. Left(cut.right, cut.item, i) = Left(wide, a, j)
      <3>1. i = 1 => j - 1 = MinKeys + 1
        BY <1>1
      <3>2. i # 1 => i - 1 \in 1 .. MaxKeys - MinKeys /\ MinKeys + 1 + (i - 1) = j - 1
        BY <1>1
      <3>3. i # 1 => cut.right.key[i - 1] = wide.key[j - 1]
        BY <1>2, <3>2
      <3> HIDE DEF j
      <3>4. QED
        BY <1>2, <2>1, <3>1, <3>3 DEF Left
    <2>5. Right(cut.right, b, i) = Right(wide, b, j)
      <3>1. i = Len(cut.right.key) + 1 <=> j = Len(wide.key) + 1
        <4>1. Len(cut.right.key) = MaxKeys - MinKeys
          BY <1>2
        <4>2. QED
          BY <1>1, <4>1
      <3>2. i # Len(cut.right.key) + 1 => cut.right.key[i] = wide.key[j]
        <4>1. i # Len(cut.right.key) + 1 => i \in 1 .. MaxKeys - MinKeys
          BY <1>1, <1>2
        <4>2. QED
          BY <1>2, <4>1
      <3> HIDE DEF j
      <3>3. QED
        BY <3>1, <3>2 DEF Right
    <2> HIDE DEF j
    <2>6. QED
      BY <2>2, <2>3, <2>4, <2>5 DEF Leads
  <1>5. QED
    BY <1>2, <1>3, <1>4 DEF AllLead

-----------------------------------------------------------------------------
(* Every node has a range, from lo to hi without its ends, and its keys are      *)
(* sorted within it.                                                             *)
SortedNodes(lo, hi) == \A n \in Nodes : Sorted(file[n], lo[n], hi[n])

(* Nodes of one level have ranges apart.                                         *)
Apart(level, lo, hi) ==
  \A m, n \in Nodes : m # n /\ level[m] = level[n] => hi[m] <= lo[n] \/ hi[n] <= lo[m]

(* The range of a node has no key of a node above in it.                         *)
Within(k, n, lo, hi) == lo[n] < k /\ k < hi[n]
Below(level, lo, hi) ==
  \A m, n \in Nodes : level[n] < level[m] =>
    \A i \in 1 .. Len(file[m].key) : ~Within(file[m].key[i], n, lo, hi)

(* No node is above the root, whose range is everything unless it is cut.        *)
Top(level, lo, hi) ==
  /\ \A n \in Nodes : level[n] <= level[root]
  /\ root # NilPtr /\ ~(pc = "up" /\ path = <<>>) => lo[root] = -Half - 1 /\ hi[root] = Half

(* A branch leads to a node whose range is from the key on its left to the one   *)
(* on its right, except where an item still has to be put between.               *)
IsHole(n, i) == pc = "up" /\ path # <<>> /\ n = Caller.node /\ i = Caller.place + 1

Fits(lo, hi) ==
  \A n \in Nodes : \A i \in 1 .. Len(file[n].branch) :
    ~IsHole(n, i) => Leads(file[n], lo[n], hi[n], i, lo, hi)

(* The waiting calls follow the branches at their places.                        *)
Chain == \A j \in 1 .. Len(path) - 1 :
           file[path[j].node].branch[path[j].place + 1] = path[j + 1].node

(* Where the last of them waits: the branch, and the range that is left for it.  *)
HoleNode == IF path = <<>> THEN root ELSE file[Caller.node].branch[Caller.place + 1]
HoleLeft(lo) == IF path = <<>> THEN -Half - 1
                ELSE Left(file[Caller.node], lo[Caller.node], Caller.place + 1)
HoleRight(hi) == IF path = <<>> THEN Half
                 ELSE Right(file[Caller.node], hi[Caller.node], Caller.place + 1)

(* The key searched for is in that range, and there is nothing else below it.    *)
Searched(lo, hi) ==
  /\ pc = "down" => at = HoleNode /\ HoleLeft(lo) < key /\ key < HoleRight(hi)
  /\ pc = "find" => IF at = NilPtr THEN key \notin Contents ELSE Within(key, at, lo, hi)

(* The item on its way up parts that range and no other.                         *)
Parted(level, lo, hi) ==
  pc = "up" =>
    /\ HoleLeft(lo) < moved.item /\ moved.item < HoleRight(hi)
    /\ HoleNode # NilPtr => lo[HoleNode] = HoleLeft(lo) /\ hi[HoleNode] = moved.item
    /\ moved.right # NilPtr => lo[moved.right] = moved.item /\ hi[moved.right] = HoleRight(hi)
    /\ \A n \in Nodes : level[n] <= level[moved.right] => ~Within(moved.item, n, lo, hi)

(* Readers start at the root, unless there is none.                              *)
Counted == /\ pc # "up" => header = [items |-> numItems, root |-> root]
           /\ numItems = 0 => NumNodes = 0

Ranged(level, lo, hi) ==
  /\ SortedNodes(lo, hi) /\ Apart(level, lo, hi) /\ Below(level, lo, hi)
  /\ Top(level, lo, hi) /\ Fits(lo, hi) /\ Searched(lo, hi) /\ Parted(level, lo, hi)

Searchable ==
  /\ Built /\ Chain /\ Counted
  /\ \E level \in [Branches -> Nat] : \E lo, hi \in [Branches -> Int] :
       Levels(level) /\ Ranged(level, lo, hi)

-----------------------------------------------------------------------------
(* What the invariant says of one node.                                          *)
LEMMA NodeFacts ==
  ASSUME TypeOK, NEW n \in Nodes, NEW lo \in [Branches -> Int], NEW hi \in [Branches -> Int],
         SortedNodes(lo, hi)
  PROVE  /\ file[n] \in NodeIn(Branches) /\ Whole(file[n]) /\ KeyTypes(file[n])
         /\ Len(file[n].key) > 0 /\ Len(file[n].branch) = Len(file[n].key) + 1
         /\ lo[n] \in Int /\ hi[n] \in Int /\ Sorted(file[n], lo[n], hi[n]) /\ lo[n] < hi[n]
         /\ n \in Branches /\ n # NilPtr
  <1>1. /\ file[n] \in NodeIn(Branches) /\ Whole(file[n])
        /\ Len(file[n].key) > 0 /\ Len(file[n].branch) = Len(file[n].key) + 1
        /\ NumNodes \in Nat
    BY FileTypes DEF Nodes
  <1>2. KeyTypes(file[n])
    BY <1>1, KeysAreInts
  <1>3. n \in Branches /\ n # NilPtr
    BY <1>1 DEF Nodes, Branches, NilPtr
  <1>4. lo[n] \in Int /\ hi[n] \in Int
    BY <1>3
  <1>5. Sorted(file[n], lo[n], hi[n])
    BY DEF SortedNodes
  <1>6. lo[n] < hi[n]
    <2>1. 1 \in 1 .. Len(file[n].key) /\ file[n].key[1] \in Int
      BY <1>1, <1>2 DEF KeyTypes
    <2>2. QED
      BY <1>4, <1>5, <2>1 DEF Sorted
  <1>7. QED
    BY <1>1, <1>2, <1>3, <1>4, <1>5, <1>6

(* Every node is above NilPtr, and so there are none without a root.             *)
LEMMA LevelsOfNodes ==
  ASSUME TypeOK, NEW level \in [Branches -> Nat], Levelled(level)
  PROVE  /\ \A n \in Nodes : level[n] \in Nat /\ level[n] >= 1
         /\ level[root] \in Nat
         /\ (\A n \in Nodes : level[n] <= level[root]) /\ root = NilPtr => NumNodes = 0
  <1>1. ASSUME NEW n \in Nodes PROVE level[n] \in Nat /\ level[n] >= 1
    <2> DEFINE b == file[n].branch[1]
    <2>1. 1 \in 1 .. Len(file[n].branch) /\ b \in Branches /\ n \in Branches
      <3>1. /\ Len(file[n].key) \in Nat /\ Len(file[n].branch) = Len(file[n].key) + 1
            /\ \A i \in 1 .. Len(file[n].branch) : file[n].branch[i] \in Branches
        BY FileTypes DEF Nodes
      <3>2. 1 \in 1 .. Len(file[n].branch)
        BY <3>1
      <3>3. QED
        BY <3>1, <3>2 DEF Nodes, Branches
    <2>2. level[n] = level[b] + 1
      BY <2>1 DEF Levelled, Nodes
    <2> HIDE DEF b
    <2>3. level[b] \in Nat
      BY <2>1
    <2>4. QED
      BY <2>1, <2>2, <2>3
  <1>2. root \in Branches
    BY DEF TypeOK, Branches
  <1>3. ASSUME \A n \in Nodes : level[n] <= level[root], root = NilPtr PROVE NumNodes = 0
    <2>1. level[root] = 0
      BY <1>3 DEF Levelled
    <2>2. \A n \in Nodes : FALSE
      BY <1>1, <1>3, <2>1
    <2>3. NumNodes \in Nat
      BY FileTypes
    <2>4. QED
      BY <2>2, <2>3 DEF Nodes
  <1>4. QED
    BY <1>1, <1>2, <1>3

(* The keys of the nodes of a file.                                              *)
KeysIn(f) == UNION {ToSet(f[n].key) : n \in 1 .. Len(f)}

(* A key is one of them when a node has it.                                      *)
LEMMA KeysOfFile ==
  ASSUME NEW B, NEW f, NodesOK(f, B), NEW k
  PROVE  k \in KeysIn(f) <=> \E n \in 1 .. Len(f) : Has(f[n], k)
  <1>1. ASSUME NEW n \in 1 .. Len(f) PROVE k \in ToSet(f[n].key) <=> Has(f[n], k)
    <2>1. f[n].key \in Seq(Key)
      <3>1. f[n] \in NodeIn(B)
        BY DEF NodesOK
      <3>2. QED
        BY <3>1 DEF NodeIn
    <2>2. DOMAIN f[n].key = 1 .. Len(f[n].key)
      BY <2>1, LenProperties
    <2>3. QED
      BY <2>2 DEF ToSet, Has
  <1>2. k \in KeysIn(f) <=> \E n \in 1 .. Len(f) : k \in ToSet(f[n].key)
    BY DEF KeysIn
  <1>3. QED
    BY <1>1, <1>2

(* Contents are the keys of the nodes, and the item on its way up.               *)
LEMMA InContents ==
  ASSUME TypeOK, NEW k
  PROVE  k \in Contents <=> \/ \E n \in Nodes : Has(file[n], k)
                            \/ pc = "up" /\ k = moved.item
  <1>1. Contents = KeysIn(file) \cup (IF pc = "up" THEN {moved.item} ELSE {})
    BY DEF Contents, KeysOf, KeysIn, NumNodes
  <1>2. k \in KeysIn(file) <=> \E n \in Nodes : Has(file[n], k)
    BY FileTypes, KeysOfFile DEF Nodes, NumNodes
  <1>3. QED
    BY <1>1, <1>2

(* A key in a gap that no branch leads out of is not stored: not in the node, not*)
(* in another one as low, and not in one above.                                  *)
LEMMA NotBelow ==
  ASSUME TypeOK, NEW level \in [Branches -> Nat], Levelled(level),
         NEW lo \in [Branches -> Int], NEW hi \in [Branches -> Int],
         SortedNodes(lo, hi), Apart(level, lo, hi), Below(level, lo, hi),
         NEW n \in Nodes, NEW i \in 1 .. Len(file[n].branch), file[n].branch[i] = NilPtr,
         NEW k \in Int, Left(file[n], lo[n], i) < k, k < Right(file[n], hi[n], i)
  PROVE  \A m \in Nodes : ~Has(file[m], k)
  <1> SUFFICES ASSUME NEW m \in Nodes, Has(file[m], k) PROVE FALSE
    OBVIOUS
  <1>1. PICK j \in 1 .. Len(file[m].key) : file[m].key[j] = k
    BY DEF Has
  <1>2. /\ KeyTypes(file[n]) /\ Len(file[n].key) > 0 /\ lo[n] \in Int /\ hi[n] \in Int
        /\ Sorted(file[n], lo[n], hi[n]) /\ Len(file[n].branch) = Len(file[n].key) + 1
    BY NodeFacts
  <1>3. i \in 1 .. Len(file[n].key) + 1
    BY <1>2
  <1>4. /\ Left(file[n], lo[n], i) \in Int /\ Right(file[n], hi[n], i) \in Int
        /\ lo[n] <= Left(file[n], lo[n], i) /\ Right(file[n], hi[n], i) <= hi[n]
    BY <1>2, <1>3, GapInRange
  <1>5. Within(k, n, lo, hi)
    BY <1>2, <1>4 DEF Within
  <1>6. level[n] = 1
    <2>1. level[n] = level[file[n].branch[i]] + 1 /\ level[NilPtr] = 0
      BY DEF Levelled, Nodes
    <2>2. QED
      BY <2>1
  <1>7. level[m] \in Nat /\ level[m] >= 1
    BY LevelsOfNodes
  <1>8. CASE m = n
    <2>1. k <= Left(file[n], lo[n], i) \/ Right(file[n], hi[n], i) <= k
      BY <1>1, <1>2, <1>3, <1>8, GapHasNoKey
    <2>2. QED
      BY <1>4, <2>1
  <1>9. CASE m # n /\ level[m] = level[n]
    <2>1. hi[m] <= lo[n] \/ hi[n] <= lo[m]
      BY <1>9 DEF Apart
    <2>2. /\ KeyTypes(file[m]) /\ lo[m] \in Int /\ hi[m] \in Int
          /\ Sorted(file[m], lo[m], hi[m])
      BY NodeFacts
    <2>3. lo[m] < k /\ k < hi[m]
      BY <1>1, <2>2 DEF Sorted
    <2>4. QED
      BY <1>2, <1>5, <2>1, <2>2, <2>3 DEF Within
  <1>10. CASE level[n] < level[m]
    BY <1>1, <1>5, <1>10 DEF Below
  <1>11. QED
    BY <1>6, <1>7, <1>8, <1>9, <1>10

(* Two branches, given by node and place, are the same one.                      *)
Same(m, i, n, j) == m = n /\ i = j

(* The gaps of a level are apart, so two branches that lead to one node are one. *)
LEMMA OneParent ==
  ASSUME TypeOK, NEW level \in [Branches -> Nat], Levelled(level),
         NEW lo \in [Branches -> Int], NEW hi \in [Branches -> Int],
         SortedNodes(lo, hi), Apart(level, lo, hi),
         NEW m \in Nodes, NEW i \in 1 .. Len(file[m].branch),
         NEW n \in Nodes, NEW j \in 1 .. Len(file[n].branch),
         file[m].branch[i] = file[n].branch[j], file[m].branch[i] # NilPtr,
         Leads(file[m], lo[m], hi[m], i, lo, hi), Leads(file[n], lo[n], hi[n], j, lo, hi)
  PROVE  Same(m, i, n, j)
  <1>1. /\ KeyTypes(file[m]) /\ Len(file[m].key) > 0 /\ lo[m] \in Int /\ hi[m] \in Int
        /\ Sorted(file[m], lo[m], hi[m]) /\ i \in 1 .. Len(file[m].key) + 1
    BY NodeFacts
  <1>2. /\ KeyTypes(file[n]) /\ Len(file[n].key) > 0 /\ lo[n] \in Int /\ hi[n] \in Int
        /\ Sorted(file[n], lo[n], hi[n]) /\ j \in 1 .. Len(file[n].key) + 1
    BY NodeFacts
  <1> DEFINE a == Left(file[m], lo[m], i)
             b == Right(file[m], hi[m], i)
  <1>3. a \in Int /\ b \in Int /\ lo[m] <= a /\ a < b /\ b <= hi[m]
    BY <1>1, GapInRange
  <1>4. Left(file[n], lo[n], j) = a /\ Right(file[n], hi[n], j) = b
    BY DEF Leads
  <1>5. lo[n] <= a /\ b <= hi[n]
    BY <1>2, <1>4, GapInRange
  <1> HIDE DEF a, b
  <1>6. level[m] = level[n]
    <2>1. level[m] = level[file[m].branch[i]] + 1
      BY DEF Levelled, Nodes
    <2>2. level[n] = level[file[n].branch[j]] + 1
      BY DEF Levelled, Nodes
    <2>3. QED
      BY <2>1, <2>2
  <1>7. m = n
    <2>1. m # n => hi[m] <= lo[n] \/ hi[n] <= lo[m]
      BY <1>6 DEF Apart
    <2>2. QED
      BY <1>1, <1>2, <1>3, <1>5, <2>1
  <1>8. ~(i < j)
    <2>1. i < j => b <= a
      BY <1>1, <1>2, <1>4, <1>7, GapsApart DEF b
    <2>2. QED
      BY <1>3, <2>1
  <1>9. ~(j < i)
    <2>1. j < i => b <= a
      BY <1>1, <1>2, <1>4, <1>7, GapsApart DEF a
    <2>2. QED
      BY <1>3, <2>1
  <1>10. QED
    BY <1>1, <1>2, <1>7, <1>8, <1>9 DEF KeyTypes, Same

-----------------------------------------------------------------------------
(* The empty tree.                                                               *)
LEMMA SearchableAtStart == Init => Searchable
  <1> SUFFICES ASSUME Init PROVE Searchable
    OBVIOUS
  <1>1. Built
    BY BuiltAtStart
  <1>2. PICK level \in [Branches -> Nat] : Levels(level)
    BY <1>1 DEF Built
  <1>3. NumNodes = 0 /\ Nodes = {} /\ Len(path) = 0 /\ root = NilPtr /\ pc = "idle"
    BY DEF Init, NumNodes, Nodes
  <1> DEFINE zero == [b \in Branches |-> 0]
  <1>4. zero \in [Branches -> Int]
    OBVIOUS
  <1>5. Ranged(level, zero, zero)
    BY <1>3 DEF Ranged, SortedNodes, Apart, Below, Top, Fits, Searched, Parted
  <1>6. Chain /\ Counted
    BY <1>3 DEF Init, Chain, Counted
  <1>7. QED
    BY <1>1, <1>2, <1>4, <1>5, <1>6 DEF Searchable

(* The range of the gap where the next step is.                                  *)
LEMMA HoleFacts ==
  ASSUME Built, pc \in {"down", "up"}, NEW level \in [Branches -> Nat], Levels(level),
         NEW lo \in [Branches -> Int], NEW hi \in [Branches -> Int], Ranged(level, lo, hi)
  PROVE  /\ HoleLeft(lo) \in Int /\ HoleRight(hi) \in Int /\ HoleNode \in Branches
         /\ path # <<>> => /\ Caller.node \in Nodes
                           /\ Caller.place \in 0 .. Len(file[Caller.node].key)
                           /\ Caller.place + 1 \in 1 .. Len(file[Caller.node].branch)
                           /\ lo[Caller.node] <= HoleLeft(lo)
                           /\ HoleRight(hi) <= hi[Caller.node]
         /\ pc = "down" /\ HoleNode # NilPtr =>
              lo[HoleNode] = HoleLeft(lo) /\ hi[HoleNode] = HoleRight(hi)
  <1>1. TypeOK /\ SortedNodes(lo, hi)
    BY DEF Built, Formed, Ranged
  <1>2. CASE path = <<>>
    BY <1>1, <1>2, Constants DEF HoleLeft, HoleRight, HoleNode, TypeOK, Branches, Ranged, Top
  <1>3. ASSUME path # <<>>
        PROVE  /\ Caller.node \in Nodes /\ Caller.place \in 0 .. Len(file[Caller.node].key)
    <2>1. /\ Caller.node \in 1 .. NumNodes /\ Caller.place \in Nat
          /\ Caller.place <= Len(file[Caller.node].key)
      BY <1>3, CallerOnPath
    <2>2. Len(file[Caller.node].key) \in Nat
      BY <1>1, <2>1, FileTypes
    <2>3. QED
      BY <2>1, <2>2 DEF Nodes
  <1>4. CASE path # <<>>
    <2> DEFINE n == Caller.node
               i == Caller.place + 1
    <2>1. /\ n \in Nodes /\ i \in 1 .. Len(file[n].key) + 1 /\ i \in 1 .. Len(file[n].branch)
      <3>1. n \in Nodes /\ Caller.place \in 0 .. Len(file[n].key)
        BY <1>3, <1>4
      <3>2. Len(file[n].branch) = Len(file[n].key) + 1 /\ Len(file[n].key) \in Nat
        BY <1>1, <3>1, FileTypes DEF Nodes
      <3>3. QED
        BY <3>1, <3>2
    <2>2. /\ KeyTypes(file[n]) /\ Len(file[n].key) > 0 /\ lo[n] \in Int /\ hi[n] \in Int
          /\ Sorted(file[n], lo[n], hi[n])
      BY <1>1, <2>1, NodeFacts
    <2>3. /\ HoleNode = file[n].branch[i] /\ HoleLeft(lo) = Left(file[n], lo[n], i)
          /\ HoleRight(hi) = Right(file[n], hi[n], i)
      BY <1>4 DEF HoleNode, HoleLeft, HoleRight
    <2>4. HoleNode \in Branches
      BY <1>1, <2>1, <2>3, FileTypes DEF Nodes
    <2>5. pc = "down" => ~IsHole(n, i)
      BY DEF IsHole
    <2> HIDE DEF n, i
    <2>6. pc = "down" => Leads(file[n], lo[n], hi[n], i, lo, hi)
      BY <2>1, <2>5 DEF Ranged, Fits
    <2>7. /\ HoleLeft(lo) \in Int /\ HoleRight(hi) \in Int
          /\ lo[n] <= HoleLeft(lo) /\ HoleRight(hi) <= hi[n]
      BY <2>1, <2>2, <2>3, GapInRange
    <2>8. pc = "down" /\ HoleNode # NilPtr =>
            lo[HoleNode] = HoleLeft(lo) /\ hi[HoleNode] = HoleRight(hi)
      BY <2>3, <2>6 DEF Leads
    <2>9. QED
      BY <1>3, <1>4, <2>1, <2>4, <2>7, <2>8 DEF n, i
  <1>5. QED
    BY <1>2, <1>4

-----------------------------------------------------------------------------
(* A node that the search is at, and where it goes from there.                   *)
LEMMA SearchStep ==
  ASSUME Near, Built, NEW level \in [Branches -> Nat], Levels(level),
         NEW lo \in [Branches -> Int], NEW hi \in [Branches -> Int], Ranged(level, lo, hi),
         pc # "up", at \in Nodes, Within(key, at, lo, hi), ~Found(key, file[at])
  PROVE  LET p == Location(key, file[at])
             c == Child(key, file[at])
         IN  /\ p \in 0 .. Len(file[at].key) /\ c = file[at].branch[p + 1]
             /\ Left(file[at], lo[at], p + 1) < key /\ key < Right(file[at], hi[at], p + 1)
             /\ c # NilPtr => Within(key, c, lo, hi)
             /\ c = NilPtr => key \notin Contents
  <1>1. TypeOK /\ Levelled(level) /\ SortedNodes(lo, hi) /\ key \in Key /\ key \in Int
    BY Constants DEF Built, Formed, Levels, Ranged, TypeOK
  <1>2. /\ file[at] \in NodeIn(Branches) /\ Whole(file[at])
        /\ lo[at] \in Int /\ hi[at] \in Int /\ Sorted(file[at], lo[at], hi[at])
        /\ KeyTypes(file[at]) /\ Len(file[at].branch) = Len(file[at].key) + 1
    BY <1>1, NodeFacts
  <1> DEFINE p == Location(key, file[at])
             c == Child(key, file[at])
             i == p + 1
  <1>3. /\ p \in 0 .. Len(file[at].key) /\ c = file[at].branch[p + 1]
        /\ Left(file[at], lo[at], p + 1) < key /\ key < Right(file[at], hi[at], p + 1)
    BY <1>1, <1>2, SearchNode DEF Within
  <1>4. i \in 1 .. Len(file[at].branch)
    BY <1>2, <1>3 DEF KeyTypes
  <1> HIDE DEF p, c
  <1>5. Leads(file[at], lo[at], hi[at], i, lo, hi)
    BY <1>4 DEF Ranged, Fits, IsHole
  <1>6. c # NilPtr => Within(key, c, lo, hi)
    BY <1>3, <1>5 DEF Leads, Within
  <1>7. ASSUME c = NilPtr PROVE key \notin Contents
    <2>1. \A m \in Nodes : ~Has(file[m], key)
      <3> HIDE DEF i
      <3>1. /\ file[at].branch[i] = NilPtr
            /\ Left(file[at], lo[at], i) < key /\ key < Right(file[at], hi[at], i)
        BY <1>3, <1>7 DEF i
      <3>2. QED
        BY <1>1, <1>4, <3>1, NotBelow DEF Ranged
    <2>2. QED
      BY <1>1, <2>1, InContents
  <1>8. QED
    BY <1>3, <1>6, <1>7 DEF p, c

(* A step outside the way up that writes no node changes nothing that is stored. *)
LEMMA ContentsKept ==
  ASSUME UNCHANGED file, pc # "up", pc' # "up"
  PROVE  Contents' = Contents
BY DEF Contents, KeysOf, NumNodes

(* Without a root or without items nothing is stored.                            *)
LEMMA NothingStored ==
  ASSUME Built, Counted, pc # "up", numItems = 0 \/ root = NilPtr,
         NEW level \in [Branches -> Nat], Levels(level),
         \A n \in Nodes : level[n] <= level[root], NEW k
  PROVE  k \notin Contents
  <1>1. TypeOK /\ Levelled(level)
    BY DEF Built, Formed, Levels
  <1>2. NumNodes = 0
    BY <1>1, LevelsOfNodes DEF Counted
  <1>3. Nodes = {}
    BY <1>2 DEF Nodes
  <1>4. QED
    BY <1>1, <1>3, InContents

(* The steps that change no node: the search stays in the range of its node, and *)
(* when it ends at NilPtr, its key is not stored.                                *)
LEMMA RangedWhileRead ==
  ASSUME Near, Built, Chain, Counted, ReadStep,
         NEW level \in [Branches -> Nat], Levels(level),
         NEW lo \in [Branches -> Int], NEW hi \in [Branches -> Int], Ranged(level, lo, hi)
  PROVE  Ranged(level, lo, hi)' /\ Chain' /\ Counted'
  <1>1. TypeOK /\ FromRoot /\ Levelled(level)
    BY DEF Built, Formed, Levels
  <1>2. /\ SortedNodes(lo, hi) /\ Apart(level, lo, hi) /\ Below(level, lo, hi)
        /\ Top(level, lo, hi) /\ Fits(lo, hi) /\ Searched(lo, hi) /\ Parted(level, lo, hi)
    BY DEF Ranged
  <1>3. pc # "up" /\ UNCHANGED <<file, numItems, root, header>>
    BY DEF ReadStep, Insert, Retrieve, Duplicate, PushDown, Bottom, Look, Return
  <1>4. Nodes' = Nodes /\ NumNodes' = NumNodes
    BY <1>3 DEF Nodes, NumNodes
  <1>5. SortedNodes(lo, hi)' /\ Apart(level, lo, hi)' /\ Below(level, lo, hi)'
    BY <1>2, <1>3, <1>4 DEF SortedNodes, Apart, Below, Within
  <1>6. Top(level, lo, hi)'
    BY <1>2, <1>3, <1>4 DEF Top
  <1>7. ASSUME NEW n \in Nodes, NEW i \in 1 .. Len(file[n].branch)
        PROVE  Leads(file[n], lo[n], hi[n], i, lo, hi)
    BY <1>2, <1>3 DEF Fits, IsHole
  <1>8. Fits(lo, hi)'
    BY <1>3, <1>4, <1>7 DEF Fits
  <1>9. header = [items |-> numItems, root |-> root]
    BY <1>3 DEF Counted
  <1>10. Counted'
    BY <1>3, <1>4, <1>9 DEF Counted
  <1>11. root # NilPtr => lo[root] = -Half - 1 /\ hi[root] = Half
    BY <1>2, <1>3 DEF Top
  <1>12. SUFFICES Searched(lo, hi)' /\ Parted(level, lo, hi)' /\ Chain'
    BY <1>5, <1>6, <1>8, <1>10 DEF Ranged
  <1>13. ASSUME NEW k \in Key, Insert(k)
         PROVE  Searched(lo, hi)' /\ Parted(level, lo, hi)' /\ Chain'
    <2>1. pc' = "down" /\ path = <<>> /\ path' = path /\ key' = k /\ at' = root
      BY <1>1, <1>13 DEF Insert, FromRoot
    <2>2. Searched(lo, hi)'
      BY <1>3, <2>1, Constants DEF Searched, HoleNode, HoleLeft, HoleRight
    <2>3. Parted(level, lo, hi)' /\ Chain'
      BY <1>3, <2>1 DEF Parted, Chain
    <2>4. QED
      BY <2>2, <2>3
  <1>14. ASSUME NEW k \in Key, Retrieve(k)
         PROVE  Searched(lo, hi)' /\ Parted(level, lo, hi)' /\ Chain'
    <2>1. /\ pc' = "find" /\ path' = path /\ key' = k
          /\ at' = IF header.items = 0 THEN NilPtr ELSE header.root
      BY <1>14 DEF Retrieve
    <2>2. at' = IF numItems = 0 THEN NilPtr ELSE root
      BY <1>9, <2>1
    <2>3. at' # NilPtr => Within(k, root, lo, hi)
      BY <1>11, <2>2, Constants DEF Within
    <2>4. at' = NilPtr => k \notin Contents'
      <3>1. at' = NilPtr => k \notin Contents
        BY <1>2, <1>3, <2>2, NothingStored DEF Top
      <3>2. Contents' = Contents
        BY <1>3, <2>1, ContentsKept
      <3>3. QED
        BY <3>1, <3>2
    <2>5. Searched(lo, hi)'
      BY <1>3, <2>1, <2>2, <2>3, <2>4 DEF Searched, Within
    <2>6. Parted(level, lo, hi)' /\ Chain'
      BY <1>3, <2>1 DEF Parted, Chain
    <2>7. QED
      BY <2>5, <2>6
  <1>15. ASSUME Duplicate \/ Return
         PROVE  Searched(lo, hi)' /\ Parted(level, lo, hi)' /\ Chain'
    <2>1. pc' = "idle" /\ (path' = <<>> \/ path' = path)
      BY <1>15 DEF Duplicate, Return
    <2>2. Searched(lo, hi)' /\ Parted(level, lo, hi)'
      BY <2>1 DEF Searched, Parted
    <2>3. Chain'
      <3>1. CASE path' = <<>>
        <4>1. Len(path') = 0
          BY <3>1
        <4>2. QED
          BY <4>1 DEF Chain
      <3>2. CASE path' = path
        BY <1>3, <3>2 DEF Chain
      <3>3. QED
        BY <2>1, <3>1, <3>2
    <2>4. QED
      BY <2>2, <2>3
  <1>16. ASSUME PushDown
         PROVE  Searched(lo, hi)' /\ Parted(level, lo, hi)' /\ Chain'
    <2> DEFINE call == [node |-> at, place |-> Location(key, file[at])]
    <2>1. /\ pc = "down" /\ pc' = "down" /\ at # NilPtr /\ ~Found(key, file[at])
          /\ path' = Append(path, call) /\ at' = Child(key, file[at]) /\ key' = key
      BY <1>16 DEF PushDown
    <2>2. at = HoleNode /\ HoleLeft(lo) < key /\ key < HoleRight(hi) /\ at \in Nodes
      BY <1>1, <1>2, <2>1 DEF Searched, TypeOK, Nodes
    <2>3. Within(key, at, lo, hi)
      BY <2>1, <2>2, HoleFacts DEF Within
    <2>4. /\ at' = file[at].branch[call.place + 1]
          /\ Left(file[at], lo[at], call.place + 1) < key
          /\ key < Right(file[at], hi[at], call.place + 1)
      BY <1>3, <2>1, <2>2, <2>3, SearchStep
    <2>5. call.node = at /\ call \in [node : 1 .. NumNodes, place : 0 .. MaxKeys]
      <3>1. /\ Location(key, file[at]) \in 0 .. Len(file[at].key)
            /\ Len(file[at].key) \in Nat /\ Len(file[at].key) <= MaxKeys
        <4>1. Location(key, file[at]) \in 0 .. Len(file[at].key)
          BY <1>3, <2>1, <2>2, <2>3, SearchStep
        <4>2. Len(file[at].key) \in 1 .. MaxKeys
          BY <1>1, <2>2, FileTypes DEF Nodes
        <4>3. QED
          BY <4>1, <4>2, Constants
      <3>2. Location(key, file[at]) \in 0 .. MaxKeys
        BY <3>1, Constants
      <3>3. QED
        BY <2>2, <3>2 DEF Nodes
    <2> HIDE DEF call
    <2>6. path \in Seq([node : 1 .. NumNodes, place : 0 .. MaxKeys]) /\ Len(path) \in Nat
      BY <1>1 DEF TypeOK
    <2>7. /\ Len(path') = Len(path) + 1 /\ path' # <<>> /\ path'[Len(path) + 1] = call
          /\ \A j \in 1 .. Len(path) : path'[j] = path[j]
      <3> DEFINE S == [node : 1 .. NumNodes, place : 0 .. MaxKeys]
      <3>1. path \in Seq(S) /\ call \in S
        BY <2>5, <2>6
      <3> HIDE DEF S
      <3>2. path' \in Seq(S) /\ Len(path') = Len(path) + 1
        BY <2>1, <3>1
      <3>3. path' # <<>>
        BY <2>6, <3>2, EmptySeq
      <3>4. QED
        BY <2>1, <3>1, <3>2, <3>3
    <2>8. Caller' = call
      BY <2>6, <2>7 DEF Caller, Last
    <2>9. /\ HoleNode' = at' /\ HoleLeft(lo)' = Left(file[at], lo[at], call.place + 1)
          /\ HoleRight(hi)' = Right(file[at], hi[at], call.place + 1)
      BY <1>3, <2>4, <2>5, <2>7, <2>8 DEF HoleNode, HoleLeft, HoleRight
    <2>10. Searched(lo, hi)'
      BY <2>1, <2>4, <2>9 DEF Searched
    <2>11. Chain'
      <3> SUFFICES ASSUME NEW j \in 1 .. Len(path)
                   PROVE  file[path'[j].node].branch[path'[j].place + 1] = path'[j + 1].node
        BY <1>3, <2>6, <2>7 DEF Chain
      <3>1. CASE j = Len(path)
        <4>1. path # <<>> /\ path'[j] = Caller /\ path'[j + 1] = call
          BY <2>6, <2>7, <3>1 DEF Caller, Last
        <4>2. HoleNode = file[Caller.node].branch[Caller.place + 1]
          BY <4>1 DEF HoleNode
        <4>3. QED
          BY <2>2, <2>5, <4>1, <4>2
      <3>2. CASE j # Len(path)
        <4>1. j \in 1 .. Len(path) - 1 /\ j + 1 \in 1 .. Len(path)
          BY <2>6, <3>2
        <4>2. path'[j] = path[j] /\ path'[j + 1] = path[j + 1]
          BY <2>7, <4>1
        <4>3. QED
          BY <4>1, <4>2 DEF Chain
      <3>3. QED
        BY <3>1, <3>2
    <2>12. QED
      BY <2>1, <2>10, <2>11 DEF Parted
  <1>17. ASSUME Bottom
         PROVE  Searched(lo, hi)' /\ Parted(level, lo, hi)' /\ Chain'
    <2>1. /\ pc = "down" /\ pc' = "up" /\ at = NilPtr /\ path' = path
          /\ moved' = [item |-> key, right |-> NilPtr]
      BY <1>17 DEF Bottom
    <2>2. at = HoleNode /\ HoleLeft(lo) < key /\ key < HoleRight(hi)
      BY <1>2, <2>1 DEF Searched
    <2>3. /\ HoleNode' = HoleNode /\ HoleLeft(lo)' = HoleLeft(lo)
          /\ HoleRight(hi)' = HoleRight(hi)
      BY <1>3, <2>1 DEF HoleNode, HoleLeft, HoleRight, Caller
    <2>4. moved'.item = key /\ moved'.right = NilPtr
      BY <2>1
    <2>5. \A n \in Nodes : ~(level[n] <= level[NilPtr])
      <3>1. \A n \in Nodes : level[n] \in Nat /\ level[n] >= 1
        BY <1>1, LevelsOfNodes
      <3>2. level[NilPtr] = 0
        BY <1>1 DEF Levelled
      <3>3. QED
        BY <3>1, <3>2
    <2>6. Parted(level, lo, hi)'
      BY <1>4, <2>1, <2>2, <2>3, <2>4, <2>5 DEF Parted
    <2>7. Searched(lo, hi)' /\ Chain'
      BY <1>3, <2>1 DEF Searched, Chain
    <2>8. QED
      BY <2>6, <2>7
  <1>18. ASSUME Look
         PROVE  Searched(lo, hi)' /\ Parted(level, lo, hi)' /\ Chain'
    <2>1. /\ pc = "find" /\ pc' = "find" /\ at # NilPtr /\ ~Found(key, file[at])
          /\ path' = path /\ at' = Child(key, file[at]) /\ key' = key
      BY <1>18 DEF Look
    <2>2. at \in Nodes /\ Within(key, at, lo, hi)
      BY <1>1, <1>2, <2>1 DEF Searched, TypeOK, Nodes
    <2>3. /\ at' # NilPtr => Within(key, at', lo, hi)
          /\ at' = NilPtr => key \notin Contents
      BY <1>3, <2>1, <2>2, SearchStep
    <2>4. Contents' = Contents
      BY <1>3, <2>1, ContentsKept
    <2>5. Searched(lo, hi)'
      BY <2>1, <2>3, <2>4 DEF Searched, Within
    <2>6. Parted(level, lo, hi)' /\ Chain'
      BY <1>3, <2>1 DEF Parted, Chain
    <2>7. QED
      BY <2>5, <2>6
  <1>19. QED
    BY <1>13, <1>14, <1>15, <1>16, <1>17, <1>18 DEF ReadStep

-----------------------------------------------------------------------------
(* A node with an item has the keys it had, and the item.                        *)
LEMMA WideKeys ==
  ASSUME NEW node, Len(node.key) \in Nat, NEW item, NEW right,
         NEW place \in 0 .. Len(node.key), NEW wide, IsWidened(wide, node, item, right, place),
         NEW k
  PROVE  Has(wide, k) <=> Has(node, k) \/ k = item
  <1>1. /\ Len(wide.key) = Len(node.key) + 1
        /\ \A i \in 1 .. Len(node.key) + 1 :
             wide.key[i] = IF i < place + 1 THEN node.key[i]
                           ELSE IF i = place + 1 THEN item ELSE node.key[i - 1]
    BY DEF IsWidened
  <1>2. ASSUME NEW i \in 1 .. Len(wide.key), wide.key[i] = k
        PROVE  Has(node, k) \/ k = item
    <2>1. i < place + 1 => i \in 1 .. Len(node.key) /\ wide.key[i] = node.key[i]
      BY <1>1
    <2>2. i > place + 1 => i - 1 \in 1 .. Len(node.key) /\ wide.key[i] = node.key[i - 1]
      BY <1>1
    <2>3. i = place + 1 => wide.key[i] = item
      BY <1>1
    <2>4. i < place + 1 \/ i = place + 1 \/ i > place + 1
      BY <1>1
    <2>5. QED
      BY <1>2, <2>1, <2>2, <2>3, <2>4 DEF Has
  <1>3. ASSUME NEW i \in 1 .. Len(node.key), node.key[i] = k PROVE Has(wide, k)
    <2>1. i < place + 1 => i \in 1 .. Len(wide.key) /\ wide.key[i] = node.key[i]
      BY <1>1
    <2>2. i >= place + 1 => i + 1 \in 1 .. Len(wide.key) /\ wide.key[i + 1] = node.key[i]
      <3>1. i >= place + 1 => /\ i + 1 \in 1 .. Len(node.key) + 1 /\ i + 1 > place + 1
                              /\ i + 1 - 1 = i
        OBVIOUS
      <3>2. QED
        BY <1>1, <3>1
    <2>3. i < place + 1 \/ i >= place + 1
      OBVIOUS
    <2>4. QED
      BY <1>3, <2>1, <2>2, <2>3 DEF Has
  <1>4. ASSUME k = item PROVE Has(wide, k)
    <2>1. place + 1 \in 1 .. Len(wide.key) /\ wide.key[place + 1] = item
      BY <1>1
    <2>2. QED
      BY <1>4, <2>1 DEF Has
  <1>5. QED
    BY <1>2, <1>3, <1>4 DEF Has

(* Its halves have them, but for the item that moves up.                         *)
LEMMA CutKeys ==
  ASSUME NEW wide, Len(wide.key) = MaxKeys + 1, NEW cut, IsCut(cut, wide), NEW k
  PROVE  Has(wide, k) <=> Has(cut.left, k) \/ Has(cut.right, k) \/ k = cut.item
  <1>1. /\ MinKeys \in Nat /\ MaxKeys \in Nat /\ MinKeys < MaxKeys
        /\ Len(cut.left.key) = MinKeys /\ Len(cut.right.key) = MaxKeys - MinKeys
        /\ cut.item = wide.key[MinKeys + 1]
        /\ \A i \in 1 .. MinKeys : cut.left.key[i] = wide.key[i]
        /\ \A i \in 1 .. MaxKeys - MinKeys : cut.right.key[i] = wide.key[MinKeys + 1 + i]
    <2>1. MinKeys \in Nat /\ MaxKeys \in Nat /\ MinKeys < MaxKeys
      BY Constants
    <2>2. QED
      BY <2>1 DEF IsCut
  <1>2. ASSUME NEW i \in 1 .. Len(wide.key), wide.key[i] = k
        PROVE  Has(cut.left, k) \/ Has(cut.right, k) \/ k = cut.item
    <2>1. CASE i < MinKeys + 1
      <3>1. i \in 1 .. MinKeys
        BY <1>1, <2>1
      <3>2. QED
        BY <1>1, <1>2, <3>1 DEF Has
    <2>2. CASE i = MinKeys + 1
      BY <1>1, <1>2, <2>2
    <2>3. CASE i > MinKeys + 1
      <3>1. i - MinKeys - 1 \in 1 .. MaxKeys - MinKeys /\ MinKeys + 1 + (i - MinKeys - 1) = i
        BY <1>1, <2>3
      <3>2. cut.right.key[i - MinKeys - 1] = wide.key[i]
        BY <1>1, <3>1
      <3>3. QED
        BY <1>1, <1>2, <3>1, <3>2 DEF Has
    <2>4. QED
      BY <1>1, <2>1, <2>2, <2>3
  <1>3. ASSUME NEW i \in 1 .. Len(cut.left.key), cut.left.key[i] = k PROVE Has(wide, k)
    <2>1. i \in 1 .. Len(wide.key) /\ wide.key[i] = k
      BY <1>1, <1>3
    <2>2. QED
      BY <2>1 DEF Has
  <1>4. ASSUME NEW i \in 1 .. Len(cut.right.key), cut.right.key[i] = k PROVE Has(wide, k)
    <2>1. i \in 1 .. MaxKeys - MinKeys
      BY <1>1
    <2>2. MinKeys + 1 + i \in 1 .. Len(wide.key)
      BY <1>1, <2>1
    <2>3. wide.key[MinKeys + 1 + i] = k
      BY <1>1, <1>4, <2>1
    <2>4. QED
      BY <2>2, <2>3 DEF Has
  <1>5. ASSUME k = cut.item PROVE Has(wide, k)
    <2>1. MinKeys + 1 \in 1 .. Len(wide.key)
      BY <1>1
    <2>2. QED
      BY <1>1, <1>5, <2>1 DEF Has
  <1>6. QED
    BY <1>2, <1>3, <1>4, <1>5 DEF Has

-----------------------------------------------------------------------------
(* Place adds the item to the gap that it parts.                                 *)
LEMMA RangedByPlace ==
  ASSUME Built, Place, NEW level \in [Branches -> Nat], Levels(level),
         NEW lo \in [Branches -> Int], NEW hi \in [Branches -> Int], Ranged(level, lo, hi)
  PROVE  Ranged(level, lo, hi)' /\ Chain' /\ Counted'
  <1>1. TypeOK /\ Levelled(level)
    BY DEF Built, Formed, Levels
  <1>2. /\ SortedNodes(lo, hi) /\ Apart(level, lo, hi) /\ Below(level, lo, hi)
        /\ Top(level, lo, hi) /\ Fits(lo, hi) /\ Parted(level, lo, hi)
    BY DEF Ranged
  <1>3. pc = "up" /\ path # <<>> /\ root' = root /\ Inserted
    BY DEF Place
  <1>4. /\ pc' = "idle" /\ path' = <<>> /\ numItems' = numItems + 1
        /\ header' = [items |-> numItems', root |-> root']
    BY <1>3 DEF Inserted
  <1> DEFINE c    == Caller.node
             p    == Caller.place
             item == moved.item
             node == file[c]
             wide == AddItem(item, moved.right, node, p)
             a    == lo[c]
             b    == hi[c]
  <1>5. /\ IsPlaced(c, wide) /\ Whole(wide) /\ IsWidened(wide, node, item, moved.right, p)
    BY PlaceFile
  <1>6. /\ c \in Nodes /\ p \in 0 .. Len(node.key) /\ p + 1 \in 1 .. Len(node.branch)
        /\ a <= HoleLeft(lo) /\ HoleRight(hi) <= b
        /\ HoleLeft(lo) \in Int /\ HoleRight(hi) \in Int
    BY <1>3, HoleFacts
  <1>7. /\ item \in Int /\ moved.right \in Branches /\ level[moved.right] \in Nat
        /\ level[c] = level[moved.right] + 1
    BY <1>1, <1>3, CallerFacts, Constants
  <1>8. /\ HoleNode = node.branch[p + 1] /\ HoleLeft(lo) = Left(node, a, p + 1)
        /\ HoleRight(hi) = Right(node, b, p + 1)
    BY <1>3 DEF HoleNode, HoleLeft, HoleRight
  <1>9. /\ HoleLeft(lo) < item /\ item < HoleRight(hi)
        /\ HoleNode # NilPtr => lo[HoleNode] = HoleLeft(lo) /\ hi[HoleNode] = item
        /\ moved.right # NilPtr => lo[moved.right] = item /\ hi[moved.right] = HoleRight(hi)
        /\ \A n \in Nodes : level[n] <= level[moved.right] => ~Within(item, n, lo, hi)
    BY <1>2, <1>3 DEF Parted
  <1>10. /\ Whole(node) /\ KeyTypes(node) /\ Len(node.key) \in Nat /\ a \in Int /\ b \in Int
         /\ Sorted(node, a, b) /\ Len(node.branch) = Len(node.key) + 1
    BY <1>1, <1>2, <1>6, NodeFacts DEF KeyTypes
  <1>11. /\ Nodes' = Nodes /\ file'[c] = wide
         /\ \A n \in Nodes : n # c => file'[n] = file[n]
    BY <1>5 DEF IsPlaced, Nodes
  <1> HIDE DEF c, p, node, wide, item, a, b
  <1>12. Sorted(wide, a, b)
    <2>1. a < item /\ item < b
      BY <1>6, <1>7, <1>9, <1>10
    <2>2. QED
      BY <1>5, <1>6, <1>7, <1>8, <1>9, <1>10, <2>1, WideSorted
  <1>13. SortedNodes(lo, hi)'
    BY <1>2, <1>11, <1>12 DEF SortedNodes, a, b
  <1>14. Apart(level, lo, hi)'
    BY <1>2, <1>11 DEF Apart
  <1>15. Below(level, lo, hi)'
    <2> SUFFICES ASSUME NEW m \in Nodes, NEW n \in Nodes, level[n] < level[m],
                        NEW i \in 1 .. Len(file'[m].key)
                 PROVE  ~Within(file'[m].key[i], n, lo, hi)
      BY <1>11 DEF Below, Within
    <2>1. CASE m # c
      BY <1>2, <1>11, <2>1 DEF Below
    <2>2. CASE m = c
      <3> DEFINE k == file'[m].key[i]
      <3>1. Has(wide, k)
        BY <1>11, <2>2 DEF Has
      <3> HIDE DEF k
      <3>2. Has(node, k) \/ k = item
        BY <1>5, <1>6, <1>10, <3>1, WideKeys
      <3>3. Has(node, k) => ~Within(k, n, lo, hi)
        BY <1>2, <2>2 DEF Below, Has, node
      <3>4. level[n] <= level[moved.right]
        <4>1. level[n] \in Nat
          BY <1>1, LevelsOfNodes
        <4>2. QED
          BY <1>7, <2>2, <4>1
      <3>5. QED
        BY <1>9, <3>2, <3>3, <3>4 DEF k
    <2>3. QED
      BY <2>1, <2>2
  <1>16. Top(level, lo, hi)'
    BY <1>2, <1>3, <1>11 DEF Top
  <1>17. AllLead(wide, a, b, lo, hi)
    <2>1. \A i \in 1 .. Len(node.branch) : i # p + 1 => Leads(node, a, b, i, lo, hi)
      BY <1>2, <1>6 DEF Fits, IsHole, node, c, p, a, b
    <2>2. LET d == node.branch[p + 1]
          IN  d # NilPtr => lo[d] = Left(node, a, p + 1) /\ hi[d] = item
      BY <1>8, <1>9
    <2>3. moved.right # NilPtr => lo[moved.right] = item /\ hi[moved.right] = Right(node, b, p + 1)
      BY <1>8, <1>9
    <2>4. QED
      BY <1>5, <1>6, <1>10, <2>1, <2>2, <2>3, WideLeads
  <1>18. Fits(lo, hi)'
    <2> SUFFICES ASSUME NEW n \in Nodes, NEW i \in 1 .. Len(file'[n].branch)
                 PROVE  Leads(file'[n], lo[n], hi[n], i, lo, hi)
      BY <1>11 DEF Fits
    <2>1. CASE n = c
      BY <1>11, <1>17, <2>1 DEF AllLead, a, b
    <2>2. CASE n # c
      BY <1>2, <1>11, <2>2 DEF Fits, IsHole, c
    <2>3. QED
      BY <2>1, <2>2
  <1>19. Searched(lo, hi)' /\ Parted(level, lo, hi)'
    BY <1>4 DEF Searched, Parted
  <1>20. Chain'
    <2>1. Len(path') = 0
      BY <1>4
    <2>2. QED
      BY <2>1 DEF Chain
  <1>21. Counted'
    <2>1. numItems \in Nat
      BY <1>1 DEF TypeOK
    <2>2. numItems' # 0
      BY <1>4, <2>1
    <2>3. QED
      BY <1>4, <2>2 DEF Counted
  <1>22. QED
    BY <1>13, <1>14, <1>15, <1>16, <1>18, <1>19, <1>20, <1>21 DEF Ranged

-----------------------------------------------------------------------------
(* The node that a node of the file was, or was a part of, before a split of c.  *)
Origin(n, c) == IF n = NumNodes + 1 THEN c ELSE n

(* The ranges that a split of c at x leaves.                                     *)
Cuts(lo2, hi2, lo, hi, c, x) ==
  /\ lo2[NumNodes + 1] = x /\ hi2[NumNodes + 1] = hi[c]
  /\ lo2[c] = lo[c] /\ hi2[c] = x
  /\ \A b \in Branches : b # c => lo2[b] = lo[b] /\ hi2[b] = hi[b]

(* There are such ranges: the halves share that of the node.                     *)
LEMMA CutRanges ==
  ASSUME NumNodes \in Nat, NEW lo \in [Branches -> Int], NEW hi \in [Branches -> Int],
         NEW c \in Nodes, NEW x \in Int, Branches' = Branches \cup {NumNodes + 1}
  PROVE  \E lo2, hi2 \in [Branches' -> Int] : Cuts(lo2, hi2, lo, hi, c, x)
  <1> DEFINE f == [b \in Branches' |-> IF b = NumNodes + 1 THEN x ELSE lo[b]]
             g == [b \in Branches' |-> IF b = NumNodes + 1 THEN hi[c]
                                       ELSE IF b = c THEN x ELSE hi[b]]
  <1>1. c \in Branches /\ NumNodes + 1 \notin Branches
    BY DEF Nodes, Branches, NilPtr
  <1>2. f \in [Branches' -> Int] /\ g \in [Branches' -> Int]
    BY <1>1
  <1>3. Cuts(f, g, lo, hi, c, x)
    BY <1>1 DEF Cuts
  <1> HIDE DEF f, g
  <1>4. QED
    BY <1>2, <1>3

(* A branch that does not lead to c leads where it did, whatever becomes of c.   *)
LEMMA LeadsStill ==
  ASSUME NEW node, NEW a, NEW b, NEW i \in 1 .. Len(node.branch),
         NEW lo, NEW hi, NEW lo2, NEW hi2, NEW c, NEW x, Cuts(lo2, hi2, lo, hi, c, x),
         Leads(node, a, b, i, lo, hi), node.branch[i] \in Branches, node.branch[i] # c
  PROVE  Leads(node, a, b, i, lo2, hi2)
  <1> DEFINE d == node.branch[i]
  <1>1. lo2[d] = lo[d] /\ hi2[d] = hi[d]
    BY DEF Cuts
  <1>2. QED
    BY <1>1 DEF Leads

(* Split parts the range of the node between its halves.                         *)
LEMMA RangedBySplit ==
  ASSUME Built, Chain, Counted, Split, NEW level \in [Branches -> Nat], Levels(level),
         NEW lo \in [Branches -> Int], NEW hi \in [Branches -> Int], Ranged(level, lo, hi)
  PROVE  /\ Chain' /\ Counted'
         /\ \E after \in [Branches' -> Nat] : \E lo2, hi2 \in [Branches' -> Int] :
              Levels(after)' /\ Ranged(after, lo2, hi2)'
  <1>1. TypeOK /\ FromRoot /\ Levelled(level)
    BY DEF Built, Formed, Levels
  <1>2. /\ SortedNodes(lo, hi) /\ Apart(level, lo, hi) /\ Below(level, lo, hi)
        /\ Top(level, lo, hi) /\ Fits(lo, hi) /\ Parted(level, lo, hi)
    BY DEF Ranged
  <1>3. /\ pc = "up" /\ pc' = "up" /\ path # <<>> /\ path' = Front(path)
        /\ root' = root /\ numItems' = numItems /\ header' = header
    BY DEF Split
  <1> DEFINE c    == Caller.node
             p    == Caller.place
             item == moved.item
             node == file[c]
             wide == AddItem(item, moved.right, node, p)
             cut  == Halves(item, moved.right, node, p)
             a    == lo[c]
             b    == hi[c]
             x    == cut.item
             new  == NumNodes + 1
             l    == level[moved.right]
  <1>4. /\ IsSplit(c, cut) /\ NodesOK(file', Branches) /\ Whole(wide) /\ IsCut(cut, wide)
        /\ Len(wide.key) = MaxKeys + 1 /\ IsWidened(wide, node, item, moved.right, p)
        /\ moved' = [item |-> x, right |-> new] /\ x \in Key
        /\ AllAt(cut.left, level, l) /\ AllAt(cut.right, level, l)
    BY SplitFile
  <1>5. /\ Caller = path[Len(path)] /\ root \in Branches
        /\ level[c] = level[root] - Len(path) + 1 /\ level[c] = l + 1 /\ l \in Nat
        /\ item \in Int /\ moved.right \in Branches /\ level[root] \in Nat
    BY <1>3, CallerOnPath, CallerFacts, Constants
  <1>6. /\ c \in Nodes /\ p \in 0 .. Len(node.key) /\ p + 1 \in 1 .. Len(node.branch)
        /\ a <= HoleLeft(lo) /\ HoleRight(hi) <= b
        /\ HoleLeft(lo) \in Int /\ HoleRight(hi) \in Int
    BY <1>3, HoleFacts
  <1>7. /\ HoleNode = node.branch[p + 1] /\ HoleLeft(lo) = Left(node, a, p + 1)
        /\ HoleRight(hi) = Right(node, b, p + 1)
    BY <1>3 DEF HoleNode, HoleLeft, HoleRight
  <1>8. /\ HoleLeft(lo) < item /\ item < HoleRight(hi)
        /\ HoleNode # NilPtr => lo[HoleNode] = HoleLeft(lo) /\ hi[HoleNode] = item
        /\ moved.right # NilPtr => lo[moved.right] = item /\ hi[moved.right] = HoleRight(hi)
        /\ \A n \in Nodes : level[n] <= l => ~Within(item, n, lo, hi)
    BY <1>2, <1>3 DEF Parted
  <1>9. /\ Whole(node) /\ KeyTypes(node) /\ Len(node.key) \in Nat /\ a \in Int /\ b \in Int
        /\ Sorted(node, a, b) /\ Len(node.branch) = Len(node.key) + 1
        /\ c \in Branches /\ NumNodes \in Nat
    BY <1>1, <1>2, <1>6, NodeFacts, FileTypes DEF KeyTypes
  <1>10. PICK after \in [Branches' -> Nat] : Levels(after)' /\ Extends(after, level, level[c])
    BY LevelsBySplit
  <1>11. Branches' = Branches \cup {new}
    BY LevelsBySplit
  <1>12. /\ NumNodes' = new /\ Nodes' = Nodes \cup {new} /\ new \notin Nodes
         /\ Nodes \subseteq Branches /\ new \notin Branches
    <2>1. NumNodes' = new /\ NumNodes \in Nat
      BY <1>4, <1>9 DEF IsSplit
    <2>2. QED
      BY <2>1 DEF Nodes, Branches, NilPtr
  <1>13. /\ file'[new] = cut.right /\ file'[c] = cut.left
         /\ \A n \in Nodes : n # c => file'[n] = file[n]
    BY <1>4 DEF IsSplit, Nodes
  <1>14. /\ Len(path) \in Nat \ {0} /\ Len(path') = Len(path) - 1
         /\ \A j \in 1 .. Len(path) - 1 : path'[j] = path[j]
         /\ path' \in Seq([node : 1 .. NumNodes, place : 0 .. MaxKeys])
    BY <1>1, <1>3, FrontOfPath
  <1> HIDE DEF c, p, node, wide, item, a, b, cut, x, l
  <1>15. Sorted(wide, a, b) /\ KeyTypes(wide)
    <2>1. a < item /\ item < b
      <3>1. /\ a \in Int /\ b \in Int /\ item \in Int
            /\ HoleLeft(lo) \in Int /\ HoleRight(hi) \in Int
        BY <1>5, <1>6, <1>9
      <3>2. a <= HoleLeft(lo) /\ HoleLeft(lo) < item /\ item < HoleRight(hi) /\ HoleRight(hi) <= b
        BY <1>6, <1>8
      <3>3. QED
        BY <3>1, <3>2
    <2>2. QED
      BY <1>4, <1>5, <1>6, <1>7, <1>8, <1>9, <2>1, WideSorted
  <1>16. /\ a < x /\ x < b /\ x \in Int
         /\ Sorted(cut.left, a, x) /\ Sorted(cut.right, x, b)
    BY <1>4, <1>9, <1>15, CutSorted DEF x
  <1>17. AllLead(wide, a, b, lo, hi)
    <2>1. \A i \in 1 .. Len(node.branch) : i # p + 1 => Leads(node, a, b, i, lo, hi)
      BY <1>2, <1>6 DEF Fits, IsHole, node, c, p, a, b
    <2>2. LET d == node.branch[p + 1]
          IN  d # NilPtr => lo[d] = Left(node, a, p + 1) /\ hi[d] = item
      BY <1>7, <1>8
    <2>3. moved.right # NilPtr => lo[moved.right] = item /\ hi[moved.right] = Right(node, b, p + 1)
      BY <1>7, <1>8
    <2>4. QED
      BY <1>4, <1>6, <1>9, <2>1, <2>2, <2>3, WideLeads
  <1>18. AllLead(cut.left, a, x, lo, hi) /\ AllLead(cut.right, x, b, lo, hi)
    BY <1>4, <1>17, CutLeads DEF x
  <1>19. PICK lo2, hi2 \in [Branches' -> Int] : Cuts(lo2, hi2, lo, hi, c, x)
    BY <1>6, <1>9, <1>11, <1>16, CutRanges
  <1>20. /\ after[new] = level[c] /\ lo2[new] = x /\ hi2[new] = b
         /\ after[c] = level[c] /\ lo2[c] = a /\ hi2[c] = x
         /\ \A n \in Branches : n # c => /\ after[n] = level[n]
                                         /\ lo2[n] = lo[n] /\ hi2[n] = hi[n]
    BY <1>9, <1>10, <1>19 DEF Cuts, Extends, a, b
  <1> HIDE DEF new
  <1>21. ASSUME NEW n \in Nodes'
         PROVE  /\ Origin(n, c) \in Nodes /\ level[Origin(n, c)] \in Nat
                /\ after[n] = level[Origin(n, c)]
                /\ lo[Origin(n, c)] \in Int /\ hi[Origin(n, c)] \in Int
                /\ lo2[n] \in Int /\ hi2[n] \in Int
                /\ lo[Origin(n, c)] <= lo2[n] /\ hi2[n] <= hi[Origin(n, c)]
                /\ Origin(n, c) # c => n = Origin(n, c)
                /\ Origin(n, c) = c => n = c \/ n = new
    <2>1. n = new => Origin(n, c) = c
      BY DEF Origin, new
    <2>2. n # new => Origin(n, c) = n /\ n \in Nodes /\ n \in Branches
      BY <1>12 DEF Origin, new
    <2>3. CASE n = new \/ n = c
      <3>1. Origin(n, c) = c
        BY <2>1, <2>2, <2>3
      <3>2. after[n] = level[c] /\ level[c] \in Nat /\ lo2[n] \in {a, x} /\ hi2[n] \in {b, x}
        BY <1>9, <1>20, <2>3
      <3>3. lo[c] = a /\ hi[c] = b
        BY DEF a, b
      <3>4. QED
        BY <1>6, <1>9, <1>16, <2>3, <3>1, <3>2, <3>3
    <2>4. CASE n # new /\ n # c
      <3>1. Origin(n, c) = n /\ n \in Nodes /\ n \in Branches
        BY <2>2, <2>4
      <3>2. after[n] = level[n] /\ lo2[n] = lo[n] /\ hi2[n] = hi[n]
        BY <1>20, <2>4, <3>1
      <3>3. level[n] \in Nat /\ lo[n] \in Int /\ hi[n] \in Int
        BY <3>1
      <3>4. QED
        BY <2>4, <3>1, <3>2, <3>3
    <2>5. QED
      BY <2>3, <2>4
  <1>22. ASSUME NEW m \in Nodes', NEW k, Has(file'[m], k)
         PROVE  Has(file[Origin(m, c)], k) \/ (Origin(m, c) = c /\ k = item)
    <2>1. CASE Origin(m, c) # c
      <3>1. m = Origin(m, c) /\ Origin(m, c) \in Nodes
        BY <1>21, <2>1
      <3>2. file'[m] = file[Origin(m, c)]
        BY <1>13, <2>1, <3>1
      <3>3. QED
        BY <1>22, <3>2
    <2>2. CASE Origin(m, c) = c
      <3>1. Has(cut.left, k) \/ Has(cut.right, k)
        BY <1>13, <1>21, <1>22, <2>2
      <3>2. Has(wide, k)
        BY <1>4, <3>1, CutKeys
      <3>3. Has(node, k) \/ k = item
        BY <1>4, <1>6, <1>9, <3>2, WideKeys
      <3>4. QED
        BY <2>2, <3>3 DEF node
    <2>3. QED
      BY <2>1, <2>2
  <1>23. SortedNodes(lo2, hi2)'
    <2> SUFFICES ASSUME NEW n \in Nodes' PROVE Sorted(file'[n], lo2[n], hi2[n])
      BY DEF SortedNodes
    <2>1. CASE n = c \/ n = new
      BY <1>13, <1>16, <1>20, <2>1
    <2>2. CASE n # c /\ n # new
      BY <1>2, <1>12, <1>13, <1>20, <2>2 DEF SortedNodes
    <2>3. QED
      BY <2>1, <2>2
  <1>24. Apart(after, lo2, hi2)'
    <2> SUFFICES ASSUME NEW m \in Nodes', NEW n \in Nodes', m # n, after[m] = after[n]
                 PROVE  hi2[m] <= lo2[n] \/ hi2[n] <= lo2[m]
      BY DEF Apart
    <2> DEFINE om == Origin(m, c)
               on == Origin(n, c)
    <2>1. /\ om \in Nodes /\ on \in Nodes /\ level[om] = level[on]
          /\ lo[om] \in Int /\ hi[om] \in Int /\ lo2[m] \in Int /\ hi2[m] \in Int
          /\ lo[on] \in Int /\ hi[on] \in Int /\ lo2[n] \in Int /\ hi2[n] \in Int
          /\ lo[om] <= lo2[m] /\ hi2[m] <= hi[om] /\ lo[on] <= lo2[n] /\ hi2[n] <= hi[on]
      BY <1>21
    <2>2. CASE om = on
      <3>1. (m = c /\ n = new) \/ (m = new /\ n = c)
        <4>1. om # c => m = om
          BY <1>21
        <4>2. on # c => n = on
          BY <1>21
        <4>3. om = c => m = c \/ m = new
          BY <1>21
        <4>4. on = c => n = c \/ n = new
          BY <1>21
        <4>5. QED
          BY <2>2, <4>1, <4>2, <4>3, <4>4
      <3>2. QED
        BY <1>16, <1>20, <3>1
    <2>3. CASE om # on
      <3>1. hi[om] <= lo[on] \/ hi[on] <= lo[om]
        BY <1>2, <2>1, <2>3 DEF Apart
      <3> HIDE DEF om, on
      <3>2. QED
        BY <2>1, <3>1
    <2>4. QED
      BY <2>2, <2>3
  <1>25. ASSUME NEW n \in Nodes', NEW k \in Int, Within(k, n, lo2, hi2)
         PROVE  Within(k, Origin(n, c), lo, hi)
    BY <1>21, <1>25 DEF Within
  <1>26. Below(after, lo2, hi2)'
    <2> SUFFICES ASSUME NEW m \in Nodes', NEW n \in Nodes', after[n] < after[m],
                        NEW i \in 1 .. Len(file'[m].key), Within(file'[m].key[i], n, lo2, hi2)
                 PROVE  FALSE
      BY DEF Below, Within
    <2> DEFINE om == Origin(m, c)
               on == Origin(n, c)
               k  == file'[m].key[i]
    <2>1. om \in Nodes /\ on \in Nodes /\ level[on] < level[om] /\ level[on] \in Nat
      BY <1>21
    <2>2. Has(file'[m], k)
      BY DEF Has
    <2> HIDE DEF om, on, k
    <2>3. Has(file[om], k) \/ (om = c /\ k = item)
      <3>1. m \in Nodes'
        OBVIOUS
      <3>2. \A v : Has(file'[m], v) => Has(file[om], v) \/ (om = c /\ v = item)
        BY <1>22, <3>1 DEF om
      <3>3. QED
        BY <2>2, <3>2
    <2>4. k \in Int
      <3>1. KeyTypes(file[om])
        BY <1>1, <1>2, <2>1, NodeFacts
      <3>2. QED
        BY <1>5, <2>3, <3>1 DEF Has, KeyTypes
    <2>5. Within(k, on, lo, hi)
      BY <1>25, <2>4 DEF on, k
    <2>6. ~Has(file[om], k)
      BY <1>2, <2>1, <2>5 DEF Below, Has
    <2>7. level[on] <= l
      BY <1>5, <2>1, <2>3, <2>6
    <2>8. QED
      BY <1>8, <2>1, <2>3, <2>5, <2>6, <2>7
  <1>27. ASSUME path' = <<>> PROVE c = root
    <2>1. Len(path') = 0
      BY <1>27
    <2>2. Len(path) = 1
      BY <1>14, <2>1
    <2>3. QED
      BY <1>1, <1>3, <1>5, <2>2 DEF FromRoot, c
  <1>28. ASSUME path' # <<>>
         PROVE  LET d == Caller'.node
                    j == Caller'.place + 1
                IN  /\ c # root /\ d \in Nodes /\ d # c
                    /\ j \in 1 .. Len(file[d].branch)
                    /\ file[d].branch[j] = c /\ Leads(file[d], lo[d], hi[d], j, lo, hi)
    <2> DEFINE q == path[Len(path) - 1]
               j == q.place + 1
    <2>1. Len(path') # 0
      BY <1>14, <1>28, EmptySeq
    <2>2. Len(path) - 1 \in 1 .. Len(path) /\ Len(path) - 1 \in 1 .. Len(path) - 1
      BY <1>14, <2>1
    <2>3. Caller' = q
      BY <1>14, <2>2 DEF Caller, Last
    <2>4. q \in [node : 1 .. NumNodes, place : 0 .. MaxKeys]
      <3>1. path \in Seq([node : 1 .. NumNodes, place : 0 .. MaxKeys])
        BY <1>1 DEF TypeOK
      <3>2. QED
        BY <2>2, <3>1, ElementOfSeq
    <2>5. /\ level[q.node] = level[root] - (Len(path) - 1) + 1
          /\ q.place <= Len(file[q.node].key)
      BY <2>2 DEF Levels, PathDown
    <2>6. file[q.node].branch[q.place + 1] = path[Len(path)].node
      <3>1. Len(path) - 1 + 1 = Len(path)
        BY <1>14
      <3>2. QED
        BY <2>2, <3>1 DEF Chain
    <2> HIDE DEF q
    <2>7. c = path[Len(path)].node
      BY <1>5 DEF c
    <2>8. /\ q.node \in Nodes /\ q.place \in Nat /\ q.node \in Branches
          /\ level[q.node] = level[c] + 1
      BY <1>5, <1>12, <1>14, <2>4, <2>5, Constants DEF Nodes
    <2>9. q.node # c
      BY <1>5, <2>8
    <2>10. c # root
      BY <1>5, <1>14, <2>2
    <2>11. j \in 1 .. Len(file[q.node].branch)
      <3>1. /\ Len(file[q.node].key) \in Nat
            /\ Len(file[q.node].branch) = Len(file[q.node].key) + 1
        BY <1>1, <2>8, FileTypes DEF Nodes
      <3>2. QED
        <4>1. q.place \in Nat /\ q.place <= Len(file[q.node].key)
          BY <2>5, <2>8
        <4>2. q.place + 1 \in 1 .. Len(file[q.node].key) + 1
          BY <3>1, <4>1
        <4>3. QED
          BY <3>1, <4>2 DEF j
    <2> HIDE DEF j
    <2>12. Leads(file[q.node], lo[q.node], hi[q.node], j, lo, hi)
      BY <1>2, <2>8, <2>9, <2>11 DEF Fits, IsHole, c
    <2>13. QED
      BY <2>3, <2>6, <2>7, <2>8, <2>9, <2>10, <2>11, <2>12 DEF j
  <1>29. HoleNode' = c /\ HoleLeft(lo2)' = a /\ HoleRight(hi2)' = b
    <2>1. CASE path' = <<>>
      <3>1. c = root
        BY <1>27, <2>1
      <3>2. c # NilPtr
        BY <1>6, <1>9 DEF Nodes, NilPtr
      <3>3. a = -Half - 1 /\ b = Half
        BY <1>2, <1>3, <3>1, <3>2 DEF Top, a, b
      <3>4. QED
        BY <1>3, <2>1, <3>1, <3>3 DEF HoleNode, HoleLeft, HoleRight
    <2>2. CASE path' # <<>>
      <3> DEFINE d == Caller'.node
                 j == Caller'.place + 1
      <3>1. /\ d \in Nodes /\ d # c /\ file[d].branch[j] = c
            /\ Leads(file[d], lo[d], hi[d], j, lo, hi)
        BY <1>28, <2>2
      <3>2. file'[d] = file[d] /\ lo2[d] = lo[d] /\ hi2[d] = hi[d]
        BY <1>12, <1>13, <1>20, <3>1
      <3>3. c # NilPtr
        BY <1>6, <1>9 DEF Nodes, NilPtr
      <3>4. a = Left(file[d], lo[d], j) /\ b = Right(file[d], hi[d], j)
        BY <3>1, <3>3 DEF Leads, a, b
      <3>5. /\ HoleNode' = file'[d].branch[j]
            /\ HoleLeft(lo2)' = Left(file'[d], lo2[d], j)
            /\ HoleRight(hi2)' = Right(file'[d], hi2[d], j)
        BY <2>2 DEF HoleNode, HoleLeft, HoleRight
      <3> HIDE DEF d, j
      <3>6. QED
        BY <3>1, <3>2, <3>4, <3>5
    <2>3. QED
      BY <2>1, <2>2
  <1>30. Top(after, lo2, hi2)'
    <2>1. ASSUME NEW n \in Nodes' PROVE after[n] <= after[root]
      <3>1. level[Origin(n, c)] <= level[root]
        BY <1>2, <1>21 DEF Top
      <3>2. after[root] = level[root]
        BY <1>5, <1>20
      <3>3. QED
        BY <1>21, <3>1, <3>2
    <2>2. ASSUME root # NilPtr, path' # <<>>
          PROVE  lo2[root] = -Half - 1 /\ hi2[root] = Half
      <3>1. c # root
        BY <1>28, <2>2
      <3>2. lo[root] = -Half - 1 /\ hi[root] = Half
        BY <1>2, <1>3, <2>2 DEF Top
      <3>3. QED
        BY <1>5, <1>20, <3>1, <3>2
    <2>3. QED
      BY <1>3, <2>1, <2>2 DEF Top
  <1>31. Fits(lo2, hi2)'
    <2>1. ASSUME NEW half, half = cut.left \/ half = cut.right, NEW u, NEW v,
                 AllLead(half, u, v, lo, hi)
          PROVE  AllLead(half, u, v, lo2, hi2)
      <3> SUFFICES ASSUME NEW i \in 1 .. Len(half.branch)
                   PROVE  Leads(half, u, v, i, lo2, hi2)
        BY DEF AllLead
      <3>1. \E n \in 1 .. Len(file') : half = file'[n]
        <4>1. c \in 1 .. Len(file') /\ new \in 1 .. Len(file')
          BY <1>6, <1>9, <1>12 DEF NumNodes, Nodes, new
        <4>2. QED
          BY <1>13, <2>1, <4>1
      <3>2. half \in NodeIn(Branches)
        BY <1>4, <3>1 DEF NodesOK
      <3>3. half.branch[i] \in Branches
        BY <3>2 DEF NodeIn
      <3>4. level[half.branch[i]] = l
        BY <1>4, <2>1 DEF AllAt
      <3>5. half.branch[i] # c
        BY <1>5, <3>4
      <3>6. Leads(half, u, v, i, lo, hi)
        BY <2>1 DEF AllLead
      <3>7. QED
        BY <1>19, <3>3, <3>5, <3>6, LeadsStill
    <2> SUFFICES ASSUME NEW n \in Nodes', NEW i \in 1 .. Len(file'[n].branch), ~IsHole(n, i)'
                 PROVE  Leads(file'[n], lo2[n], hi2[n], i, lo2, hi2)
      BY DEF Fits
    <2>2. CASE n = c
      <3>1. AllLead(cut.left, a, x, lo2, hi2)
        BY <1>18, <2>1
      <3>2. QED
        BY <1>13, <1>20, <2>2, <3>1 DEF AllLead
    <2>3. CASE n = new
      <3>1. AllLead(cut.right, x, b, lo2, hi2)
        BY <1>18, <2>1
      <3>2. QED
        BY <1>13, <1>20, <2>3, <3>1 DEF AllLead
    <2>4. CASE n # c /\ n # new
      <3>1. n \in Nodes /\ file'[n] = file[n] /\ lo2[n] = lo[n] /\ hi2[n] = hi[n]
        BY <1>12, <1>13, <1>20, <2>4
      <3>2. i \in 1 .. Len(file[n].branch) /\ file[n].branch[i] \in Branches
        BY <1>1, <3>1, FileTypes DEF Nodes
      <3>3. Leads(file[n], lo[n], hi[n], i, lo, hi)
        BY <1>2, <2>4, <3>1, <3>2 DEF Fits, IsHole, c
      <3>4. ASSUME file[n].branch[i] = c PROVE FALSE
        <4>1. c # NilPtr
          BY <1>6, <1>9 DEF Nodes, NilPtr
        <4>2. CASE path' = <<>>
          <5>1. c = root
            BY <1>27, <4>2
          <5>2. level[n] = level[root] + 1
            BY <1>1, <3>1, <3>2, <3>4, <5>1 DEF Levelled, Nodes
          <5>3. level[n] <= level[root]
            BY <1>2, <3>1 DEF Top
          <5>4. QED
            BY <1>5, <5>2, <5>3
        <4>3. CASE path' # <<>>
          <5>1. PICK d, j : /\ d = Caller'.node /\ j = Caller'.place + 1 /\ d \in Nodes
                            /\ j \in 1 .. Len(file[d].branch) /\ file[d].branch[j] = c
                            /\ Leads(file[d], lo[d], hi[d], j, lo, hi)
            BY <1>28, <4>3
          <5>2. ~(n = d /\ i = j)
            BY <1>3, <4>3, <5>1 DEF IsHole
          <5>3. n = d /\ i = j
            <6>1. file[n].branch[i] = file[d].branch[j] /\ file[n].branch[i] # NilPtr
              BY <3>4, <4>1, <5>1
            <6>2. n \in Nodes /\ i \in 1 .. Len(file[n].branch)
              BY <3>1, <3>2
            <6>3. /\ d \in Nodes /\ j \in 1 .. Len(file[d].branch)
                  /\ Leads(file[d], lo[d], hi[d], j, lo, hi)
              BY <5>1
            <6>4. TypeOK /\ Levelled(level) /\ SortedNodes(lo, hi) /\ Apart(level, lo, hi)
              BY <1>1, <1>2
            <6>5. Same(n, i, d, j)
              BY <3>3, <6>1, <6>2, <6>3, <6>4, OneParent
            <6>6. QED
              BY <6>5 DEF Same
          <5>4. QED
            BY <5>2, <5>3
        <4>4. QED
          BY <4>2, <4>3
      <3>5. Leads(file[n], lo[n], hi[n], i, lo2, hi2)
        BY <1>19, <3>2, <3>3, <3>4, LeadsStill
      <3>6. QED
        BY <3>1, <3>5
    <2>5. QED
      BY <2>2, <2>3, <2>4
  <1>32. Parted(after, lo2, hi2)'
    <2>1. moved'.item = x /\ moved'.right = new
      BY <1>4 DEF new
    <2>2. ASSUME NEW n \in Nodes', after[n] <= after[new], Within(x, n, lo2, hi2)
          PROVE  FALSE
      <3> DEFINE o == Origin(n, c)
      <3>1. o \in Nodes /\ level[o] <= level[c] /\ level[o] \in Nat
        BY <1>20, <1>21, <2>2
      <3>2. Within(x, o, lo, hi)
        BY <1>16, <1>25, <2>2
      <3>3. o # c
        <4>1. ASSUME o = c PROVE FALSE
          <5>1. n = c \/ n = new
            BY <1>21, <4>1
          <5>2. QED
            BY <1>16, <1>20, <2>2, <5>1 DEF Within
        <4>2. QED
          BY <4>1
      <3> HIDE DEF o
      <3>4. CASE level[o] = level[c]
        <4>1. hi[o] <= a \/ b <= lo[o]
          BY <1>2, <1>6, <3>1, <3>3, <3>4 DEF Apart, a, b
        <4>2. lo[o] \in Int /\ hi[o] \in Int
          BY <1>12, <3>1
        <4>3. QED
          BY <1>9, <1>16, <3>2, <4>1, <4>2 DEF Within
      <3>5. CASE level[o] < level[c]
        <4>1. Has(wide, x)
          BY <1>4, CutKeys DEF x
        <4>2. Has(node, x) \/ x = item
          BY <1>4, <1>6, <1>9, <4>1, WideKeys
        <4>3. ~Has(node, x)
          BY <1>2, <1>6, <3>1, <3>2, <3>5 DEF Below, Has, node
        <4>4. level[o] <= l
          BY <1>5, <3>1, <3>5
        <4>5. QED
          BY <1>8, <3>1, <3>2, <4>2, <4>3, <4>4
      <3>6. QED
        BY <1>5, <1>9, <3>1, <3>4, <3>5
    <2>3. QED
      BY <1>16, <1>20, <1>29, <2>1, <2>2 DEF Parted, Within
  <1>33. Searched(lo2, hi2)'
    BY <1>3 DEF Searched
  <1>34. Chain'
    <2> SUFFICES ASSUME NEW j \in 1 .. Len(path) - 2
                 PROVE  file'[path'[j].node].branch[path'[j].place + 1] = path'[j + 1].node
      BY <1>14 DEF Chain
    <2>1. /\ j \in 1 .. Len(path) - 1 /\ j + 1 \in 1 .. Len(path) - 1 /\ j \in 1 .. Len(path)
          /\ j # Len(path)
      <3>1. Len(path) \in Nat
        BY <1>14
      <3>2. QED
        BY <3>1
    <2>2. path'[j] = path[j] /\ path'[j + 1] = path[j + 1]
      BY <1>14, <2>1
    <2>3. file[path[j].node].branch[path[j].place + 1] = path[j + 1].node
      BY <2>1 DEF Chain
    <2>4. path[j].node \in Nodes
      <3>1. path \in Seq([node : 1 .. NumNodes, place : 0 .. MaxKeys])
        BY <1>1 DEF TypeOK
      <3>2. path[j] \in [node : 1 .. NumNodes, place : 0 .. MaxKeys]
        BY <2>1, <3>1, ElementOfSeq
      <3>3. QED
        BY <3>2 DEF Nodes
    <2>5. level[path[j].node] = level[root] - j + 1
      BY <2>1 DEF Levels, PathDown
    <2>6. path[j].node # c
      <3>1. level[path[j].node] # level[c]
        BY <1>5, <1>14, <2>1, <2>5
      <3>2. QED
        BY <3>1
    <2>7. QED
      BY <1>13, <2>2, <2>3, <2>4, <2>6
  <1>35. Counted'
    <2>1. NumNodes # 0
      BY <1>6, <1>9 DEF Nodes
    <2>2. QED
      BY <1>3, <2>1 DEF Counted
  <1>36. Levels(after)' /\ Ranged(after, lo2, hi2)'
    BY <1>10, <1>23, <1>24, <1>26, <1>30, <1>31, <1>32, <1>33 DEF Ranged
  <1>37. QED
    BY <1>10, <1>19, <1>34, <1>35, <1>36

-----------------------------------------------------------------------------
(* Grow puts a root with the whole range above the two nodes that part it.       *)
LEMMA RangedByGrow ==
  ASSUME Built, Counted, Grow, NEW level \in [Branches -> Nat], Levels(level),
         NEW lo \in [Branches -> Int], NEW hi \in [Branches -> Int], Ranged(level, lo, hi)
  PROVE  /\ Chain' /\ Counted'
         /\ \E after \in [Branches' -> Nat] : \E lo2, hi2 \in [Branches' -> Int] :
              Levels(after)' /\ Ranged(after, lo2, hi2)'
  <1>1. TypeOK /\ Levelled(level)
    BY DEF Built, Formed, Levels
  <1>2. /\ SortedNodes(lo, hi) /\ Apart(level, lo, hi) /\ Below(level, lo, hi)
        /\ Top(level, lo, hi) /\ Fits(lo, hi) /\ Parted(level, lo, hi)
    BY DEF Ranged
  <1>3. pc = "up" /\ path = <<>> /\ root' = NumNodes + 1 /\ Inserted
    BY DEF Grow
  <1>4. /\ pc' = "idle" /\ path' = <<>> /\ numItems' = numItems + 1
        /\ header' = [items |-> numItems', root |-> root']
    BY <1>3 DEF Inserted
  <1> DEFINE item  == moved.item
             right == moved.right
             new   == NumNodes + 1
             node  == [key |-> <<item>>, branch |-> <<root, right>>]
  <1>5. /\ root \in Branches /\ item \in Key /\ item \in Int /\ right \in Branches
        /\ level[root] \in Nat /\ NumNodes \in Nat /\ numItems \in Nat
    BY <1>1, <1>3, FileTypes, Constants DEF TypeOK, Branches
  <1>6. level[right] = level[root]
    <2>1. Len(path) = 0
      BY <1>3
    <2>2. QED
      BY <1>3, <1>5, <2>1 DEF Levels, Deepest
  <1>7. /\ -Half - 1 < item /\ item < Half
        /\ root # NilPtr => lo[root] = -Half - 1 /\ hi[root] = item
        /\ right # NilPtr => lo[right] = item /\ hi[right] = Half
        /\ \A n \in Nodes : level[n] <= level[right] => ~Within(item, n, lo, hi)
    BY <1>2, <1>3 DEF Parted, HoleNode, HoleLeft, HoleRight
  <1>8. PICK after \in [Branches' -> Nat] :
          Levels(after)' /\ Extends(after, level, level[root] + 1)
    BY LevelsByGrow
  <1>9. IsGrown /\ Branches' = Branches \cup {new}
    BY LevelsByGrow
  <1>10. /\ Nodes' = Nodes \cup {new} /\ new \notin Nodes /\ Nodes \subseteq Branches
         /\ new \notin Branches /\ file'[new] = node
         /\ \A n \in Nodes : file'[n] = file[n]
    BY <1>5, <1>9 DEF IsGrown, Nodes, Branches, NilPtr
  <1>11. /\ Len(node.key) = 1 /\ node.key[1] = item /\ Len(node.branch) = 2
         /\ node.branch[1] = root /\ node.branch[2] = right
    OBVIOUS
  <1> HIDE DEF node, item, right
  <1>12. PICK lo2, hi2 \in [Branches' -> Int] :
           /\ lo2[new] = -Half - 1 /\ hi2[new] = Half
           /\ \A b \in Branches : lo2[b] = lo[b] /\ hi2[b] = hi[b]
    <2> DEFINE f == [b \in Branches' |-> IF b = new THEN -Half - 1 ELSE lo[b]]
               g == [b \in Branches' |-> IF b = new THEN Half ELSE hi[b]]
    <2>1. /\ f \in [Branches' -> Int] /\ f[new] = -Half - 1
          /\ \A b \in Branches : f[b] = lo[b]
      BY <1>9, <1>10, Constants
    <2>2. /\ g \in [Branches' -> Int] /\ g[new] = Half
          /\ \A b \in Branches : g[b] = hi[b]
      BY <1>9, <1>10, Constants
    <2> HIDE DEF f, g
    <2>3. QED
      BY <2>1, <2>2
  <1>13. /\ after[new] = level[root] + 1 /\ \A n \in Branches : after[n] = level[n]
         /\ \A n \in Nodes : level[n] \in Nat /\ level[n] <= level[root]
    BY <1>1, <1>2, <1>8, LevelsOfNodes DEF Extends, Top
  <1> HIDE DEF new
  <1>above. ASSUME NEW o \in Nodes
            PROVE  after[o] \in Nat /\ after[new] \in Nat /\ after[o] < after[new]
    <2>1. after[o] = level[o] /\ level[o] \in Nat /\ level[o] <= level[root]
      BY <1>10, <1>13
    <2>2. QED
      BY <1>5, <1>13, <2>1
  <1>14. SortedNodes(lo2, hi2)'
    <2> SUFFICES ASSUME NEW n \in Nodes' PROVE Sorted(file'[n], lo2[n], hi2[n])
      BY DEF SortedNodes
    <2>1. CASE n = new
      <3>1. Sorted(node, -Half - 1, Half)
        BY <1>7, <1>11 DEF Sorted
      <3>2. QED
        BY <1>10, <1>12, <2>1, <3>1
    <2>2. CASE n \in Nodes
      <3>1. n \in Branches /\ file'[n] = file[n]
        BY <1>10, <2>2
      <3>2. QED
        BY <1>2, <1>12, <2>2, <3>1 DEF SortedNodes
    <2>3. QED
      BY <1>10, <2>1, <2>2
  <1>15. Apart(after, lo2, hi2)'
    <2> SUFFICES ASSUME NEW m \in Nodes', NEW n \in Nodes', m # n, after[m] = after[n]
                 PROVE  hi2[m] <= lo2[n] \/ hi2[n] <= lo2[m]
      BY DEF Apart
    <2>1. ASSUME NEW o \in Nodes PROVE after[o] # after[new]
      BY <1>above
    <2>2. m \in Nodes /\ n \in Nodes /\ m \in Branches /\ n \in Branches
      BY <1>10, <2>1
    <2>3. level[m] = level[n]
      BY <1>13, <2>2
    <2>4. QED
      BY <1>2, <1>12, <2>2, <2>3 DEF Apart
  <1>16. Below(after, lo2, hi2)'
    <2> SUFFICES ASSUME NEW m \in Nodes', NEW n \in Nodes', after[n] < after[m],
                        NEW i \in 1 .. Len(file'[m].key), Within(file'[m].key[i], n, lo2, hi2)
                 PROVE  FALSE
      BY DEF Below, Within
    <2>1. ASSUME n = new PROVE FALSE
      <3>1. m \in Nodes => after[m] \in Nat /\ after[new] \in Nat /\ after[m] < after[new]
        BY <1>above
      <3>2. after[new] \in Nat
        BY <1>5, <1>13
      <3>3. QED
        BY <1>10, <2>1, <3>1, <3>2
    <2>2. n \in Nodes /\ n \in Branches
      BY <1>10, <2>1
    <2>3. Within(file'[m].key[i], n, lo, hi)
      BY <1>12, <2>2 DEF Within
    <2>4. CASE m = new
      <3>1. file'[m].key[i] = item
        BY <1>10, <1>11, <2>4
      <3>2. level[n] <= level[right]
        BY <1>6, <1>13, <2>2
      <3>3. QED
        BY <1>7, <2>2, <2>3, <3>1, <3>2
    <2>5. CASE m \in Nodes
      <3>1. m \in Branches /\ file'[m] = file[m]
        BY <1>10, <2>5
      <3>2. level[n] < level[m]
        BY <1>13, <2>2, <3>1
      <3>3. QED
        BY <1>2, <2>2, <2>3, <2>5, <3>1, <3>2 DEF Below
    <2>6. QED
      BY <1>10, <2>4, <2>5
  <1>17. Top(after, lo2, hi2)'
    <2>1. ASSUME NEW n \in Nodes' PROVE after[n] <= after[new]
      <3>1. n \in Nodes => after[n] \in Nat /\ after[new] \in Nat /\ after[n] < after[new]
        BY <1>above
      <3>2. after[new] \in Nat
        BY <1>5, <1>13
      <3>3. QED
        BY <1>10, <3>1, <3>2
    <2>2. root' = new
      BY <1>3 DEF new
    <2>3. QED
      BY <1>12, <2>1, <2>2 DEF Top
  <1>18. Fits(lo2, hi2)'
    <2> SUFFICES ASSUME NEW n \in Nodes', NEW i \in 1 .. Len(file'[n].branch)
                 PROVE  Leads(file'[n], lo2[n], hi2[n], i, lo2, hi2)
      BY DEF Fits
    <2>1. CASE n = new
      <3>1. i = 1 \/ i = 2
        <4>1. Len(file'[n].branch) = 2
          BY <1>10, <1>11, <2>1
        <4>2. QED
          BY <4>1
      <3>2. Leads(node, -Half - 1, Half, 1, lo2, hi2)
        BY <1>5, <1>7, <1>11, <1>12 DEF Leads, Left, Right
      <3>3. Leads(node, -Half - 1, Half, 2, lo2, hi2)
        BY <1>5, <1>7, <1>11, <1>12 DEF Leads, Left, Right
      <3>4. QED
        BY <1>10, <1>12, <2>1, <3>1, <3>2, <3>3
    <2>2. CASE n \in Nodes
      <3>1. n \in Branches /\ file'[n] = file[n]
        BY <1>10, <2>2
      <3>2. i \in 1 .. Len(file[n].branch) /\ file[n].branch[i] \in Branches
        BY <1>1, <2>2, <3>1, FileTypes DEF Nodes
      <3>3. Leads(file[n], lo[n], hi[n], i, lo, hi)
        BY <1>2, <1>3, <2>2, <3>2 DEF Fits, IsHole
      <3>4. QED
        BY <1>12, <3>1, <3>2, <3>3 DEF Leads
    <2>3. QED
      BY <1>10, <2>1, <2>2
  <1>19. Searched(lo2, hi2)' /\ Parted(after, lo2, hi2)'
    BY <1>4 DEF Searched, Parted
  <1>20. Chain'
    <2>1. Len(path') = 0
      BY <1>4
    <2>2. QED
      BY <2>1 DEF Chain
  <1>21. Counted'
    <2>1. numItems' # 0
      BY <1>4, <1>5
    <2>2. QED
      BY <1>4, <2>1 DEF Counted
  <1>22. Levels(after)' /\ Ranged(after, lo2, hi2)'
    BY <1>8, <1>14, <1>15, <1>16, <1>17, <1>18, <1>19 DEF Ranged
  <1>23. QED
    BY <1>12, <1>20, <1>21, <1>22

-----------------------------------------------------------------------------
(* Every key can be found in every reachable state.                              *)
THEOREM AlwaysSearchable == Near => (Spec => []Searchable)
  <1> SUFFICES ASSUME Near PROVE Spec => []Searchable
    OBVIOUS
  <1>1. Init => Searchable
    BY SearchableAtStart
  <1>2. ASSUME Searchable, [Next]_vars PROVE Searchable'
    <2>1. Built' /\ Built /\ Chain /\ Counted
      BY <1>2, BuiltByStep DEF Searchable
    <2>2. PICK level \in [Branches -> Nat] : \E lo, hi \in [Branches -> Int] :
            Levels(level) /\ Ranged(level, lo, hi)
      BY <1>2 DEF Searchable
    <2>3. PICK lo, hi \in [Branches -> Int] : Levels(level) /\ Ranged(level, lo, hi)
      BY <2>2
    <2> SUFFICES /\ Chain' /\ Counted'
                 /\ \E after \in [Branches' -> Nat] : \E lo2, hi2 \in [Branches' -> Int] :
                      Levels(after)' /\ Ranged(after, lo2, hi2)'
      BY <2>1 DEF Searchable
    <2>4. ASSUME Branches' = Branches, Levels(level)', Ranged(level, lo, hi)', Chain', Counted'
          PROVE  /\ Chain' /\ Counted'
                 /\ \E after \in [Branches' -> Nat] : \E lo2, hi2 \in [Branches' -> Int] :
                      Levels(after)' /\ Ranged(after, lo2, hi2)'
      BY <2>2, <2>3, <2>4
    <2>5. CASE ReadStep
      BY <2>1, <2>3, <2>4, <2>5, RangedWhileRead, LevelsWhileRead DEF Built
    <2>6. CASE Place
      BY <2>1, <2>3, <2>4, <2>6, RangedByPlace, LevelsByPlace
    <2>7. CASE Split
      BY <2>1, <2>3, <2>7, RangedBySplit
    <2>8. CASE Grow
      BY <2>1, <2>3, <2>8, RangedByGrow
    <2>9. CASE UNCHANGED vars
      <3>1. UNCHANGED <<file, numItems, root, header, pc, key, at, path, moved, answer>>
        BY <2>9 DEF vars
      <3>2. UNCHANGED <<Branches, Nodes, Contents, HoleNode>>
        BY <3>1 DEF Branches, Nodes, NumNodes, Contents, KeysOf, HoleNode, Caller
      <3>3. Levels(level)' /\ Chain' /\ Counted'
        BY <2>1, <2>3, <3>1, <3>2 DEF Levels, Levelled, PathDown, Deepest, NumNodes,
                                     Chain, Counted
      <3>4. Ranged(level, lo, hi)'
        BY <2>3, <3>1, <3>2 DEF Ranged, SortedNodes, Apart, Below, Within, Top, Fits, IsHole,
                                Searched, Parted, HoleLeft, HoleRight, Caller
      <3>5. QED
        BY <2>4, <3>2, <3>3, <3>4
    <2>10. QED
      BY <1>2, <2>5, <2>6, <2>7, <2>8, <2>9 DEF Next, Step, ReadStep
  <1>3. QED
    BY <1>1, <1>2, PTL DEF Spec

-----------------------------------------------------------------------------
(* The item goes into the node, and so stays in the tree.                        *)
LEMMA ContentsByPlace ==
  ASSUME Built, Place, NEW level \in [Branches -> Nat], Levels(level)
  PROVE  Contents' = Contents
  <1>1. TypeOK /\ pc = "up" /\ path # <<>> /\ pc' = "idle"
    BY DEF Built, Formed, Place, Inserted
  <1> DEFINE c    == Caller.node
             item == moved.item
             wide == AddItem(item, moved.right, file[c], Caller.place)
  <1>2. /\ IsPlaced(c, wide) /\ NodesOK(file', Branches)
        /\ IsWidened(wide, file[c], item, moved.right, Caller.place)
    BY PlaceFile
  <1>3. /\ c \in Nodes /\ Len(file[c].key) \in Nat /\ Caller.place \in 0 .. Len(file[c].key)
        /\ Nodes = 1 .. Len(file')
    <2>1. c \in Nodes /\ Caller.place \in Nat /\ Caller.place <= Len(file[c].key)
      BY <1>1, CallerOnPath DEF Nodes
    <2>2. Len(file[c].key) \in Nat
      BY <1>1, <2>1, FileTypes DEF Nodes
    <2>3. QED
      BY <1>2, <2>1, <2>2 DEF IsPlaced, Nodes, NumNodes
  <1> HIDE DEF c, item, wide
  <1>4. Contents' = KeysIn(file')
    BY <1>1 DEF Contents, KeysOf, KeysIn, NumNodes
  <1>5. ASSUME NEW k PROVE k \in Contents' <=> k \in Contents
    <2>1. k \in Contents' <=> \E n \in Nodes : Has(file'[n], k)
      BY <1>2, <1>3, <1>4, KeysOfFile
    <2>2. k \in Contents <=> (\E n \in Nodes : Has(file[n], k)) \/ k = item
      BY <1>1, InContents DEF item
    <2>3. Has(wide, k) <=> Has(file[c], k) \/ k = item
      BY <1>2, <1>3, WideKeys
    <2>4. file'[c] = wide /\ \A n \in Nodes : n # c => file'[n] = file[n]
      BY <1>2 DEF IsPlaced, Nodes
    <2>5. QED
      BY <1>3, <2>1, <2>2, <2>3, <2>4
  <1>6. QED
    BY <1>5

(* A split loses nothing: what one half gives up goes up.                        *)
LEMMA ContentsBySplit ==
  ASSUME Built, Split, NEW level \in [Branches -> Nat], Levels(level)
  PROVE  Contents' = Contents
  <1>1. TypeOK /\ pc = "up" /\ path # <<>> /\ pc' = "up"
    BY DEF Built, Formed, Split
  <1> DEFINE c    == Caller.node
             item == moved.item
             wide == AddItem(item, moved.right, file[c], Caller.place)
             cut  == Halves(item, moved.right, file[c], Caller.place)
  <1>2. /\ IsSplit(c, cut) /\ NodesOK(file', Branches) /\ IsCut(cut, wide)
        /\ Len(wide.key) = MaxKeys + 1
        /\ IsWidened(wide, file[c], item, moved.right, Caller.place)
        /\ moved' = [item |-> cut.item, right |-> NumNodes + 1]
    BY SplitFile
  <1>3. /\ c \in Nodes /\ Len(file[c].key) \in Nat /\ Caller.place \in 0 .. Len(file[c].key)
        /\ 1 .. Len(file') = Nodes \cup {NumNodes + 1}
    <2>1. c \in Nodes /\ Caller.place \in Nat /\ Caller.place <= Len(file[c].key)
      BY <1>1, CallerOnPath DEF Nodes
    <2>2. Len(file[c].key) \in Nat /\ NumNodes \in Nat
      BY <1>1, <2>1, FileTypes DEF Nodes
    <2>3. Len(file') = NumNodes + 1
      BY <1>2 DEF IsSplit, NumNodes
    <2>4. QED
      BY <2>1, <2>2, <2>3 DEF Nodes
  <1> HIDE DEF c, item, wide, cut
  <1>4. Contents' = KeysIn(file') \cup {cut.item}
    <2>1. moved'.item = cut.item
      BY <1>2
    <2>2. QED
      BY <1>1, <2>1 DEF Contents, KeysOf, KeysIn, NumNodes
  <1>5. ASSUME NEW k PROVE k \in Contents' <=> k \in Contents
    <2>1. k \in Contents' <=>
            (\E n \in Nodes \cup {NumNodes + 1} : Has(file'[n], k)) \/ k = cut.item
      BY <1>2, <1>3, <1>4, KeysOfFile
    <2>2. k \in Contents <=> (\E n \in Nodes : Has(file[n], k)) \/ k = item
      BY <1>1, InContents DEF item
    <2>3. Has(wide, k) <=> Has(file[c], k) \/ k = item
      BY <1>2, <1>3, WideKeys
    <2>4. Has(wide, k) <=> Has(cut.left, k) \/ Has(cut.right, k) \/ k = cut.item
      BY <1>2, CutKeys
    <2>5. /\ file'[NumNodes + 1] = cut.right /\ file'[c] = cut.left
          /\ \A n \in Nodes : n # c => file'[n] = file[n]
      BY <1>2 DEF IsSplit, Nodes
    <2>6. QED
      BY <1>3, <2>1, <2>2, <2>3, <2>4, <2>5
  <1>6. QED
    BY <1>5

(* The item is the key of the new root.                                          *)
LEMMA ContentsByGrow ==
  ASSUME Built, Grow, NEW level \in [Branches -> Nat], Levels(level)
  PROVE  Contents' = Contents
  <1>1. TypeOK /\ pc = "up" /\ pc' = "idle"
    BY DEF Built, Formed, Grow, Inserted
  <1> DEFINE item == moved.item
             node == [key |-> <<item>>, branch |-> <<root, moved.right>>]
  <1>2. IsGrown /\ Formed'
    BY LevelsByGrow
  <1>3. NodesOK(file', Branches')
    BY <1>2 DEF Formed, TypeOK, NodesOK, Node, NodeIn, NumNodes, Branches
  <1>4. 1 .. Len(file') = Nodes \cup {NumNodes + 1}
    <2>1. NumNodes \in Nat
      BY <1>1, FileTypes
    <2>2. Len(file') = NumNodes + 1
      BY <1>2 DEF IsGrown, NumNodes
    <2>3. QED
      BY <2>1, <2>2 DEF Nodes
  <1>5. ASSUME NEW k PROVE Has(node, k) <=> k = item
    BY DEF Has
  <1>6. file'[NumNodes + 1] = node /\ \A n \in Nodes : file'[n] = file[n]
    BY <1>2 DEF IsGrown, Nodes
  <1> HIDE DEF item, node
  <1>7. Contents' = KeysIn(file')
    BY <1>1 DEF Contents, KeysOf, KeysIn, NumNodes
  <1>8. ASSUME NEW k PROVE k \in Contents' <=> k \in Contents
    <2>1. k \in Contents' <=> \E n \in Nodes \cup {NumNodes + 1} : Has(file'[n], k)
      BY <1>3, <1>4, <1>7, KeysOfFile
    <2>2. k \in Contents <=> (\E n \in Nodes : Has(file[n], k)) \/ k = item
      BY <1>1, InContents DEF item
    <2>3. QED
      BY <1>5, <1>6, <2>1, <2>2
  <1>9. QED
    BY <1>8

(* When PushDown has come to the bottom, its key is new.                         *)
LEMMA NewAtBottom ==
  ASSUME Near, Built, Counted, pc = "down", at = NilPtr,
         NEW level \in [Branches -> Nat], Levels(level),
         NEW lo \in [Branches -> Int], NEW hi \in [Branches -> Int], Ranged(level, lo, hi)
  PROVE  key \notin Contents
  <1>1. /\ TypeOK /\ Levelled(level) /\ SortedNodes(lo, hi) /\ Apart(level, lo, hi)
        /\ Below(level, lo, hi) /\ key \in Int
        /\ \A n \in Nodes : level[n] <= level[root]
    BY Constants DEF Built, Formed, Levels, Ranged, TypeOK, Top
  <1>2. HoleNode = NilPtr /\ HoleLeft(lo) < key /\ key < HoleRight(hi)
    BY DEF Ranged, Searched
  <1>3. CASE path = <<>>
    <2>1. root = NilPtr
      BY <1>2, <1>3 DEF HoleNode
    <2>2. QED
      BY <1>1, <2>1, NothingStored
  <1>4. CASE path # <<>>
    <2>1. PICK n, i : n = Caller.node /\ i = Caller.place + 1
      OBVIOUS
    <2>2. n \in Nodes /\ i \in 1 .. Len(file[n].branch)
      BY <1>4, <2>1, HoleFacts
    <2>3. /\ file[n].branch[i] = NilPtr
          /\ Left(file[n], lo[n], i) < key /\ key < Right(file[n], hi[n], i)
      BY <1>2, <1>4, <2>1 DEF HoleNode, HoleLeft, HoleRight
    <2>4. \A m \in Nodes : ~Has(file[m], key)
      BY <1>1, <2>2, <2>3, NotBelow
    <2>5. QED
      BY <1>1, <2>4, InContents
  <1>5. QED
    BY <1>3, <1>4

(* A key that SearchNode finds is stored.                                        *)
LEMMA FoundIsStored ==
  ASSUME Near, Built, at \in Nodes, Found(key, file[at]), NEW level,
         NEW lo \in [Branches -> Int], NEW hi \in [Branches -> Int], Ranged(level, lo, hi),
         Within(key, at, lo, hi)
  PROVE  key \in Contents
  <1>1. TypeOK /\ SortedNodes(lo, hi) /\ key \in Key
    BY DEF Built, Formed, Ranged, TypeOK
  <1>2. /\ file[at] \in NodeIn(Branches) /\ Whole(file[at])
        /\ lo[at] \in Int /\ hi[at] \in Int /\ Sorted(file[at], lo[at], hi[at])
    BY <1>1, NodeFacts
  <1>3. Has(file[at], key)
    BY <1>1, <1>2, SearchNode DEF Within
  <1>4. QED
    BY <1>1, <1>3, InContents

-----------------------------------------------------------------------------
(* The steps of the tree are steps of the table that KeyTable describes.         *)
TableAnswer == IF pc = "up" THEN TRUE ELSE answer

TableVars == <<Contents, Call, TableAnswer>>

(* A call is never the sign for no call.                                         *)
LEMMA CallsDiffer == \A op, k : [op |-> op, key |-> k] # <<>>
  <1> SUFFICES ASSUME NEW op, NEW k, [op |-> op, key |-> k] = <<>> PROVE FALSE
    OBVIOUS
  <1>1. DOMAIN [op |-> op, key |-> k] = {"op", "key"}
    OBVIOUS
  <1>2. DOMAIN <<>> = {}
    OBVIOUS
  <1>3. QED
    BY <1>1, <1>2

(* The start of a call.                                                          *)
LEMMA TableCall ==
  ASSUME Built, NEW k \in Key, Insert(k) \/ Retrieve(k)
  PROVE  Table!Call
  <1>1. /\ pc = "idle" /\ pc' \in {"down", "find"} /\ key' = k
        /\ file' = file /\ answer' = answer
    BY DEF Insert, Retrieve
  <1>2. Contents' = Contents
    BY <1>1, ContentsKept
  <1>3. Call = <<>> /\ Call' = [op |-> IF pc' = "down" THEN "Insert" ELSE "Retrieve", key |-> k]
    BY <1>1 DEF Call
  <1>4. Call' \in Table!Calls
    BY <1>1, <1>3 DEF Table!Calls
  <1>5. QED
    BY <1>1, <1>2, <1>3, <1>4 DEF Table!Call, Table!NoCall

(* The end of an insertion, for the table: its key is known to be stored, or it  *)
(* is about to be.                                                               *)
LEMMA TableInsert ==
  ASSUME Near, Built, Counted, Duplicate \/ Bottom, NEW level \in [Branches -> Nat], Levels(level),
         NEW lo \in [Branches -> Int], NEW hi \in [Branches -> Int], Ranged(level, lo, hi)
  PROVE  Table!Insert
  <1>1. pc = "down" /\ file' = file /\ TypeOK
    BY DEF Duplicate, Bottom, Built, Formed
  <1>2. Call = [op |-> "Insert", key |-> key]
    BY <1>1 DEF Call
  <1>3. Call # <<>> /\ Call.op = "Insert" /\ Call.key = key
    BY <1>2, CallsDiffer
  <1>4. CASE Duplicate
    <2>1. /\ at # NilPtr /\ Found(key, file[at]) /\ pc' = "idle" /\ answer' = FALSE
      BY <1>4 DEF Duplicate
    <2>2. at \in Nodes /\ at = HoleNode /\ HoleLeft(lo) < key /\ key < HoleRight(hi)
      BY <1>1, <2>1 DEF TypeOK, Nodes, Ranged, Searched
    <2>3. Within(key, at, lo, hi)
      BY <1>1, <2>1, <2>2, HoleFacts DEF Within
    <2>4. key \in Contents
      BY <2>1, <2>2, <2>3, FoundIsStored
    <2>5. Contents' = Contents
      BY <1>1, <2>1, ContentsKept
    <2>6. Call' = <<>>
      BY <2>1 DEF Call
    <2>7. QED
      BY <1>3, <2>1, <2>4, <2>5, <2>6 DEF Table!Insert, Table!NoCall
  <1>5. CASE Bottom
    <2>1. at = NilPtr /\ pc' = "up" /\ moved' = [item |-> key, right |-> NilPtr]
      BY <1>5 DEF Bottom
    <2>2. key \notin Contents
      BY <1>1, <2>1, NewAtBottom
    <2>3. Contents' = Contents \cup {key}
      <3>1. Contents = KeysIn(file)
        BY <1>1 DEF Contents, KeysOf, KeysIn, NumNodes
      <3>2. Contents' = KeysIn(file) \cup {moved'.item}
        BY <1>1, <2>1 DEF Contents, KeysOf, KeysIn, NumNodes
      <3>3. QED
        BY <2>1, <3>1, <3>2
    <2>4. Call' = <<>>
      BY <2>1 DEF Call
    <2>5. QED
      BY <1>3, <2>1, <2>2, <2>3, <2>4 DEF Table!Insert, Table!NoCall
  <1>6. QED
    BY <1>4, <1>5

(* The end of a search.                                                          *)
LEMMA TableRetrieve ==
  ASSUME Near, Built, Return, NEW level,
         NEW lo \in [Branches -> Int], NEW hi \in [Branches -> Int], Ranged(level, lo, hi)
  PROVE  Table!Retrieve
  <1>1. /\ pc = "find" /\ (at # NilPtr => Found(key, file[at]))
        /\ pc' = "idle" /\ answer' = (at # NilPtr) /\ file' = file /\ TypeOK
    BY DEF Return, Built, Formed
  <1>2. Call = [op |-> "Retrieve", key |-> key]
    BY <1>1 DEF Call
  <1>3. Call # <<>> /\ Call.op = "Retrieve" /\ Call.key = key
    BY <1>2, CallsDiffer
  <1>4. Call' = <<>>
    BY <1>1 DEF Call
  <1>5. Contents' = Contents
    BY <1>1, ContentsKept
  <1>6. at = NilPtr => key \notin Contents
    BY <1>1 DEF Ranged, Searched
  <1>7. at # NilPtr => key \in Contents
    <2>1. at # NilPtr => at \in Nodes /\ Within(key, at, lo, hi)
      BY <1>1 DEF Ranged, Searched, TypeOK, Nodes
    <2>2. QED
      BY <1>1, <2>1, FoundIsStored
  <1>8. QED
    BY <1>1, <1>3, <1>4, <1>5, <1>6, <1>7 DEF Table!Retrieve, Table!NoCall

(* The other steps are none of the table.                                        *)
LEMMA TableStutters ==
  ASSUME Built, PushDown \/ Look \/ Place \/ Split \/ Grow,
         NEW level \in [Branches -> Nat], Levels(level)
  PROVE  UNCHANGED TableVars
  <1>1. CASE PushDown \/ Look
    <2>1. /\ pc # "up" /\ pc' = pc /\ key' = key /\ answer' = answer /\ file' = file
      BY <1>1 DEF PushDown, Look
    <2>2. Contents' = Contents
      BY <2>1, ContentsKept
    <2>3. QED
      BY <2>1, <2>2 DEF TableVars, TableAnswer, Call
  <1>2. CASE Place \/ Split \/ Grow
    <2>1. pc = "up" /\ ((pc' = "idle" /\ answer' = TRUE) \/ pc' = "up")
      BY <1>2 DEF Place, Split, Grow, Inserted
    <2>2. Contents' = Contents
      BY <1>2, ContentsByPlace, ContentsBySplit, ContentsByGrow
    <2>3. QED
      BY <2>1, <2>2 DEF TableVars, TableAnswer, Call
  <1>3. QED
    BY <1>1, <1>2

(* For near keys the B-tree file implements a table of keys: what was inserted   *)
(* is found, nothing else is, and a key is refused only when it is a duplicate.  *)
THEOREM IsTable == Near => (Spec => ImplementsTable)
  <1> SUFFICES ASSUME Near PROVE Spec => ImplementsTable
    OBVIOUS
  <1>1. Init => Table!Init
    <2> SUFFICES ASSUME Init PROVE Table!Init
      OBVIOUS
    <2>1. NumNodes = 0 /\ pc = "idle" /\ answer = FALSE
      BY DEF Init, NumNodes
    <2>2. Contents = {}
      BY <2>1 DEF Contents
    <2>3. Call = <<>>
      BY <2>1 DEF Call
    <2>4. QED
      BY <2>1, <2>2, <2>3 DEF Table!Init, Table!NoCall
  <1>2. ASSUME Searchable, [Next]_vars PROVE [Table!Next]_Table!vars
    <2>1. Built /\ Counted
      BY <1>2 DEF Searchable
    <2>2. PICK level \in [Branches -> Nat] : \E lo, hi \in [Branches -> Int] :
            Levels(level) /\ Ranged(level, lo, hi)
      BY <1>2 DEF Searchable
    <2>3. PICK lo, hi \in [Branches -> Int] : Levels(level) /\ Ranged(level, lo, hi)
      BY <2>2
    <2>4. ASSUME NEW k \in Key, Insert(k) \/ Retrieve(k) PROVE Table!Next
      BY <2>1, <2>4, TableCall DEF Table!Next
    <2>5. CASE Duplicate \/ Bottom
      <3>1. Table!Insert
        BY <2>1, <2>3, <2>5, TableInsert
      <3>2. QED
        BY <3>1 DEF Table!Next
    <2>6. CASE Return
      <3>1. Table!Retrieve
        BY <2>1, <2>3, <2>6, TableRetrieve
      <3>2. QED
        BY <3>1 DEF Table!Next
    <2>7. CASE PushDown \/ Look \/ Place \/ Split \/ Grow
      <3>1. UNCHANGED TableVars
        BY <2>1, <2>3, <2>7, TableStutters
      <3>2. QED
        BY <3>1 DEF Table!vars, TableVars, TableAnswer
    <2>8. CASE UNCHANGED vars
      <3>1. UNCHANGED <<file, pc, key, moved, answer>>
        BY <2>8 DEF vars
      <3>2. UNCHANGED <<Contents, Call, TableAnswer>>
        BY <3>1 DEF Contents, KeysOf, NumNodes, Call, TableAnswer
      <3>3. QED
        BY <3>2 DEF Table!vars, TableAnswer
    <2>9. QED
      BY <1>2, <2>4, <2>5, <2>6, <2>7, <2>8 DEF Next, Step
  <1>3. QED
    BY <1>1, <1>2, AlwaysSearchable, PTL DEF Spec, ImplementsTable, Table!Spec

(* For near keys Retrieve finds every key that is in the table, as btree.cpp     *)
(* says it does for all.                                                         *)
THEOREM NearIsFound == Near => (Spec => StoredIsFound)
  <1> SUFFICES ASSUME Near PROVE Spec => StoredIsFound
    OBVIOUS
  <1>1. ASSUME Searchable PROVE Return /\ ~answer' => key \notin Contents
    <2> SUFFICES ASSUME Return, ~answer' PROVE key \notin Contents
      OBVIOUS
    <2>1. pc = "find" /\ at = NilPtr
      BY DEF Return
    <2>2. \E lo, hi : Searched(lo, hi)
      BY <1>1 DEF Searchable, Ranged
    <2>3. QED
      BY <2>1, <2>2 DEF Searched
  <1>2. QED
    BY <1>1, AlwaysSearchable, PTL DEF StoredIsFound

-----------------------------------------------------------------------------
(* NumItems is the number of the keys, one short while an item moves up.         *)
ItemsOnWay == IF pc = "up" THEN 1 ELSE 0
ItemsCounted ==
  IsFiniteSet(Contents) /\ numItems \in Nat /\ Cardinality(Contents) = numItems + ItemsOnWay

LEMMA ItemsCountedAtStart == Init => ItemsCounted
  <1> SUFFICES ASSUME Init PROVE ItemsCounted
    OBVIOUS
  <1>1. NumNodes = 0 /\ pc = "idle" /\ numItems = 0
    BY DEF Init, NumNodes
  <1>2. Contents = {}
    BY <1>1 DEF Contents
  <1>3. QED
    BY <1>1, <1>2, FS_EmptySet DEF ItemsCounted, ItemsOnWay

(* A new item is counted when it moves up, and the count is caught up at its end.*)
LEMMA ItemsCountedByStep ==
  ASSUME Near, Searchable, ItemsCounted, [Next]_vars
  PROVE  ItemsCounted'
  <1>1. Built /\ Counted
    BY DEF Searchable
  <1>2. PICK level \in [Branches -> Nat] : \E lo, hi \in [Branches -> Int] :
          Levels(level) /\ Ranged(level, lo, hi)
    BY DEF Searchable
  <1>3. PICK lo, hi \in [Branches -> Int] : Levels(level) /\ Ranged(level, lo, hi)
    BY <1>2
  <1>4. CASE Bottom
    <2>1. /\ pc = "down" /\ at = NilPtr /\ pc' = "up" /\ file' = file /\ numItems' = numItems
          /\ moved' = [item |-> key, right |-> NilPtr]
      BY <1>4 DEF Bottom
    <2>2. key \notin Contents
      BY <1>1, <1>3, <2>1, NewAtBottom
    <2>3. Contents' = Contents \cup {key}
      <3>1. Contents = KeysIn(file)
        BY <2>1 DEF Contents, KeysOf, KeysIn, NumNodes
      <3>2. Contents' = KeysIn(file) \cup {moved'.item}
        BY <2>1 DEF Contents, KeysOf, KeysIn, NumNodes
      <3>3. QED
        BY <2>1, <3>1, <3>2
    <2>4. IsFiniteSet(Contents') /\ Cardinality(Contents') = Cardinality(Contents) + 1
      BY <2>2, <2>3, FS_AddElement DEF ItemsCounted
    <2>5. QED
      BY <2>1, <2>4 DEF ItemsCounted, ItemsOnWay
  <1>5. CASE Place \/ Grow
    <2>1. pc = "up" /\ pc' = "idle" /\ numItems' = numItems + 1
      BY <1>5 DEF Place, Grow, Inserted
    <2>2. Contents' = Contents
      BY <1>1, <1>3, <1>5, ContentsByPlace, ContentsByGrow
    <2>3. QED
      BY <2>1, <2>2 DEF ItemsCounted, ItemsOnWay
  <1>6. CASE Split
    <2>1. pc = "up" /\ pc' = "up" /\ numItems' = numItems
      BY <1>6 DEF Split
    <2>2. Contents' = Contents
      BY <1>1, <1>3, <1>6, ContentsBySplit
    <2>3. QED
      BY <2>1, <2>2 DEF ItemsCounted, ItemsOnWay
  <1>7. CASE Duplicate \/ PushDown \/ Look \/ Return \/ \E k \in Key : Insert(k) \/ Retrieve(k)
    <2>1. pc # "up" /\ pc' # "up" /\ file' = file /\ numItems' = numItems
      BY <1>7 DEF Duplicate, PushDown, Look, Return, Insert, Retrieve
    <2>2. Contents' = Contents
      BY <2>1, ContentsKept
    <2>3. QED
      BY <2>1, <2>2 DEF ItemsCounted, ItemsOnWay
  <1>8. CASE UNCHANGED vars
    <2>1. UNCHANGED <<file, pc, numItems, moved>>
      BY <1>8 DEF vars
    <2>2. Contents' = Contents /\ ItemsOnWay' = ItemsOnWay
      BY <2>1 DEF Contents, KeysOf, NumNodes, ItemsOnWay
    <2>3. QED
      BY <2>1, <2>2 DEF ItemsCounted
  <1>9. QED
    BY <1>4, <1>5, <1>6, <1>7, <1>8 DEF Next, Step

(* The places in the nodes where a key is.                                       *)
Places == {ni \in Nodes \X (1 .. MaxKeys) : ni[2] <= Len(file[ni[1]].key)}

LEMMA PlaceOfKey ==
  ASSUME TypeOK, NEW p
  PROVE  p \in Places <=> \E n \in Nodes : \E i \in 1 .. Len(file[n].key) : p = <<n, i>>
  <1>1. \A n \in Nodes : Len(file[n].key) \in 1 .. MaxKeys /\ Len(file[n].key) \in Nat
    BY FileTypes DEF Nodes
  <1>2. MaxKeys \in Nat
    BY Constants
  <1>3. ASSUME p \in Places
        PROVE  \E n \in Nodes : \E i \in 1 .. Len(file[n].key) : p = <<n, i>>
    <2>1. PICK n \in Nodes : \E i \in 1 .. MaxKeys : p = <<n, i>> /\ i <= Len(file[n].key)
      BY <1>3 DEF Places
    <2>2. PICK i \in 1 .. MaxKeys : p = <<n, i>> /\ i <= Len(file[n].key)
      BY <2>1
    <2>3. i \in 1 .. Len(file[n].key)
      BY <1>1, <2>2
    <2>4. QED
      BY <2>2, <2>3
  <1>4. ASSUME NEW n \in Nodes, NEW i \in 1 .. Len(file[n].key), p = <<n, i>>
        PROVE  p \in Places
    <2>1. i \in 1 .. MaxKeys /\ i <= Len(file[n].key)
      BY <1>1, <1>2
    <2>2. QED
      BY <1>4, <2>1 DEF Places
  <1>5. QED
    BY <1>3, <1>4

(* No two places hold the same key: not in one node, not in two of one level,    *)
(* and not in one node and another below it.                                     *)
LEMMA KeysDiffer ==
  ASSUME TypeOK, NEW level \in [Branches -> Nat], Levelled(level),
         NEW lo \in [Branches -> Int], NEW hi \in [Branches -> Int],
         SortedNodes(lo, hi), Apart(level, lo, hi), Below(level, lo, hi),
         NEW m \in Nodes, NEW i \in 1 .. Len(file[m].key),
         NEW n \in Nodes, NEW j \in 1 .. Len(file[n].key), file[m].key[i] = file[n].key[j]
  PROVE  Same(m, i, n, j)
  <1> DEFINE k == file[m].key[i]
  <1>1. /\ KeyTypes(file[m]) /\ lo[m] \in Int /\ hi[m] \in Int
        /\ Sorted(file[m], lo[m], hi[m])
    BY NodeFacts
  <1>2. /\ KeyTypes(file[n]) /\ lo[n] \in Int /\ hi[n] \in Int
        /\ Sorted(file[n], lo[n], hi[n])
    BY NodeFacts
  <1>3. k \in Int /\ Within(k, m, lo, hi)
    BY <1>1 DEF KeyTypes, Sorted, Within
  <1>4. k = file[n].key[j] /\ Within(k, n, lo, hi)
    BY <1>2 DEF Sorted, Within
  <1>5. level[m] \in Nat /\ level[n] \in Nat
    BY LevelsOfNodes
  <1>6. CASE level[m] < level[n]
    <2>1. ~Within(file[n].key[j], m, lo, hi)
      BY <1>6 DEF Below
    <2>2. QED
      BY <1>3, <1>4, <2>1
  <1>7. CASE level[n] < level[m]
    <2>1. ~Within(file[m].key[i], n, lo, hi)
      BY <1>7 DEF Below
    <2>2. QED
      BY <1>4, <2>1
  <1>8. CASE level[m] = level[n] /\ m # n
    <2>1. hi[m] <= lo[n] \/ hi[n] <= lo[m]
      BY <1>8 DEF Apart
    <2> HIDE DEF k
    <2>2. QED
      BY <1>1, <1>2, <1>3, <1>4, <2>1 DEF Within
  <1>9. CASE m = n
    <2>1. i < j => file[m].key[i] < file[m].key[j]
      BY <1>1, <1>9 DEF Sorted
    <2>2. j < i => file[m].key[j] < file[m].key[i]
      BY <1>1, <1>9 DEF Sorted
    <2>3. file[m].key[i] = file[m].key[j] /\ file[m].key[i] \in Int /\ file[m].key[j] \in Int
      BY <1>1, <1>9 DEF KeyTypes
    <2>4. i = j
      BY <2>1, <2>2, <2>3
    <2>5. QED
      BY <1>9, <2>4 DEF Same
  <1>10. QED
    BY <1>5, <1>6, <1>7, <1>8, <1>9

(* So there are as many places as keys.                                          *)
LEMMA PlacesCounted ==
  ASSUME Searchable, ItemsCounted, pc # "up"
  PROVE  Cardinality(Places) = Cardinality(Contents)
  <1>1. PICK level \in [Branches -> Nat] : \E lo, hi \in [Branches -> Int] :
          Levels(level) /\ Ranged(level, lo, hi)
    BY DEF Searchable
  <1>2. PICK lo, hi \in [Branches -> Int] : Levels(level) /\ Ranged(level, lo, hi)
    BY <1>1
  <1>3. /\ TypeOK /\ Levelled(level) /\ SortedNodes(lo, hi) /\ Apart(level, lo, hi)
        /\ Below(level, lo, hi)
    BY <1>2 DEF Searchable, Built, Formed, Levels, Ranged
  <1> DEFINE f == [p \in Places |-> file[p[1]].key[p[2]]]
  <1>4. \A k : k \in Contents <=> \E n \in Nodes : Has(file[n], k)
    BY <1>3, InContents
  <1>5. \A p \in Places : \E n \in Nodes : \E i \in 1 .. Len(file[n].key) :
          p = <<n, i>> /\ f[p] = file[n].key[i]
    <2>1. ASSUME NEW p \in Places, NEW n \in Nodes, NEW i \in 1 .. Len(file[n].key), p = <<n, i>>
          PROVE  f[p] = file[n].key[i]
      <3>1. p[1] = n /\ p[2] = i
        BY <2>1
      <3>2. f[p] = file[p[1]].key[p[2]]
        OBVIOUS
      <3>3. QED
        BY <3>1, <3>2
    <2>2. \A p \in Places : \E n \in Nodes : \E i \in 1 .. Len(file[n].key) : p = <<n, i>>
      BY <1>3, PlaceOfKey
    <2> HIDE DEF f
    <2>3. QED
      BY <2>1, <2>2
  <1>6. f \in [Places -> Contents]
    <2>1. \A p \in Places : f[p] \in Contents
      BY <1>4, <1>5 DEF Has
    <2>2. f = [p \in Places |-> f[p]]
      OBVIOUS
    <2> HIDE DEF f
    <2>3. QED
      BY <2>1, <2>2
  <1>7. ASSUME NEW p \in Places, NEW q \in Places, f[p] = f[q]
        PROVE  p = q
    <2> HIDE DEF f
    <2>1. PICK m \in Nodes : \E i \in 1 .. Len(file[m].key) : p = <<m, i>> /\ f[p] = file[m].key[i]
      BY <1>5
    <2>2. PICK i \in 1 .. Len(file[m].key) : p = <<m, i>> /\ f[p] = file[m].key[i]
      BY <2>1
    <2>3. PICK n \in Nodes : \E j \in 1 .. Len(file[n].key) : q = <<n, j>> /\ f[q] = file[n].key[j]
      BY <1>5
    <2>4. PICK j \in 1 .. Len(file[n].key) : q = <<n, j>> /\ f[q] = file[n].key[j]
      BY <2>3
    <2>5. file[m].key[i] = file[n].key[j]
      BY <1>7, <2>2, <2>4
    <2>6. Same(m, i, n, j)
      BY <1>3, <2>5, KeysDiffer
    <2>7. QED
      BY <2>2, <2>4, <2>6 DEF Same
  <1>8. ASSUME NEW k \in Contents
        PROVE  \E p \in Places : f[p] = k
    <2>1. PICK n \in Nodes : \E i \in 1 .. Len(file[n].key) : file[n].key[i] = k
      BY <1>4, <1>8 DEF Has
    <2>2. PICK i \in 1 .. Len(file[n].key) : file[n].key[i] = k
      BY <2>1
    <2>3. <<n, i>> \in Places
      BY <1>3, PlaceOfKey
    <2>4. f[<<n, i>>] = k
      BY <2>2, <2>3
    <2>5. QED
      BY <2>3, <2>4
  <1> HIDE DEF f
  <1>9. f \in Injection(Places, Contents)
    BY <1>6, <1>7 DEF Injection, IsInjective
  <1>10. f \in Surjection(Places, Contents)
    BY <1>6, <1>8 DEF Surjection
  <1>11. QED
    BY <1>9, <1>10, FS_Injection DEF ItemsCounted

(* For near keys the count that the header keeps, and check_file tests, is right *)
(* between calls: no key is stored twice, and none is counted without being so.  *)
THEOREM HeaderStaysRight == Near => (Spec => []HeaderRight)
  <1> SUFFICES ASSUME Near PROVE Spec => []HeaderRight
    OBVIOUS
  <1>1. Init => ItemsCounted
    BY ItemsCountedAtStart
  <1>2. Searchable /\ ItemsCounted /\ [Next]_vars => ItemsCounted'
    BY ItemsCountedByStep
  <1>3. Searchable /\ ItemsCounted => HeaderRight
    <2> SUFFICES ASSUME Searchable, ItemsCounted, pc \in {"idle", "find"}
                 PROVE  /\ header = [items |-> Cardinality(Contents), root |-> root]
                        /\ numItems = Cardinality(Places)
      BY DEF HeaderRight, Places, Nodes
    <2>1. Cardinality(Contents) = numItems
      BY DEF ItemsCounted, ItemsOnWay
    <2>2. header = [items |-> numItems, root |-> root]
      BY DEF Searchable, Counted
    <2>3. QED
      BY <2>1, <2>2, PlacesCounted
  <1>4. QED
    BY <1>1, <1>2, <1>3, AlwaysSearchable, PTL DEF Spec
=============================================================================
