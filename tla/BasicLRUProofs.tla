----------------------------- MODULE BasicLRUProofs -----------------------------
(* Proofs about Basic_LRU, for any keys, addresses and capacity: its pointers    *)
(* always link one list, and that list is the cache that LRUCache describes.     *)
EXTENDS BasicLRU, SequenceTheorems, FiniteSetTheorems, TLAPS

Page == [key : Keys, prev : Pointers, next : Pointers]

(* The pages of the list from head to tail are s, and the pointers link them.    *)
Distinct(s)  == \A i, j \in 1 .. curr_num : s[i] = s[j] => i = j
HoldsAll(s)  == Allocated = {s[i] : i \in 1 .. curr_num}
HasEnds(s)   == /\ head_pointer = IF curr_num = 0 THEN NULL ELSE s[1]
                /\ tail_pointer = IF curr_num = 0 THEN NULL ELSE s[curr_num]
Linked(s)    == \A i \in 1 .. curr_num :
                  /\ heap[s[i]].prev = IF i = 1 THEN NULL ELSE s[i - 1]
                  /\ heap[s[i]].next = IF i = curr_num THEN NULL ELSE s[i + 1]

IsList(s) == Distinct(s) /\ HoldsAll(s) /\ HasEnds(s) /\ Linked(s)

HeapOK == /\ heap \in [Allocated -> Page]
          /\ Allocated \subseteq Pages
          /\ curr_num \in 0 .. MAX_LRU

ListInv == HeapOK /\ \E s \in [1 .. curr_num -> Pages] : IsList(s)

LEMMA ConstantTypes ==
  NULL \notin Pages /\ NoKey \notin Keys /\ MAX_LRU \in Nat /\ MAX_LRU >= 2
BY LRUAssumption, PagesAssumption

LEMMA ListAtStart == Init => ListInv
  <1> SUFFICES ASSUME Init
               PROVE  ListInv
    OBVIOUS
  <1>1. curr_num = 0 /\ heap = <<>> /\ head_pointer = NULL /\ tail_pointer = NULL
    BY DEF Init
  <1>2. Allocated = {}
    BY <1>1 DEF Allocated
  <1>3. HeapOK
    BY <1>1, <1>2, ConstantTypes DEF HeapOK
  <1> DEFINE s == [i \in 1 .. 0 |-> NULL]
  <1>4. s \in [1 .. curr_num -> Pages]
    BY <1>1
  <1>5. IsList(s)
    BY <1>1, <1>2 DEF IsList, Distinct, HoldsAll, HasEnds, Linked
  <1>6. QED
    BY <1>3, <1>4, <1>5 DEF ListInv

-----------------------------------------------------------------------------
(* Setting one pointer of a page.                                                *)
LEMMA SetNext ==
  ASSUME NEW D, NEW h \in [D -> Page], NEW a \in D, NEW b \in Pointers
  PROVE  LET g == [h EXCEPT ![a].next = b]
         IN  /\ g \in [D -> Page]
             /\ \A q \in D : /\ g[q].key = h[q].key /\ g[q].prev = h[q].prev
                             /\ g[q].next = IF q = a THEN b ELSE h[q].next
BY DEF Page

LEMMA SetPrev ==
  ASSUME NEW D, NEW h \in [D -> Page], NEW a \in D, NEW b \in Pointers
  PROVE  LET g == [h EXCEPT ![a].prev = b]
         IN  /\ g \in [D -> Page]
             /\ \A q \in D : /\ g[q].key = h[q].key /\ g[q].next = h[q].next
                             /\ g[q].prev = IF q = a THEN b ELSE h[q].prev
BY DEF Page

LEMMA PageAdded ==
  ASSUME HeapOK, NEW p \in Pages \ Allocated, NEW k \in Keys
  PROVE  LET g == NewPage(p, k)
         IN  /\ g \in [Allocated \cup {p} -> Page]
             /\ g[p] = [key |-> k, prev |-> NULL, next |-> NULL]
             /\ \A q \in Allocated : g[q] = heap[q]
  <1> DEFINE g == NewPage(p, k)
             page == [key |-> k, prev |-> NULL, next |-> NULL]
  <1>1. page \in Page
    BY DEF Page, Pointers
  <1>2. g = [q \in Allocated \cup {p} |-> IF q = p THEN page ELSE heap[q]]
    BY DEF NewPage
  <1> HIDE DEF g, page
  <1>3. \A q \in Allocated : heap[q] \in Page
    BY DEF HeapOK
  <1>4. g \in [Allocated \cup {p} -> Page]
    BY <1>1, <1>2, <1>3
  <1>5. g[p] = page /\ \A q \in Allocated : g[q] = heap[q]
    BY <1>2
  <1>6. QED
    BY <1>4, <1>5 DEF g, page

-----------------------------------------------------------------------------
LEMMA ListFacts ==
  ASSUME HeapOK, NEW s \in [1 .. curr_num -> Pages], IsList(s)
  PROVE  /\ curr_num \in Nat /\ curr_num <= MAX_LRU
         /\ \A i \in 1 .. curr_num :
              /\ s[i] \in Allocated /\ s[i] \in Pages /\ s[i] # NULL /\ heap[s[i]] \in Page
              /\ i # 1 => heap[s[i]].prev = s[i - 1]
              /\ i # curr_num => heap[s[i]].next = s[i + 1]
         /\ \A i, j \in 1 .. curr_num : s[i] = s[j] => i = j
         /\ curr_num # 0 => /\ head_pointer = s[1] /\ tail_pointer = s[curr_num]
                            /\ heap[s[1]].prev = NULL /\ heap[s[curr_num]].next = NULL
         /\ NULL \notin Allocated
  <1>1. curr_num \in Nat /\ curr_num <= MAX_LRU
    BY ConstantTypes DEF HeapOK
  <1>2. \A i \in 1 .. curr_num : s[i] \in Allocated
    BY DEF IsList, HoldsAll
  <1>3. \A q \in Allocated : q \in Pages /\ q # NULL /\ heap[q] \in Page
    BY ConstantTypes DEF HeapOK
  <1>4. \A i \in 1 .. curr_num : /\ i # 1 => heap[s[i]].prev = s[i - 1]
                                 /\ i # curr_num => heap[s[i]].next = s[i + 1]
    BY DEF IsList, Linked
  <1>5. curr_num # 0 => /\ head_pointer = s[1] /\ tail_pointer = s[curr_num]
                        /\ heap[s[1]].prev = NULL /\ heap[s[curr_num]].next = NULL
    BY <1>1 DEF IsList, HasEnds, Linked
  <1>6. \A i, j \in 1 .. curr_num : s[i] = s[j] => i = j
    BY DEF IsList, Distinct
  <1>7. QED
    BY <1>1, <1>2, <1>3, <1>4, <1>5, <1>6

(* What adjust_cache does to each page when p is not the tail: it is cut out of  *)
(* its place and put behind the tail.                                            *)
Relinked(p) ==
  /\ Allocated' = Allocated
  /\ \A q \in Allocated :
       /\ heap'[q].key = heap[q].key
       /\ heap'[q].next = IF q = p THEN NULL ELSE IF q = tail_pointer THEN p
                          ELSE IF q = heap[p].prev THEN heap[p].next ELSE heap[q].next
       /\ heap'[q].prev = IF q = p THEN tail_pointer
                          ELSE IF q = heap[p].next THEN heap[p].prev ELSE heap[q].prev
  /\ tail_pointer' = p
  /\ head_pointer' = IF p = head_pointer THEN heap[p].next ELSE head_pointer

LEMMA PutLast ==
  ASSUME NEW D, NEW h \in [D -> Page], NEW p \in D, tail_pointer \in D, p # tail_pointer,
         D \subseteq Pages
  PROVE  LET g == LinkLast(h, p)
         IN  /\ g \in [D -> Page]
             /\ \A q \in D : /\ g[q].key = h[q].key
                             /\ g[q].next = IF q = p THEN NULL
                                            ELSE IF q = tail_pointer THEN p ELSE h[q].next
                             /\ g[q].prev = IF q = p THEN tail_pointer ELSE h[q].prev
  <1> DEFINE h1 == [h EXCEPT ![tail_pointer].next = p]
             h2 == [h1 EXCEPT ![p].next = NULL]
             h3 == [h2 EXCEPT ![p].prev = tail_pointer]
  <1>1. p \in Pointers /\ NULL \in Pointers /\ tail_pointer \in Pointers
    BY DEF Pointers
  <1>2. /\ h1 \in [D -> Page]
        /\ \A q \in D : /\ h1[q].key = h[q].key /\ h1[q].prev = h[q].prev
                        /\ h1[q].next = IF q = tail_pointer THEN p ELSE h[q].next
    BY <1>1, SetNext
  <1>3. LinkLast(h, p) = h3
    BY DEF LinkLast
  <1> HIDE DEF h1
  <1>4. /\ h2 \in [D -> Page]
        /\ \A q \in D : /\ h2[q].key = h1[q].key /\ h2[q].prev = h1[q].prev
                        /\ h2[q].next = IF q = p THEN NULL ELSE h1[q].next
    BY <1>1, <1>2, SetNext
  <1> HIDE DEF h2
  <1>5. /\ h3 \in [D -> Page]
        /\ \A q \in D : /\ h3[q].key = h2[q].key /\ h3[q].next = h2[q].next
                        /\ h3[q].prev = IF q = p THEN tail_pointer ELSE h2[q].prev
    BY <1>1, <1>4, SetPrev
  <1> HIDE DEF h3
  <1>6. QED
    BY <1>2, <1>3, <1>4, <1>5

LEMMA AdjustRelinks ==
  ASSUME HeapOK, NEW s \in [1 .. curr_num -> Pages], IsList(s), NEW i \in 1 .. curr_num,
         i # curr_num, adjust_cache(s[i])
  PROVE  /\ Relinked(s[i])
         /\ heap' \in [Allocated -> Page]
  <1> DEFINE p == s[i]
             pprev == heap[p].prev
             pnext == heap[p].next
             t == tail_pointer
  <1>1. /\ curr_num \in Nat /\ p \in Allocated /\ t \in Allocated /\ p # t /\ p # NULL
        /\ pnext = s[i + 1] /\ pnext \in Allocated /\ heap \in [Allocated -> Page]
        /\ head_pointer = s[1] /\ Allocated \subseteq Pages /\ NULL \notin Allocated
    <2>1. i + 1 \in 1 .. curr_num /\ curr_num \in 1 .. curr_num /\ 1 \in 1 .. curr_num
      BY ListFacts
    <2>2. QED
      BY <2>1, ListFacts DEF HeapOK
  <1>2. pprev \in Pointers /\ pnext \in Pointers /\ NULL \in Pointers
    BY <1>1 DEF Page, Pointers
  <1>3. CASE i # 1
    <2>1. pprev = s[i - 1] /\ pprev \in Allocated /\ p # head_pointer
      <3>1. i - 1 \in 1 .. curr_num /\ 1 \in 1 .. curr_num
        BY <1>1, <1>3
      <3>2. QED
        BY <1>1, <1>3, <3>1, ListFacts
    <2> DEFINE h1 == [heap EXCEPT ![pprev].next = pnext]
               h2 == [h1 EXCEPT ![pnext].prev = pprev]
    <2>2. /\ heap' = LinkLast(h2, p) /\ tail_pointer' = p /\ head_pointer' = head_pointer
      BY <1>1, <2>1 DEF adjust_cache
    <2> HIDE DEF p, pprev, pnext
    <2>3. /\ h1 \in [Allocated -> Page]
          /\ \A q \in Allocated : /\ h1[q].key = heap[q].key /\ h1[q].prev = heap[q].prev
                                  /\ h1[q].next = IF q = pprev THEN pnext ELSE heap[q].next
      BY <1>1, <1>2, <2>1, SetNext
    <2> HIDE DEF h1
    <2>4. /\ h2 \in [Allocated -> Page]
          /\ \A q \in Allocated : /\ h2[q].key = h1[q].key /\ h2[q].next = h1[q].next
                                  /\ h2[q].prev = IF q = pnext THEN pprev ELSE h1[q].prev
      BY <1>1, <1>2, <2>3, SetPrev
    <2> HIDE DEF h2
    <2>5. /\ heap' \in [Allocated -> Page]
          /\ \A q \in Allocated : /\ heap'[q].key = h2[q].key
                                  /\ heap'[q].next = IF q = p THEN NULL ELSE IF q = t THEN p
                                                     ELSE h2[q].next
                                  /\ heap'[q].prev = IF q = p THEN t ELSE h2[q].prev
      BY <1>1, <2>2, <2>4, PutLast
    <2>6. Allocated' = Allocated
      BY <2>5 DEF Allocated
    <2>7. Relinked(p)
      BY <1>1, <2>1, <2>2, <2>3, <2>4, <2>5, <2>6 DEF Relinked, pprev, pnext
    <2>8. QED
      BY <2>5, <2>7 DEF p
  <1>4. CASE i = 1
    <2>1. p = head_pointer /\ pprev = NULL
      BY <1>1, <1>4, ListFacts
    <2> DEFINE h1 == [heap EXCEPT ![pnext].prev = NULL]
    <2>2. heap' = LinkLast(h1, p) /\ tail_pointer' = p /\ head_pointer' = pnext
      BY <1>1, <2>1 DEF adjust_cache
    <2> HIDE DEF p, pprev, pnext
    <2>3. /\ h1 \in [Allocated -> Page]
          /\ \A q \in Allocated : /\ h1[q].key = heap[q].key /\ h1[q].next = heap[q].next
                                  /\ h1[q].prev = IF q = pnext THEN NULL ELSE heap[q].prev
      BY <1>1, <1>2, SetPrev
    <2> HIDE DEF h1
    <2>4. /\ heap' \in [Allocated -> Page]
          /\ \A q \in Allocated : /\ heap'[q].key = h1[q].key
                                  /\ heap'[q].next = IF q = p THEN NULL ELSE IF q = t THEN p
                                                     ELSE h1[q].next
                                  /\ heap'[q].prev = IF q = p THEN t ELSE h1[q].prev
      BY <1>1, <2>2, <2>3, PutLast
    <2>5. Allocated' = Allocated
      BY <2>4 DEF Allocated
    <2>6. Relinked(p)
      BY <1>1, <2>1, <2>2, <2>3, <2>4, <2>5 DEF Relinked, pprev, pnext
    <2>7. QED
      BY <2>4, <2>6 DEF p
  <1>5. QED
    BY <1>3, <1>4

(* The page at i goes to the end, those behind it come one forward.              *)
MovedFrom(s, i) ==
  [j \in 1 .. curr_num |->
     IF j < i THEN s[j] ELSE IF j < curr_num THEN s[j + 1] ELSE s[i]]

LEMMA MovedIsList ==
  ASSUME HeapOK, NEW s \in [1 .. curr_num -> Pages], IsList(s), NEW i \in 1 .. curr_num,
         i # curr_num, Relinked(s[i]), curr_num' = curr_num, NEW t, t = MovedFrom(s, i)
  PROVE  t \in [1 .. curr_num -> Pages] /\ IsList(t)'
  <1> DEFINE n == curr_num
             p == s[i]
  <1>1. /\ n \in Nat /\ i \in 1 .. n /\ i < n /\ n \in 1 .. n /\ 1 \in 1 .. n
        /\ i + 1 \in 1 .. n
    BY ListFacts
  <1>2. t = [j \in 1 .. n |-> IF j < i THEN s[j] ELSE IF j < n THEN s[j + 1] ELSE p]
    BY DEF MovedFrom
  <1>3. /\ \A j \in 1 .. n : j < i => t[j] = s[j]
        /\ \A j \in 1 .. n : ~(j < i) /\ j < n => t[j] = s[j + 1] /\ j + 1 \in 1 .. n
        /\ t[n] = p
    BY <1>1, <1>2
  <1>4. t \in [1 .. n -> Pages]
    <2>1. \A j \in 1 .. n : t[j] \in Pages
      BY <1>1, <1>3
    <2>2. QED
      BY <1>2, <2>1
  <1>5. /\ \A a, b \in 1 .. n : s[a] = s[b] => a = b
        /\ \A j \in 1 .. n : s[j] \in Allocated
        /\ \A j \in 1 .. n : j # 1 => heap[s[j]].prev = s[j - 1]
        /\ \A j \in 1 .. n : j # n => heap[s[j]].next = s[j + 1]
        /\ head_pointer = s[1] /\ tail_pointer = s[n] /\ heap[s[1]].prev = NULL
        /\ Allocated = {s[j] : j \in 1 .. n}
    <2>1. Allocated = {s[j] : j \in 1 .. n}
      BY DEF IsList, HoldsAll
    <2>2. head_pointer = s[1] /\ tail_pointer = s[n] /\ heap[s[1]].prev = NULL
      BY <1>1, ListFacts
    <2>3. \A j \in 1 .. n : /\ s[j] \in Allocated
                            /\ j # 1 => heap[s[j]].prev = s[j - 1]
                            /\ j # n => heap[s[j]].next = s[j + 1]
      BY <1>1, ListFacts
    <2>4. \A a, b \in 1 .. n : s[a] = s[b] => a = b
      BY ListFacts
    <2>5. QED
      BY <2>1, <2>2, <2>3, <2>4
  <1>6. heap[p].next = s[i + 1] /\ (i = 1 => heap[p].prev = NULL)
        /\ (i # 1 => heap[p].prev = s[i - 1] /\ i - 1 \in 1 .. n)
    BY <1>1, <1>5
  <1>7. NULL \notin Allocated
    BY ListFacts
  <1>8. /\ \A j \in 1 .. n :
             /\ heap'[s[j]].next = IF j = i THEN NULL ELSE IF j = n THEN p
                                   ELSE IF j = i - 1 THEN s[i + 1] ELSE s[j + 1]
             /\ heap'[s[j]].prev = IF j = i THEN s[n] ELSE IF j = i + 1 THEN heap[p].prev
                                   ELSE heap[s[j]].prev
    <2>1. ASSUME NEW j \in 1 .. n
          PROVE  /\ s[j] \in Allocated /\ (s[j] = p <=> j = i) /\ (s[j] = tail_pointer <=> j = n)
                 /\ s[j] = heap[p].prev <=> j = i - 1
                 /\ s[j] = heap[p].next <=> j = i + 1
      <3>1. s[j] \in Allocated /\ (s[j] = p <=> j = i) /\ (s[j] = tail_pointer <=> j = n)
        BY <1>1, <1>5
      <3>2. s[j] = heap[p].next <=> j = i + 1
        BY <1>1, <1>5, <1>6
      <3>3. s[j] = heap[p].prev <=> j = i - 1
        <4>1. CASE i = 1
          BY <1>6, <1>7, <3>1, <4>1
        <4>2. CASE i # 1
          BY <1>1, <1>5, <1>6, <4>2
        <4>3. QED
          BY <4>1, <4>2
      <3>4. QED
        BY <3>1, <3>2, <3>3
    <2> HIDE DEF p
    <2>2. QED
      BY <1>5, <1>6, <2>1 DEF Relinked, p
  <1>9. Distinct(t)'
    <2>1. ASSUME NEW a \in 1 .. n, NEW b \in 1 .. n, t[a] = t[b]
          PROVE  a = b
      <3> DEFINE At(j) == IF j < i THEN j ELSE IF j < n THEN j + 1 ELSE i
      <3>1. \A j \in 1 .. n : At(j) \in 1 .. n /\ t[j] = s[At(j)]
        BY <1>1, <1>3
      <3>2. At(a) \in 1 .. n /\ At(b) \in 1 .. n /\ s[At(a)] = s[At(b)]
        <4> HIDE DEF At
        <4>1. QED
          BY <2>1, <3>1
      <3>3. At(a) = At(b)
        <4> HIDE DEF At
        <4>1. QED
          BY <1>5, <3>2
      <3>4. QED
        BY <1>1, <3>3
    <2>2. QED
      BY <2>1 DEF Distinct
  <1>10. HoldsAll(t)'
    <2>1. ASSUME NEW j \in 1 .. n
          PROVE  t[j] \in {s[m] : m \in 1 .. n} /\ s[j] \in {t[m] : m \in 1 .. n}
      <3>1. t[j] \in {s[m] : m \in 1 .. n}
        BY <1>1, <1>3
      <3>2. CASE j < i
        BY <1>3, <3>2
      <3>3. CASE j = i
        BY <1>1, <1>3, <3>3
      <3>4. CASE j > i
        <4>1. j - 1 \in 1 .. n /\ ~(j - 1 < i) /\ j - 1 < n /\ (j - 1) + 1 = j
          BY <1>1, <3>4
        <4>2. t[j - 1] = s[j]
          BY <1>3, <4>1
        <4>3. QED
          BY <3>1, <4>1, <4>2
      <3>5. QED
        BY <1>1, <3>1, <3>2, <3>3, <3>4
    <2>2. {t[j] : j \in 1 .. n} = {s[j] : j \in 1 .. n}
      BY <2>1
    <2>3. Allocated' = {t[j] : j \in 1 .. n}
      BY <1>5, <2>2 DEF Relinked
    <2>4. QED
      BY <2>3 DEF HoldsAll
  <1>11. HasEnds(t)'
    <2>1. tail_pointer' = t[n]
      BY <1>3 DEF Relinked
    <2>2. head_pointer' = t[1]
      <3>1. CASE i = 1
        BY <1>1, <1>3, <1>5, <1>6, <3>1 DEF Relinked
      <3>2. CASE i # 1
        <4>1. t[1] = s[1] /\ p # head_pointer
          BY <1>1, <1>3, <1>5, <3>2
        <4>2. QED
          BY <1>5, <4>1 DEF Relinked
      <3>3. QED
        BY <3>1, <3>2
    <2>3. n # 0
      BY <1>1
    <2>4. QED
      BY <2>1, <2>2, <2>3 DEF HasEnds
  <1>12. Linked(t)'
    <2>1. ASSUME NEW j \in 1 .. n
          PROVE  heap'[t[j]].next = IF j = n THEN NULL ELSE t[j + 1]
      <3>1. CASE j < i - 1
        <4>1. t[j] = s[j] /\ t[j + 1] = s[j + 1] /\ j # n /\ j # i /\ j # i - 1
          BY <1>1, <1>3, <3>1
        <4>2. QED
          BY <1>8, <4>1
      <3>2. CASE j = i - 1
        <4>1. t[j] = s[j] /\ t[j + 1] = s[i + 1] /\ j # n /\ j # i
          BY <1>1, <1>3, <3>2
        <4>2. QED
          BY <1>8, <3>2, <4>1
      <3>3. CASE ~(j < i) /\ j < n - 1
        <4>1. /\ t[j] = s[j + 1] /\ t[j + 1] = s[(j + 1) + 1] /\ j + 1 \in 1 .. n
              /\ j + 1 # n /\ j + 1 # i /\ j + 1 # i - 1 /\ j # n
          BY <1>1, <1>3, <3>3
        <4>2. QED
          BY <1>8, <4>1
      <3>4. CASE j = n - 1 /\ ~(j < i)
        <4>1. t[j] = s[n] /\ t[j + 1] = p /\ j # n /\ i # n
          BY <1>1, <1>3, <3>4
        <4>2. QED
          BY <1>1, <1>8, <4>1
      <3>5. CASE j = n
        BY <1>1, <1>3, <1>8, <3>5
      <3>6. QED
        BY <1>1, <3>1, <3>2, <3>3, <3>4, <3>5
    <2>2. ASSUME NEW j \in 1 .. n
          PROVE  heap'[t[j]].prev = IF j = 1 THEN NULL ELSE t[j - 1]
      <3>1. CASE j < i
        <4>1. t[j] = s[j] /\ j # i /\ j # i + 1 /\ (j # 1 => t[j - 1] = s[j - 1])
          BY <1>1, <1>3, <3>1
        <4>2. QED
          BY <1>5, <1>8, <4>1
      <3>2. CASE j = i
        <4>1. /\ t[j] = s[i + 1] /\ i + 1 # i
              /\ j # 1 => t[j - 1] = s[i - 1]
          BY <1>1, <1>3, <3>2
        <4>2. heap'[t[j]].prev = heap[p].prev
          BY <1>1, <1>8, <4>1
        <4>3. QED
          BY <1>6, <3>2, <4>1, <4>2
      <3>3. CASE i < j /\ j < n
        <4>1. /\ t[j] = s[j + 1] /\ j + 1 \in 1 .. n /\ j + 1 # i /\ j + 1 # i + 1 /\ j # 1
              /\ t[j - 1] = s[j] /\ j + 1 # 1 /\ (j + 1) - 1 = j
          BY <1>1, <1>3, <3>3
        <4>2. heap'[t[j]].prev = heap[s[j + 1]].prev
          BY <1>8, <4>1
        <4>3. heap[s[j + 1]].prev = s[j]
          BY <1>5, <4>1
        <4>4. QED
          BY <4>1, <4>2, <4>3
      <3>4. CASE j = n
        <4>1. t[j] = p /\ t[j - 1] = s[n] /\ j # 1
          BY <1>1, <1>3, <3>4
        <4>2. QED
          BY <1>1, <1>8, <4>1
      <3>5. QED
        BY <1>1, <3>1, <3>2, <3>3, <3>4
    <2>3. QED
      BY <2>1, <2>2 DEF Linked
  <1>13. QED
    BY <1>4, <1>9, <1>10, <1>11, <1>12 DEF IsList

-----------------------------------------------------------------------------
(* The page that is added, and what adding it behind the tail does to the others.*)
Added(p, k) ==
  /\ p \in Allocated' /\ heap' \in [Allocated' -> Page] /\ Allocated' \subseteq Pages
  /\ heap'[p].key = k /\ heap'[p].next = NULL /\ heap'[p].prev = tail_pointer
  /\ tail_pointer' = p

LEMMA FullAdds ==
  ASSUME HeapOK, NEW s \in [1 .. curr_num -> Pages], IsList(s), NEW k \in Keys,
         NEW p \in Pages \ Allocated, InsertFull(k, p)
  PROVE  /\ curr_num = MAX_LRU /\ curr_num' = curr_num /\ head_pointer' = s[2]
         /\ Added(p, k) /\ Allocated' = (Allocated \ {s[1]}) \cup {p}
         /\ \A q \in Allocated \ {s[1]} :
              /\ heap'[q].key = heap[q].key
              /\ heap'[q].next = IF q = tail_pointer THEN p ELSE heap[q].next
              /\ heap'[q].prev = IF q = s[2] THEN NULL ELSE heap[q].prev
  <1> DEFINE out == head_pointer
             new == heap[out].next
             D  == Allocated \cup {p}
             h0 == NewPage(p, k)
             h1 == [h0 EXCEPT ![new].prev = NULL]
             h2 == [h1 EXCEPT ![tail_pointer].next = p]
             h3 == [h2 EXCEPT ![p].prev = tail_pointer]
  <1>1. /\ curr_num = MAX_LRU /\ curr_num' = curr_num /\ head_pointer' = new
        /\ tail_pointer' = p /\ heap' = Without(h3, out)
    BY DEF InsertFull
  <1>2. /\ out = s[1] /\ new = s[2] /\ out \in Allocated /\ new \in Allocated /\ tail_pointer \in Allocated
        /\ tail_pointer # out /\ new # out
    <2>1. 1 \in 1 .. curr_num /\ 2 \in 1 .. curr_num /\ curr_num \in 1 .. curr_num /\ curr_num # 1
      BY <1>1, ConstantTypes
    <2>2. out = s[1] /\ tail_pointer = s[curr_num]
      BY <2>1, ListFacts
    <2>3. heap[s[1]].next = s[2]
      BY <2>1, ListFacts
    <2>4. s[1] \in Allocated /\ s[2] \in Allocated /\ s[curr_num] \in Allocated
      BY <2>1, ListFacts
    <2>5. s[curr_num] # s[1] /\ s[2] # s[1]
      BY <2>1, ListFacts
    <2>6. QED
      BY <2>2, <2>3, <2>4, <2>5
  <1>3. NULL \in Pointers /\ p \in Pointers /\ tail_pointer \in Pointers /\ p \notin Allocated
    BY <1>2 DEF HeapOK, Pointers
  <1> HIDE DEF out, new
  <1>4. /\ h0 \in [D -> Page] /\ h0[p] = [key |-> k, prev |-> NULL, next |-> NULL]
        /\ \A q \in Allocated : h0[q] = heap[q]
    BY PageAdded
  <1> HIDE DEF h0
  <1>5. /\ h1 \in [D -> Page]
        /\ \A q \in D : /\ h1[q].key = h0[q].key /\ h1[q].next = h0[q].next
                        /\ h1[q].prev = IF q = new THEN NULL ELSE h0[q].prev
    BY <1>2, <1>3, <1>4, SetPrev
  <1> HIDE DEF h1
  <1>6. /\ h2 \in [D -> Page]
        /\ \A q \in D : /\ h2[q].key = h1[q].key /\ h2[q].prev = h1[q].prev
                        /\ h2[q].next = IF q = tail_pointer THEN p ELSE h1[q].next
    BY <1>2, <1>3, <1>5, SetNext
  <1> HIDE DEF h2
  <1>7. /\ h3 \in [D -> Page]
        /\ \A q \in D : /\ h3[q].key = h2[q].key /\ h3[q].next = h2[q].next
                        /\ h3[q].prev = IF q = p THEN tail_pointer ELSE h2[q].prev
    BY <1>2, <1>3, <1>6, SetPrev
  <1> HIDE DEF h3
  <1>8. heap' = [q \in D \ {out} |-> h3[q]]
    BY <1>1, <1>7 DEF Without
  <1>9. Allocated' = D \ {out} /\ heap' \in [Allocated' -> Page]
    BY <1>7, <1>8 DEF Allocated
  <1>10. Allocated' = (Allocated \ {s[1]}) \cup {p}
    BY <1>2, <1>3, <1>9
  <1>11. Allocated' \subseteq Pages /\ p \in Allocated'
    BY <1>10 DEF HeapOK
  <1>12. heap'[p].key = k /\ heap'[p].next = NULL /\ heap'[p].prev = tail_pointer
    BY <1>2, <1>3, <1>4, <1>5, <1>6, <1>7, <1>8
  <1>13. ASSUME NEW q \in Allocated \ {s[1]}
         PROVE  /\ heap'[q].key = heap[q].key
                /\ heap'[q].next = IF q = tail_pointer THEN p ELSE heap[q].next
                /\ heap'[q].prev = IF q = s[2] THEN NULL ELSE heap[q].prev
    BY <1>2, <1>3, <1>4, <1>5, <1>6, <1>7, <1>8
  <1>14. QED
    BY <1>1, <1>2, <1>9, <1>10, <1>11, <1>12, <1>13 DEF Added

LEMMA LastAdds ==
  ASSUME HeapOK, NEW s \in [1 .. curr_num -> Pages], IsList(s), NEW k \in Keys,
         NEW p \in Pages \ Allocated, InsertLast(k, p)
  PROVE  /\ curr_num # 0 /\ curr_num' = curr_num + 1 /\ head_pointer' = head_pointer
         /\ Added(p, k) /\ Allocated' = Allocated \cup {p}
         /\ \A q \in Allocated :
              /\ heap'[q].key = heap[q].key /\ heap'[q].prev = heap[q].prev
              /\ heap'[q].next = IF q = tail_pointer THEN p ELSE heap[q].next
  <1> DEFINE D  == Allocated \cup {p}
             h0 == NewPage(p, k)
             h1 == [h0 EXCEPT ![p].prev = tail_pointer]
             h2 == [h1 EXCEPT ![tail_pointer].next = p]
  <1>1. /\ curr_num # 0 /\ curr_num' = curr_num + 1 /\ head_pointer' = head_pointer
        /\ tail_pointer' = p /\ heap' = h2
    BY DEF InsertLast
  <1>2. tail_pointer \in Allocated
    <2>1. curr_num \in 1 .. curr_num
      BY <1>1, ListFacts
    <2>2. QED
      BY <1>1, <2>1, ListFacts
  <1>3. p \in Pointers /\ tail_pointer \in Pointers /\ p \notin Allocated
    BY <1>2 DEF HeapOK, Pointers
  <1>4. /\ h0 \in [D -> Page] /\ h0[p] = [key |-> k, prev |-> NULL, next |-> NULL]
        /\ \A q \in Allocated : h0[q] = heap[q]
    BY PageAdded
  <1> HIDE DEF h0
  <1>5. /\ h1 \in [D -> Page]
        /\ \A q \in D : /\ h1[q].key = h0[q].key /\ h1[q].next = h0[q].next
                        /\ h1[q].prev = IF q = p THEN tail_pointer ELSE h0[q].prev
    BY <1>2, <1>3, <1>4, SetPrev
  <1> HIDE DEF h1
  <1>6. /\ h2 \in [D -> Page]
        /\ \A q \in D : /\ h2[q].key = h1[q].key /\ h2[q].prev = h1[q].prev
                        /\ h2[q].next = IF q = tail_pointer THEN p ELSE h1[q].next
    BY <1>2, <1>3, <1>5, SetNext
  <1> HIDE DEF h2
  <1>7. Allocated' = D /\ heap' \in [Allocated' -> Page] /\ Allocated' \subseteq Pages
    BY <1>1, <1>6 DEF Allocated, HeapOK
  <1>8. heap'[p].key = k /\ heap'[p].next = NULL /\ heap'[p].prev = tail_pointer
    BY <1>1, <1>2, <1>3, <1>4, <1>5, <1>6
  <1>9. ASSUME NEW q \in Allocated
        PROVE  /\ heap'[q].key = heap[q].key /\ heap'[q].prev = heap[q].prev
               /\ heap'[q].next = IF q = tail_pointer THEN p ELSE heap[q].next
    BY <1>1, <1>2, <1>3, <1>4, <1>5, <1>6
  <1>10. QED
    BY <1>1, <1>7, <1>8, <1>9 DEF Added

(* A full list loses its first page and gets the new one at its end.             *)
LEMMA FullIsList ==
  ASSUME HeapOK, NEW s \in [1 .. curr_num -> Pages], IsList(s), NEW k \in Keys,
         NEW p \in Pages \ Allocated, InsertFull(k, p),
         NEW t, t = [j \in 1 .. curr_num |-> IF j < curr_num THEN s[j + 1] ELSE p]
  PROVE  t \in [1 .. curr_num -> Pages] /\ HeapOK' /\ IsList(t)'
  <1> DEFINE n == curr_num
  <1>1. /\ n \in Nat /\ n >= 2 /\ 1 \in 1 .. n /\ 2 \in 1 .. n /\ n \in 1 .. n /\ n = MAX_LRU
        /\ curr_num' = n /\ p \notin Allocated
    BY FullAdds, ConstantTypes
  <1>2. /\ \A j \in 1 .. n : j < n => t[j] = s[j + 1] /\ j + 1 \in 1 .. n
        /\ t[n] = p
    BY <1>1
  <1>3. /\ \A a, b \in 1 .. n : s[a] = s[b] => a = b
        /\ \A j \in 1 .. n : s[j] \in Allocated /\ s[j] \in Pages
        /\ \A j \in 1 .. n : j # 1 => heap[s[j]].prev = s[j - 1]
        /\ \A j \in 1 .. n : j # n => heap[s[j]].next = s[j + 1]
    BY ListFacts
  <1>4. tail_pointer = s[n] /\ Allocated = {s[j] : j \in 1 .. n}
    BY <1>1, ListFacts DEF IsList, HoldsAll
  <1>f. \A q \in Allocated \ {s[1]} :
          /\ heap'[q].key = heap[q].key
          /\ heap'[q].next = IF q = tail_pointer THEN p ELSE heap[q].next
          /\ heap'[q].prev = IF q = s[2] THEN NULL ELSE heap[q].prev
    BY FullAdds, Zenon
  <1>5. t \in [1 .. n -> Pages]
    <2>1. \A j \in 1 .. n : t[j] \in Pages
      BY <1>1, <1>2, <1>3
    <2>2. QED
      BY <2>1
  <1>6. Distinct(t)'
    <2>1. ASSUME NEW a \in 1 .. n, NEW b \in 1 .. n, t[a] = t[b]
          PROVE  a = b
      <3>1. a < n => t[a] = s[a + 1] /\ t[a] # p
        BY <1>1, <1>2, <1>3
      <3>2. b < n => t[b] = s[b + 1] /\ t[b] # p
        BY <1>1, <1>2, <1>3
      <3>3. CASE a < n /\ b < n
        <4>1. s[a + 1] = s[b + 1] /\ a + 1 \in 1 .. n /\ b + 1 \in 1 .. n
          BY <1>1, <2>1, <3>1, <3>2, <3>3
        <4>2. a + 1 = b + 1
          BY <1>3, <4>1
        <4>3. QED
          BY <4>2
      <3>4. CASE ~(a < n /\ b < n)
        BY <1>1, <1>2, <2>1, <3>1, <3>2, <3>4
      <3>5. QED
        BY <3>3, <3>4
    <2>2. QED
      BY <1>1, <2>1 DEF Distinct
  <1>7. HoldsAll(t)'
    <2>1. ASSUME NEW j \in 1 .. n
          PROVE  /\ t[j] \in (Allocated \ {s[1]}) \cup {p}
                 /\ j # 1 => s[j] \in {t[m] : m \in 1 .. n}
      <3>1. j < n => s[j + 1] # s[1]
        BY <1>1, <1>3
      <3>2. t[j] \in (Allocated \ {s[1]}) \cup {p}
        BY <1>1, <1>2, <1>3, <3>1
      <3>3. j # 1 => j - 1 \in 1 .. n /\ t[j - 1] = s[j]
        BY <1>1, <1>2
      <3>4. QED
        BY <3>2, <3>3
    <2>2. p \in {t[m] : m \in 1 .. n}
      BY <1>1, <1>2
    <2>3. \A q \in Allocated \ {s[1]} : q \in {t[m] : m \in 1 .. n}
      BY <1>1, <1>4, <2>1
    <2>4. (Allocated \ {s[1]}) \cup {p} = {t[m] : m \in 1 .. n}
      BY <2>1, <2>2, <2>3
    <2>5. Allocated' = {t[m] : m \in 1 .. n}
      BY <2>4, FullAdds
    <2>6. QED
      BY <1>1, <2>5 DEF HoldsAll
  <1>8. HasEnds(t)'
    <2>1. head_pointer' = s[2] /\ tail_pointer' = p
      BY FullAdds DEF Added
    <2>2. t[1] = s[2] /\ t[n] = p /\ n # 0
      BY <1>1, <1>2
    <2>3. QED
      BY <1>1, <2>1, <2>2 DEF HasEnds
  <1>9. Linked(t)'
    <2>1. ASSUME NEW j \in 1 .. n
          PROVE  /\ heap'[t[j]].prev = IF j = 1 THEN NULL ELSE t[j - 1]
                 /\ heap'[t[j]].next = IF j = n THEN NULL ELSE t[j + 1]
      <3>1. CASE j = n
        <4>1. heap'[p].next = NULL /\ heap'[p].prev = s[n]
          BY <1>4, FullAdds DEF Added
        <4>2. t[n - 1] = s[n] /\ n # 1
          BY <1>1, <1>2
        <4>3. QED
          BY <1>2, <3>1, <4>1, <4>2
      <3>2. CASE j < n
        <4>1. t[j] = s[j + 1] /\ j + 1 \in 1 .. n /\ j + 1 # 1
          BY <1>1, <1>2, <3>2
        <4>2. s[j + 1] \in Allocated \ {s[1]}
          BY <1>1, <1>3, <4>1
        <4>3. /\ heap'[s[j + 1]].prev = IF s[j + 1] = s[2] THEN NULL ELSE heap[s[j + 1]].prev
              /\ heap'[s[j + 1]].next = IF s[j + 1] = tail_pointer THEN p ELSE heap[s[j + 1]].next
          BY <4>2, <1>f
        <4>4. heap'[t[j]].prev = IF j = 1 THEN NULL ELSE t[j - 1]
          <5>1. s[j + 1] = s[2] <=> j = 1
            BY <1>1, <1>3, <4>1
          <5>2. j # 1 => t[j - 1] = s[j] /\ heap[s[j + 1]].prev = s[j]
            BY <1>1, <1>2, <1>3, <4>1
          <5>3. QED
            BY <4>1, <4>3, <5>1, <5>2
        <4>5. heap'[t[j]].next = t[j + 1]
          <5>1. s[j + 1] = tail_pointer <=> j + 1 = n
            BY <1>1, <1>3, <1>4, <4>1
          <5>2. j + 1 = n => t[j + 1] = p
            BY <1>2
          <5>3. j + 1 # n => t[j + 1] = s[(j + 1) + 1] /\ heap[s[j + 1]].next = s[(j + 1) + 1]
            BY <1>1, <1>2, <1>3, <4>1
          <5>4. QED
            BY <4>1, <4>3, <5>1, <5>2, <5>3
        <4>6. QED
          BY <3>2, <4>4, <4>5
      <3>3. QED
        BY <1>1, <3>1, <3>2
    <2>2. QED
      BY <1>1, <2>1 DEF Linked
  <1>10. HeapOK'
    BY <1>1, FullAdds DEF HeapOK, Added
  <1>11. QED
    BY <1>5, <1>6, <1>7, <1>8, <1>9, <1>10 DEF IsList

(* Another list just gets the new page at its end.                               *)
LEMMA LastIsList ==
  ASSUME HeapOK, NEW s \in [1 .. curr_num -> Pages], IsList(s), NEW k \in Keys,
         NEW p \in Pages \ Allocated, InsertLast(k, p),
         NEW t, t = [j \in 1 .. curr_num + 1 |-> IF j <= curr_num THEN s[j] ELSE p]
  PROVE  t \in [1 .. curr_num + 1 -> Pages] /\ HeapOK' /\ IsList(t)'
  <1> DEFINE n == curr_num
  <1>1. /\ n \in Nat /\ n # 0 /\ n <= MAX_LRU /\ n # MAX_LRU /\ 1 \in 1 .. n /\ n \in 1 .. n
        /\ curr_num' = n + 1 /\ p \notin Allocated /\ n + 1 \in 1 .. n + 1
    BY ListFacts, LastAdds DEF InsertLast
  <1>2. /\ \A j \in 1 .. n : t[j] = s[j]
        /\ t[n + 1] = p
        /\ \A j \in 1 .. n + 1 : j \in 1 .. n \/ j = n + 1
    BY <1>1
  <1>3. /\ \A a, b \in 1 .. n : s[a] = s[b] => a = b
        /\ \A j \in 1 .. n : s[j] \in Allocated /\ s[j] \in Pages
        /\ \A j \in 1 .. n : j # 1 => heap[s[j]].prev = s[j - 1]
        /\ \A j \in 1 .. n : j # n => heap[s[j]].next = s[j + 1]
    BY ListFacts
  <1>4. /\ head_pointer = s[1] /\ tail_pointer = s[n] /\ Allocated = {s[j] : j \in 1 .. n}
        /\ heap[s[1]].prev = NULL
    BY <1>1, ListFacts DEF IsList, HoldsAll
  <1>5. t \in [1 .. n + 1 -> Pages]
    <2>1. \A j \in 1 .. n + 1 : t[j] \in Pages
      BY <1>1, <1>2, <1>3
    <2>2. QED
      BY <2>1
  <1>6. Distinct(t)'
    <2>1. ASSUME NEW a \in 1 .. n + 1, NEW b \in 1 .. n + 1, t[a] = t[b]
          PROVE  a = b
      BY <1>1, <1>2, <1>3, <2>1
    <2>2. QED
      BY <1>1, <2>1 DEF Distinct
  <1>7. HoldsAll(t)'
    <2>1. Allocated \cup {p} = {t[m] : m \in 1 .. n + 1}
      <3>1. \A m \in 1 .. n + 1 : t[m] \in Allocated \cup {p}
        BY <1>2, <1>3
      <3>2. \A m \in 1 .. n : m \in 1 .. n + 1
        BY <1>1
      <3>3. \A q \in Allocated \cup {p} : q \in {t[m] : m \in 1 .. n + 1}
        BY <1>1, <1>2, <1>4, <3>2
      <3>4. QED
        BY <3>1, <3>3
    <2>2. Allocated' = {t[m] : m \in 1 .. n + 1}
      BY <2>1, LastAdds
    <2>3. QED
      BY <1>1, <2>2 DEF HoldsAll
  <1>8. HasEnds(t)'
    <2>1. head_pointer' = s[1] /\ tail_pointer' = p
      BY <1>4, LastAdds DEF Added
    <2>2. t[1] = s[1] /\ t[n + 1] = p /\ n + 1 # 0
      BY <1>1, <1>2
    <2>3. QED
      BY <1>1, <2>1, <2>2 DEF HasEnds
  <1>9. Linked(t)'
    <2>1. ASSUME NEW j \in 1 .. n + 1
          PROVE  /\ heap'[t[j]].prev = IF j = 1 THEN NULL ELSE t[j - 1]
                 /\ heap'[t[j]].next = IF j = n + 1 THEN NULL ELSE t[j + 1]
      <3>1. CASE j = n + 1
        <4>1. heap'[p].next = NULL /\ heap'[p].prev = s[n]
          BY <1>4, LastAdds DEF Added
        <4>2. t[(n + 1) - 1] = s[n] /\ n + 1 # 1
          BY <1>1, <1>2
        <4>3. QED
          BY <1>2, <3>1, <4>1, <4>2
      <3>2. CASE j \in 1 .. n
        <4>1. /\ heap'[s[j]].prev = heap[s[j]].prev
              /\ heap'[s[j]].next = IF s[j] = tail_pointer THEN p ELSE heap[s[j]].next
          BY <1>3, <3>2, LastAdds
        <4>2. s[j] = tail_pointer <=> j = n
          BY <1>1, <1>3, <1>4, <3>2
        <4>3. j # 1 => t[j - 1] = s[j - 1] /\ heap[s[j]].prev = s[j - 1]
          BY <1>1, <1>2, <1>3, <3>2
        <4>4. j # n => t[j + 1] = s[j + 1] /\ heap[s[j]].next = s[j + 1]
          BY <1>1, <1>2, <1>3, <3>2
        <4>5. j # n + 1 /\ t[j] = s[j]
          BY <1>1, <1>2, <3>2
        <4>6. QED
          BY <1>2, <1>4, <4>1, <4>2, <4>3, <4>4, <4>5
      <3>3. QED
        BY <1>2, <3>1, <3>2
    <2>2. QED
      BY <1>1, <2>1 DEF Linked
  <1>10. HeapOK'
    <2>1. curr_num' \in 0 .. MAX_LRU
      BY <1>1, ConstantTypes
    <2>2. heap' \in [Allocated' -> Page] /\ Allocated' \subseteq Pages
      BY LastAdds DEF Added
    <2>3. QED
      BY <2>1, <2>2 DEF HeapOK
  <1>11. QED
    BY <1>5, <1>6, <1>7, <1>8, <1>9, <1>10 DEF IsList

(* The first page is a list.                                                     *)
LEMMA FirstIsList ==
  ASSUME HeapOK, NEW s \in [1 .. curr_num -> Pages], IsList(s), NEW k \in Keys,
         NEW p \in Pages \ Allocated, InsertFirst(k, p), NEW t, t = [j \in 1 .. 1 |-> p]
  PROVE  /\ t \in [1 .. 1 -> Pages] /\ HeapOK' /\ IsList(t)'
         /\ curr_num = 0 /\ curr_num' = 1 /\ heap'[p].key = k
  <1>1. /\ curr_num = 0 /\ curr_num' = 1 /\ head_pointer' = p /\ tail_pointer' = p
        /\ heap' = NewPage(p, k)
    BY DEF InsertFirst
  <1>2. Allocated = {}
    BY <1>1 DEF IsList, HoldsAll
  <1>3. /\ heap' \in [{p} -> Page] /\ heap'[p] = [key |-> k, prev |-> NULL, next |-> NULL]
    BY <1>1, <1>2, PageAdded
  <1>4. Allocated' = {p}
    BY <1>3 DEF Allocated
  <1>5. 1 .. 1 = {1} /\ t[1] = p /\ t \in [1 .. 1 -> Pages]
    OBVIOUS
  <1>6. HeapOK'
    BY <1>1, <1>3, <1>4, ConstantTypes DEF HeapOK
  <1>7. Distinct(t)' /\ HoldsAll(t)' /\ HasEnds(t)' /\ Linked(t)'
    BY <1>1, <1>3, <1>4, <1>5 DEF Distinct, HoldsAll, HasEnds, Linked
  <1>8. QED
    BY <1>1, <1>3, <1>5, <1>6, <1>7 DEF IsList

-----------------------------------------------------------------------------
LEMMA LeastNatural ==
  ASSUME NEW S, S \subseteq Nat, S # {}
  PROVE  \E m \in S : \A k \in S : m <= k
  <1>1. PICK x \in S : \A y \in S : ~ (<<y, x>> \in OpToRel(<, Nat))
    BY NatLessThanWellFounded, WFMin
  <1>2. \A y \in S : ~ (y < x)
    BY <1>1 DEF OpToRel
  <1>3. QED
    BY <1>2

(* Two walks that start alike and take the same steps are the same.              *)
LEMMA SameWalk ==
  ASSUME NEW n \in Nat, NEW f, NEW w,
         n # 0 => f[0] = w[0],
         \A m \in 1 .. n - 1 : f[m - 1] = w[m - 1] => f[m] = w[m]
  PROVE  \A m \in 0 .. n - 1 : f[m] = w[m]
  <1> DEFINE S == {m \in 0 .. n - 1 : f[m] # w[m]}
  <1>1. SUFFICES ASSUME S # {}
                 PROVE  FALSE
    OBVIOUS
  <1>2. S \subseteq Nat
    OBVIOUS
  <1>3. PICK m \in S : \A k \in S : m <= k
    <2> HIDE DEF S
    <2>1. QED
      BY <1>1, <1>2, LeastNatural
  <1>4. m \in 0 .. n - 1 /\ f[m] # w[m] /\ n # 0
    OBVIOUS
  <1>5. m \in 1 .. n - 1 /\ m - 1 \in 0 .. n - 1 /\ ~(m <= m - 1)
    BY <1>4
  <1>6. f[m - 1] = w[m - 1]
    BY <1>3, <1>5
  <1>7. QED
    BY <1>4, <1>5, <1>6

(* Going forward by next, the pages come in the order of the list.               *)
LEMMA ForwardWalk ==
  ASSUME HeapOK, NEW s \in [1 .. curr_num -> Pages], IsList(s)
  PROVE  \A m \in 0 .. curr_num - 1 : Forward[m] = s[m + 1]
  <1> DEFINE n == curr_num
             Walk(a) == [m \in 0 .. n - 1 |->
                           IF m = 0 THEN head_pointer ELSE heap[a[m - 1]].next]
             walk == CHOOSE a : a = Walk(a)
             w == [m \in 0 .. n - 1 |-> s[m + 1]]
  <1>1. Forward = walk
    BY DEF Forward
  <1>2. /\ n \in Nat /\ (n # 0 => head_pointer = s[1])
        /\ \A i \in 1 .. n : i # n => heap[s[i]].next = s[i + 1]
    BY ListFacts
  <1>3. w = Walk(w)
    <2>1. ASSUME NEW m \in 0 .. n - 1
          PROVE  s[m + 1] = IF m = 0 THEN head_pointer ELSE heap[w[m - 1]].next
      <3>1. CASE m = 0
        BY <1>2, <3>1
      <3>2. CASE m # 0
        <4>1. m \in 1 .. n /\ m # n /\ m - 1 \in 0 .. n - 1 /\ (m - 1) + 1 = m
          BY <1>2, <3>2
        <4>2. w[m - 1] = s[m]
          BY <4>1
        <4>3. QED
          BY <1>2, <3>2, <4>1, <4>2
      <3>3. QED
        BY <3>1, <3>2
    <2>2. QED
      BY <2>1
  <1>4. walk = Walk(walk)
    <2> HIDE DEF Walk
    <2>1. QED
      BY <1>3
  <1> HIDE DEF walk
  <1>5. ASSUME n # 0
        PROVE  walk[0] = w[0]
    BY <1>2, <1>4, <1>5
  <1>6. ASSUME NEW m \in 1 .. n - 1, walk[m - 1] = w[m - 1]
        PROVE  walk[m] = w[m]
    <2>1. m \in 0 .. n - 1 /\ m # 0 /\ m - 1 \in 0 .. n - 1
      BY <1>2
    <2>2. walk[m] = heap[walk[m - 1]].next
      BY <1>4, <2>1
    <2>3. w[m] = heap[w[m - 1]].next
      BY <1>3, <2>1
    <2>4. QED
      BY <1>6, <2>2, <2>3
  <1> HIDE DEF Walk
  <1>7. \A m \in 0 .. n - 1 : walk[m] = w[m]
    <2>1. n \in Nat /\ (n # 0 => walk[0] = w[0])
      BY <1>2, <1>5
    <2>2. \A m \in 1 .. n - 1 : walk[m - 1] = w[m - 1] => walk[m] = w[m]
      BY <1>6
    <2> HIDE DEF w, n
    <2>3. QED
      BY <2>1, <2>2, SameWalk
  <1>8. QED
    BY <1>1, <1>7

(* Going back by prev, they come in the opposite order.                          *)
LEMMA BackWalk ==
  ASSUME HeapOK, NEW s \in [1 .. curr_num -> Pages], IsList(s)
  PROVE  \A m \in 0 .. curr_num - 1 : Back[m] = s[curr_num - m]
  <1> DEFINE n == curr_num
             Walk(a) == [m \in 0 .. n - 1 |->
                           IF m = 0 THEN tail_pointer ELSE heap[a[m - 1]].prev]
             walk == CHOOSE a : a = Walk(a)
             w == [m \in 0 .. n - 1 |-> s[n - m]]
  <1>1. Back = walk
    BY DEF Back
  <1>2. /\ n \in Nat /\ (n # 0 => tail_pointer = s[n])
        /\ \A i \in 1 .. n : i # 1 => heap[s[i]].prev = s[i - 1]
    BY ListFacts
  <1>3. w = Walk(w)
    <2>1. ASSUME NEW m \in 0 .. n - 1
          PROVE  s[n - m] = IF m = 0 THEN tail_pointer ELSE heap[w[m - 1]].prev
      <3>1. CASE m = 0
        <4>1. n - 0 = n /\ n # 0
          BY <1>2
        <4>2. QED
          BY <1>2, <3>1, <4>1
      <3>2. CASE m # 0
        <4> DEFINE i == n - (m - 1)
        <4>1. i \in 1 .. n /\ i # 1 /\ m - 1 \in 0 .. n - 1 /\ i - 1 = n - m
          BY <1>2, <3>2
        <4>2. w[m - 1] = s[i]
          BY <4>1
        <4> HIDE DEF i
        <4>3. QED
          BY <1>2, <3>2, <4>1, <4>2
      <3>3. QED
        BY <3>1, <3>2
    <2>2. QED
      BY <2>1
  <1>4. walk = Walk(walk)
    <2> HIDE DEF Walk
    <2>1. QED
      BY <1>3
  <1> HIDE DEF walk
  <1>5. ASSUME n # 0
        PROVE  walk[0] = w[0]
    BY <1>2, <1>3, <1>4, <1>5
  <1>6. ASSUME NEW m \in 1 .. n - 1, walk[m - 1] = w[m - 1]
        PROVE  walk[m] = w[m]
    <2>1. m \in 0 .. n - 1 /\ m # 0 /\ m - 1 \in 0 .. n - 1
      BY <1>2
    <2>2. walk[m] = heap[walk[m - 1]].prev
      BY <1>4, <2>1
    <2>3. w[m] = heap[w[m - 1]].prev
      BY <1>3, <2>1
    <2>4. QED
      BY <1>6, <2>2, <2>3
  <1> HIDE DEF Walk
  <1>7. \A m \in 0 .. n - 1 : walk[m] = w[m]
    <2>1. n \in Nat /\ (n # 0 => walk[0] = w[0])
      BY <1>2, <1>5
    <2>2. \A m \in 1 .. n - 1 : walk[m - 1] = w[m - 1] => walk[m] = w[m]
      BY <1>6
    <2> HIDE DEF w, n
    <2>3. QED
      BY <2>1, <2>2, SameWalk
  <1>8. QED
    BY <1>1, <1>7

(* A list is well formed, both ways.                                             *)
LEMMA ListIsWellFormed ==
  ASSUME HeapOK, NEW s \in [1 .. curr_num -> Pages], IsList(s)
  PROVE  ListWellFormed
  <1> DEFINE n == curr_num
             last == n - 1
             F == Forward
             B == Back
  <1>1. n \in Nat /\ (\A i, j \in 1 .. n : s[i] = s[j] => i = j)
    BY ListFacts
  <1>2. /\ \A m \in 0 .. last : F[m] = s[m + 1]
        /\ \A m \in 0 .. last : B[m] = s[n - m]
    BY ForwardWalk, BackWalk
  <1>3. Allocated = {s[i] : i \in 1 .. n}
    BY DEF IsList, HoldsAll
  <1> HIDE DEF F, B
  <1>4. CASE n = 0
    BY <1>3, <1>4 DEF ListWellFormed, IsList, HasEnds
  <1>5. CASE n # 0
    <2>1. last \in Nat /\ last \in 0 .. last /\ last + 1 = n
      BY <1>1, <1>5
    <2>2. F[last] = tail_pointer /\ heap[head_pointer].prev = NULL /\ heap[tail_pointer].next = NULL
      <3>1. F[last] = s[n]
        BY <1>2, <2>1
      <3>2. /\ head_pointer = s[1] /\ tail_pointer = s[n]
            /\ heap[s[1]].prev = NULL /\ heap[s[n]].next = NULL
        BY <1>5, ListFacts
      <3>3. QED
        BY <3>1, <3>2
    <2>3. ASSUME NEW m \in 0 .. last
          PROVE  B[m] = F[last - m]
      <3>1. last - m \in 0 .. last /\ (last - m) + 1 = n - m
        BY <1>1
      <3>2. QED
        BY <1>2, <3>1
    <2>4. Allocated = {F[m] : m \in 0 .. last}
      <3>1. \A i \in 1 .. n : i - 1 \in 0 .. last /\ (i - 1) + 1 = i
        BY <1>1
      <3>2. \A m \in 0 .. last : m + 1 \in 1 .. n
        BY <1>1
      <3>3. \A i \in 1 .. n : s[i] = F[i - 1]
        BY <1>2, <3>1
      <3>4. QED
        BY <1>2, <1>3, <3>1, <3>2, <3>3
    <2>5. ASSUME NEW a \in 0 .. last, NEW b \in 0 .. last, F[a] = F[b]
          PROVE  a = b
      <3>1. a + 1 \in 1 .. n /\ b + 1 \in 1 .. n
        BY <1>1
      <3>2. a + 1 = b + 1
        BY <1>1, <1>2, <2>5, <3>1
      <3>3. QED
        BY <3>2
    <2>6. QED
      BY <1>5, <2>2, <2>3, <2>4, <2>5 DEF ListWellFormed, F, B
  <1>6. QED
    BY <1>4, <1>5

-----------------------------------------------------------------------------
(* The keys of a list, in its order.                                             *)
KeysAlong(s) == [i \in 1 .. curr_num |-> heap[s[i]].key]

LEMMA KeysOfList ==
  \A s : HeapOK /\ s \in [1 .. curr_num -> Pages] /\ IsList(s) =>
           /\ KeysInOrder = KeysAlong(s) /\ KeysInOrder \in Seq(Keys)
           /\ Len(KeysInOrder) = curr_num /\ curr_num \in Nat
  <1> SUFFICES ASSUME HeapOK, NEW s \in [1 .. curr_num -> Pages], IsList(s)
               PROVE  /\ KeysInOrder = KeysAlong(s) /\ KeysInOrder \in Seq(Keys)
                      /\ Len(KeysInOrder) = curr_num /\ curr_num \in Nat
    OBVIOUS
  <1> DEFINE n == curr_num
             F == Forward
  <1>1. n \in Nat /\ \A i \in 1 .. n : heap[s[i]] \in Page
    BY ListFacts
  <1>2. \A m \in 0 .. n - 1 : F[m] = s[m + 1]
    BY ForwardWalk
  <1>3. KeysInOrder = [i \in 1 .. n |-> heap[F[i - 1]].key]
    BY DEF KeysInOrder
  <1> HIDE DEF F
  <1>4. \A i \in 1 .. n : i - 1 \in 0 .. n - 1 /\ (i - 1) + 1 = i
    BY <1>1
  <1>5. \A i \in 1 .. n : F[i - 1] = s[i]
    BY <1>2, <1>4
  <1>6. KeysInOrder = KeysAlong(s)
    BY <1>3, <1>5 DEF KeysAlong
  <1>7. KeysAlong(s) \in [1 .. n -> Keys]
    BY <1>1 DEF KeysAlong, Page
  <1>8. KeysAlong(s) \in Seq(Keys) /\ Len(KeysAlong(s)) = n
    BY <1>1, <1>7
  <1>9. QED
    BY <1>1, <1>6, <1>8

(* Of the indices at which c holds k the greatest is LastPage.                   *)
LEMMA LastPageIs ==
  ASSUME NEW c, NEW k, NEW n \in Nat, DOMAIN c = 1 .. n, NEW i \in 1 .. n, c[i] = k,
         \A j \in 1 .. n : c[j] = k => j <= i
  PROVE  LastPage(c, k) = i
  <1>1. \E p \in DOMAIN c : c[p] = k /\ \A j \in DOMAIN c : c[j] = k => j <= p
    OBVIOUS
  <1> DEFINE p == LastPage(c, k)
  <1>2. p \in 1 .. n /\ c[p] = k /\ \A j \in 1 .. n : c[j] = k => j <= p
    BY <1>1, Zenon DEF LastPage
  <1> HIDE DEF p
  <1>3. p <= i /\ i <= p
    BY <1>2
  <1>4. p = i
    BY <1>2, <1>3
  <1>5. QED
    BY <1>4 DEF p

(* find_cache finds the page with the key that is nearest to the tail, if any.   *)
LEMMA FindCacheFinds ==
  ASSUME HeapOK, NEW s \in [1 .. curr_num -> Pages], IsList(s), NEW k \in Keys
  PROVE  IF \E i \in 1 .. curr_num : heap[s[i]].key = k
         THEN /\ LastPage(KeysAlong(s), k) \in 1 .. curr_num
              /\ find_cache(k) = s[LastPage(KeysAlong(s), k)]
              /\ heap[s[LastPage(KeysAlong(s), k)]].key = k
         ELSE find_cache(k) = NULL
  <1> DEFINE n == curr_num
             B == Back
             hits == {m \in 0 .. n - 1 : Reached(m) /\ heap[B[m]].key = k}
             first == CHOOSE m \in hits : \A j \in hits : m <= j
  <1>1. /\ n \in Nat /\ (\A i, j \in 1 .. n : s[i] = s[j] => i = j)
        /\ n # 0 => head_pointer = s[1]
    BY ListFacts
  <1>2. \A m \in 0 .. n - 1 : B[m] = s[n - m]
    BY BackWalk
  <1>3. find_cache(k) = IF hits = {} THEN NULL ELSE B[first]
    BY DEF find_cache
  <1>4. ASSUME NEW m \in 0 .. n - 1
        PROVE  Reached(m)
    <2>1. ASSUME NEW j \in 0 .. m - 1
          PROVE  B[j] # head_pointer
      <3>1. j \in 0 .. n - 1 /\ n - j \in 1 .. n /\ n - j # 1 /\ 1 \in 1 .. n /\ n # 0
        BY <1>1
      <3>2. B[j] = s[n - j]
        BY <1>2, <3>1
      <3>3. s[n - j] # s[1]
        BY <1>1, <3>1
      <3>4. QED
        BY <1>1, <3>1, <3>2, <3>3
    <2>2. QED
      BY <2>1 DEF Reached
  <1> HIDE DEF B
  <1>5. \A m : m \in hits <=> m \in 0 .. n - 1 /\ heap[s[n - m]].key = k
    BY <1>2, <1>4
  <1>6. \A i \in 1 .. n : n - i \in 0 .. n - 1 /\ n - (n - i) = i
    BY <1>1
  <1> HIDE DEF hits
  <1>7. CASE \E i \in 1 .. n : heap[s[i]].key = k
    <2>1. hits # {}
      <3>1. PICK i \in 1 .. n : heap[s[i]].key = k
        BY <1>7
      <3>2. n - i \in hits
        BY <1>5, <1>6, <3>1
      <3>3. QED
        BY <3>2
    <2>2. hits \subseteq Nat
      BY <1>5
    <2>3. \E m \in hits : \A j \in hits : m <= j
      BY <2>1, <2>2, LeastNatural
    <2>4. first \in hits /\ \A j \in hits : first <= j
      BY <2>3
    <2> HIDE DEF first
    <2> DEFINE i == n - first
    <2>5. first \in 0 .. n - 1 /\ i \in 1 .. n /\ heap[s[i]].key = k
      BY <1>1, <1>5, <2>4
    <2>6. ASSUME NEW j \in 1 .. n, heap[s[j]].key = k
          PROVE  j <= i
      <3>1. n - j \in hits
        BY <1>5, <1>6, <2>6
      <3>2. first <= n - j
        BY <2>4, <3>1
      <3>3. QED
        BY <1>1, <2>5, <3>2
    <2>7. B[first] = s[i]
      BY <1>2, <2>5
    <2> DEFINE c == KeysAlong(s)
    <2>8. DOMAIN c = 1 .. n /\ \A j \in 1 .. n : c[j] = heap[s[j]].key
      BY DEF KeysAlong
    <2> HIDE DEF c, i
    <2>9. LastPage(c, k) = i
      BY <1>1, <2>5, <2>6, <2>8, LastPageIs
    <2>10. QED
      BY <1>3, <1>7, <2>1, <2>5, <2>7, <2>9 DEF c
  <1>8. CASE ~ \E i \in 1 .. n : heap[s[i]].key = k
    <2>1. hits = {}
      <3>1. \A m \in 0 .. n - 1 : n - m \in 1 .. n
        BY <1>1
      <3>2. QED
        BY <1>5, <1>8, <3>1
    <2>2. QED
      BY <1>3, <1>8, <2>1
  <1>9. QED
    BY <1>7, <1>8

(* What touching and inserting do to each key of a cache.                        *)
LEMMA TouchedIs ==
  ASSUME NEW c \in Seq(Keys), NEW k \in Keys, NEW n, n = Len(c), NEW i \in 1 .. n,
         i = LastPage(c, k)
  PROVE  Touched(c, k) =
           [j \in 1 .. n |-> IF j < i THEN c[j] ELSE IF j < n THEN c[j + 1] ELSE k]
  <1>1. n \in Nat /\ i \in Nat /\ 1 <= i /\ i <= n
    BY LenProperties
  <1> DEFINE left  == SubSeq(c, 1, i - 1)
             right == SubSeq(c, i + 1, n)
             both  == left \o right
             t     == both \o <<k>>
  <1>2. Touched(c, k) = t
    BY DEF Touched
  <1>3. left \in Seq(Keys) /\ Len(left) = i - 1 /\ \A j \in 1 .. i - 1 : left[j] = c[j]
    BY <1>1
  <1>4. right \in Seq(Keys) /\ Len(right) = n - i /\ \A j \in 1 .. n - i : right[j] = c[i + j]
    BY <1>1
  <1> HIDE DEF left, right
  <1>5. /\ both \in Seq(Keys) /\ Len(both) = n - 1
        /\ \A j \in 1 .. n - 1 : both[j] = IF j < i THEN c[j] ELSE c[j + 1]
    <2>0. /\ both \in Seq(Keys) /\ Len(both) = Len(left) + Len(right)
          /\ \A j \in 1 .. Len(left) + Len(right) :
               both[j] = IF j <= Len(left) THEN left[j] ELSE right[j - Len(left)]
      BY <1>3, <1>4, ConcatProperties
    <2> HIDE DEF both
    <2>1. /\ both \in Seq(Keys) /\ Len(both) = n - 1
          /\ \A j \in 1 .. n - 1 : both[j] = IF j <= i - 1 THEN left[j] ELSE right[j - (i - 1)]
      <3>1. (i - 1) + (n - i) = n - 1
        BY <1>1
      <3>2. QED
        BY <1>3, <1>4, <2>0, <3>1
    <2>2. ASSUME NEW j \in 1 .. n - 1
          PROVE  both[j] = IF j < i THEN c[j] ELSE c[j + 1]
      <3>1. CASE j < i
        <4>1. j \in 1 .. i - 1 /\ j <= i - 1
          BY <1>1, <3>1
        <4>2. QED
          BY <1>3, <2>1, <3>1, <4>1
      <3>2. CASE ~(j < i)
        <4> DEFINE m == j - (i - 1)
        <4>1. j \in Nat /\ j <= n - 1 /\ i <= j
          BY <1>1, <3>2
        <4>2. m \in 1 .. n - i /\ i + m = j + 1 /\ ~(j <= i - 1)
          BY <1>1, <4>1
        <4>3. both[j] = right[m]
          BY <2>1, <4>2
        <4>4. QED
          BY <1>4, <3>2, <4>2, <4>3
      <3>3. QED
        BY <3>1, <3>2
    <2>3. QED
      BY <2>1, <2>2
  <1> HIDE DEF both
  <1>6. /\ t \in Seq(Keys) /\ Len(t) = n /\ t[n] = k
        /\ \A j \in 1 .. n - 1 : t[j] = both[j]
    BY <1>1, <1>5
  <1> HIDE DEF t
  <1>7. ASSUME NEW j \in 1 .. n
        PROVE  t[j] = IF j < i THEN c[j] ELSE IF j < n THEN c[j + 1] ELSE k
    <2>1. CASE j = n
      BY <1>1, <1>6, <2>1
    <2>2. CASE j # n
      <3>1. j \in 1 .. n - 1 /\ j < n
        BY <1>1, <2>2
      <3>2. QED
        BY <1>5, <1>6, <3>1
    <2>3. QED
      BY <2>1, <2>2
  <1>8. t = [j \in 1 .. n |-> t[j]]
    BY <1>6
  <1>9. QED
    BY <1>2, <1>7, <1>8

LEMMA InsertedIs ==
  ASSUME NEW c \in Seq(Keys), NEW k \in Keys, NEW n, n = Len(c), n <= MAX_LRU
  PROVE  /\ Full(c) => Inserted(c, k) = [j \in 1 .. n |-> IF j < n THEN c[j + 1] ELSE k]
         /\ ~Full(c) => Inserted(c, k) = [j \in 1 .. n + 1 |-> IF j <= n THEN c[j] ELSE k]
  <1>1. n \in Nat /\ MAX_LRU \in Nat /\ MAX_LRU >= 2
    BY ConstantTypes, LenProperties
  <1>2. CASE Full(c)
    <2> DEFINE r == Tail(c)
               t == Append(r, k)
    <2>1. n >= 2 /\ Inserted(c, k) = t
      BY <1>1, <1>2 DEF Full, Inserted
    <2>2. r \in Seq(Keys) /\ Len(r) = n - 1 /\ \A j \in 1 .. n - 1 : r[j] = c[j + 1]
      BY <2>1
    <2> HIDE DEF r
    <2>3. /\ t \in Seq(Keys) /\ Len(t) = n /\ t[n] = k
          /\ \A j \in 1 .. n - 1 : t[j] = r[j]
      BY <1>1, <2>2
    <2> HIDE DEF t
    <2>4. ASSUME NEW j \in 1 .. n
          PROVE  t[j] = IF j < n THEN c[j + 1] ELSE k
      <3>1. CASE j = n
        BY <1>1, <2>3, <3>1
      <3>2. CASE j # n
        <4>1. j \in 1 .. n - 1 /\ j < n
          BY <1>1, <3>2
        <4>2. QED
          BY <2>2, <2>3, <4>1
      <3>3. QED
        BY <3>1, <3>2
    <2>5. t = [j \in 1 .. n |-> t[j]]
      BY <2>3
    <2>6. QED
      BY <1>2, <2>1, <2>4, <2>5
  <1>3. CASE ~Full(c)
    <2> DEFINE t == Append(c, k)
    <2>1. Inserted(c, k) = t
      BY <1>3 DEF Inserted
    <2>2. /\ t \in Seq(Keys) /\ Len(t) = n + 1 /\ t[n + 1] = k
          /\ \A j \in 1 .. n : t[j] = c[j]
      BY <1>1
    <2> HIDE DEF t
    <2>3. \A j \in 1 .. n + 1 : t[j] = IF j <= n THEN c[j] ELSE k
      BY <1>1, <2>2
    <2>4. t = [j \in 1 .. n + 1 |-> t[j]]
      BY <2>2
    <2>5. QED
      BY <1>3, <2>1, <2>3, <2>4
  <1>4. QED
    BY <1>2, <1>3

-----------------------------------------------------------------------------
LEMMA KeysOfNextList ==
  ASSUME NEW t, HeapOK', t \in [1 .. curr_num' -> Pages], IsList(t)'
  PROVE  KeysInOrder' = [i \in 1 .. curr_num' |-> heap'[t[i]].key]
  <1>1. (\A s : HeapOK /\ s \in [1 .. curr_num -> Pages] /\ IsList(s) =>
                  /\ KeysInOrder = KeysAlong(s) /\ KeysInOrder \in Seq(Keys)
                  /\ Len(KeysInOrder) = curr_num /\ curr_num \in Nat)'
    BY KeysOfList, PTL
  <1>2. KeysInOrder' = KeysAlong(t)'
    BY <1>1
  <1>3. QED
    BY <1>2 DEF KeysAlong

(* The operators of LRUList are the same in LRUCache.                            *)
LEMMA SameOperators ==
  ASSUME NEW c, NEW k
  PROVE  /\ Abstract!Holds(c, k) = Holds(c, k) /\ Abstract!Touched(c, k) = Touched(c, k)
         /\ Abstract!Full(c) = Full(c) /\ Abstract!Inserted(c, k) = Inserted(c, k)
         /\ Abstract!Evicted(c) = Evicted(c)
BY DEF Abstract!Holds, Holds, Abstract!Touched, Touched, Abstract!LastPage, LastPage,
       Abstract!Full, Full, Abstract!Inserted, Inserted, Abstract!Evicted, Evicted

(* A hit leaves a list, the one the abstract cache moves to.                     *)
LEMMA HitStep ==
  ASSUME HeapOK, NEW s \in [1 .. curr_num -> Pages], IsList(s), NEW k \in Keys, hit_cache(k)
  PROVE  ListInv' /\ Abstract!Hit(k)
  <1> DEFINE n == curr_num
             c == KeysAlong(s)
             p == find_cache(k)
             i == LastPage(c, k)
             found == \E j \in 1 .. n : heap[s[j]].key = k
  <1>1. KeysInOrder = c /\ c \in Seq(Keys) /\ Len(c) = n /\ n \in Nat
    BY KeysOfList
  <1>2. curr_num' = n /\ lastCall' = <<"hit_cache", k, p # NULL>>
    BY DEF hit_cache
  <1>3. IF found THEN i \in 1 .. n /\ p = s[i] /\ heap[s[i]].key = k ELSE p = NULL
    BY FindCacheFinds
  <1>4. Holds(c, k) <=> found
    BY DEF Holds, KeysAlong
  <1>5. SUFFICES /\ ListInv' /\ (p # NULL <=> found)
                 /\ KeysInOrder' = IF found THEN Touched(c, k) ELSE c
    <2> HIDE DEF c, p, found
    <2>1. Abstract!Hit(k) <=>
             /\ lastCall' = <<"hit_cache", k, Abstract!Holds(c, k)>>
             /\ KeysInOrder' = IF Abstract!Holds(c, k) THEN Abstract!Touched(c, k) ELSE c
      BY <1>1 DEF Abstract!Hit
    <2>2. (Abstract!Holds(c, k) <=> found) /\ Abstract!Touched(c, k) = Touched(c, k)
      BY <1>4, SameOperators
    <2>3. Abstract!Holds(c, k) \in BOOLEAN
      BY DEF Abstract!Holds
    <2>4. (p # NULL) = Abstract!Holds(c, k)
      BY <1>5, <2>2, <2>3
    <2>5. lastCall' = <<"hit_cache", k, Abstract!Holds(c, k)>>
      BY <1>2, <2>4
    <2>6. QED
      BY <1>5, <2>1, <2>2, <2>5
  <1>6. ASSUME heap' = heap, head_pointer' = head_pointer, tail_pointer' = tail_pointer
        PROVE  ListInv' /\ KeysInOrder' = c
    <2>1. HeapOK' /\ s \in [1 .. curr_num' -> Pages]
      BY <1>2, <1>6 DEF HeapOK, Allocated
    <2>2. IsList(s)'
      BY <1>2, <1>6 DEF IsList, Distinct, HoldsAll, HasEnds, Linked, Allocated
    <2>3. KeysInOrder' = [j \in 1 .. curr_num' |-> heap'[s[j]].key]
      BY <2>1, <2>2, KeysOfNextList
    <2>4. KeysInOrder' = c
      BY <1>2, <1>6, <2>3 DEF KeysAlong
    <2>5. QED
      BY <2>1, <2>2, <2>4 DEF ListInv
  <1>7. CASE ~found
    <2>1. p = NULL
      BY <1>3, <1>7
    <2>2. heap' = heap /\ head_pointer' = head_pointer /\ tail_pointer' = tail_pointer
      BY <2>1 DEF hit_cache
    <2>3. QED
      BY <1>6, <1>7, <2>1, <2>2
  <1>8. CASE found
    <2>1. i \in 1 .. n /\ p = s[i] /\ heap[s[i]].key = k
      BY <1>3, <1>8
    <2>2. p # NULL
      BY <2>1, ListFacts
    <2>3. adjust_cache(s[i])
      BY <2>1, <2>2 DEF hit_cache
    <2>4. Touched(c, k) =
            [j \in 1 .. n |-> IF j < i THEN c[j] ELSE IF j < n THEN c[j + 1] ELSE k]
      <3> HIDE DEF c
      <3>1. QED
        BY <1>1, <2>1, TouchedIs
    <2>5. \A j \in 1 .. n : c[j] = heap[s[j]].key
      BY DEF KeysAlong
    <2>6. DOMAIN c = 1 .. n
      BY DEF KeysAlong
    <2> HIDE DEF p, i
    <2>7. CASE i = n
      <3>1. s[i] = tail_pointer
        BY <2>1, <2>7, ListFacts
      <3>2. heap' = heap /\ head_pointer' = head_pointer /\ tail_pointer' = tail_pointer
        BY <2>3, <3>1 DEF adjust_cache
      <3>3. Touched(c, k) = c
        <4>1. \A j \in 1 .. n : c[j] = IF j < i THEN c[j] ELSE IF j < n THEN c[j + 1] ELSE k
          BY <1>1, <2>1, <2>5, <2>7
        <4>2. c = [j \in 1 .. n |-> c[j]]
          BY DEF KeysAlong
        <4> HIDE DEF c
        <4>3. QED
          BY <2>4, <4>1, <4>2
      <3>4. QED
        BY <1>6, <1>8, <2>2, <3>2, <3>3
    <2>8. CASE i # n
      <3>1. Relinked(s[i]) /\ heap' \in [Allocated -> Page]
        BY <2>1, <2>3, <2>8, AdjustRelinks
      <3>2. PICK t : t = MovedFrom(s, i)
        OBVIOUS
      <3>3. t \in [1 .. n -> Pages] /\ IsList(t)'
        BY <1>2, <2>1, <2>8, <3>1, <3>2, MovedIsList
      <3>4. HeapOK'
        BY <1>2, <3>1 DEF HeapOK, Relinked
      <3>5. KeysInOrder' = [j \in 1 .. n |-> heap'[t[j]].key]
        BY <1>2, <3>3, <3>4, KeysOfNextList
      <3>6. ASSUME NEW j \in 1 .. n
            PROVE  heap'[t[j]].key = IF j < i THEN c[j] ELSE IF j < n THEN c[j + 1] ELSE k
        <4>1. t[j] = IF j < i THEN s[j] ELSE IF j < n THEN s[j + 1] ELSE s[i]
          BY <3>2 DEF MovedFrom
        <4>2. j < n => j + 1 \in 1 .. n
          BY <1>1
        <4>3. \A m \in 1 .. n : s[m] \in Allocated
          BY ListFacts
        <4>4. \A m \in 1 .. n : heap'[s[m]].key = heap[s[m]].key
          BY <3>1, <4>3 DEF Relinked
        <4> HIDE DEF c
        <4>5. QED
          BY <2>1, <2>5, <4>1, <4>2, <4>4
      <3>7. KeysInOrder' = Touched(c, k)
        <4> HIDE DEF c
        <4>1. QED
          BY <2>4, <3>5, <3>6
      <3>8. ListInv'
        BY <1>2, <3>3, <3>4 DEF ListInv
      <3>9. QED
        BY <1>8, <2>2, <3>7, <3>8
    <2>9. QED
      BY <2>7, <2>8
  <1>9. QED
    BY <1>7, <1>8

(* The same for an insertion, in each of its three cases.                        *)
LEMMA InsertStep ==
  ASSUME HeapOK, NEW s \in [1 .. curr_num -> Pages], IsList(s), NEW k \in Keys, insert_cache(k)
  PROVE  ListInv' /\ Abstract!Insert(k)
  <1> DEFINE n == curr_num
             c == KeysAlong(s)
  <1>1. KeysInOrder = c /\ c \in Seq(Keys) /\ Len(c) = n /\ n \in Nat
    BY KeysOfList
  <1>2. n <= MAX_LRU /\ \A j \in 1 .. n : s[j] \in Allocated /\ c[j] = heap[s[j]].key
    BY ListFacts DEF KeysAlong
  <1> HIDE DEF c
  <1>3. /\ Full(c) => Inserted(c, k) = [j \in 1 .. n |-> IF j < n THEN c[j + 1] ELSE k]
        /\ ~Full(c) => Inserted(c, k) = [j \in 1 .. n + 1 |-> IF j <= n THEN c[j] ELSE k]
    <2>1. PICK m : m = n
      OBVIOUS
    <2>2. c \in Seq(Keys) /\ m = Len(c) /\ m <= MAX_LRU
      BY <1>1, <1>2, <2>1
    <2>3. Full(c) => Inserted(c, k) = [j \in 1 .. m |-> IF j < m THEN c[j + 1] ELSE k]
      BY <2>2, InsertedIs
    <2>4. ~Full(c) => Inserted(c, k) = [j \in 1 .. m + 1 |-> IF j <= m THEN c[j] ELSE k]
      BY <2>2, InsertedIs
    <2>5. QED
      BY <2>1, <2>3, <2>4
  <1>4. SUFFICES /\ ListInv' /\ KeysInOrder' = Inserted(c, k)
                 /\ lastCall' = <<"insert_cache", k, Evicted(c)>>
    BY <1>1, <1>4, SameOperators DEF Abstract!Insert
  <1>5. PICK p \in Pages \ Allocated : InsertFull(k, p) \/ InsertFirst(k, p) \/ InsertLast(k, p)
    BY DEF insert_cache
  <1>6. CASE InsertFull(k, p)
    <2>1. PICK t : t = [j \in 1 .. n |-> IF j < n THEN s[j + 1] ELSE p]
      OBVIOUS
    <2>2. t \in [1 .. n -> Pages] /\ HeapOK' /\ IsList(t)'
      BY <1>6, <2>1, FullIsList
    <2>3. curr_num' = n /\ n = MAX_LRU /\ n >= 2 /\ heap'[p].key = k
      BY <1>6, FullAdds, ConstantTypes DEF Added
    <2>4. \A q \in Allocated \ {s[1]} : heap'[q].key = heap[q].key
      <3>1. \A q \in Allocated \ {s[1]} :
              /\ heap'[q].key = heap[q].key
              /\ heap'[q].next = IF q = tail_pointer THEN p ELSE heap[q].next
              /\ heap'[q].prev = IF q = s[2] THEN NULL ELSE heap[q].prev
        BY <1>6, FullAdds, Zenon
      <3>2. QED
        BY <3>1
    <2>5. KeysInOrder' = [j \in 1 .. n |-> heap'[t[j]].key]
      BY <2>2, <2>3, KeysOfNextList
    <2>6. ASSUME NEW j \in 1 .. n
          PROVE  heap'[t[j]].key = IF j < n THEN c[j + 1] ELSE k
      <3>1. CASE j < n
        <4>1. t[j] = s[j + 1] /\ j + 1 \in 1 .. n /\ j + 1 # 1 /\ 1 \in 1 .. n
          BY <1>1, <2>1, <3>1
        <4>2. s[j + 1] \in Allocated /\ s[j + 1] # s[1]
          BY <4>1, ListFacts
        <4>3. QED
          BY <1>2, <2>4, <3>1, <4>1, <4>2
      <3>2. CASE ~(j < n)
        BY <2>1, <2>3, <3>2
      <3>3. QED
        BY <3>1, <3>2
    <2>7. Full(c)
      BY <1>1, <2>3 DEF Full
    <2>8. KeysInOrder' = Inserted(c, k)
      BY <1>3, <2>5, <2>6, <2>7
    <2>9. Evicted(c) = heap[head_pointer].key
      <3>1. 1 \in 1 .. n /\ n # 0
        BY <1>1, <2>3
      <3>2. head_pointer = s[1]
        BY <3>1, ListFacts
      <3>3. Evicted(c) = c[1]
        BY <1>1, <2>3, <2>7 DEF Evicted
      <3>4. QED
        BY <1>2, <3>1, <3>2, <3>3
    <2>10. lastCall' = <<"insert_cache", k, heap[head_pointer].key>>
      BY <1>6 DEF InsertFull
    <2>11. ListInv'
      BY <2>2, <2>3 DEF ListInv
    <2>12. QED
      BY <2>8, <2>9, <2>10, <2>11
  <1>7. ASSUME curr_num' = n + 1, n # MAX_LRU, NEW t \in [1 .. n + 1 -> Pages],
               HeapOK', IsList(t)', lastCall' = <<"insert_cache", k, NoKey>>,
               \A j \in 1 .. n + 1 : heap'[t[j]].key = IF j <= n THEN c[j] ELSE k
        PROVE  /\ ListInv' /\ KeysInOrder' = Inserted(c, k)
               /\ lastCall' = <<"insert_cache", k, Evicted(c)>>
    <2>1. KeysInOrder' = [j \in 1 .. n + 1 |-> heap'[t[j]].key]
      BY <1>7, KeysOfNextList
    <2>2. ~Full(c)
      BY <1>1, <1>7 DEF Full
    <2>3. KeysInOrder' = Inserted(c, k)
      BY <1>3, <1>7, <2>1, <2>2
    <2>4. Evicted(c) = NoKey
      BY <2>2 DEF Evicted
    <2>5. ListInv'
      BY <1>7 DEF ListInv
    <2>6. QED
      BY <1>7, <2>3, <2>4, <2>5
  <1>8. CASE InsertFirst(k, p)
    <2>1. PICK t : t = [j \in 1 .. 1 |-> p]
      OBVIOUS
    <2>2. /\ t \in [1 .. 1 -> Pages] /\ HeapOK' /\ IsList(t)'
          /\ curr_num = 0 /\ curr_num' = 1 /\ heap'[p].key = k
      BY <1>8, <2>1, FirstIsList
    <2>3. n # MAX_LRU /\ lastCall' = <<"insert_cache", k, NoKey>> /\ n + 1 = 1
      BY <1>8, <2>2 DEF InsertFirst
    <2>4. \A j \in 1 .. n + 1 : heap'[t[j]].key = IF j <= n THEN c[j] ELSE k
      <3>1. \A j \in 1 .. n + 1 : t[j] = p /\ ~(j <= n)
        BY <2>1, <2>2
      <3>2. QED
        BY <2>2, <3>1
    <2>5. t \in [1 .. n + 1 -> Pages] /\ curr_num' = n + 1
      BY <2>2, <2>3
    <2>6. QED
      BY <1>7, <2>2, <2>3, <2>4, <2>5
  <1>9. CASE InsertLast(k, p)
    <2>1. PICK t : t = [j \in 1 .. n + 1 |-> IF j <= n THEN s[j] ELSE p]
      OBVIOUS
    <2>2. t \in [1 .. n + 1 -> Pages] /\ HeapOK' /\ IsList(t)'
      BY <1>9, <2>1, LastIsList
    <2>3. curr_num' = n + 1 /\ heap'[p].key = k /\ \A q \in Allocated : heap'[q].key = heap[q].key
      BY <1>9, LastAdds DEF Added
    <2>4. n # MAX_LRU /\ lastCall' = <<"insert_cache", k, NoKey>>
      BY <1>9 DEF InsertLast
    <2>5. ASSUME NEW j \in 1 .. n + 1
          PROVE  heap'[t[j]].key = IF j <= n THEN c[j] ELSE k
      <3>1. CASE j <= n
        <4>1. j \in 1 .. n /\ t[j] = s[j]
          BY <1>1, <2>1, <3>1
        <4>2. QED
          BY <1>2, <2>3, <3>1, <4>1
      <3>2. CASE ~(j <= n)
        BY <2>1, <2>3, <3>2
      <3>3. QED
        BY <3>1, <3>2
    <2>6. QED
      BY <1>7, <2>2, <2>3, <2>4, <2>5
  <1>10. QED
    BY <1>5, <1>6, <1>8, <1>9

-----------------------------------------------------------------------------
LEMMA ListByStep == ListInv /\ [Next]_vars => ListInv' /\ [Abstract!Next]_(Abstract!vars)
  <1> SUFFICES ASSUME ListInv, [Next]_vars
               PROVE  ListInv' /\ [Abstract!Next]_(Abstract!vars)
    OBVIOUS
  <1>1. PICK s \in [1 .. curr_num -> Pages] : IsList(s)
    BY DEF ListInv
  <1>2. HeapOK
    BY DEF ListInv
  <1>3. CASE Next
    <2>1. PICK k \in Keys : hit_cache(k) \/ insert_cache(k)
      BY <1>3 DEF Next
    <2>2. ListInv' /\ (Abstract!Hit(k) \/ Abstract!Insert(k))
      BY <1>1, <1>2, <2>1, HitStep, InsertStep
    <2>3. QED
      BY <2>2 DEF Abstract!Next
  <1>4. CASE UNCHANGED vars
    <2>1. /\ heap' = heap /\ head_pointer' = head_pointer /\ tail_pointer' = tail_pointer
          /\ curr_num' = curr_num /\ lastCall' = lastCall
      BY <1>4 DEF vars
    <2>2. HeapOK' /\ s \in [1 .. curr_num' -> Pages] /\ IsList(s)'
      BY <1>1, <1>2, <2>1
         DEF HeapOK, IsList, Distinct, HoldsAll, HasEnds, Linked, Allocated
    <2>3. KeysInOrder' = [j \in 1 .. curr_num' |-> heap'[s[j]].key]
      BY <2>2, KeysOfNextList
    <2>4. KeysInOrder = [j \in 1 .. curr_num |-> heap[s[j]].key]
      BY <1>1, <1>2, KeysOfList DEF KeysAlong
    <2>5. KeysInOrder' = KeysInOrder
      BY <2>1, <2>3, <2>4
    <2>6. QED
      BY <2>1, <2>2, <2>5 DEF ListInv, Abstract!vars
  <1>5. QED
    BY <1>3, <1>4

LEMMA AlwaysAList == Spec => []ListInv
  <1>1. ListInv /\ [Next]_vars => ListInv'
    BY ListByStep
  <1>2. QED
    BY <1>1, ListAtStart, PTL DEF Spec

(* Whatever calls are made, the prev and next pointers link the pages on the     *)
(* heap into one list from head_pointer to tail_pointer, as long as curr_num     *)
(* says: adjust_cache and insert_cache leave no page outside, none linked twice  *)
(* and no pointer to a deleted one.                                              *)
THEOREM ListAlwaysWellFormed == Spec => []ListWellFormed
  <1>1. ListInv => ListWellFormed
    <2> SUFFICES ASSUME ListInv
                 PROVE  ListWellFormed
      OBVIOUS
    <2>1. PICK s \in [1 .. curr_num -> Pages] : IsList(s)
      BY DEF ListInv
    <2>2. QED
      BY <2>1, ListIsWellFormed DEF ListInv
  <1>2. QED
    BY <1>1, AlwaysAList, PTL

(* Every call of Basic_LRU does to the keys, read from head to tail, what the    *)
(* cache promises and returns what it promises: a hit moves the key to the end,  *)
(* an insertion into a full cache gives out the key that was used longest ago.   *)
THEOREM ListIsACache == Spec => ImplementsLRU
  <1>1. Init => Abstract!Init
    <2> SUFFICES ASSUME Init
                 PROVE  Abstract!Init
      OBVIOUS
    <2>1. curr_num = 0 /\ lastCall = <<>>
      BY DEF Init
    <2>2. KeysInOrder = <<>>
      BY <2>1 DEF KeysInOrder
    <2>3. QED
      BY <2>1, <2>2 DEF Abstract!Init
  <1>2. ListInv /\ [Next]_vars => [Abstract!Next]_(Abstract!vars)
    BY ListByStep
  <1>3. QED
    BY <1>1, <1>2, AlwaysAList, PTL DEF Spec, ImplementsLRU, Abstract!Spec
=============================================================================
