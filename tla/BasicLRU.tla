-------------------------------- MODULE BasicLRU --------------------------------
(* Basic_LRU as the code keeps it: CACHE_PAGEs on the heap in a doubly linked    *)
(* list from head_pointer (least recent) to tail_pointer (most recent).  Each    *)
(* call runs under the cache lock of its URLSeen, so a call is one step.         *)
(* A definition named ...Fault is its original with one plausible bug, to see    *)
(* that the properties notice it.                                                *)
EXTENDS LRUList

CONSTANTS Pages,  \* addresses new may return
          NULL

ASSUME PagesAssumption == NULL \notin Pages

VARIABLES heap,          \* the pages allocated, each with key, prev and next
          head_pointer,
          tail_pointer,
          curr_num,      \* pages in the list, as the code counts them
          lastCall       \* the last call, its key and what it returned

vars == <<heap, head_pointer, tail_pointer, curr_num, lastCall>>

Pointers == Pages \cup {NULL}
Allocated == DOMAIN heap

Init == /\ heap = <<>>
        /\ head_pointer = NULL /\ tail_pointer = NULL
        /\ curr_num = 0
        /\ lastCall = <<>>

-----------------------------------------------------------------------------
(* find_cache goes back from the tail by prev until it finds the key or has      *)
(* looked at the head: Back[n] is the page it comes to after n of them.          *)
Back == LET page[n \in 0 .. curr_num - 1] ==
              IF n = 0 THEN tail_pointer ELSE heap[page[n - 1]].prev
        IN  page

Reached(n) == \A m \in 0 .. n - 1 : Back[m] # head_pointer

find_cache(k) ==
  LET hits == {n \in 0 .. curr_num - 1 : Reached(n) /\ heap[Back[n]].key = k}
  IN  IF hits = {} THEN NULL ELSE Back[CHOOSE n \in hits : \A m \in hits : n <= m]

(* adjust_cache makes p the tail: nothing to do if it is, else unlink it, from   *)
(* the middle or from the head, and link it behind the tail.                     *)
LinkLastFault(h, p) ==  \* keeps the next pointer of its old place
  [h EXCEPT ![tail_pointer].next = p, ![p].prev = tail_pointer]

LinkLast(h, p) ==
  [h EXCEPT ![tail_pointer].next = p, ![p].next = NULL, ![p].prev = tail_pointer]

adjust_cacheFault(p) ==  \* a page that is hit stays where it is
  p \in Pages /\ UNCHANGED <<heap, head_pointer, tail_pointer>>

adjust_cache(p) ==
  \/ /\ p = tail_pointer
     /\ UNCHANGED <<heap, head_pointer, tail_pointer>>
  \/ /\ p \notin {tail_pointer, head_pointer}
     /\ LET pprev == heap[p].prev
            pnext == heap[p].next
        IN  heap' = LinkLast([heap EXCEPT ![pprev].next = pnext, ![pnext].prev = pprev], p)
     /\ tail_pointer' = p
     /\ UNCHANGED head_pointer
  \/ /\ p # tail_pointer /\ p = head_pointer
     /\ LET pnext == heap[p].next
        IN  /\ heap' = LinkLast([heap EXCEPT ![pnext].prev = NULL], p)
            /\ head_pointer' = pnext
     /\ tail_pointer' = p

hit_cache(k) ==
  LET p == find_cache(k)
  IN  /\ IF p = NULL
         THEN UNCHANGED <<heap, head_pointer, tail_pointer>>
         ELSE adjust_cache(p)
      /\ lastCall' = <<"hit_cache", k, p # NULL>>
      /\ UNCHANGED curr_num

-----------------------------------------------------------------------------
NewPage(p, k) ==
  [q \in Allocated \cup {p} |->
     IF q = p THEN [key |-> k, prev |-> NULL, next |-> NULL] ELSE heap[q]]

Without(h, p) == [q \in DOMAIN h \ {p} |-> h[q]]

(* A full list drops its head once the new page is linked behind the tail.       *)
InsertFull(k, p) ==
  LET out == head_pointer
      new == heap[out].next
  IN  /\ curr_num = MAX_LRU
      /\ heap' = Without([NewPage(p, k) EXCEPT ![new].prev = NULL,
                                               ![tail_pointer].next = p,
                                               ![p].prev = tail_pointer], out)
      /\ head_pointer' = new
      /\ tail_pointer' = p
      /\ lastCall' = <<"insert_cache", k, heap[out].key>>
      /\ UNCHANGED curr_num

InsertFirst(k, p) ==
  /\ curr_num # MAX_LRU /\ curr_num = 0
  /\ heap' = NewPage(p, k)
  /\ head_pointer' = p /\ tail_pointer' = p
  /\ curr_num' = curr_num + 1
  /\ lastCall' = <<"insert_cache", k, NoKey>>

InsertLast(k, p) ==
  /\ curr_num # MAX_LRU /\ curr_num # 0
  /\ heap' = [NewPage(p, k) EXCEPT ![p].prev = tail_pointer, ![tail_pointer].next = p]
  /\ tail_pointer' = p
  /\ curr_num' = curr_num + 1
  /\ lastCall' = <<"insert_cache", k, NoKey>>
  /\ UNCHANGED head_pointer

insert_cache(k) == \E p \in Pages \ Allocated :
                     InsertFull(k, p) \/ InsertFirst(k, p) \/ InsertLast(k, p)

Next == \E k \in Keys : hit_cache(k) \/ insert_cache(k)

Spec == Init /\ [][Next]_vars

-----------------------------------------------------------------------------
TypeOK == /\ heap \in [Allocated -> [key : Keys, prev : Pointers, next : Pointers]]
          /\ Allocated \subseteq Pages
          /\ head_pointer \in Pointers /\ tail_pointer \in Pointers
          /\ curr_num \in 0 .. MAX_LRU
          /\ lastCall \in {<<>>} \cup {"hit_cache"} \X Keys \X BOOLEAN
                            \cup {"insert_cache"} \X Keys \X (Keys \cup {NoKey})

(* Going forward by next from the head, the way the destructor does.             *)
Forward == LET page[n \in 0 .. curr_num - 1] ==
                 IF n = 0 THEN head_pointer ELSE heap[page[n - 1]].next
           IN  page

(* After any sequence of calls the next pointers lead from head to tail through  *)
(* curr_num pages, the prev pointers lead back through the same ones, both ends  *)
(* are marked by NULL, and no allocated page is outside: none leaks, and no      *)
(* pointer leads to a deleted page.                                              *)
ListWellFormed ==
  IF curr_num = 0
  THEN Allocated = {} /\ head_pointer = NULL /\ tail_pointer = NULL
  ELSE LET last == curr_num - 1
       IN  /\ Forward[last] = tail_pointer
           /\ heap[head_pointer].prev = NULL /\ heap[tail_pointer].next = NULL
           /\ \A n \in 0 .. last : Back[n] = Forward[last - n]
           /\ Allocated = {Forward[n] : n \in 0 .. last}
           /\ \A m, n \in 0 .. last : Forward[m] = Forward[n] => m = n

(* The list is the abstract cache: the keys from head to tail.                   *)
KeysInOrder == [n \in 1 .. curr_num |-> heap[Forward[n - 1]].key]

Abstract == INSTANCE LRUCache WITH cache <- KeysInOrder

ImplementsLRU == Abstract!Spec
=============================================================================
