------------------------------ MODULE ContentSeen ------------------------------
(* ContentSeen: the hashes of the documents fetched, in a tree in memory that is *)
(* emptied into a B-tree file when it has MAX_DOC of them.  The workers use it   *)
(* as the lines in thread_work do that switch it on: a document whose hash       *)
(* check() does not know is added.  What a call does under a lock is one step;   *)
(* write2file holds the locks of the tree and of the file together.              *)
(*                                                                               *)
(* A definition named ...Fault is its original with one plausible bug.           *)
EXTENDS AVLTree

CONSTANTS Workers,
          Keys,       \* the values a hash may have
          MAX_DOC,    \* documents in memory at which add empties the tree (800)
          MaxHashes,  \* bound: different hashes in one behaviour
          MaxAdds     \* bound: calls of check

ASSUME ContentSeenAssumption ==
  /\ IsFiniteSet(Workers)
  /\ Keys \subseteq Int /\ MAX_DOC \in Nat \ {0}
  /\ MaxHashes \in Nat \ {0} /\ MaxAdds \in Nat

VARIABLES hashes,     \* the hashes the documents have
          tree,       \* btree_m
          m_counter,
          file,       \* the keys in the B-tree file: NumItems is their number
          pc,         \* where each worker is
          key,        \* the hash its call is about
          since,      \* the hashes stored when its check began
          calls       \* calls of check so far

vars == <<hashes, tree, m_counter, file, pc, key, since, calls>>

(* With a low word of 3 or -3, balance follows a null pointer as a rule.  With 1 *)
(* or -1 it rotates, which is harmless unless the low words go round; and        *)
(* without a rotation they may.  Other sets of hashes are not looked at.         *)
SafeLowWords(ks) ==
  \/ \A k \in ks : AsInt(k) \notin {-3, -1, 1, 3}
  \/ \A k \in ks : /\ AsInt(k) \notin {-3, 3}
                   /\ \A l \in ks : Cmp(k, l) = AsInt(k) - AsInt(l)

Init == /\ hashes \in {ks \in SUBSET Keys : Cardinality(ks) = MaxHashes /\ SafeLowWords(ks)}
        /\ tree = EmptyTree /\ m_counter = 0
        /\ file = {}
        /\ pc = [w \in Workers |-> "idle"]
        /\ key = [w \in Workers |-> CHOOSE k \in hashes : TRUE]
        /\ since = [w \in Workers |-> {}]
        /\ calls = 0

Goto(w, from, to) == pc[w] = from /\ pc' = [pc EXCEPT ![w] = to]

Stored == Names(tree) \cup file

-----------------------------------------------------------------------------
Check(w) ==
  /\ calls < MaxAdds
  /\ calls' = calls + 1
  /\ Goto(w, "idle", "checkM")
  /\ \E k \in hashes : key' = [key EXCEPT ![w] = k]
  /\ since' = [since EXCEPT ![w] = Stored]
  /\ UNCHANGED <<hashes, tree, m_counter, file>>

(* check_m, under the read lock of the tree.                                     *)
CheckM(w) ==
  /\ Goto(w, "checkM", IF Get(tree, key[w]) THEN "idle" ELSE "checkF")
  /\ UNCHANGED <<hashes, tree, m_counter, file, key, since, calls>>

(* check_f, under the read lock of the file: no look when nothing was written.   *)
CheckF(w) ==
  /\ Goto(w, "checkF", IF key[w] \in file THEN "idle" ELSE "add")
  /\ UNCHANGED <<hashes, tree, m_counter, file, key, since, calls>>

(* add reads the counter before it takes a lock.                                 *)
AddFault(w) ==  \* it tests for one document more
  /\ Goto(w, "add", IF m_counter > MAX_DOC THEN "write2file" ELSE "set")
  /\ UNCHANGED <<hashes, tree, m_counter, file, key, since, calls>>

Add(w) ==
  /\ Goto(w, "add", IF m_counter >= MAX_DOC THEN "write2file" ELSE "set")
  /\ UNCHANGED <<hashes, tree, m_counter, file, key, since, calls>>

(* write2file tests again under its locks.                                       *)
Write2File(w) ==
  /\ Goto(w, "write2file", "set")
  /\ IF m_counter >= MAX_DOC
     THEN LET q == Clearself(tree)
          IN  /\ file' = file \cup {q[i] : i \in DOMAIN q}
              /\ tree' = EmptyTree
              /\ m_counter' = 0
     ELSE UNCHANGED <<file, tree, m_counter>>
  /\ UNCHANGED <<hashes, key, since, calls>>

SetInTree(w) ==
  /\ Goto(w, "set", "idle")
  /\ tree' = Set(tree, key[w])
  /\ m_counter' = m_counter + 1
  /\ UNCHANGED <<hashes, file, key, since, calls>>

Proceed(w) == CheckM(w) \/ CheckF(w) \/ Add(w) \/ Write2File(w) \/ SetInTree(w)

Next == \E w \in Workers : Check(w) \/ Proceed(w)
Spec == Init /\ [][Next]_vars
-----------------------------------------------------------------------------
Adding == {w \in Workers : pc[w] = "set"}

(* The counter tells no lies about the tree it guards: it never falls behind the *)
(* number of nodes, which duplicates leave behind it, and adders that passed the *)
(* size test together overshoot MAX_DOC by at most one for each other worker.    *)
TreeBounded == /\ Len(tree.nodes) <= m_counter
               /\ m_counter + Cardinality(Adding) <= MAX_DOC + Cardinality(Workers) - 1

(* The two stores together are one set: while the tree is emptied into the file  *)
(* and other workers look for hashes first in the one and then in the other, a   *)
(* hash that was added is found, in the tree whatever was rotated and in the     *)
(* file after the walk over it, and no other unless it has the same low word.    *)
SeenSetDoing == [w \in Workers |-> CASE pc[w] = "idle" -> "idle"
                                     [] pc[w] \in {"checkM", "checkF"} -> "checking"
                                     [] OTHER -> "adding"]

Seen == INSTANCE SeenSet WITH seen <- Stored, doing <- SeenSetDoing

ImplementsSeenSet == Seen!Spec
=============================================================================
