--------------------------------- MODULE BTree ---------------------------------
(* The B-tree file of hashes (BTTableClass, util/btree-f) with one writer and    *)
(* the readers that URLSeen opens.  The caller's read-write lock keeps calls     *)
(* apart, so one call is under way at a time; a step is the reading or writing   *)
(* of one node.  Keys and branches of a node are sequences of the length Count   *)
(* gives them: what lies behind it in the arrays is never read.  CurrentNode is  *)
(* left out, since every use of it follows a read of a node.                     *)
(* A definition named ...Fault is its original with one plausible bug, to see    *)
(* that the properties notice it.                                                *)
EXTENDS Integers, FiniteSets, SequencesExt

CONSTANTS Key,       \* the hashes used
          Half,      \* 2^63 in the code: keys are words from -Half to Half - 1
          Wraps,     \* whether the build subtracts before it tests the sign
          MaxKeys,   \* 1260 in the code
          MinKeys    \* 5 in the code

ASSUME BTreeAssumption ==
  /\ Half \in Nat /\ Key \subseteq -Half .. Half - 1
  /\ Wraps \in BOOLEAN
  /\ MinKeys \in Nat \ {0} /\ MaxKeys \in Nat /\ MaxKeys >= 2 * MinKeys

VARIABLES file,       \* the nodes 1 .. NumNodes
          numItems,   \* NumItems of the writer
          root,       \* Root of the writer
          header,     \* NumItems and Root as URLSeen keeps them for its readers
          pc,         \* what the call under way is doing, "idle" if none is
          key,        \* its key
          at,         \* the node it looks at next
          path,       \* the calls of PushDown that wait, outermost first
          moved,      \* NewItem and NewRight while MoveUp is true
          answer      \* what the last call returned

vars == <<file, numItems, root, header, pc, key, at, path, moved, answer>>

NilPtr == -1
NoItem == <<>>
NumNodes == Len(file)

Init == /\ file = <<>>
        /\ numItems = 0 /\ root = NilPtr
        /\ header = [items |-> 0, root |-> NilPtr]
        /\ pc = "idle" /\ key \in Key
        /\ at = NilPtr /\ path = <<>> /\ moved = NoItem
        /\ answer = FALSE

-----------------------------------------------------------------------------
(* The difference of two words overflows when they are further apart than Half.  *)
(* That is undefined: a build either lets it wrap or tests the exact sign.       *)
Difference(a, b) ==
  LET d == a - b
  IN  IF ~Wraps \/ d \in -Half .. Half - 1 THEN d
      ELSE IF d < 0 THEN d + 2 * Half ELSE d - 2 * Half

(* SearchNode: the scan from the right stops at the first key that target is not *)
(* below.  Location is one less than this number of keys left of the place.      *)
Location(target, node) ==
  LET notBelow == {i \in 1 .. Len(node.key) : Difference(target, node.key[i]) >= 0}
  IN  IF 1 \notin notBelow THEN 0 ELSE Max(notBelow)

Found(target, node) ==
  LET i == Location(target, node)
  IN  i > 0 /\ Difference(target, node.key[i]) = 0

Child(target, node) == node.branch[Location(target, node) + 1]

(* AddItem puts an item behind the first place keys and right behind it.         *)
AddItemFault(item, right, node, place) ==  \* puts right on the left of the item
  [key    |-> InsertAt(node.key, place + 1, item),
   branch |-> InsertAt(node.branch, place + 1, right)]

AddItem(item, right, node, place) ==
  [key    |-> InsertAt(node.key, place + 1, item),
   branch |-> InsertAt(node.branch, place + 2, right)]

(* Split of a full node: its two halves, the item added to one of them, and the  *)
(* last item of the left half, which leaves it and moves up.                     *)
MedianFault(place) == MinKeys  \* the same for both halves

Median(place) == IF place <= MinKeys THEN MinKeys ELSE MinKeys + 1

WithoutLastFault(left) == left  \* leaves the item in the node

WithoutLast(left) == [key |-> Front(left.key), branch |-> Front(left.branch)]

WithFirstFault(right, branch) == right  \* forgets the branch in front

WithFirst(right, branch) == [right EXCEPT !.branch[1] = branch]

Halves(item, right, node, place) ==
  LET median == Median(place)
      low  == [key    |-> SubSeq(node.key, 1, median),
               branch |-> SubSeq(node.branch, 1, median + 1)]
      high == [key    |-> SubSeq(node.key, median + 1, MaxKeys),
               branch |-> <<NilPtr>> \o SubSeq(node.branch, median + 2, MaxKeys + 1)]
      left == IF place <= MinKeys THEN AddItem(item, right, low, place) ELSE low
      rest == IF place <= MinKeys THEN high ELSE AddItem(item, right, high, place - median)
  IN  [left  |-> WithoutLast(left),
       item  |-> Last(left.key),
       right |-> WithFirst(rest, Last(left.branch))]

-----------------------------------------------------------------------------
(* Insert, called under the write lock.                                          *)
Insert(k) ==
  /\ pc = "idle"
  /\ pc' = "down" /\ key' = k /\ at' = root
  /\ UNCHANGED <<file, numItems, root, header, path, moved, answer>>

Duplicate ==  \* every PushDown returns false, and so does Insert
  /\ pc = "down" /\ at # NilPtr
  /\ Found(key, file[at])
  /\ pc' = "idle" /\ answer' = FALSE /\ path' = <<>>
  /\ UNCHANGED <<file, numItems, root, header, key, at, moved>>

PushDown ==
  /\ pc = "down" /\ at # NilPtr
  /\ ~Found(key, file[at])
  /\ path' = Append(path, [node |-> at, place |-> Location(key, file[at])])
  /\ at' = Child(key, file[at])
  /\ UNCHANGED <<file, numItems, root, header, pc, key, moved, answer>>

Bottom ==
  /\ pc = "down" /\ at = NilPtr
  /\ pc' = "up" /\ moved' = [item |-> key, right |-> NilPtr]
  /\ UNCHANGED <<file, numItems, root, header, key, at, path, answer>>

(* The end of Insert; makeSure and the copies that URLSeen takes of the header.  *)
Inserted ==
  /\ pc' = "idle" /\ answer' = TRUE /\ path' = <<>> /\ moved' = NoItem
  /\ numItems' = numItems + 1
  /\ header' = [items |-> numItems', root |-> root']
  /\ UNCHANGED <<key, at>>

Caller == Last(path)

Place ==  \* the callers of this PushDown have nothing left to do
  /\ pc = "up" /\ path # <<>>
  /\ Len(file[Caller.node].key) < MaxKeys
  /\ file' = [file EXCEPT ![Caller.node] =
                            AddItem(moved.item, moved.right, @, Caller.place)]
  /\ UNCHANGED root
  /\ Inserted

Split ==
  /\ pc = "up" /\ path # <<>>
  /\ Len(file[Caller.node].key) = MaxKeys
  /\ LET halves == Halves(moved.item, moved.right, file[Caller.node], Caller.place)
     IN  /\ file' = Append([file EXCEPT ![Caller.node] = halves.left], halves.right)
         /\ moved' = [item |-> halves.item, right |-> NumNodes + 1]
  /\ path' = Front(path)
  /\ UNCHANGED <<numItems, root, header, pc, key, at, answer>>

GrowFault ==  \* makes the new node the root before it fills it
  /\ pc = "up" /\ path = <<>>
  /\ root' = NumNodes + 1
  /\ file' = Append(file, [key |-> <<moved.item>>, branch |-> <<root', moved.right>>])
  /\ Inserted

Grow ==  \* a new root above the old one
  /\ pc = "up" /\ path = <<>>
  /\ file' = Append(file, [key |-> <<moved.item>>, branch |-> <<root, moved.right>>])
  /\ root' = NumNodes + 1
  /\ Inserted

-----------------------------------------------------------------------------
(* check_file, under the read lock, with a reader of its own.                    *)
Retrieve(k) ==
  /\ pc = "idle"
  /\ pc' = "find" /\ key' = k
  /\ at' = IF header.items = 0 THEN NilPtr ELSE header.root
  /\ UNCHANGED <<file, numItems, root, header, path, moved, answer>>

Look ==
  /\ pc = "find" /\ at # NilPtr /\ ~Found(key, file[at])
  /\ at' = Child(key, file[at])
  /\ UNCHANGED <<file, numItems, root, header, pc, key, path, moved, answer>>

Return ==
  /\ pc = "find" /\ (at # NilPtr => Found(key, file[at]))
  /\ pc' = "idle" /\ answer' = (at # NilPtr)
  /\ UNCHANGED <<file, numItems, root, header, key, at, path, moved>>

Step == Duplicate \/ PushDown \/ Bottom \/ Place \/ Split \/ Grow \/ Look \/ Return

Next == (\E k \in Key : Insert(k) \/ Retrieve(k)) \/ Step

Spec == Init /\ [][Next]_vars
FairSpec == Spec /\ WF_vars(Step)

-----------------------------------------------------------------------------
(* Types: Count and the branches agree, branches lead to nodes of the file.      *)
Node == [key : Seq(Key), branch : Seq({NilPtr} \cup 1 .. NumNodes)]
WellFormed(n) == Len(n.key) \in 1 .. MaxKeys /\ Len(n.branch) = Len(n.key) + 1

TypeOK ==
  /\ file \in Seq(Node) /\ \A n \in 1 .. NumNodes : WellFormed(file[n])
  /\ numItems \in Nat
  /\ root \in {NilPtr} \cup 1 .. NumNodes
  /\ header \in [items : Nat, root : {NilPtr} \cup 1 .. NumNodes]
  /\ pc \in {"idle", "down", "up", "find"}
  /\ key \in Key
  /\ at \in {NilPtr} \cup 1 .. NumNodes
  /\ path \in Seq([node : 1 .. NumNodes, place : 0 .. MaxKeys])
  /\ IF pc = "up" THEN moved \in [item : Key, right : {NilPtr} \cup 1 .. NumNodes]
                  ELSE moved = NoItem
  /\ answer \in BOOLEAN

(* What the tree holds, an item on its way up included.                          *)
KeysOf(n) == ToSet(file[n].key)
Contents == (UNION {KeysOf(n) : n \in 1 .. NumNodes})
              \cup (IF pc = "up" THEN {moved.item} ELSE {})

(* Between calls the count in the header, which check_file tests and makeSure    *)
(* writes, is that of the keys, no key is held twice, and readers start at the   *)
(* root the writer has.                                                          *)
HeaderRight ==
  pc \in {"idle", "find"} =>
    /\ header = [items |-> Cardinality(Contents), root |-> root]
    /\ numItems = Cardinality({ni \in (1 .. NumNodes) \X (1 .. MaxKeys) :
                                 ni[2] <= Len(file[ni[1]].key)})

(* btree.h: a node has at least MinKeys keys, unless it is the root; Split keeps *)
(* that on both sides, whichever of them takes the new item.                     *)
EnoughKeys ==
  \A n \in 1 .. NumNodes : n # root => Len(file[n].key) >= MinKeys

(* All ways from the root down are equally long between calls: a search reads as *)
(* many nodes as the tree is high.                                               *)
Height == LET h[n \in {NilPtr} \cup 1 .. NumNodes] ==
                IF n = NilPtr THEN 0 ELSE 1 + h[file[n].branch[1]]
          IN  h

Balanced ==
  pc = "idle" =>
    \A n \in 1 .. NumNodes : \A i \in 1 .. Len(file[n].branch) :
      Height[file[n].branch[i]] = Height[n] - 1

(* Insert and Retrieve do what table.h wants of a table: an inserted key is in,  *)
(* a duplicate is refused, exactly what was inserted is found, and a split loses *)
(* nothing.  The key counts as inserted once PushDown has found its place.       *)
Call == IF pc \in {"down", "find"}
        THEN [op |-> IF pc = "down" THEN "Insert" ELSE "Retrieve", key |-> key]
        ELSE <<>>

Table == INSTANCE KeyTable WITH table <- Contents, call <- Call,
                                answer <- IF pc = "up" THEN TRUE ELSE answer
ImplementsTable == Table!Spec

(* Every call returns: no search goes round in circles.                          *)
EveryCallReturns == pc # "idle" ~> pc = "idle"

(* btree.cpp, line 473: Retrieve returns true if the key is in the table.        *)
StoredIsFound == [][Return /\ ~answer' => key \notin Contents]_vars
=============================================================================
