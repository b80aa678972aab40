----------------------------- MODULE ContentSeenProofs -----------------------------
(* Two proofs about ContentSeen, for any number of workers, any width of an int  *)
(* and any MAX_DOC.                                                              *)
(* First, that the tree in memory is bounded, whatever the hashes.  Nothing is   *)
(* said of the shape of the tree there: the bound holds whatever is rotated, and *)
(* wherever a handle leads.                                                      *)
(* Then, that the tree and the file together implement the one set of SeenSet,   *)
(* for any hashes whose low words compare as ContentSeen assumes.  That takes    *)
(* the shape of the tree: each node has a place in the order of the iterator,    *)
(* each subtree a span of places, and a name compares with those above it the    *)
(* way that led to it.  From that, a search finds every name that was set and    *)
(* clearself gives them all to the file.                                         *)
EXTENDS ContentSeen, FiniteSetTheorems, SequenceTheorems, NaturalsInduction,
        WellFoundedInduction, TLAPS

(* The first n naturals are the domain of s: it is a sequence of n nodes.        *)
HasLength(s, n) == s = [i \in 1 .. n |-> s[i]]

Points == {"idle", "checkM", "checkF", "add", "write2file", "set"}

Counts == /\ m_counter \in Nat
          /\ \E n \in Nat : HasLength(tree.nodes, n)
          /\ pc \in [Workers -> Points]

-----------------------------------------------------------------------------
(* A list of n nodes is a sequence of them, and Len gives n.                     *)
LEMMA LengthIs ==
  ASSUME NEW s, NEW n \in Nat, HasLength(s, n)
  PROVE  /\ s \in Seq({s[i] : i \in 1 .. n})
         /\ Len(s) = n
  <1> DEFINE S == {s[i] : i \in 1 .. n}
  <1>1. \A i \in 1 .. n : s[i] \in S
    OBVIOUS
  <1> HIDE DEF S
  <1>2. s \in [1 .. n -> S]
    BY <1>1 DEF HasLength
  <1>3. s \in Seq(S)
    BY <1>2, SeqDef
  <1>4. Len(s) \in Nat /\ DOMAIN s = 1 .. Len(s)
    BY <1>3, LenProperties
  <1>5. Len(s) = n
    BY <1>2, <1>4
  <1>6. QED
    BY <1>3, <1>5 DEF S

(* Writing a branch of a node, in the file or not, adds no node.                 *)
LEMMA BranchWritten ==
  ASSUME NEW s, NEW n \in Nat, HasLength(s, n), NEW h, NEW side, NEW child
  PROVE  HasLength([s EXCEPT ![h][side] = child], n)
BY DEF HasLength

(* Link writes one branch: it adds no node.                                      *)
LEMMA Linked ==
  ASSUME NEW s, NEW n \in Nat, HasLength(s, n), NEW h, NEW k, NEW child
  PROVE  HasLength(Link(s, h, k, child), n)
BY BranchWritten DEF Link

(* A rotation moves nodes and adds none.                                         *)
LEMMA Rotates ==
  ASSUME NEW s, NEW n \in Nat, HasLength(s, n), NEW b
  PROVE  HasLength(Balance(s, b).nodes, n)
  <1> DEFINE side == IF AsInt(s[b].name) > 0 THEN "gt" ELSE "lt"
             back == Other(side)
             deep == s[b][side]
             bf   == AsInt(s[deep].name)
             mid  == s[deep][back]
             twice == [s EXCEPT ![b][side] = s[mid][back],
                                ![deep][back] = s[mid][side],
                                ![mid][back] = b, ![mid][side] = deep]
             once  == [s EXCEPT ![b][side] = mid, ![deep][back] = b]
  <1>1. Balance(s, b).nodes = IF (side = "gt" /\ bf < 0) \/ (side = "lt" /\ bf > 0)
                              THEN twice ELSE once
    BY DEF Balance
  <1>2. HasLength(twice, n)
    BY DEF HasLength
  <1>3. HasLength(once, n)
    BY DEF HasLength
  <1> HIDE DEF twice, once
  <1>4. QED
    BY <1>1, <1>2, <1>3

(* A node appended makes the list one longer.                                    *)
LEMMA Appended ==
  ASSUME NEW s, NEW n \in Nat, HasLength(s, n), NEW e
  PROVE  HasLength(Append(s, e), n + 1)
  <1> DEFINE S == {s[i] : i \in 1 .. n} \cup {e}
  <1>1. s \in Seq(S) /\ Len(s) = n
    <2>1. s \in Seq({s[i] : i \in 1 .. n}) /\ Len(s) = n
      BY LengthIs
    <2>2. s \in [1 .. n -> S]
      BY DEF HasLength
    <2> HIDE DEF S
    <2>3. QED
      BY <2>1, <2>2, SeqDef
  <1>2. e \in S
    OBVIOUS
  <1> HIDE DEF S
  <1>3. Append(s, e) \in Seq(S) /\ Len(Append(s, e)) = n + 1
    BY <1>1, <1>2, AppendProperties
  <1>4. Append(s, e) = [i \in 1 .. n + 1 |-> Append(s, e)[i]]
    BY <1>3, LenProperties
  <1>5. QED
    BY <1>4 DEF HasLength

(* Setting a hash adds at most one node.                                         *)
LEMMA SetAdds ==
  ASSUME NEW t, NEW n \in Nat, HasLength(t.nodes, n), NEW k
  PROVE  \E m \in Nat : m <= n + 1 /\ HasLength(Set(t, k).nodes, m)
  <1> DEFINE path   == Path(t, k)
             new    == Len(t.nodes) + 1
             leaf   == [name |-> k, lt |-> 0, gt |-> 0]
             added  == Append(Link(t.nodes, path[Len(path)], k, new), leaf)
             Rotated(i) ==
               LET turned == Balance(added, path[i])
               IN  IF i = 1 THEN [root |-> turned.top, nodes |-> turned.nodes]
                   ELSE [root  |-> t.root,
                         nodes |-> Link(turned.nodes, path[i - 1], k, turned.top)]
             due == {i \in Unbalanced(t.nodes, path) : MustRotate(t.nodes, path[i], k)}
  <1>1. HasLength(added, n + 1) /\ n + 1 \in Nat
    BY Linked, Appended
  <1>2. ASSUME NEW i
        PROVE  HasLength(Rotated(i).nodes, n + 1)
    <2> DEFINE turned == Balance(added, path[i])
    <2>1. HasLength(turned.nodes, n + 1)
      <3> HIDE DEF added, path
      <3>1. QED
        BY <1>1, Rotates
    <2>2. Rotated(i).nodes = IF i = 1 THEN turned.nodes
                             ELSE Link(turned.nodes, path[i - 1], k, turned.top)
      <3> HIDE DEF added, path
      <3>1. QED
        OBVIOUS
    <2> HIDE DEF turned, Rotated
    <2>3. QED
      BY <1>1, <2>1, <2>2, Linked
  <1>3. Insert(t, k) = IF path = <<>> THEN [root |-> new, nodes |-> <<leaf>>]
                       ELSE IF due = {} THEN [root |-> t.root, nodes |-> added]
                       ELSE Rotated(CHOOSE i \in due : TRUE)
    BY DEF Insert
  <1>4. HasLength(<<leaf>>, 1)
    BY DEF HasLength
  <1>5. \/ Insert(t, k).nodes = <<leaf>>
        \/ Insert(t, k).nodes = added
        \/ \E i : Insert(t, k).nodes = Rotated(i).nodes
    <2> HIDE DEF path, new, leaf, added, Rotated, due
    <2>1. CASE path = <<>>
      <3>1. Insert(t, k) = [root |-> new, nodes |-> <<leaf>>]
        BY <1>3, <2>1
      <3>2. QED
        BY <3>1
    <2>2. CASE path # <<>> /\ due = {}
      <3>1. Insert(t, k) = [root |-> t.root, nodes |-> added]
        BY <1>3, <2>2
      <3>2. QED
        BY <3>1
    <2>3. CASE path # <<>> /\ due # {}
      <3>1. Insert(t, k) = Rotated(CHOOSE i \in due : TRUE)
        BY <1>3, <2>3, Zenon
      <3>2. QED
        BY <3>1, Zenon
    <2>4. QED
      BY <2>1, <2>2, <2>3
  <1> HIDE DEF path, new, leaf, added, Rotated, due
  <1>6. \E m \in Nat : m <= n + 1 /\ HasLength(Insert(t, k).nodes, m)
    BY <1>1, <1>2, <1>4, <1>5
  <1>7. QED
    BY <1>6 DEF Set

-----------------------------------------------------------------------------
(* The workers about to add are finitely many, as all workers are.               *)
LEMMA AddersAreFinite ==
  ASSUME NEW ws, ws \subseteq Workers
  PROVE  /\ IsFiniteSet(ws) /\ Cardinality(ws) \in Nat /\ Cardinality(Workers) \in Nat
         /\ Cardinality(ws) <= Cardinality(Workers)
BY ContentSeenAssumption, FS_Subset, FS_CardinalityType

(* A worker gets to set after it has seen the counter below MAX_DOC or made it 0 *)
(* : however many others are there, the bound holds with all of them.            *)
BoundHolds == m_counter + Cardinality(Adding) <= MAX_DOC + Cardinality(Workers) - 1

(* When the counter is below MAX_DOC, the bound holds whoever is about to add,   *)
(* as that is no more than all the workers.                                      *)
LEMMA PassedTheTest ==
  ASSUME Counts', m_counter' < MAX_DOC
  PROVE  BoundHolds'
  <1>1. Adding' \subseteq Workers
    BY DEF Adding
  <1>2. Cardinality(Adding') \in Nat /\ Cardinality(Workers) \in Nat
        /\ Cardinality(Adding') <= Cardinality(Workers)
    BY <1>1, AddersAreFinite
  <1>3. MAX_DOC \in Nat
    BY ContentSeenAssumption
  <1> DEFINE a == Cardinality(Adding')
             c == Cardinality(Workers)
  <1>4. m_counter' + a <= MAX_DOC + c - 1
    <2> HIDE DEF a, c
    <2>1. QED
      BY <1>2, <1>3 DEF Counts, a, c
  <1>5. QED
    BY <1>4 DEF BoundHolds

(* A worker that goes elsewhere leaves the others as they are.                   *)
LEMMA AddersStay ==
  ASSUME NEW w \in Workers, NEW from, NEW to, Goto(w, from, to), Counts,
         from # "set", to # "set"
  PROVE  Adding' = Adding
BY DEF Goto, Adding, Counts

Lengths == Len(tree.nodes) <= m_counter

IInv == Counts /\ Lengths /\ BoundHolds

(* The invariant holds of the empty tree.                                        *)
LEMMA InitIInv == Init => IInv
  <1> SUFFICES ASSUME Init
               PROVE  IInv
    OBVIOUS
  <1>1. tree.nodes = <<>> /\ m_counter = 0 /\ pc = [w \in Workers |-> "idle"]
    BY DEF Init, EmptyTree
  <1>2. HasLength(tree.nodes, 0) /\ Len(tree.nodes) = 0
    BY <1>1 DEF HasLength
  <1>3. Adding = {}
    BY <1>1 DEF Adding
  <1>4. Cardinality(Adding) = 0
    BY <1>3, FS_EmptySet
  <1>5. Cardinality(Workers) \in Nat /\ MAX_DOC \in Nat \ {0}
    BY ContentSeenAssumption, FS_CardinalityType
  <1>6. BoundHolds
    BY <1>1, <1>4, <1>5 DEF BoundHolds
  <1>7. Counts
    BY <1>1, <1>2 DEF Counts, Points
  <1>8. QED
    BY <1>1, <1>2, <1>6, <1>7 DEF IInv, Lengths

(* Every step of a worker keeps the invariant.                                   *)
LEMMA StepIInv ==
  ASSUME IInv, NEW w \in Workers, Check(w) \/ Proceed(w)
  PROVE  IInv'
  <1>1. PICK n \in Nat : HasLength(tree.nodes, n)
    BY DEF IInv, Counts
  <1>2. Len(tree.nodes) = n /\ n <= m_counter /\ m_counter \in Nat
    BY <1>1, LengthIs DEF IInv, Lengths, Counts
  <1>3. pc' \in [Workers -> Points]
    BY DEF Check, Proceed, CheckM, CheckF, Add, Write2File, SetInTree, Goto, Points, IInv, Counts
  <1>4. CASE Check(w) \/ CheckM(w) \/ CheckF(w)
    <2>1. UNCHANGED <<tree, m_counter>>
      BY <1>4 DEF Check, CheckM, CheckF
    <2>2. \E from, to : Goto(w, from, to) /\ from # "set" /\ to # "set"
      BY <1>4 DEF Check, CheckM, CheckF
    <2>3. Adding' = Adding
      BY <2>2, AddersStay DEF IInv
    <2>4. QED
      BY <1>3, <2>1, <2>3 DEF IInv, Counts, Lengths, BoundHolds
  <1>5. CASE Add(w)
    <2>1. UNCHANGED <<tree, m_counter>>
      BY <1>5 DEF Add
    <2>2. Counts' /\ Lengths'
      BY <1>3, <2>1 DEF IInv, Counts, Lengths
    <2>3. CASE m_counter >= MAX_DOC
      <3>1. Goto(w, "add", "write2file")
        BY <1>5, <2>3 DEF Add
      <3>2. Adding' = Adding
        BY <3>1, AddersStay DEF IInv
      <3>3. QED
        BY <2>1, <2>2, <3>2 DEF IInv, BoundHolds
    <2>4. CASE ~ (m_counter >= MAX_DOC)
      <3>1. m_counter' < MAX_DOC
        BY <1>2, <2>1, <2>4, ContentSeenAssumption
      <3>2. QED
        BY <2>2, <3>1, PassedTheTest DEF IInv
    <2>5. QED
      BY <2>3, <2>4
  <1>6. CASE Write2File(w)
    <2>1. CASE m_counter >= MAX_DOC
      <3>1. tree'.nodes = <<>> /\ m_counter' = 0
        BY <1>6, <2>1 DEF Write2File, EmptyTree
      <3>2. HasLength(tree'.nodes, 0) /\ Len(tree'.nodes) = 0
        BY <3>1 DEF HasLength
      <3>3. Counts' /\ Lengths'
        BY <1>3, <3>1, <3>2 DEF Counts, Lengths
      <3>4. m_counter' < MAX_DOC
        BY <3>1, ContentSeenAssumption
      <3>5. QED
        BY <3>3, <3>4, PassedTheTest DEF IInv
    <2>2. CASE ~ (m_counter >= MAX_DOC)
      <3>1. UNCHANGED <<tree, m_counter>>
        BY <1>6, <2>2 DEF Write2File
      <3>2. Counts' /\ Lengths'
        BY <1>3, <3>1 DEF IInv, Counts, Lengths
      <3>3. m_counter' < MAX_DOC
        BY <1>2, <3>1, <2>2, ContentSeenAssumption
      <3>4. QED
        BY <3>2, <3>3, PassedTheTest DEF IInv
    <2>3. QED
      BY <2>1, <2>2
  <1>7. CASE SetInTree(w)
    <2>1. tree' = Set(tree, key[w]) /\ m_counter' = m_counter + 1 /\ Goto(w, "set", "idle")
      BY <1>7 DEF SetInTree
    <2>2. PICK m \in Nat : m <= n + 1 /\ HasLength(tree'.nodes, m)
      BY <1>1, <2>1, SetAdds
    <2>3. Len(tree'.nodes) = m
      BY <2>2, LengthIs
    <2>4. Counts' /\ Lengths'
      BY <1>2, <1>3, <2>1, <2>2, <2>3 DEF Counts, Lengths
    <2>5. w \in Adding /\ Adding' = Adding \ {w}
      BY <2>1 DEF Goto, Adding, IInv, Counts
    <2>6. IsFiniteSet(Adding) /\ Cardinality(Adding) \in Nat /\ Cardinality(Workers) \in Nat
      BY AddersAreFinite DEF Adding
    <2>7. Cardinality(Adding') = Cardinality(Adding) - 1
      BY <2>5, <2>6, FS_RemoveElement
    <2>8. BoundHolds'
      BY <1>2, <2>1, <2>6, <2>7, ContentSeenAssumption DEF IInv, BoundHolds
    <2>9. QED
      BY <2>4, <2>8 DEF IInv
  <1>8. QED
    BY <1>4, <1>5, <1>6, <1>7 DEF Proceed

(* So does every step of the specification, and every stutter.                   *)
LEMMA NextIInv == IInv /\ [Next]_vars => IInv'
  <1> SUFFICES ASSUME IInv, [Next]_vars
               PROVE  IInv'
    OBVIOUS
  <1>1. CASE Next
    BY <1>1, StepIInv DEF Next
  <1>2. CASE UNCHANGED vars
    <2>1. Adding' = Adding
      BY <1>2 DEF vars, Adding
    <2>2. UNCHANGED <<tree, m_counter, pc>>
      BY <1>2 DEF vars
    <2>3. QED
      BY <2>1, <2>2 DEF IInv, Counts, Lengths, BoundHolds
  <1>3. QED
    BY <1>1, <1>2

(* However adders race past the test of the counter, the tree in memory never    *)
(* has more nodes than the counter says, and the two together stay below MAX_DOC *)
(* and one for each other worker.                                                *)
THEOREM TreeStaysBounded == Spec => []TreeBounded
  <1>1. IInv => TreeBounded
    BY DEF IInv, Lengths, BoundHolds, TreeBounded
  <1>2. QED
    BY <1>1, InitIInv, NextIInv, PTL DEF Spec
-----------------------------------------------------------------------------
(* A set of naturals that is not empty has a least element.                      *)
LEMMA LeastNatural ==
  ASSUME NEW S, S \subseteq Nat, S # {}
  PROVE  \E m \in S : \A k \in S : m <= k
  <1>1. PICK x \in S : \A y \in S : ~ (<<y, x>> \in OpToRel(<, Nat))
    BY NatLessThanWellFounded, WFMin
  <1>2. \A y \in S : ~ (y < x)
    BY <1>1 DEF OpToRel
  <1>3. QED
    BY <1>2

(* n steps can be taken one after the other from z.                              *)
Steps(f, S, z, n, step) ==
  /\ f \in [0 .. n -> S]
  /\ f[0] = z
  /\ \A i \in 1 .. n : f[i] = step[<<f[i - 1], i>>]

(* Such steps exist, whatever function says where to go.                         *)
LEMMA StepsExist ==
  ASSUME NEW S, NEW z \in S, NEW n \in Nat, NEW step \in [S \X (1 .. n) -> S]
  PROVE  \E f : Steps(f, S, z, n, step)
  <1> DEFINE Far(m) == \E f : Steps(f, S, z, m, step)
             short == {m \in 0 .. n : ~Far(m)}
  <1>1. Far(0)
    <2>1. Steps([i \in 0 .. 0 |-> z], S, z, 0, step)
      BY DEF Steps
    <2>2. QED
      BY <2>1
  <1>2. ASSUME NEW m \in 1 .. n, Far(m - 1)
        PROVE  Far(m)
    <2>1. PICK f : Steps(f, S, z, m - 1, step)
      BY <1>2
    <2> DEFINE e == step[<<f[m - 1], m>>]
               g == [i \in 0 .. m |-> IF i = m THEN e ELSE f[i]]
    <2>2. f \in [0 .. m - 1 -> S] /\ f[0] = z
      BY <2>1 DEF Steps
    <2>3. e \in S
      BY <2>2
    <2> HIDE DEF e
    <2>4. g \in [0 .. m -> S] /\ g[0] = z
      BY <2>2, <2>3
    <2>5. ASSUME NEW i \in 1 .. m
          PROVE  g[i] = step[<<g[i - 1], i>>]
      <3>1. CASE i = m
        <4>1. g[i] = e /\ g[i - 1] = f[m - 1]
          BY <3>1
        <4>2. QED
          BY <3>1, <4>1 DEF e
      <3>2. CASE i # m
        <4>1. i \in 1 .. m - 1 /\ g[i] = f[i] /\ g[i - 1] = f[i - 1]
          BY <3>2
        <4>2. QED
          BY <2>1, <4>1 DEF Steps
      <3>3. QED
        BY <3>1, <3>2
    <2> HIDE DEF g
    <2>6. Steps(g, S, z, m, step)
      BY <2>4, <2>5 DEF Steps
    <2>7. QED
      BY <2>6
  <1> HIDE DEF Far
  <1>3. short = {}
    <2> SUFFICES ASSUME short # {}
                 PROVE  FALSE
      OBVIOUS
    <2>1. short \subseteq Nat
      OBVIOUS
    <2>2. PICK m \in short : \A k \in short : m <= k
      <3> HIDE DEF short
      <3>1. QED
        BY <2>1, LeastNatural
    <2>3. m \in 1 .. n /\ m - 1 \notin short /\ m - 1 \in 0 .. n
      BY <1>1, <2>2
    <2>4. QED
      BY <1>2, <2>2, <2>3
  <1>4. QED
    BY <1>3 DEF Far

-----------------------------------------------------------------------------
(* f gives each node a number from a to n.                                       *)
Gives(f, a, n) == HasLength(f, n) /\ \A j \in 1 .. n : f[j] \in a .. n

(* w is the way from a node along link, to where that leads nowhere: d nodes.    *)
IsWay(w, d, link, n, from) ==
  /\ HasLength(w, d) /\ \A i \in 1 .. d : w[i] \in 1 .. n
  /\ IF from = 0 THEN d = 0 ELSE d \in 1 .. n /\ w[1] = from /\ link[w[d]] = 0
  /\ \A i \in 1 .. d : i < d => w[i + 1] = link[w[i]]

(* When the nodes get smaller on the way, Walk gets to its end.                  *)
LEMMA WalkIsWay ==
  ASSUME NEW n \in Nat, NEW link, NEW span, NEW from \in 0 .. n,
         Gives(link, 0, n), Gives(span, 1, n),
         \A j \in 1 .. n : link[j] # 0 => span[link[j]] < span[j]
  PROVE  \E d \in 0 .. n : IsWay(Walk(link, from), d, link, n, from) /\ Len(Walk(link, from)) = d
  <1> DEFINE All(f) == [i \in 0 .. Len(link) |->
                          IF i = 0 THEN from ELSE IF f[i - 1] = 0 THEN 0 ELSE link[f[i - 1]]]
             all == CHOOSE f : f = All(f)
             step == [a \in (0 .. n) \X (1 .. n) |-> IF a[1] = 0 THEN 0 ELSE link[a[1]]]
  <1>1. HasLength(link, n) /\ (\A j \in 1 .. n : link[j] \in 0 .. n /\ span[j] \in 1 .. n)
    BY DEF Gives
  <1>2. Len(link) = n
    BY <1>1, LengthIs
  <1>3. Walk(link, from) = [i \in {j \in 1 .. Len(link) : all[j - 1] # 0} |-> all[i - 1]]
    BY DEF Walk
  <1>4. all = All(all)
    <2>1. step \in [(0 .. n) \X (1 .. n) -> 0 .. n]
      BY <1>1
    <2> HIDE DEF step
    <2>2. PICK f : Steps(f, 0 .. n, from, n, step)
      BY <2>1, StepsExist
    <2>3. f = [i \in 0 .. n |-> f[i]] /\ f[0] = from /\ \A i \in 0 .. n : f[i] \in 0 .. n
      BY <2>2 DEF Steps
    <2>4. ASSUME NEW i \in 0 .. n, i # 0
          PROVE  f[i] = IF f[i - 1] = 0 THEN 0 ELSE link[f[i - 1]]
      <3>1. i \in 1 .. n /\ f[i - 1] \in 0 .. n
        BY <2>3, <2>4
      <3>2. f[i] = step[<<f[i - 1], i>>]
        BY <2>2, <3>1 DEF Steps
      <3>3. step[<<f[i - 1], i>>] = IF f[i - 1] = 0 THEN 0 ELSE link[f[i - 1]]
        BY <3>1 DEF step
      <3>4. QED
        BY <3>2, <3>3
    <2>6. f = All(f)
      BY <1>2, <2>3, <2>4
    <2>7. QED
      BY <2>6
  <1>5. PICK at : at = all
    OBVIOUS
  <1>6. /\ DOMAIN at = 0 .. n /\ at[0] = from
        /\ \A i \in 1 .. n : at[i] = IF at[i - 1] = 0 THEN 0 ELSE link[at[i - 1]]
    <2> HIDE DEF all
    <2>1. at = [i \in 0 .. n |-> IF i = 0 THEN from ELSE IF at[i - 1] = 0 THEN 0 ELSE link[at[i - 1]]]
      BY <1>2, <1>4, <1>5
    <2>2. QED
      BY <2>1
  <1>7. Walk(link, from) = [i \in {j \in 1 .. n : at[j - 1] # 0} |-> at[i - 1]]
    BY <1>2, <1>3, <1>5
  <1> HIDE DEF All, all, step
  (* each node is smaller than the one before *)
  <1>8. \A i \in 0 .. n : at[i] \in 0 .. n /\ (at[i] # 0 => span[at[i]] + i <= n)
    <2> DEFINE Good(i) == at[i] \in 0 .. n /\ (at[i] # 0 => span[at[i]] + i <= n)
               bad == {i \in 0 .. n : ~Good(i)}
    <2> SUFFICES ASSUME bad # {}
                 PROVE  FALSE
      OBVIOUS
    <2>1. PICK m \in bad : \A j \in bad : m <= j
      <3>1. bad \subseteq Nat
        OBVIOUS
      <3> HIDE DEF bad
      <3>2. QED
        BY <3>1, LeastNatural
    <2>2. Good(0)
      BY <1>1, <1>6
    <2>3. m \in 1 .. n /\ m - 1 \in 0 .. n /\ m - 1 \notin bad
      BY <2>1, <2>2
    <2>4. Good(m - 1)
      BY <2>3
    <2>5. Good(m)
      <3>1. at[m] = IF at[m - 1] = 0 THEN 0 ELSE link[at[m - 1]]
        BY <1>6, <2>3
      <3>2. CASE at[m - 1] = 0
        BY <3>1, <3>2
      <3>3. CASE at[m - 1] # 0
        <4>1. PICK a \in 1 .. n : a = at[m - 1]
          BY <2>4, <3>3
        <4>2. at[m] = link[a] /\ span[a] + (m - 1) <= n /\ m \in Nat
          BY <2>3, <2>4, <3>1, <3>3, <4>1
        <4>3. CASE link[a] # 0
          <5>1. link[a] \in 1 .. n /\ span[link[a]] \in Nat /\ span[a] \in Nat /\ span[link[a]] < span[a]
            BY <1>1, <4>3
          <5>2. span[link[a]] + m <= n
            BY <4>2, <5>1
          <5>3. QED
            BY <4>2, <5>1, <5>2
        <4>4. QED
          BY <4>2, <4>3
      <3>4. QED
        BY <3>2, <3>3
    <2>6. QED
      BY <2>1, <2>5
  <1>9. at[n] = 0
    BY <1>1, <1>8
  <1> DEFINE ends == {i \in 0 .. n : at[i] = 0}
  <1>10. PICK d \in ends : \A j \in ends : d <= j
    <2>1. ends \subseteq Nat /\ n \in ends
      BY <1>9
    <2> HIDE DEF ends
    <2>2. QED
      BY <2>1, LeastNatural
  <1>11. \A i \in 0 .. n : at[i] # 0 <=> i < d
    <2> DEFINE bad == {i \in 0 .. n : i >= d /\ at[i] # 0}
    <2>1. bad = {}
      <3> SUFFICES ASSUME bad # {}
                   PROVE  FALSE
        OBVIOUS
      <3>1. PICK m \in bad : \A j \in bad : m <= j
        <4>1. bad \subseteq Nat
          OBVIOUS
        <4> HIDE DEF bad
        <4>2. QED
          BY <4>1, LeastNatural
      <3>2. m # d /\ m \in 1 .. n /\ at[m - 1] = 0
        BY <1>10, <3>1
      <3>3. at[m] = 0
        BY <1>6, <3>2
      <3>4. QED
        BY <3>1, <3>3
    <2>2. QED
      BY <1>10, <2>1
  <1>12. {j \in 1 .. n : at[j - 1] # 0} = 1 .. d
    BY <1>10, <1>11
  <1>13. PICK w : w = Walk(link, from)
    OBVIOUS
  <1>14. w = [i \in 1 .. d |-> at[i - 1]]
    BY <1>7, <1>12, <1>13
  <1>15. \A i \in 1 .. d : w[i] \in 1 .. n
    BY <1>8, <1>10, <1>11, <1>14
  <1>16. HasLength(w, d) /\ Len(w) = d
    <2>1. HasLength(w, d) /\ d \in Nat
      BY <1>10, <1>14 DEF HasLength
    <2>2. QED
      BY <2>1, LengthIs
  <1>17. IF from = 0 THEN d = 0 ELSE d \in 1 .. n /\ w[1] = from /\ link[w[d]] = 0
    BY <1>6, <1>10, <1>11, <1>14
  <1>18. \A i \in 1 .. d : i < d => w[i + 1] = link[w[i]]
    BY <1>6, <1>10, <1>11, <1>14
  <1>19. QED
    BY <1>10, <1>13, <1>15, <1>16, <1>17, <1>18 DEF IsWay

-----------------------------------------------------------------------------
(* The tree as functions of its handles.  pos is where the walk over the tree    *)
(* meets a node; lo and hi are where it meets the first and the last node of the *)
(* subtree at it.                                                                *)
Nodes(n, name, lt, gt) == [h \in 1 .. n |-> [name |-> name[h], lt |-> lt[h], gt |-> gt[h]]]

Types(n, lt, gt, lo, hi, pos) ==
  /\ Gives(lt, 0, n) /\ Gives(gt, 0, n)
  /\ Gives(lo, 1, n) /\ Gives(hi, 1, n) /\ Gives(pos, 1, n)

(* The subtree at the root is the whole tree.                                    *)
RootSpans(n, root, lo, hi) == root \in 0 .. n /\ (n # 0 => root # 0 /\ lo[root] = 1 /\ hi[root] = n)

Between(n, lo, hi, pos) == \A h \in 1 .. n : lo[h] <= pos[h] /\ pos[h] <= hi[h]

(* The subtree on the less side of a node ends just before it, and that on the   *)
(* greater side begins just after it; a node without one is at the border of its *)
(* own subtree.                                                                  *)
LessBranch(n, lt, lo, hi, pos) ==
  \A h \in 1 .. n : IF lt[h] = 0 THEN lo[h] = pos[h]
                    ELSE lo[lt[h]] = lo[h] /\ hi[lt[h]] = pos[h] - 1

GreaterBranch(n, gt, lo, hi, pos) ==
  \A h \in 1 .. n : IF gt[h] = 0 THEN hi[h] = pos[h]
                    ELSE lo[gt[h]] = pos[h] + 1 /\ hi[gt[h]] = hi[h]

(* Each place is that of one node.                                               *)
OneEach(n, pos) == /\ \A g, h \in 1 .. n : pos[g] = pos[h] => g = h
                   /\ \A p \in 1 .. n : \E h \in 1 .. n : pos[h] = p

(* A node below another is below it with its whole subtree, on the same side.    *)
Apart(n, lo, hi, pos) ==
  \A g, h \in 1 .. n :
    /\ lo[h] <= pos[g] /\ pos[g] < pos[h] => lo[h] <= lo[g] /\ hi[g] < pos[h]
    /\ pos[h] < pos[g] /\ pos[g] <= hi[h] => pos[h] < lo[g] /\ hi[g] <= hi[h]

Placed(n, root, lt, gt, lo, hi, pos) ==
  /\ Types(n, lt, gt, lo, hi, pos)
  /\ RootSpans(n, root, lo, hi)
  /\ Between(n, lo, hi, pos)
  /\ LessBranch(n, lt, lo, hi, pos)
  /\ GreaterBranch(n, gt, lo, hi, pos)
  /\ OneEach(n, pos)
  /\ Apart(n, lo, hi, pos)

(* A node compares with those above it the way that led to it.  It need not with *)
(* others: the order of the names may go round.                                  *)
InOrder(n, name, lo, hi, pos) ==
  \A g, h \in 1 .. n :
    /\ lo[h] <= pos[g] /\ pos[g] < pos[h] => Cmp(name[g], name[h]) < 0
    /\ pos[h] < pos[g] /\ pos[g] <= hi[h] => Cmp(name[g], name[h]) > 0

Named(n, name) == HasLength(name, n) /\ \A h \in 1 .. n : name[h] \in Int

(* compare gives an int, as the cut to the low word does.                        *)
LEMMA CmpIsInt ==
  ASSUME NEW a \in Int, NEW b \in Int
  PROVE  Cmp(a, b) \in Int /\ AsInt(a) \in Int
  <1>1. ASSUME NEW x \in Int
        PROVE  AsInt(x) \in Int
    <2>1. 2 * IntHalf \in Int /\ 2 * IntHalf > 0 /\ x + IntHalf \in Int
      BY AVLAssumption
    <2>2. PICK m \in Int : m = 2 * IntHalf /\ m > 0
      BY <2>1
    <2>3. (x + IntHalf) % m \in Int
      BY <2>1, <2>2
    <2>4. QED
      BY <2>2, <2>3, AVLAssumption DEF AsInt
  <1>2. QED
    BY <1>1 DEF Cmp

(* A name is the same as itself.                                                 *)
LEMMA SameAsItself ==
  ASSUME NEW a \in Int
  PROVE  Cmp(a, a) = 0
  <1>1. a - a = 0
    OBVIOUS
  <1>2. 0 + IntHalf = IntHalf /\ IntHalf \in Nat /\ IntHalf > 0 /\ IntHalf < 2 * IntHalf
    BY AVLAssumption
  <1>3. PICK m \in Nat : m = 2 * IntHalf
    BY <1>2
  <1>4. IntHalf % m = IntHalf
    BY <1>2, <1>3
  <1>5. AsInt(0) = 0
    BY <1>2, <1>3, <1>4 DEF AsInt
  <1>6. QED
    BY <1>1, <1>5 DEF Cmp

(* Any way down the tree comes to an end.                                        *)
LEMMA WayDown ==
  ASSUME NEW n \in Nat, NEW root, NEW lt, NEW gt, NEW lo, NEW hi, NEW pos,
         Placed(n, root, lt, gt, lo, hi, pos),
         NEW link, HasLength(link, n), \A h \in 1 .. n : link[h] \in {0, lt[h], gt[h]},
         NEW from \in 0 .. n
  PROVE  \E d \in 0 .. n : IsWay(Walk(link, from), d, link, n, from) /\ Len(Walk(link, from)) = d
  <1> DEFINE span == [h \in 1 .. n |-> hi[h] - lo[h] + 1]
  <1>1. \A h \in 1 .. n : /\ lt[h] \in 0 .. n /\ gt[h] \in 0 .. n
                          /\ lo[h] \in 1 .. n /\ hi[h] \in 1 .. n /\ pos[h] \in 1 .. n
    BY DEF Placed, Types, Gives
  <1>2. \A h \in 1 .. n : lo[h] <= pos[h] /\ pos[h] <= hi[h]
    BY DEF Placed, Between
  <1>3. Gives(link, 0, n)
    BY <1>1 DEF Gives
  <1>4. \A h \in 1 .. n : span[h] = hi[h] - lo[h] + 1
    OBVIOUS
  <1>5. HasLength(span, n)
    BY DEF HasLength
  <1> HIDE DEF span
  <1>6. \A h \in 1 .. n : span[h] \in 1 .. n
    BY <1>1, <1>2, <1>4
  <1>7. ASSUME NEW h \in 1 .. n, link[h] # 0
        PROVE  span[link[h]] < span[h]
    <2>1. PICK c \in 1 .. n : c = link[h]
      BY <1>1, <1>7
    <2>2. CASE link[h] = lt[h]
      <3>1. lo[c] = lo[h] /\ hi[c] = pos[h] - 1
        BY <2>1, <2>2, <1>7 DEF Placed, LessBranch
      <3>2. QED
        BY <1>1, <1>2, <1>4, <2>1, <3>1
    <2>3. CASE link[h] = gt[h]
      <3>1. lo[c] = pos[h] + 1 /\ hi[c] = hi[h]
        BY <2>1, <2>3, <1>7 DEF Placed, GreaterBranch
      <3>2. QED
        BY <1>1, <1>2, <1>4, <2>1, <3>1
    <2>4. QED
      BY <1>7, <2>2, <2>3
  <1>8. Gives(span, 1, n)
    BY <1>5, <1>6 DEF Gives
  <1>9. QED
    BY <1>3, <1>7, <1>8, WalkIsWay

(* Where a search for k goes from each node.                                     *)
Onward(n, name, lt, gt, k) ==
  [h \in 1 .. n |-> IF Same(k, name[h]) THEN 0
                    ELSE IF Cmp(k, name[h]) < 0 THEN lt[h] ELSE gt[h]]

(* A tree given by functions of its handles has as many nodes as handles.        *)
LEMMA NodesHaveLength ==
  ASSUME NEW n \in Nat, NEW name, NEW lt, NEW gt
  PROVE  /\ HasLength(Nodes(n, name, lt, gt), n)
         /\ Len(Nodes(n, name, lt, gt)) = n
  <1>1. HasLength(Nodes(n, name, lt, gt), n)
    BY DEF HasLength, Nodes
  <1>2. QED
    BY <1>1, LengthIs

(* The fields of a node, by either way to write them.                            *)
LEMMA FieldsOfNode ==
  ASSUME NEW n \in Nat, NEW name, NEW lt, NEW gt, NEW h \in 1 .. n
  PROVE  /\ Nodes(n, name, lt, gt)[h].name = name[h]
         /\ Nodes(n, name, lt, gt)[h]["lt"] = lt[h]
         /\ Nodes(n, name, lt, gt)[h]["gt"] = gt[h]
         /\ Nodes(n, name, lt, gt)[h].lt = lt[h]
         /\ Nodes(n, name, lt, gt)[h].gt = gt[h]
BY DEF Nodes

(* The path of a search is the walk along where it goes from each node.          *)
LEMMA PathIsWalk ==
  ASSUME NEW n \in Nat, NEW name, NEW lt, NEW gt, NEW t, NEW k,
         t.nodes = Nodes(n, name, lt, gt)
  PROVE  Path(t, k) = Walk(Onward(n, name, lt, gt, k), t.root)
  <1> DEFINE link == [h \in 1 .. Len(t.nodes) |-> IF Same(k, t.nodes[h].name) THEN 0
                                    ELSE t.nodes[h][Side(k, t.nodes[h])]]
  <1>1. Len(t.nodes) = n
    BY NodesHaveLength
  <1>2. ASSUME NEW h \in 1 .. n
        PROVE  (IF Same(k, t.nodes[h].name) THEN 0 ELSE t.nodes[h][Side(k, t.nodes[h])])
             = IF Same(k, name[h]) THEN 0 ELSE IF Cmp(k, name[h]) < 0 THEN lt[h] ELSE gt[h]
    <2>1. PICK node : node = t.nodes[h]
      OBVIOUS
    <2>2. node.name = name[h] /\ node["lt"] = lt[h] /\ node["gt"] = gt[h]
      BY <2>1, FieldsOfNode
    <2>3. Side(k, node) = IF Cmp(k, name[h]) < 0 THEN "lt" ELSE "gt"
      BY <2>2 DEF Side
    <2>4. node[Side(k, node)] = IF Cmp(k, name[h]) < 0 THEN lt[h] ELSE gt[h]
      <3>1. CASE Cmp(k, name[h]) < 0
        BY <2>2, <2>3, <3>1, Zenon
      <3>2. CASE ~ (Cmp(k, name[h]) < 0)
        BY <2>2, <2>3, <3>2, Zenon
      <3>3. QED
        BY <3>1, <3>2
    <2>5. QED
      BY <2>1, <2>2, <2>4, Zenon
  <1>3. link = Onward(n, name, lt, gt, k)
    <2>1. link = [h \in 1 .. n |-> IF Same(k, t.nodes[h].name) THEN 0
                                    ELSE t.nodes[h][Side(k, t.nodes[h])]]
      BY <1>1
    <2>2. QED
      BY <1>2, <2>1, Zenon DEF Onward
  <1>4. Path(t, k) = Walk(link, t.root)
    BY DEF Path
  <1>5. QED
    BY <1>3, <1>4, Zenon

(* The node a way ends at is below all on the way.                               *)
LEMMA WayNarrows ==
  ASSUME NEW n \in Nat, NEW root, NEW lt, NEW gt, NEW lo, NEW hi, NEW pos,
         Placed(n, root, lt, gt, lo, hi, pos),
         NEW link, HasLength(link, n), \A h \in 1 .. n : link[h] \in {0, lt[h], gt[h]},
         NEW from \in 1 .. n, NEW d \in Nat, NEW w, IsWay(w, d, link, n, from)
  PROVE  \A i \in 1 .. d : lo[w[i]] <= pos[w[d]] /\ pos[w[d]] <= hi[w[i]]
  <1>1. \A h \in 1 .. n : /\ lt[h] \in 0 .. n /\ gt[h] \in 0 .. n
                          /\ lo[h] \in 1 .. n /\ hi[h] \in 1 .. n /\ pos[h] \in 1 .. n
    BY DEF Placed, Types, Gives
  <1>2. \A h \in 1 .. n : lo[h] <= pos[h] /\ pos[h] <= hi[h]
    BY DEF Placed, Between
  <1>3. d \in 1 .. n /\ (\A i \in 1 .. d : w[i] \in 1 .. n)
        /\ (\A i \in 1 .. d : i < d => w[i + 1] = link[w[i]])
    BY DEF IsWay
  <1> DEFINE Good(i) == lo[w[i]] <= pos[w[d]] /\ pos[w[d]] <= hi[w[i]]
             bad == {e \in 0 .. d - 1 : ~Good(d - e)}
  <1>4. bad = {}
    <2> SUFFICES ASSUME bad # {}
                 PROVE  FALSE
      OBVIOUS
    <2>1. PICK m \in bad : \A j \in bad : m <= j
      <3>1. bad \subseteq Nat
        OBVIOUS
      <3> HIDE DEF bad
      <3>2. QED
        BY <3>1, LeastNatural
    <2>2. Good(d)
      BY <1>2, <1>3
    <2>3. m \in 1 .. d - 1 /\ m - 1 \in 0 .. d - 1 /\ m - 1 \notin bad
      BY <1>3, <2>1, <2>2
    <2>4. PICK i \in 1 .. d : i = d - m /\ i + 1 = d - (m - 1) /\ i < d
      BY <1>3, <2>3
    <2>5. Good(i + 1)
      BY <2>3, <2>4
    <2>6. w[i] \in 1 .. n /\ w[i + 1] \in 1 .. n /\ w[i + 1] = link[w[i]]
      BY <1>3, <2>4
    <2>7. lo[w[i]] <= lo[w[i + 1]] /\ hi[w[i + 1]] <= hi[w[i]]
      <3>1. PICK h \in 1 .. n, c \in 1 .. n : h = w[i] /\ c = w[i + 1] /\ c = link[h]
        BY <2>6
      <3>2. CASE c = lt[h]
        <4>1. lo[c] = lo[h] /\ hi[c] = pos[h] - 1
          BY <3>1, <3>2 DEF Placed, LessBranch
        <4>2. QED
          BY <1>1, <1>2, <3>1, <4>1
      <3>3. CASE c = gt[h]
        <4>1. lo[c] = pos[h] + 1 /\ hi[c] = hi[h]
          BY <3>1, <3>3 DEF Placed, GreaterBranch
        <4>2. QED
          BY <1>1, <1>2, <3>1, <4>1
      <3>4. QED
        BY <3>1, <3>2, <3>3
    <2>8. Good(i)
      <3>1. w[d] \in 1 .. n
        BY <1>3
      <3>2. QED
        BY <1>1, <2>5, <2>6, <2>7, <3>1
    <2>9. QED
      BY <2>1, <2>4, <2>8
  <1>5. ASSUME NEW i \in 1 .. d
        PROVE  Good(i)
    <2>1. d - i \in 0 .. d - 1 /\ d - (d - i) = i
      OBVIOUS
    <2>2. QED
      BY <1>4, <2>1
  <1>6. QED
    BY <1>5

(* A list of no nodes is the empty sequence.                                     *)
LEMMA NothingLong ==
  ASSUME NEW s, HasLength(s, 0)
  PROVE  s = <<>>
  <1>1. s \in Seq({s[i] : i \in 1 .. 0}) /\ Len(s) = 0
    BY LengthIs
  <1>2. QED
    BY <1>1, EmptySeq

(* Where a search goes from a node: nowhere, or along one of its branches.       *)
LEMMA OnwardLinks ==
  ASSUME NEW n \in Nat, NEW name, NEW lt, NEW gt, NEW k, NEW link, link = Onward(n, name, lt, gt, k)
  PROVE  /\ HasLength(link, n)
         /\ \A h \in 1 .. n : link[h] \in {0, lt[h], gt[h]}
         /\ \A h \in 1 .. n : link[h] = IF Cmp(k, name[h]) = 0 THEN 0
                                        ELSE IF Cmp(k, name[h]) < 0 THEN lt[h] ELSE gt[h]
BY DEF Onward, HasLength, Same

IsTree(t, n, name, lt, gt, lo, hi, pos) ==
  /\ n \in Nat
  /\ t.nodes = Nodes(n, name, lt, gt)
  /\ Placed(n, t.root, lt, gt, lo, hi, pos)
  /\ Named(n, name)
  /\ InOrder(n, name, lo, hi, pos)

(* A search goes down the tree to a node that is the same, or that has no branch *)
(* on the side where the name would be.                                          *)
LEMMA SearchGoesDown ==
  ASSUME NEW t, NEW n, NEW name, NEW lt, NEW gt, NEW lo, NEW hi, NEW pos,
         IsTree(t, n, name, lt, gt, lo, hi, pos), NEW k
  PROVE  \E d \in 0 .. n : /\ IsWay(Path(t, k), d, Onward(n, name, lt, gt, k), n, t.root)
                           /\ Len(Path(t, k)) = d
                           /\ t.root \in 0 .. n
                           /\ n # 0 => t.root # 0
                           /\ d = 0 => Path(t, k) = <<>>
                           /\ d # 0 => Path(t, k) # <<>>
                           /\ Get(t, k) <=> d # 0 /\ Same(k, name[Path(t, k)[d]])
  <1>1. n \in Nat /\ t.nodes = Nodes(n, name, lt, gt) /\ Placed(n, t.root, lt, gt, lo, hi, pos)
    BY DEF IsTree
  <1>2. t.root \in 0 .. n /\ (n # 0 => t.root # 0)
    BY <1>1 DEF Placed, RootSpans
  <1>3. PICK link : link = Onward(n, name, lt, gt, k)
    OBVIOUS
  <1>4. HasLength(link, n) /\ \A h \in 1 .. n : link[h] \in {0, lt[h], gt[h]}
    BY <1>1, <1>3, OnwardLinks
  <1>5. PICK path : path = Path(t, k)
    OBVIOUS
  <1>6. path = Walk(link, t.root)
    BY <1>1, <1>3, <1>5, PathIsWalk
  <1>7. PICK d \in 0 .. n : IsWay(path, d, link, n, t.root) /\ Len(path) = d
    BY <1>1, <1>2, <1>4, <1>6, WayDown
  <1>8. d = 0 => path = <<>>
    BY <1>7, NothingLong DEF IsWay
  <1>9. d # 0 => path # <<>>
    BY <1>7
  <1>10. Get(t, k) <=> d # 0 /\ Same(k, name[path[d]])
    <2> DEFINE last == IF path = <<>> THEN 0 ELSE path[Len(path)]
    <2>1. Search(t, k) = IF last # 0 /\ Same(k, t.nodes[last].name) THEN last ELSE 0
      BY <1>5 DEF Search
    <2>2. CASE d = 0
      <3>1. last = 0
        BY <1>8, <2>2
      <3>2. QED
        BY <2>1, <2>2, <3>1 DEF Get
    <2>3. CASE d # 0
      <3>1. PICK h \in 1 .. n : h = path[d]
        BY <1>7, <2>3 DEF IsWay
      <3>2. last = h /\ h # 0
        BY <1>7, <1>9, <2>3, <3>1
      <3>3. t.nodes[h].name = name[h]
        BY <1>1, FieldsOfNode
      <3>4. Search(t, k) = IF Same(k, name[h]) THEN h ELSE 0
        BY <2>1, <3>2, <3>3, Zenon
      <3>5. QED
        BY <2>3, <3>1, <3>2, <3>4 DEF Get
    <2>4. QED
      BY <2>2, <2>3
  <1>11. QED
    BY <1>2, <1>3, <1>5, <1>7, <1>8, <1>9, <1>10

(* Only a name that is there, or one with the same low word, is found.           *)
LEMMA FoundIsThere ==
  ASSUME NEW t, NEW n, NEW name, NEW lt, NEW gt, NEW lo, NEW hi, NEW pos,
         IsTree(t, n, name, lt, gt, lo, hi, pos), NEW k, Get(t, k)
  PROVE  \E h \in 1 .. n : Same(k, name[h])
  <1>1. PICK d \in 0 .. n : /\ IsWay(Path(t, k), d, Onward(n, name, lt, gt, k), n, t.root)
                            /\ d # 0 /\ Same(k, name[Path(t, k)[d]])
    BY SearchGoesDown
  <1>2. Path(t, k)[d] \in 1 .. n
    BY <1>1 DEF IsWay
  <1>3. QED
    BY <1>1, <1>2

(* A search for the name of a node finds that node or one with the same low word.*)
LEMMA NameIsFound ==
  ASSUME NEW t, NEW n, NEW name, NEW lt, NEW gt, NEW lo, NEW hi, NEW pos,
         IsTree(t, n, name, lt, gt, lo, hi, pos), NEW g \in 1 .. n
  PROVE  Get(t, name[g])
  <1>1. PICK k : k = name[g]
    OBVIOUS
  <1>2. PICK d \in 0 .. n : /\ IsWay(Path(t, k), d, Onward(n, name, lt, gt, k), n, t.root)
                            /\ t.root \in 0 .. n
                            /\ n # 0 => t.root # 0
                            /\ Get(t, k) <=> d # 0 /\ Same(k, name[Path(t, k)[d]])
    BY SearchGoesDown
  <1>3. PICK w, link, root : w = Path(t, k) /\ link = Onward(n, name, lt, gt, k) /\ root = t.root
    OBVIOUS
  <1>4. n \in Nat /\ Placed(n, root, lt, gt, lo, hi, pos) /\ root \in 1 .. n /\ k \in Int
    BY <1>1, <1>2, <1>3 DEF IsTree, Named
  <1>5. d \in 1 .. n /\ w[1] = root /\ link[w[d]] = 0 /\ (\A i \in 1 .. d : w[i] \in 1 .. n)
        /\ (\A i \in 1 .. d : i < d => w[i + 1] = link[w[i]])
    BY <1>2, <1>3, <1>4 DEF IsWay
  <1>6. \A h \in 1 .. n : link[h] = IF Cmp(k, name[h]) = 0 THEN 0
                                    ELSE IF Cmp(k, name[h]) < 0 THEN lt[h] ELSE gt[h]
    BY <1>3, <1>4, OnwardLinks
  <1>7. \A h \in 1 .. n : /\ lt[h] \in 0 .. n /\ gt[h] \in 0 .. n
                          /\ lo[h] \in 1 .. n /\ hi[h] \in 1 .. n /\ pos[h] \in 1 .. n
    BY <1>4 DEF Placed, Types, Gives
  <1>8. ASSUME NEW h \in 1 .. n, h # g, lo[h] <= pos[g], pos[g] <= hi[h]
        PROVE  \/ Cmp(k, name[h]) < 0 /\ pos[g] < pos[h]
               \/ Cmp(k, name[h]) > 0 /\ pos[h] < pos[g]
    <2>1. pos[g] # pos[h]
      BY <1>4, <1>8 DEF Placed, OneEach
    <2>2. InOrder(n, name, lo, hi, pos)
      BY DEF IsTree
    <2>3. CASE pos[g] < pos[h]
      BY <1>1, <1>8, <2>2, <2>3 DEF InOrder
    <2>4. CASE pos[h] < pos[g]
      BY <1>1, <1>8, <2>2, <2>4 DEF InOrder
    <2>5. pos[g] < pos[h] \/ pos[h] < pos[g]
      <3>1. pos[g] \in Int /\ pos[h] \in Int
        BY <1>7
      <3>2. QED
        BY <2>1, <3>1
    <2>6. QED
      BY <2>3, <2>4, <2>5, Zenon
  <1> DEFINE Good(i) == lo[w[i]] <= pos[g] /\ pos[g] <= hi[w[i]]
             bad == {i \in 1 .. d : ~Good(i)}
  <1>9. ASSUME NEW h \in 1 .. n, Cmp(k, name[h]) # 0, lo[h] <= pos[g], pos[g] <= hi[h]
        PROVE  link[h] # 0 /\ lo[link[h]] <= pos[g] /\ pos[g] <= hi[link[h]]
    <2>1. h # g
      BY <1>1, <1>4, <1>9, SameAsItself
    <2>2. CASE Cmp(k, name[h]) < 0 /\ pos[g] < pos[h]
      <3>1. link[h] = lt[h]
        BY <1>6, <1>9, <2>2
      <3>2. IF lt[h] = 0 THEN lo[h] = pos[h] ELSE lo[lt[h]] = lo[h] /\ hi[lt[h]] = pos[h] - 1
        BY <1>4 DEF Placed, LessBranch
      <3>3. PICK c : c = lt[h]
        OBVIOUS
      <3>4. c # 0
        BY <1>7, <1>9, <2>2, <3>2, <3>3
      <3>5. c \in 1 .. n /\ lo[c] = lo[h] /\ hi[c] = pos[h] - 1
        BY <1>7, <3>2, <3>3, <3>4
      <3>6. lo[c] <= pos[g] /\ pos[g] <= hi[c]
        BY <1>7, <1>9, <2>2, <3>5
      <3>7. QED
        BY <3>1, <3>3, <3>4, <3>6
    <2>3. CASE Cmp(k, name[h]) > 0 /\ pos[h] < pos[g]
      <3>1. name[h] \in Int
        BY DEF IsTree, Named
      <3>2. link[h] = gt[h]
        <4>1. PICK c \in Int : c = Cmp(k, name[h])
          BY <1>4, <3>1, CmpIsInt
        <4>2. ~ (c = 0) /\ ~ (c < 0)
          BY <2>3, <4>1
        <4>3. QED
          BY <1>6, <4>1, <4>2, Zenon
      <3>3. IF gt[h] = 0 THEN hi[h] = pos[h] ELSE lo[gt[h]] = pos[h] + 1 /\ hi[gt[h]] = hi[h]
        BY <1>4 DEF Placed, GreaterBranch
      <3>4. PICK c : c = gt[h]
        OBVIOUS
      <3>5. c # 0
        BY <1>7, <1>9, <2>3, <3>3, <3>4
      <3>6. c \in 1 .. n /\ lo[c] = pos[h] + 1 /\ hi[c] = hi[h]
        BY <1>7, <3>3, <3>4, <3>5
      <3>7. lo[c] <= pos[g] /\ pos[g] <= hi[c]
        BY <1>7, <1>9, <2>3, <3>6
      <3>8. QED
        BY <3>2, <3>4, <3>5, <3>7
    <2>4. QED
      BY <1>8, <1>9, <2>1, <2>2, <2>3
  <1>10. bad = {}
    <2> SUFFICES ASSUME bad # {}
                 PROVE  FALSE
      OBVIOUS
    <2>1. PICK m \in bad : \A j \in bad : m <= j
      <3>1. bad \subseteq Nat
        OBVIOUS
      <3> HIDE DEF bad
      <3>2. QED
        BY <3>1, LeastNatural
    <2>2. Good(1)
      <3>1. lo[root] = 1 /\ hi[root] = n
        BY <1>4 DEF Placed, RootSpans
      <3>2. QED
        BY <1>5, <1>7, <3>1
    <2>3. m \in 2 .. d /\ m - 1 \in 1 .. d /\ m - 1 \notin bad /\ m - 1 < d
      BY <2>1, <2>2
    <2>4. PICK i \in 1 .. d, h \in 1 .. n : i = m - 1 /\ h = w[i] /\ i < d /\ i + 1 = m
      BY <1>5, <2>3
    <2>5. lo[h] <= pos[g] /\ pos[g] <= hi[h]
      BY <2>3, <2>4
    <2>6. w[m] = link[h] /\ w[m] \in 1 .. n
      BY <1>5, <2>3, <2>4
    <2>7. Cmp(k, name[h]) # 0
      BY <1>6, <2>6
    <2>8. lo[link[h]] <= pos[g] /\ pos[g] <= hi[link[h]]
      BY <1>9, <2>5, <2>7
    <2>9. QED
      BY <2>1, <2>6, <2>8
  <1>11. PICK b \in 1 .. n : b = w[d]
    BY <1>5
  <1>12. lo[b] <= pos[g] /\ pos[g] <= hi[b] /\ link[b] = 0
    BY <1>5, <1>10, <1>11
  <1>13. Cmp(k, name[b]) = 0
    BY <1>9, <1>12
  <1>14. Get(t, k)
    BY <1>2, <1>3, <1>5, <1>11, <1>13 DEF Same
  <1>15. QED
    BY <1>1, <1>14

(* All nodes that the end of a search is below have been met by it, and it went  *)
(* from each to the side where the end is.                                       *)
LEMMA MetOnTheWay ==
  ASSUME NEW n \in Nat, NEW root, NEW lt, NEW gt, NEW lo, NEW hi, NEW pos,
         Placed(n, root, lt, gt, lo, hi, pos), NEW name, Named(n, name), NEW k \in Int,
         NEW link, link = Onward(n, name, lt, gt, k),
         NEW d \in Nat, NEW w, root \in 1 .. n, IsWay(w, d, link, n, root),
         NEW b, b = w[d],
         NEW h \in 1 .. n, h # b, lo[h] <= pos[b], pos[b] <= hi[h]
  PROVE  \E j \in 1 .. d :
           /\ j < d /\ w[j] = h
           /\ pos[b] < pos[h] => Cmp(k, name[h]) < 0 /\ w[j + 1] = lt[h]
           /\ pos[h] < pos[b] => Cmp(k, name[h]) > 0 /\ w[j + 1] = gt[h]
  <1>1. d \in 1 .. n /\ w[1] = root /\ (\A i \in 1 .. d : w[i] \in 1 .. n)
        /\ (\A i \in 1 .. d : i < d => w[i + 1] = link[w[i]])
    BY DEF IsWay
  <1>2. \A g \in 1 .. n : /\ lt[g] \in 0 .. n /\ gt[g] \in 0 .. n
                          /\ lo[g] \in 1 .. n /\ hi[g] \in 1 .. n /\ pos[g] \in 1 .. n
    BY DEF Placed, Types, Gives
  <1>3. \A g \in 1 .. n : lo[g] <= pos[g] /\ pos[g] <= hi[g]
    BY DEF Placed, Between
  <1>4. /\ HasLength(link, n)
        /\ \A g \in 1 .. n : link[g] \in {0, lt[g], gt[g]}
        /\ \A g \in 1 .. n : link[g] = IF Cmp(k, name[g]) = 0 THEN 0
                                       ELSE IF Cmp(k, name[g]) < 0 THEN lt[g] ELSE gt[g]
    BY OnwardLinks
  <1>5. \A i \in 1 .. d : lo[w[i]] <= pos[b] /\ pos[b] <= hi[w[i]]
    BY <1>4, WayNarrows
  <1>6. b \in 1 .. n
    BY <1>1
  (* where a step of the way leads *)
  <1>7. ASSUME NEW i \in 1 .. d, i < d
        PROVE  /\ i + 1 \in 1 .. d
               /\ w[i + 1] = lt[w[i]] => /\ lo[w[i + 1]] = lo[w[i]] /\ hi[w[i + 1]] = pos[w[i]] - 1
                                         /\ pos[b] < pos[w[i]]
               /\ w[i + 1] = gt[w[i]] => /\ lo[w[i + 1]] = pos[w[i]] + 1 /\ hi[w[i + 1]] = hi[w[i]]
                                         /\ pos[w[i]] < pos[b]
               /\ w[i + 1] = IF Cmp(k, name[w[i]]) < 0 THEN lt[w[i]] ELSE gt[w[i]]
    <2>1. i + 1 \in 1 .. d
      BY <1>7
    <2>2. PICK g \in 1 .. n, c \in 1 .. n : g = w[i] /\ c = w[i + 1] /\ c = link[g]
      BY <1>1, <1>7, <2>1
    <2>3. lo[c] <= pos[b] /\ pos[b] <= hi[c]
      BY <1>5, <2>1, <2>2
    <2>4. c = IF Cmp(k, name[g]) < 0 THEN lt[g] ELSE gt[g]
      BY <1>4, <2>2
    <2>5. c = lt[g] => lo[c] = lo[g] /\ hi[c] = pos[g] - 1
      BY DEF Placed, LessBranch
    <2>6. c = lt[g] => pos[b] < pos[g]
      BY <1>2, <1>6, <2>3, <2>5
    <2>7. c = gt[g] => lo[c] = pos[g] + 1 /\ hi[c] = hi[g]
      BY DEF Placed, GreaterBranch
    <2>8. c = gt[g] => pos[g] < pos[b]
      BY <1>2, <1>6, <2>3, <2>7
    <2>9. QED
      BY <2>1, <2>2, <2>4, <2>5, <2>6, <2>7, <2>8, Zenon
  <1> DEFINE Met(i) == \E j \in 1 .. d : j < i /\ w[j] = h
             Under(g) == lo[g] <= lo[h] /\ hi[h] <= hi[g]
             bad == {i \in 1 .. d : ~ (Met(i) \/ Under(w[i]))}
  <1>8. bad = {}
    <2> SUFFICES ASSUME bad # {}
                 PROVE  FALSE
      OBVIOUS
    <2>1. PICK m \in bad : \A j \in bad : m <= j
      <3>1. bad \subseteq Nat
        OBVIOUS
      <3> HIDE DEF bad
      <3>2. QED
        BY <3>1, LeastNatural
    <2>2. Under(w[1])
      <3>1. lo[root] = 1 /\ hi[root] = n
        BY <1>1 DEF Placed, RootSpans
      <3>2. QED
        BY <1>1, <1>2, <3>1
    <2>3. m \in 2 .. d /\ m - 1 \in 1 .. d /\ m - 1 \notin bad
      BY <2>1, <2>2
    <2>4. PICK i \in 1 .. d : i = m - 1 /\ i < d /\ i + 1 = m
      BY <2>3
    <2>5. Met(i) \/ Under(w[i])
      BY <2>3, <2>4
    <2>6. ~ Met(m)
      BY <2>1
    <2>7. ~ Met(i) /\ w[i] # h
      BY <2>4, <2>6
    <2>8. PICK g \in 1 .. n, c \in 1 .. n : g = w[i] /\ c = w[m]
      BY <1>1, <2>3
    <2>9. g # h /\ lo[g] <= lo[h] /\ hi[h] <= hi[g]
      BY <2>5, <2>7, <2>8
    <2>10. pos[g] # pos[h]
      BY <2>9 DEF Placed, OneEach
    <2>11. Apart(n, lo, hi, pos)
      BY DEF Placed
    <2>12. pos[h] < pos[g] => hi[h] < pos[g]
      <3>1. pos[h] < pos[g] => lo[g] <= pos[h]
        BY <1>2, <1>3, <2>9
      <3>2. QED
        BY <2>11, <3>1 DEF Apart
    <2>13. pos[g] < pos[h] => pos[g] < lo[h]
      <3>1. pos[g] < pos[h] => pos[h] <= hi[g]
        BY <1>2, <1>3, <2>9
      <3>2. QED
        BY <2>11, <3>1 DEF Apart
    <2>14. \/ lo[c] = lo[g] /\ hi[c] = pos[g] - 1 /\ pos[b] < pos[g]
           \/ lo[c] = pos[g] + 1 /\ hi[c] = hi[g] /\ pos[g] < pos[b]
      BY <1>7, <2>4, <2>8, Zenon
    <2>15. Under(c)
      BY <1>2, <1>6, <2>9, <2>10, <2>12, <2>13, <2>14
    <2>16. QED
      BY <2>1, <2>8, <2>15
  <1>9. Met(d)
    <2>1. Met(d) \/ Under(w[d])
      BY <1>1, <1>8
    <2>2. ~ Under(b)
      <3> SUFFICES ASSUME Under(b)
                   PROVE  FALSE
        OBVIOUS
      <3>1. pos[b] # pos[h]
        BY <1>6 DEF Placed, OneEach
      <3>2. Apart(n, lo, hi, pos)
        BY DEF Placed
      <3>3. lo[b] <= pos[h] /\ pos[h] <= hi[b]
        BY <1>2, <1>3, <1>6
      <3>4. CASE pos[h] < pos[b]
        <4>1. hi[h] < pos[b]
          BY <1>6, <3>2, <3>3, <3>4 DEF Apart
        <4>2. QED
          BY <1>2, <1>6, <4>1
      <3>5. CASE pos[b] < pos[h]
        <4>1. pos[b] < lo[h]
          BY <1>6, <3>2, <3>3, <3>5 DEF Apart
        <4>2. QED
          BY <1>2, <1>6, <4>1
      <3>6. pos[b] \in Int /\ pos[h] \in Int
        BY <1>2, <1>6
      <3>7. pos[b] < pos[h] \/ pos[h] < pos[b]
        BY <3>1, <3>6
      <3>8. QED
        BY <3>4, <3>5, <3>7, Zenon
    <2>3. QED
      BY <2>1, <2>2
  <1>10. PICK j \in 1 .. d : j < d /\ w[j] = h
    BY <1>9
  <1>11. /\ w[j + 1] = lt[h] => pos[b] < pos[h]
         /\ w[j + 1] = gt[h] => pos[h] < pos[b]
         /\ w[j + 1] = IF Cmp(k, name[h]) < 0 THEN lt[h] ELSE gt[h]
    BY <1>7, <1>10, Zenon
  <1>12. pos[b] \in Int /\ pos[h] \in Int
    BY <1>2, <1>6
  <1>13. ~ (pos[b] < pos[h] /\ pos[h] < pos[b])
    BY <1>12
  <1>14. Cmp(k, name[h]) \in Int
    BY CmpIsInt DEF Named
  <1>15. Cmp(k, name[h]) # 0
    <2>1. w[j + 1] = link[h] /\ j + 1 \in 1 .. d
      BY <1>1, <1>10
    <2>2. link[h] # 0
      BY <1>1, <2>1
    <2>3. QED
      BY <1>4, <2>2
  <1>16. ~ (Cmp(k, name[h]) < 0) => Cmp(k, name[h]) > 0
    BY <1>14, <1>15
  <1>17. /\ pos[b] < pos[h] => Cmp(k, name[h]) < 0 /\ w[j + 1] = lt[h]
         /\ pos[h] < pos[b] => Cmp(k, name[h]) > 0 /\ w[j + 1] = gt[h]
    BY <1>11, <1>13, <1>16, Zenon
  <1>18. QED
    BY <1>10, <1>17

-----------------------------------------------------------------------------
(* A leaf is hung below b: on the less side, where it takes the place e of b, or *)
(* on the greater side, where it takes the next; those from there on move up.    *)
HangLess(n, lt, b, pos, e) ==
  [h \in 1 .. n + 1 |-> IF h = n + 1 THEN 0 ELSE IF h = b /\ e = pos[b] THEN n + 1 ELSE lt[h]]
HangGreater(n, gt, b, pos, e) ==
  [h \in 1 .. n + 1 |-> IF h = n + 1 THEN 0 ELSE IF h = b /\ e # pos[b] THEN n + 1 ELSE gt[h]]
HangLo(n, lo, b, pos, e) ==
  [h \in 1 .. n + 1 |-> IF h = n + 1 THEN e ELSE IF lo[h] > pos[b] THEN lo[h] + 1 ELSE lo[h]]
HangHi(n, hi, b, pos, e) ==
  [h \in 1 .. n + 1 |-> IF h = n + 1 THEN e ELSE IF hi[h] >= pos[b] THEN hi[h] + 1 ELSE hi[h]]
HangPos(n, pos, e) ==
  [h \in 1 .. n + 1 |-> IF h = n + 1 THEN e ELSE IF pos[h] >= e THEN pos[h] + 1 ELSE pos[h]]

Extended(f, n, x) == [h \in 1 .. n + 1 |-> IF h = n + 1 THEN x ELSE f[h]]

(* Hanging a leaf below b, on a side where b had none, leaves a tree: all nodes  *)
(* still have a place of their own and every subtree its span.                   *)
LEMMA LeafHung ==
  ASSUME NEW n \in Nat, NEW root, NEW lt, NEW gt, NEW lo, NEW hi, NEW pos,
         Placed(n, root, lt, gt, lo, hi, pos),
         NEW b \in 1 .. n, NEW e, e \in {pos[b], pos[b] + 1},
         e = pos[b] => lt[b] = 0, e # pos[b] => gt[b] = 0,
         NEW lt1, lt1 = HangLess(n, lt, b, pos, e),
         NEW gt1, gt1 = HangGreater(n, gt, b, pos, e),
         NEW lo1, lo1 = HangLo(n, lo, b, pos, e),
         NEW hi1, hi1 = HangHi(n, hi, b, pos, e),
         NEW pos1, pos1 = HangPos(n, pos, e)
  PROVE  Placed(n + 1, root, lt1, gt1, lo1, hi1, pos1)
  <1>1. \A g \in 1 .. n : /\ lt[g] \in 0 .. n /\ gt[g] \in 0 .. n
                          /\ lo[g] \in 1 .. n /\ hi[g] \in 1 .. n /\ pos[g] \in 1 .. n
    BY DEF Placed, Types, Gives
  <1>2. \A g \in 1 .. n : lo[g] <= pos[g] /\ pos[g] <= hi[g]
    BY DEF Placed, Between
  <1>3. PICK p \in 1 .. n : p = pos[b]
    BY <1>1
  <1>4. e \in 1 .. n + 1 /\ (e = p \/ e = p + 1)
    BY <1>1, <1>3
  <1>5. PICK new \in Nat : new = n + 1
    OBVIOUS
  <1>6. (\A h \in 1 .. n : h \in 1 .. new /\ h # new) /\ new \in 1 .. new
        /\ (\A h \in 1 .. new : h = new \/ h \in 1 .. n)
    BY <1>5
  <1>7. /\ HasLength(lt1, new) /\ HasLength(gt1, new)
        /\ HasLength(lo1, new) /\ HasLength(hi1, new) /\ HasLength(pos1, new)
    BY <1>5 DEF HasLength, HangLess, HangGreater, HangLo, HangHi, HangPos
  <1>8. lt1[new] = 0 /\ gt1[new] = 0 /\ lo1[new] = e /\ hi1[new] = e /\ pos1[new] = e
    BY <1>5, <1>6 DEF HangLess, HangGreater, HangLo, HangHi, HangPos
  <1>9. \A h \in 1 .. n : /\ lo1[h] = IF lo[h] > p THEN lo[h] + 1 ELSE lo[h]
                          /\ hi1[h] = IF hi[h] >= p THEN hi[h] + 1 ELSE hi[h]
                          /\ pos1[h] = IF pos[h] >= e THEN pos[h] + 1 ELSE pos[h]
    BY <1>3, <1>5, <1>6 DEF HangLo, HangHi, HangPos
  <1>10. \A h \in 1 .. n : /\ lt1[h] = IF h = b /\ e = p THEN new ELSE lt[h]
                           /\ gt1[h] = IF h = b /\ e # p THEN new ELSE gt[h]
    BY <1>3, <1>5, <1>6 DEF HangLess, HangGreater
  <1>11. Types(new, lt1, gt1, lo1, hi1, pos1)
    <2>1. ASSUME NEW h \in 1 .. new
          PROVE  /\ lt1[h] \in 0 .. new /\ gt1[h] \in 0 .. new
                 /\ lo1[h] \in 1 .. new /\ hi1[h] \in 1 .. new /\ pos1[h] \in 1 .. new
      <3>1. CASE h = new
        BY <1>4, <1>5, <1>8, <3>1
      <3>2. CASE h \in 1 .. n
        <4>1. lt1[h] \in 0 .. new /\ gt1[h] \in 0 .. new
          BY <1>1, <1>5, <1>10, <3>2
        <4>2. PICK a \in 1 .. n, c \in 1 .. n, q \in 1 .. n : a = lo[h] /\ c = hi[h] /\ q = pos[h]
          BY <1>1, <3>2
        <4>3. lo1[h] \in 1 .. new /\ hi1[h] \in 1 .. new /\ pos1[h] \in 1 .. new
          BY <1>5, <1>9, <3>2, <4>2
        <4>4. QED
          BY <4>1, <4>3
      <3>3. QED
        BY <1>6, <3>1, <3>2
    <2>2. QED
      BY <1>7, <2>1 DEF Types, Gives
  <1>12. RootSpans(new, root, lo1, hi1)
    <2>1. root \in 1 .. n /\ lo[root] = 1 /\ hi[root] = n
      BY DEF Placed, RootSpans
    <2>2. lo1[root] = 1 /\ hi1[root] = n + 1
      BY <1>9, <2>1
    <2>3. QED
      BY <1>5, <2>1, <2>2 DEF RootSpans
  <1>13. Between(new, lo1, hi1, pos1)
    <2>1. ASSUME NEW h \in 1 .. new
          PROVE  lo1[h] <= pos1[h] /\ pos1[h] <= hi1[h]
      <3>1. CASE h = new
        BY <1>4, <1>8, <3>1
      <3>2. CASE h \in 1 .. n
        <4>1. PICK a \in 1 .. n, c \in 1 .. n, q \in 1 .. n : a = lo[h] /\ c = hi[h] /\ q = pos[h]
          BY <1>1, <3>2
        <4>2. a <= q /\ q <= c
          BY <1>2, <3>2, <4>1
        <4>3. /\ lo1[h] = IF a > p THEN a + 1 ELSE a
              /\ hi1[h] = IF c >= p THEN c + 1 ELSE c
              /\ pos1[h] = IF q >= e THEN q + 1 ELSE q
          BY <1>9, <3>2, <4>1
        <4>4. QED
          BY <1>4, <4>2, <4>3
      <3>3. QED
        BY <1>6, <3>1, <3>2
    <2>2. QED
      BY <2>1 DEF Between
  <1>14. OneEach(new, pos1)
    <2>1. OneEach(n, pos)
      BY DEF Placed
    <2>2. \A g, h \in 1 .. new : pos1[g] = pos1[h] => g = h
      <3> SUFFICES ASSUME NEW g \in 1 .. new, NEW h \in 1 .. new, pos1[g] = pos1[h], g # h
                   PROVE  FALSE
        OBVIOUS
      <3>1. CASE g = new
        <4>1. h \in 1 .. n
          BY <1>6, <3>1
        <4>2. QED
          BY <1>1, <1>4, <1>8, <1>9, <3>1, <4>1
      <3>2. CASE h = new
        <4>1. g \in 1 .. n
          BY <1>6, <3>2
        <4>2. QED
          BY <1>1, <1>4, <1>8, <1>9, <3>2, <4>1
      <3>3. CASE g \in 1 .. n /\ h \in 1 .. n
        <4>1. pos[g] # pos[h]
          BY <2>1, <3>3 DEF OneEach
        <4>2. pos[g] \in Int /\ pos[h] \in Int
          BY <1>1, <3>3
        <4>3. QED
          BY <1>4, <1>9, <3>3, <4>1, <4>2
      <3>4. QED
        BY <1>6, <3>1, <3>2, <3>3
    <2>3. \A x \in 1 .. new : \E h \in 1 .. new : pos1[h] = x
      <3> SUFFICES ASSUME NEW x \in 1 .. new
                   PROVE  \E h \in 1 .. new : pos1[h] = x
        OBVIOUS
      <3>1. CASE x = e
        BY <1>6, <1>8, <3>1
      <3>2. CASE x < e
        <4>1. x \in 1 .. n
          BY <1>4, <3>2
        <4>2. PICK h \in 1 .. n : pos[h] = x
          BY <2>1, <4>1 DEF OneEach
        <4>3. pos1[h] = x
          BY <1>4, <1>9, <3>2, <4>2
        <4>4. QED
          BY <1>6, <4>3
      <3>3. CASE x > e
        <4>1. x - 1 \in 1 .. n
          BY <1>4, <1>5, <3>3
        <4>2. PICK h \in 1 .. n : pos[h] = x - 1
          BY <2>1, <4>1 DEF OneEach
        <4>3. pos1[h] = x
          BY <1>4, <1>9, <3>3, <4>2
        <4>4. QED
          BY <1>6, <4>3
      <3>4. QED
        BY <1>4, <3>1, <3>2, <3>3
    <2>4. QED
      BY <2>2, <2>3 DEF OneEach
  (* the only one with the place of b is b *)
  <1>15. \A h \in 1 .. n : pos[h] = p => h = b
    BY <1>3 DEF Placed, OneEach
  <1>16. LessBranch(new, lt1, lo1, hi1, pos1)
    <2>1. ASSUME NEW h \in 1 .. new
          PROVE  IF lt1[h] = 0 THEN lo1[h] = pos1[h]
                 ELSE lo1[lt1[h]] = lo1[h] /\ hi1[lt1[h]] = pos1[h] - 1
      <3>1. CASE h = new
        BY <1>8, <3>1
      <3>2. CASE h = b /\ e = p
        <4>1. lo[b] = p /\ pos[b] = p
          BY <1>3, <3>2 DEF Placed, LessBranch
        <4>2. lo1[b] = p /\ pos1[b] = p + 1 /\ lt1[b] = new
          BY <1>9, <1>10, <3>2, <4>1
        <4>3. lo1[new] = p /\ hi1[new] = p /\ new # 0
          BY <1>6, <1>8, <3>2
        <4>4. QED
          BY <3>2, <4>2, <4>3
      <3>3. CASE h \in 1 .. n /\ ~ (h = b /\ e = p)
        <4>1. PICK c \in 0 .. n : c = lt[h] /\ lt1[h] = c
          BY <1>1, <1>10, <3>3
        <4>2. IF c = 0 THEN lo[h] = pos[h] ELSE lo[c] = lo[h] /\ hi[c] = pos[h] - 1
          BY <3>3, <4>1 DEF Placed, LessBranch
        <4>3. pos[h] = p => e = p + 1
          BY <1>4, <1>15, <3>3
        <4>4. CASE c = 0
          <5>1. PICK q \in 1 .. n : q = pos[h] /\ lo[h] = q
            BY <1>1, <3>3, <4>2, <4>4
          <5>2. lo1[h] = (IF q > p THEN q + 1 ELSE q) /\ pos1[h] = IF q >= e THEN q + 1 ELSE q
            BY <1>9, <3>3, <5>1
          <5>3. q = p => e = p + 1
            BY <4>3, <5>1
          <5>4. lo1[h] = pos1[h]
            BY <1>4, <5>2, <5>3
          <5>5. QED
            BY <4>1, <4>4, <5>4
        <4>5. CASE c # 0
          <5>1. c \in 1 .. n
            BY <4>5
          <5>2. lo1[c] = lo1[h]
            BY <1>9, <3>3, <4>2, <4>5, <5>1
          <5>3. PICK q \in 1 .. n : q = pos[h]
            BY <1>1, <3>3
          <5>4. hi1[c] = (IF q - 1 >= p THEN q - 1 + 1 ELSE q - 1) /\ pos1[h] = IF q >= e THEN q + 1 ELSE q
            BY <1>9, <3>3, <4>2, <4>5, <5>1, <5>3
          <5>5. q = p => e = p + 1
            BY <4>3, <5>3
          <5>6. hi1[c] = pos1[h] - 1
            BY <1>4, <5>4, <5>5
          <5>7. QED
            BY <4>1, <4>5, <5>2, <5>6
        <4>6. QED
          BY <4>4, <4>5
      <3>4. QED
        BY <1>6, <3>1, <3>2, <3>3
    <2>2. QED
      BY <2>1 DEF LessBranch
  <1>17. GreaterBranch(new, gt1, lo1, hi1, pos1)
    <2>1. ASSUME NEW h \in 1 .. new
          PROVE  IF gt1[h] = 0 THEN hi1[h] = pos1[h]
                 ELSE lo1[gt1[h]] = pos1[h] + 1 /\ hi1[gt1[h]] = hi1[h]
      <3>1. CASE h = new
        BY <1>8, <3>1
      <3>2. CASE h = b /\ e = p + 1
        <4>1. hi[b] = p /\ pos[b] = p
          BY <1>3, <3>2 DEF Placed, GreaterBranch
        <4>2. hi1[b] = p + 1 /\ pos1[b] = p /\ gt1[b] = new
          BY <1>9, <1>10, <3>2, <4>1
        <4>3. lo1[new] = p + 1 /\ hi1[new] = p + 1 /\ new # 0
          BY <1>6, <1>8, <3>2
        <4>4. QED
          BY <3>2, <4>2, <4>3
      <3>3. CASE h \in 1 .. n /\ ~ (h = b /\ e = p + 1)
        <4>1. PICK c \in 0 .. n : c = gt[h] /\ gt1[h] = c
          BY <1>1, <1>4, <1>10, <3>3
        <4>2. IF c = 0 THEN hi[h] = pos[h] ELSE lo[c] = pos[h] + 1 /\ hi[c] = hi[h]
          BY <3>3, <4>1 DEF Placed, GreaterBranch
        <4>3. pos[h] = p => e = p
          BY <1>4, <1>15, <3>3
        <4>4. CASE c = 0
          <5>1. PICK q \in 1 .. n : q = pos[h] /\ hi[h] = q
            BY <1>1, <3>3, <4>2, <4>4
          <5>2. hi1[h] = (IF q >= p THEN q + 1 ELSE q) /\ pos1[h] = IF q >= e THEN q + 1 ELSE q
            BY <1>9, <3>3, <5>1
          <5>3. q = p => e = p
            BY <4>3, <5>1
          <5>4. hi1[h] = pos1[h]
            BY <1>4, <5>2, <5>3
          <5>5. QED
            BY <4>1, <4>4, <5>4
        <4>5. CASE c # 0
          <5>1. c \in 1 .. n
            BY <4>5
          <5>2. hi1[c] = hi1[h]
            BY <1>9, <3>3, <4>2, <4>5, <5>1
          <5>3. PICK q \in 1 .. n : q = pos[h]
            BY <1>1, <3>3
          <5>4. lo1[c] = (IF q + 1 > p THEN q + 1 + 1 ELSE q + 1) /\ pos1[h] = IF q >= e THEN q + 1 ELSE q
            BY <1>9, <3>3, <4>2, <4>5, <5>1, <5>3
          <5>5. q = p => e = p
            BY <4>3, <5>3
          <5>6. lo1[c] = pos1[h] + 1
            BY <1>4, <5>4, <5>5
          <5>7. QED
            BY <4>1, <4>5, <5>2, <5>6
        <4>6. QED
          BY <4>4, <4>5
      <3>4. QED
        BY <1>4, <1>6, <3>1, <3>2, <3>3
    <2>2. QED
      BY <2>1 DEF GreaterBranch
  <1>18. Apart(new, lo1, hi1, pos1)
    <2>1. Apart(n, lo, hi, pos)
      BY DEF Placed
    <2>2. ASSUME NEW g \in 1 .. new, NEW h \in 1 .. new
          PROVE  /\ lo1[h] <= pos1[g] /\ pos1[g] < pos1[h] => lo1[h] <= lo1[g] /\ hi1[g] < pos1[h]
                 /\ pos1[h] < pos1[g] /\ pos1[g] <= hi1[h] => pos1[h] < lo1[g] /\ hi1[g] <= hi1[h]
      <3>1. CASE h = new
        <4>1. pos1[g] \in Int
          BY <1>11 DEF Types, Gives
        <4>2. QED
          BY <1>4, <1>8, <3>1, <4>1
      <3>2. CASE g = new
        <4>1. QED
          BY <1>8, <3>2
      <3>3. CASE g \in 1 .. n /\ h \in 1 .. n
        <4>1. PICK a \in 1 .. n, c \in 1 .. n, q \in 1 .. n : a = lo[h] /\ c = hi[h] /\ q = pos[h]
          BY <1>1, <3>3
        <4>2. PICK x \in 1 .. n, z \in 1 .. n, r \in 1 .. n : x = lo[g] /\ z = hi[g] /\ r = pos[g]
          BY <1>1, <3>3
        <4>3. /\ a <= r /\ r < q => a <= x /\ z < q
              /\ q < r /\ r <= c => q < x /\ z <= c
          BY <2>1, <3>3, <4>1, <4>2 DEF Apart
        <4>4. a <= q /\ q <= c /\ x <= r /\ r <= z
          BY <1>2, <3>3, <4>1, <4>2
        <4>5. /\ lo1[h] = IF a > p THEN a + 1 ELSE a
              /\ hi1[h] = IF c >= p THEN c + 1 ELSE c
              /\ pos1[h] = IF q >= e THEN q + 1 ELSE q
          BY <1>9, <3>3, <4>1
        <4>6. /\ lo1[g] = IF x > p THEN x + 1 ELSE x
              /\ hi1[g] = IF z >= p THEN z + 1 ELSE z
              /\ pos1[g] = IF r >= e THEN r + 1 ELSE r
          BY <1>9, <3>3, <4>2
        <4>7. QED
          BY <1>4, <4>3, <4>4, <4>5, <4>6
      <3>4. QED
        BY <1>6, <3>1, <3>2, <3>3
    <2>3. QED
      BY <2>2 DEF Apart
  <1>19. QED
    BY <1>5, <1>11, <1>12, <1>13, <1>14, <1>16, <1>17, <1>18 DEF Placed

(* The names are still in order with the leaf if its own compares with each node *)
(* it is now below the way that led there.                                       *)
LEMMA LeafInOrder ==
  ASSUME NEW n \in Nat, NEW root, NEW lt, NEW gt, NEW lo, NEW hi, NEW pos,
         Placed(n, root, lt, gt, lo, hi, pos),
         NEW name, Named(n, name), InOrder(n, name, lo, hi, pos),
         NEW b \in 1 .. n, NEW e, e \in {pos[b], pos[b] + 1}, NEW k,
         \A h \in 1 .. n : lo[h] <= pos[b] /\ pos[b] <= hi[h] =>
                           /\ e <= pos[h] => Cmp(k, name[h]) < 0
                           /\ pos[h] < e => Cmp(k, name[h]) > 0,
         NEW lo1, lo1 = HangLo(n, lo, b, pos, e),
         NEW hi1, hi1 = HangHi(n, hi, b, pos, e),
         NEW pos1, pos1 = HangPos(n, pos, e)
  PROVE  InOrder(n + 1, Extended(name, n, k), lo1, hi1, pos1)
  <1>1. \A g \in 1 .. n : lo[g] \in 1 .. n /\ hi[g] \in 1 .. n /\ pos[g] \in 1 .. n
    BY DEF Placed, Types, Gives
  <1>2. \A g \in 1 .. n : lo[g] <= pos[g] /\ pos[g] <= hi[g]
    BY DEF Placed, Between
  <1>3. PICK p \in 1 .. n : p = pos[b]
    BY <1>1
  <1>4. e \in 1 .. n + 1 /\ (e = p \/ e = p + 1)
    BY <1>1, <1>3
  <1>5. PICK new \in Nat : new = n + 1
    OBVIOUS
  <1>6. new \in 1 .. new /\ (\A h \in 1 .. n : h # new) /\ (\A h \in 1 .. new : h = new \/ h \in 1 .. n)
    BY <1>5
  <1>7. lo1[new] = e /\ hi1[new] = e /\ pos1[new] = e
    BY <1>5, <1>6 DEF HangLo, HangHi, HangPos
  <1>8. \A h \in 1 .. n : /\ lo1[h] = IF lo[h] > p THEN lo[h] + 1 ELSE lo[h]
                          /\ hi1[h] = IF hi[h] >= p THEN hi[h] + 1 ELSE hi[h]
                          /\ pos1[h] = IF pos[h] >= e THEN pos[h] + 1 ELSE pos[h]
    BY <1>3, <1>5, <1>6 DEF HangLo, HangHi, HangPos
  <1>9. PICK name1 : name1 = Extended(name, n, k)
    OBVIOUS
  <1>10. name1[new] = k /\ \A h \in 1 .. n : name1[h] = name[h]
    BY <1>5, <1>6, <1>9 DEF Extended
  <1>11. ASSUME NEW g \in 1 .. new, NEW h \in 1 .. new
         PROVE  /\ lo1[h] <= pos1[g] /\ pos1[g] < pos1[h] => Cmp(name1[g], name1[h]) < 0
                /\ pos1[h] < pos1[g] /\ pos1[g] <= hi1[h] => Cmp(name1[g], name1[h]) > 0
    <2>1. CASE h = new
      <3>1. pos1[g] \in Int
        <4>1. CASE g = new
          BY <1>4, <1>7, <4>1
        <4>2. CASE g \in 1 .. n
          <5>1. PICK r \in 1 .. n : r = pos[g]
            BY <1>1, <4>2
          <5>2. pos1[g] = r \/ pos1[g] = r + 1
            BY <1>8, <4>2, <5>1
          <5>3. QED
            BY <5>2
        <4>3. QED
          BY <1>6, <4>1, <4>2
      <3>2. ~ (lo1[h] <= pos1[g] /\ pos1[g] < pos1[h]) /\ ~ (pos1[h] < pos1[g] /\ pos1[g] <= hi1[h])
        BY <1>4, <1>7, <2>1, <3>1
      <3>3. QED
        BY <3>2
    <2>2. CASE g = new /\ h \in 1 .. n
      <3>1. PICK a \in 1 .. n, c \in 1 .. n, q \in 1 .. n : a = lo[h] /\ c = hi[h] /\ q = pos[h]
        BY <1>1, <2>2
      <3>2. /\ lo1[h] = IF a > p THEN a + 1 ELSE a
            /\ hi1[h] = IF c >= p THEN c + 1 ELSE c
            /\ pos1[h] = IF q >= e THEN q + 1 ELSE q
        BY <1>8, <2>2, <3>1
      <3>3. a <= q /\ q <= c
        BY <1>2, <2>2, <3>1
      <3>4. lo1[h] <= e /\ e < pos1[h] => a <= p /\ p <= c /\ e <= q
        BY <1>4, <3>2, <3>3
      <3>5. pos1[h] < e /\ e <= hi1[h] => a <= p /\ p <= c /\ q < e
        BY <1>4, <3>2, <3>3
      <3>6. a <= p /\ p <= c => /\ e <= q => Cmp(k, name[h]) < 0
                                /\ q < e => Cmp(k, name[h]) > 0
        BY <1>3, <2>2, <3>1
      <3>7. pos1[g] = e /\ name1[g] = k /\ name1[h] = name[h]
        BY <1>7, <1>10, <2>2
      <3>8. QED
        BY <3>4, <3>5, <3>6, <3>7, Zenon
    <2>3. CASE g \in 1 .. n /\ h \in 1 .. n
      <3>1. PICK a \in 1 .. n, c \in 1 .. n, q \in 1 .. n : a = lo[h] /\ c = hi[h] /\ q = pos[h]
        BY <1>1, <2>3
      <3>2. PICK r \in 1 .. n : r = pos[g]
        BY <1>1, <2>3
      <3>3. /\ lo1[h] = IF a > p THEN a + 1 ELSE a
            /\ hi1[h] = IF c >= p THEN c + 1 ELSE c
            /\ pos1[h] = IF q >= e THEN q + 1 ELSE q
        BY <1>8, <2>3, <3>1
      <3>4. pos1[g] = IF r >= e THEN r + 1 ELSE r
        BY <1>8, <2>3, <3>2
      <3>5. lo1[h] <= pos1[g] /\ pos1[g] < pos1[h] => a <= r /\ r < q
        BY <1>4, <3>3, <3>4
      <3>6. pos1[h] < pos1[g] /\ pos1[g] <= hi1[h] => q < r /\ r <= c
        BY <1>4, <3>3, <3>4
      <3>7. /\ a <= r /\ r < q => Cmp(name[g], name[h]) < 0
            /\ q < r /\ r <= c => Cmp(name[g], name[h]) > 0
        BY <2>3, <3>1, <3>2, Zenon DEF InOrder
      <3>8. name1[g] = name[g] /\ name1[h] = name[h]
        BY <1>10, <2>3
      <3>9. QED
        BY <3>5, <3>6, <3>7, <3>8, Zenon
    <2>4. QED
      BY <1>6, <2>1, <2>2, <2>3
  <1>12. InOrder(new, name1, lo1, hi1, pos1)
    BY <1>11, Zenon DEF InOrder
  <1>13. QED
    BY <1>5, <1>9, <1>12, Zenon
-----------------------------------------------------------------------------
(* The names compare as their low words do: the order does not go round.         *)
ByLowWord(n, name) ==
  \A g, h \in 1 .. n : Cmp(name[g], name[h]) = AsInt(name[g]) - AsInt(name[h])

(* The pointers to b lead to c; b is put below c, or c taken off b.              *)
TurnDown(n, f, b, c) == [h \in 1 .. n |-> IF h = c THEN b ELSE IF f[h] = b THEN c ELSE f[h]]
TurnOff(n, f, b, c)  == [h \in 1 .. n |-> IF h = b THEN 0 ELSE IF f[h] = b THEN c ELSE f[h]]
With(n, f, x, v)     == [h \in 1 .. n |-> IF h = x THEN v ELSE f[h]]

(* A rotation of b with the leaf c on its greater side: c takes the place of b   *)
(* in the tree, and b is on its less side.  All stay where they were in order.   *)
LEMMA TurnedGreater ==
  ASSUME NEW n \in Nat, NEW root, NEW lt, NEW gt, NEW lo, NEW hi, NEW pos,
         Placed(n, root, lt, gt, lo, hi, pos),
         NEW b \in 1 .. n, NEW c \in 1 .. n, gt[b] = c, lt[c] = 0, gt[c] = 0,
         \A h \in 1 .. n : lt[h] # c /\ (gt[h] = c => h = b) /\ (h # c => lo[h] # pos[c]),
         NEW lt2, lt2 = TurnDown(n, lt, b, c),
         NEW gt2, gt2 = TurnOff(n, gt, b, c),
         NEW lo2, lo2 = With(n, lo, c, lo[b]),
         NEW hi2, hi2 = With(n, hi, b, pos[b]),
         NEW root2, root2 = IF root = b THEN c ELSE root
  PROVE  /\ Placed(n, root2, lt2, gt2, lo2, hi2, pos)
         /\ \A name : Named(n, name) /\ InOrder(n, name, lo, hi, pos) /\ ByLowWord(n, name)
                      => InOrder(n, name, lo2, hi2, pos)
  <1>1. \A g \in 1 .. n : /\ lt[g] \in 0 .. n /\ gt[g] \in 0 .. n
                          /\ lo[g] \in 1 .. n /\ hi[g] \in 1 .. n /\ pos[g] \in 1 .. n
    BY DEF Placed, Types, Gives
  <1>2. \A g \in 1 .. n : lo[g] <= pos[g] /\ pos[g] <= hi[g]
    BY DEF Placed, Between
  <1>3. PICK p \in 1 .. n, s \in 1 .. n : p = pos[b] /\ s = lo[b]
    BY <1>1
  <1>4. pos[c] = p + 1 /\ lo[c] = p + 1 /\ hi[c] = p + 1 /\ hi[b] = p + 1 /\ s <= p /\ b # c
    <2>1. lo[c] = pos[b] + 1 /\ hi[c] = hi[b]
      BY DEF Placed, GreaterBranch
    <2>2. lo[c] = pos[c]
      BY DEF Placed, LessBranch
    <2>3. hi[c] = pos[c]
      BY DEF Placed, GreaterBranch
    <2>4. lo[b] <= pos[b]
      BY <1>2
    <2>5. b # c
      BY <1>1, <2>1, <2>2
    <2>6. QED
      BY <1>3, <2>1, <2>2, <2>3, <2>4, <2>5
  <1>5. \A h \in 1 .. n : h # b /\ h # c => pos[h] # p /\ pos[h] # p + 1
    <2>1. \A g, h \in 1 .. n : pos[g] = pos[h] => g = h
      BY DEF Placed, OneEach
    <2>2. pos[b] = p /\ pos[c] = p + 1
      BY <1>3, <1>4
    <2>3. QED
      BY <2>1, <2>2, Zenon
  <1>6. \A h \in 1 .. n : h # c => lo[h] # p + 1
    BY <1>4
  <1>7. HasLength(lt2, n) /\ HasLength(gt2, n) /\ HasLength(lo2, n) /\ HasLength(hi2, n)
    BY DEF HasLength, TurnDown, TurnOff, With
  <1>8. /\ lt2[c] = b /\ gt2[b] = 0 /\ lo2[c] = s /\ hi2[b] = p
        /\ lt2[b] = (IF lt[b] = b THEN c ELSE lt[b]) /\ gt2[c] = 0 /\ lo2[b] = s /\ hi2[c] = p + 1
    BY <1>3, <1>4 DEF TurnDown, TurnOff, With
  <1>9. \A h \in 1 .. n : /\ h # b => hi2[h] = hi[h]
                          /\ h # c => lo2[h] = lo[h]
                          /\ h # c => lt2[h] = IF lt[h] = b THEN c ELSE lt[h]
                          /\ h # b => gt2[h] = IF gt[h] = b THEN c ELSE gt[h]
    BY DEF TurnDown, TurnOff, With
  <1>10. Types(n, lt2, gt2, lo2, hi2, pos)
    <2>1. ASSUME NEW h \in 1 .. n
          PROVE  lt2[h] \in 0 .. n /\ gt2[h] \in 0 .. n /\ lo2[h] \in 1 .. n /\ hi2[h] \in 1 .. n
      <3>1. lt2[h] \in 0 .. n
        BY <1>1, <1>8, <1>9
      <3>2. gt2[h] \in 0 .. n
        BY <1>1, <1>8, <1>9
      <3>3. lo2[h] \in 1 .. n /\ hi2[h] \in 1 .. n
        BY <1>1, <1>8, <1>9
      <3>4. QED
        BY <3>1, <3>2, <3>3
    <2>2. Gives(pos, 1, n)
      BY DEF Placed, Types
    <2>3. QED
      BY <1>7, <2>1, <2>2 DEF Types, Gives
  <1>11. RootSpans(n, root2, lo2, hi2)
    <2>1. root \in 1 .. n /\ lo[root] = 1 /\ hi[root] = n
      BY DEF Placed, RootSpans
    <2>2. root # c
      BY <1>4, <2>1
    <2>3. CASE root = b
      BY <1>3, <1>4, <1>8, <2>1, <2>3 DEF RootSpans
    <2>4. CASE root # b
      BY <1>9, <2>1, <2>2, <2>4 DEF RootSpans
    <2>5. QED
      BY <2>3, <2>4
  <1>12. Between(n, lo2, hi2, pos)
    <2>1. ASSUME NEW h \in 1 .. n
          PROVE  lo2[h] <= pos[h] /\ pos[h] <= hi2[h]
      <3>1. CASE h = b
        BY <1>3, <1>4, <1>8, <3>1
      <3>2. CASE h = c
        BY <1>3, <1>4, <1>8, <3>2
      <3>3. CASE h # b /\ h # c
        BY <1>2, <1>9, <3>3
      <3>4. QED
        BY <3>1, <3>2, <3>3
    <2>2. QED
      BY <2>1 DEF Between
  <1>13. LessBranch(n, lt2, lo2, hi2, pos)
    <2>1. ASSUME NEW h \in 1 .. n
          PROVE  IF lt2[h] = 0 THEN lo2[h] = pos[h]
                 ELSE lo2[lt2[h]] = lo2[h] /\ hi2[lt2[h]] = pos[h] - 1
      <3>1. CASE h = c
        <4>1. p = p + 1 - 1 /\ b # 0
          OBVIOUS
        <4>2. QED
          BY <1>4, <1>8, <3>1, <4>1
      <3>2. CASE h # c
        <4>1. IF lt[h] = 0 THEN lo[h] = pos[h] ELSE lo[lt[h]] = lo[h] /\ hi[lt[h]] = pos[h] - 1
          BY DEF Placed, LessBranch
        <4>2. lo2[h] = lo[h] /\ lt2[h] = IF lt[h] = b THEN c ELSE lt[h]
          BY <1>9, <3>2
        <4>3. CASE lt[h] = b
          <5>1. lo[b] = lo[h] /\ hi[b] = pos[h] - 1 /\ lt2[h] = c /\ c # 0
            BY <4>1, <4>2, <4>3
          <5>2. lo2[c] = lo2[h] /\ hi2[c] = pos[h] - 1
            BY <1>3, <1>4, <1>8, <4>2, <5>1
          <5>3. QED
            BY <5>1, <5>2
        <4>4. CASE lt[h] # b /\ lt[h] # 0
          <5>1. PICK x \in 1 .. n : x = lt[h] /\ x # b /\ x # c /\ x # 0
            BY <1>1, <4>4
          <5>2. lo2[x] = lo[x] /\ hi2[x] = hi[x] /\ lt2[h] = x
            BY <1>9, <4>2, <5>1
          <5>3. QED
            BY <4>1, <4>2, <5>1, <5>2
        <4>5. CASE lt[h] = 0
          BY <4>1, <4>2, <4>5
        <4>6. QED
          BY <4>3, <4>4, <4>5
      <3>3. QED
        BY <3>1, <3>2
    <2>2. QED
      BY <2>1 DEF LessBranch
  <1>14. GreaterBranch(n, gt2, lo2, hi2, pos)
    <2>1. ASSUME NEW h \in 1 .. n
          PROVE  IF gt2[h] = 0 THEN hi2[h] = pos[h]
                 ELSE lo2[gt2[h]] = pos[h] + 1 /\ hi2[gt2[h]] = hi2[h]
      <3>1. CASE h = b
        BY <1>3, <1>8, <3>1
      <3>2. CASE h # b
        <4>1. IF gt[h] = 0 THEN hi[h] = pos[h] ELSE lo[gt[h]] = pos[h] + 1 /\ hi[gt[h]] = hi[h]
          BY DEF Placed, GreaterBranch
        <4>2. hi2[h] = hi[h] /\ gt2[h] = IF gt[h] = b THEN c ELSE gt[h]
          BY <1>9, <3>2
        <4>3. CASE gt[h] = b
          <5>1. lo[b] = pos[h] + 1 /\ hi[b] = hi[h] /\ gt2[h] = c /\ c # 0
            BY <4>1, <4>2, <4>3
          <5>2. lo2[c] = pos[h] + 1 /\ hi2[c] = hi2[h]
            BY <1>3, <1>4, <1>8, <4>2, <5>1
          <5>3. QED
            BY <5>1, <5>2
        <4>4. CASE gt[h] # b /\ gt[h] # 0
          <5>1. PICK x \in 1 .. n : x = gt[h] /\ x # b /\ x # c /\ x # 0
            BY <1>1, <3>2, <4>4
          <5>2. lo2[x] = lo[x] /\ hi2[x] = hi[x] /\ gt2[h] = x
            BY <1>9, <4>2, <5>1
          <5>3. QED
            BY <4>1, <4>2, <5>1, <5>2
        <4>5. CASE gt[h] = 0
          BY <4>1, <4>2, <4>5
        <4>6. QED
          BY <4>3, <4>4, <4>5
      <3>3. QED
        BY <3>1, <3>2
    <2>2. QED
      BY <2>1 DEF GreaterBranch
  <1>15. Apart(n, lo2, hi2, pos)
    <2>1. Apart(n, lo, hi, pos)
      BY DEF Placed
    <2>2. ASSUME NEW g \in 1 .. n, NEW h \in 1 .. n
          PROVE  /\ lo2[h] <= pos[g] /\ pos[g] < pos[h] => lo2[h] <= lo2[g] /\ hi2[g] < pos[h]
                 /\ pos[h] < pos[g] /\ pos[g] <= hi2[h] => pos[h] < lo2[g] /\ hi2[g] <= hi2[h]
      <3>1. CASE g = h
        BY <1>1, <3>1
      <3>2. CASE h = b /\ g = c
        BY <1>3, <1>4, <1>8, <3>2
      <3>3. CASE h = c /\ g = b
        BY <1>3, <1>4, <1>8, <3>3
      <3>4. CASE h = b /\ g # b /\ g # c
        <4>1. PICK x \in 1 .. n, z \in 1 .. n, r \in 1 .. n : x = lo[g] /\ z = hi[g] /\ r = pos[g]
          BY <1>1
        <4>2. s <= r /\ r < p => s <= x /\ z < p
          BY <1>3, <2>1, <4>1, Zenon DEF Apart
        <4>3. lo2[g] = x /\ hi2[g] = z /\ lo2[h] = s /\ hi2[h] = p /\ pos[h] = p
          BY <1>3, <1>8, <1>9, <3>4, <4>1
        <4>4. ~ (p < r /\ r <= p)
          OBVIOUS
        <4>5. QED
          BY <4>1, <4>2, <4>3, <4>4, Zenon
      <3>5. CASE h = c /\ g # b /\ g # c
        <4>1. PICK x \in 1 .. n, z \in 1 .. n, r \in 1 .. n : x = lo[g] /\ z = hi[g] /\ r = pos[g]
          BY <1>1
        <4>2. s <= r /\ r < p => s <= x /\ z < p
          BY <1>3, <2>1, <4>1, Zenon DEF Apart
        <4>3. lo2[g] = x /\ hi2[g] = z /\ lo2[h] = s /\ hi2[h] = p + 1 /\ pos[h] = p + 1
          BY <1>3, <1>4, <1>8, <1>9, <3>5, <4>1
        <4>4. r # p
          BY <1>5, <3>5, <4>1
        <4>5. /\ s <= r /\ r < p + 1 => s <= x /\ z < p + 1
              /\ ~ (p + 1 < r /\ r <= p + 1)
          BY <4>2, <4>4
        <4>6. QED
          BY <4>1, <4>3, <4>5, Zenon
      <3>6. CASE g = b /\ h # b /\ h # c
        <4>1. PICK a \in 1 .. n, q \in 1 .. n, y \in 1 .. n : a = lo[h] /\ y = hi[h] /\ q = pos[h]
          BY <1>1
        <4>2. /\ a <= p /\ p < q => a <= s /\ p + 1 < q
              /\ q < p /\ p <= y => q < s /\ p + 1 <= y
          <5>1. /\ lo[h] <= pos[b] /\ pos[b] < pos[h] => lo[h] <= lo[b] /\ hi[b] < pos[h]
                /\ pos[h] < pos[b] /\ pos[b] <= hi[h] => pos[h] < lo[b] /\ hi[b] <= hi[h]
            BY <2>1, Zenon DEF Apart
          <5>2. pos[b] = p /\ lo[b] = s /\ hi[b] = p + 1
            BY <1>3, <1>4
          <5>3. QED
            BY <4>1, <5>1, <5>2, Zenon
        <4>3. lo2[h] = a /\ hi2[h] = y /\ lo2[g] = s /\ hi2[g] = p /\ pos[g] = p
          BY <1>3, <1>8, <1>9, <3>6, <4>1
        <4>4. /\ a <= p /\ p < q => a <= s /\ p < q
              /\ q < p /\ p <= y => q < s /\ p <= y
          BY <4>2
        <4>5. QED
          BY <4>1, <4>3, <4>4, Zenon
      <3>7. CASE g = c /\ h # b /\ h # c
        <4>1. PICK a \in 1 .. n, q \in 1 .. n, y \in 1 .. n : a = lo[h] /\ y = hi[h] /\ q = pos[h]
          BY <1>1
        <4>2. /\ a <= p /\ p < q => a <= s /\ p + 1 < q
              /\ q < p /\ p <= y => q < s /\ p + 1 <= y
          <5>1. /\ lo[h] <= pos[b] /\ pos[b] < pos[h] => lo[h] <= lo[b] /\ hi[b] < pos[h]
                /\ pos[h] < pos[b] /\ pos[b] <= hi[h] => pos[h] < lo[b] /\ hi[b] <= hi[h]
            BY <2>1, Zenon DEF Apart
          <5>2. pos[b] = p /\ lo[b] = s /\ hi[b] = p + 1
            BY <1>3, <1>4
          <5>3. QED
            BY <4>1, <5>1, <5>2, Zenon
        <4>3. lo2[h] = a /\ hi2[h] = y /\ lo2[g] = s /\ hi2[g] = p + 1 /\ pos[g] = p + 1
          BY <1>3, <1>4, <1>8, <1>9, <3>7, <4>1
        <4>4. a # p + 1 /\ q # p /\ q # p + 1
          BY <1>5, <1>6, <3>7, <4>1
        <4>5. /\ a <= p + 1 /\ p + 1 < q => a <= s /\ p + 1 < q
              /\ q < p + 1 /\ p + 1 <= y => q < s /\ p + 1 <= y
          BY <4>2, <4>4
        <4>6. QED
          BY <4>1, <4>3, <4>5, Zenon
      <3>8. CASE g # b /\ g # c /\ h # b /\ h # c
        <4>1. lo2[h] = lo[h] /\ hi2[h] = hi[h] /\ lo2[g] = lo[g] /\ hi2[g] = hi[g]
          BY <1>9, <3>8
        <4>2. QED
          BY <2>1, <4>1, Zenon DEF Apart
      <3>9. QED
        BY <3>1, <3>2, <3>3, <3>4, <3>5, <3>6, <3>7, <3>8
    <2>3. QED
      BY <2>2, Zenon DEF Apart
  <1>16. Placed(n, root2, lt2, gt2, lo2, hi2, pos)
    <2>1. OneEach(n, pos)
      BY DEF Placed
    <2>2. QED
      BY <1>10, <1>11, <1>12, <1>13, <1>14, <1>15, <2>1, Zenon DEF Placed
  <1>17. ASSUME NEW name, Named(n, name), InOrder(n, name, lo, hi, pos), ByLowWord(n, name)
         PROVE  InOrder(n, name, lo2, hi2, pos)
    <2>1. ASSUME NEW g \in 1 .. n, NEW h \in 1 .. n
          PROVE  /\ lo2[h] <= pos[g] /\ pos[g] < pos[h] => Cmp(name[g], name[h]) < 0
                 /\ pos[h] < pos[g] /\ pos[g] <= hi2[h] => Cmp(name[g], name[h]) > 0
      <3>1. /\ lo[h] <= pos[g] /\ pos[g] < pos[h] => Cmp(name[g], name[h]) < 0
            /\ pos[h] < pos[g] /\ pos[g] <= hi[h] => Cmp(name[g], name[h]) > 0
        BY <1>17, Zenon DEF InOrder
      <3>2. CASE h # b /\ h # c
        <4>1. lo2[h] = lo[h] /\ hi2[h] = hi[h]
          BY <1>9, <3>2
        <4>2. QED
          BY <3>1, <4>1, Zenon
      <3>3. CASE h = b
        <4>1. lo2[h] = lo[h] /\ hi2[h] = p /\ pos[h] = p
          BY <1>3, <1>8, <3>3
        <4>2. PICK r \in 1 .. n : r = pos[g]
          BY <1>1
        <4>3. ~ (p < r /\ r <= p)
          OBVIOUS
        <4>4. QED
          BY <3>1, <4>1, <4>2, <4>3, Zenon
      <3>4. CASE h = c
        <4>1. lo2[h] = s /\ hi2[h] = p + 1 /\ pos[h] = p + 1
          BY <1>4, <1>8, <3>4
        <4>2. PICK r \in 1 .. n : r = pos[g]
          BY <1>1
        <4>3. ~ (p + 1 < r /\ r <= p + 1)
          OBVIOUS
        <4>4. PICK u \in Int, v \in Int, t \in Int :
                u = AsInt(name[g]) /\ v = AsInt(name[b]) /\ t = AsInt(name[c])
          BY <1>17, CmpIsInt DEF Named
        <4>5. t - v > 0
          <5>1. lo[b] <= pos[b] /\ pos[b] < pos[c] /\ pos[c] <= hi[b]
            BY <1>3, <1>4
          <5>2. Cmp(name[c], name[b]) > 0
            BY <1>17, <5>1, Zenon DEF InOrder
          <5>3. Cmp(name[c], name[b]) = t - v
            BY <1>17, <4>4, Zenon DEF ByLowWord
          <5>4. QED
            BY <5>2, <5>3, Zenon
        <4>6. s <= r /\ r < p => u - v < 0
          <5>1. s <= r /\ r < p => Cmp(name[g], name[b]) < 0
            BY <1>3, <1>17, <4>2, Zenon DEF InOrder
          <5>2. Cmp(name[g], name[b]) = u - v
            BY <1>17, <4>4, Zenon DEF ByLowWord
          <5>3. QED
            BY <5>1, <5>2, Zenon
        <4>7. r = p => u = v
          <5>1. r = p => g = b
            BY <1>3, <4>2 DEF Placed, OneEach
          <5>2. QED
            BY <4>4, <5>1
        <4>8. s <= r /\ r < p + 1 => u - t < 0
          BY <4>5, <4>6, <4>7
        <4>9. Cmp(name[g], name[h]) = u - t
          BY <1>17, <3>4, <4>4, Zenon DEF ByLowWord
        <4>10. QED
          BY <4>1, <4>2, <4>3, <4>8, <4>9, Zenon
      <3>5. QED
        BY <3>2, <3>3, <3>4
    <2>2. QED
      BY <2>1, Zenon DEF InOrder
  <1>18. QED
    BY <1>16, <1>17

(* A rotation of b with the leaf c on its less side: c takes the place of b in   *)
(* the tree, and b is on its greater side.  All stay where they were in order.   *)
LEMMA TurnedLess ==
  ASSUME NEW n \in Nat, NEW root, NEW lt, NEW gt, NEW lo, NEW hi, NEW pos,
         Placed(n, root, lt, gt, lo, hi, pos),
         NEW b \in 1 .. n, NEW c \in 1 .. n, lt[b] = c, gt[c] = 0, lt[c] = 0,
         \A h \in 1 .. n : gt[h] # c /\ (lt[h] = c => h = b) /\ (h # c => hi[h] # pos[c]),
         NEW gt2, gt2 = TurnDown(n, gt, b, c),
         NEW lt2, lt2 = TurnOff(n, lt, b, c),
         NEW hi2, hi2 = With(n, hi, c, hi[b]),
         NEW lo2, lo2 = With(n, lo, b, pos[b]),
         NEW root2, root2 = IF root = b THEN c ELSE root
  PROVE  /\ Placed(n, root2, lt2, gt2, lo2, hi2, pos)
         /\ \A name : Named(n, name) /\ InOrder(n, name, lo, hi, pos) /\ ByLowWord(n, name)
                      => InOrder(n, name, lo2, hi2, pos)
  <1>1. \A g \in 1 .. n : /\ gt[g] \in 0 .. n /\ lt[g] \in 0 .. n
                          /\ hi[g] \in 1 .. n /\ lo[g] \in 1 .. n /\ pos[g] \in 1 .. n
    BY DEF Placed, Types, Gives
  <1>2. \A g \in 1 .. n : pos[g] <= hi[g] /\ lo[g] <= pos[g]
    BY DEF Placed, Between
  <1>3. PICK p \in 1 .. n, s \in 1 .. n : p = pos[b] /\ s = hi[b]
    BY <1>1
  <1>4. pos[c] = p - 1 /\ hi[c] = p - 1 /\ lo[c] = p - 1 /\ lo[b] = p - 1 /\ p <= s /\ b # c
    <2>1. hi[c] = pos[b] - 1 /\ lo[c] = lo[b]
      BY DEF Placed, LessBranch
    <2>2. hi[c] = pos[c]
      BY DEF Placed, GreaterBranch
    <2>3. lo[c] = pos[c]
      BY DEF Placed, LessBranch
    <2>4. pos[b] <= hi[b]
      BY <1>2
    <2>5. b # c
      BY <1>1, <2>1, <2>2
    <2>6. QED
      BY <1>3, <2>1, <2>2, <2>3, <2>4, <2>5
  <1>5. \A h \in 1 .. n : h # b /\ h # c => pos[h] # p /\ pos[h] # p - 1
    <2>1. \A g, h \in 1 .. n : pos[g] = pos[h] => g = h
      BY DEF Placed, OneEach
    <2>2. pos[b] = p /\ pos[c] = p - 1
      BY <1>3, <1>4
    <2>3. QED
      BY <2>1, <2>2, Zenon
  <1>6. \A h \in 1 .. n : h # c => hi[h] # p - 1
    BY <1>4
  <1>7. HasLength(gt2, n) /\ HasLength(lt2, n) /\ HasLength(hi2, n) /\ HasLength(lo2, n)
    BY DEF HasLength, TurnDown, TurnOff, With
  <1>8. /\ gt2[c] = b /\ lt2[b] = 0 /\ hi2[c] = s /\ lo2[b] = p
        /\ gt2[b] = (IF gt[b] = b THEN c ELSE gt[b]) /\ lt2[c] = 0 /\ hi2[b] = s /\ lo2[c] = p - 1
    BY <1>3, <1>4 DEF TurnDown, TurnOff, With
  <1>9. \A h \in 1 .. n : /\ h # b => lo2[h] = lo[h]
                          /\ h # c => hi2[h] = hi[h]
                          /\ h # c => gt2[h] = IF gt[h] = b THEN c ELSE gt[h]
                          /\ h # b => lt2[h] = IF lt[h] = b THEN c ELSE lt[h]
    BY DEF TurnDown, TurnOff, With
  <1>10. Types(n, lt2, gt2, lo2, hi2, pos)
    <2>1. ASSUME NEW h \in 1 .. n
          PROVE  gt2[h] \in 0 .. n /\ lt2[h] \in 0 .. n /\ hi2[h] \in 1 .. n /\ lo2[h] \in 1 .. n
      <3>1. gt2[h] \in 0 .. n
        BY <1>1, <1>8, <1>9
      <3>2. lt2[h] \in 0 .. n
        BY <1>1, <1>8, <1>9
      <3>3. hi2[h] \in 1 .. n /\ lo2[h] \in 1 .. n
        BY <1>1, <1>8, <1>9
      <3>4. QED
        BY <3>1, <3>2, <3>3
    <2>2. Gives(pos, 1, n)
      BY DEF Placed, Types
    <2>3. QED
      BY <1>7, <2>1, <2>2 DEF Types, Gives
  <1>11. RootSpans(n, root2, lo2, hi2)
    <2>1. root \in 1 .. n /\ lo[root] = 1 /\ hi[root] = n
      BY DEF Placed, RootSpans
    <2>2. root # c
      BY <1>4, <2>1
    <2>3. CASE root = b
      BY <1>3, <1>4, <1>8, <2>1, <2>3 DEF RootSpans
    <2>4. CASE root # b
      BY <1>9, <2>1, <2>2, <2>4 DEF RootSpans
    <2>5. QED
      BY <2>3, <2>4
  <1>12. Between(n, lo2, hi2, pos)
    <2>1. ASSUME NEW h \in 1 .. n
          PROVE  pos[h] <= hi2[h] /\ lo2[h] <= pos[h]
      <3>1. CASE h = b
        BY <1>3, <1>4, <1>8, <3>1
      <3>2. CASE h = c
        BY <1>3, <1>4, <1>8, <3>2
      <3>3. CASE h # b /\ h # c
        BY <1>2, <1>9, <3>3
      <3>4. QED
        BY <3>1, <3>2, <3>3
    <2>2. QED
      BY <2>1 DEF Between
  <1>13. GreaterBranch(n, gt2, lo2, hi2, pos)
    <2>1. ASSUME NEW h \in 1 .. n
          PROVE  IF gt2[h] = 0 THEN hi2[h] = pos[h]
                 ELSE hi2[gt2[h]] = hi2[h] /\ lo2[gt2[h]] = pos[h] + 1
      <3>1. CASE h = c
        <4>1. p = p - 1 + 1 /\ b # 0
          OBVIOUS
        <4>2. QED
          BY <1>4, <1>8, <3>1, <4>1
      <3>2. CASE h # c
        <4>1. IF gt[h] = 0 THEN hi[h] = pos[h] ELSE hi[gt[h]] = hi[h] /\ lo[gt[h]] = pos[h] + 1
          BY DEF Placed, GreaterBranch
        <4>2. hi2[h] = hi[h] /\ gt2[h] = IF gt[h] = b THEN c ELSE gt[h]
          BY <1>9, <3>2
        <4>3. CASE gt[h] = b
          <5>1. hi[b] = hi[h] /\ lo[b] = pos[h] + 1 /\ gt2[h] = c /\ c # 0
            BY <4>1, <4>2, <4>3
          <5>2. hi2[c] = hi2[h] /\ lo2[c] = pos[h] + 1
            BY <1>3, <1>4, <1>8, <4>2, <5>1
          <5>3. QED
            BY <5>1, <5>2
        <4>4. CASE gt[h] # b /\ gt[h] # 0
          <5>1. PICK x \in 1 .. n : x = gt[h] /\ x # b /\ x # c /\ x # 0
            BY <1>1, <4>4
          <5>2. hi2[x] = hi[x] /\ lo2[x] = lo[x] /\ gt2[h] = x
            BY <1>9, <4>2, <5>1
          <5>3. QED
            BY <4>1, <4>2, <5>1, <5>2
        <4>5. CASE gt[h] = 0
          BY <4>1, <4>2, <4>5
        <4>6. QED
          BY <4>3, <4>4, <4>5
      <3>3. QED
        BY <3>1, <3>2
    <2>2. QED
      BY <2>1 DEF GreaterBranch
  <1>14. LessBranch(n, lt2, lo2, hi2, pos)
    <2>1. ASSUME NEW h \in 1 .. n
          PROVE  IF lt2[h] = 0 THEN lo2[h] = pos[h]
                 ELSE hi2[lt2[h]] = pos[h] - 1 /\ lo2[lt2[h]] = lo2[h]
      <3>1. CASE h = b
        BY <1>3, <1>8, <3>1
      <3>2. CASE h # b
        <4>1. IF lt[h] = 0 THEN lo[h] = pos[h] ELSE hi[lt[h]] = pos[h] - 1 /\ lo[lt[h]] = lo[h]
          BY DEF Placed, LessBranch
        <4>2. lo2[h] = lo[h] /\ lt2[h] = IF lt[h] = b THEN c ELSE lt[h]
          BY <1>9, <3>2
        <4>3. CASE lt[h] = b
          <5>1. hi[b] = pos[h] - 1 /\ lo[b] = lo[h] /\ lt2[h] = c /\ c # 0
            BY <4>1, <4>2, <4>3
          <5>2. hi2[c] = pos[h] - 1 /\ lo2[c] = lo2[h]
            BY <1>3, <1>4, <1>8, <4>2, <5>1
          <5>3. QED
            BY <5>1, <5>2
        <4>4. CASE lt[h] # b /\ lt[h] # 0
          <5>1. PICK x \in 1 .. n : x = lt[h] /\ x # b /\ x # c /\ x # 0
            BY <1>1, <3>2, <4>4
          <5>2. hi2[x] = hi[x] /\ lo2[x] = lo[x] /\ lt2[h] = x
            BY <1>9, <4>2, <5>1
          <5>3. QED
            BY <4>1, <4>2, <5>1, <5>2
        <4>5. CASE lt[h] = 0
          BY <4>1, <4>2, <4>5
        <4>6. QED
          BY <4>3, <4>4, <4>5
      <3>3. QED
        BY <3>1, <3>2
    <2>2. QED
      BY <2>1 DEF LessBranch
  <1>15. Apart(n, lo2, hi2, pos)
    <2>1. Apart(n, lo, hi, pos)
      BY DEF Placed
    <2>2. ASSUME NEW g \in 1 .. n, NEW h \in 1 .. n
          PROVE  /\ pos[g] <= hi2[h] /\ pos[h] < pos[g] => hi2[g] <= hi2[h] /\ pos[h] < lo2[g]
                 /\ pos[g] < pos[h] /\ lo2[h] <= pos[g] => hi2[g] < pos[h] /\ lo2[h] <= lo2[g]
      <3>1. CASE g = h
        BY <1>1, <3>1
      <3>2. CASE h = b /\ g = c
        BY <1>3, <1>4, <1>8, <3>2
      <3>3. CASE h = c /\ g = b
        BY <1>3, <1>4, <1>8, <3>3
      <3>4. CASE h = b /\ g # b /\ g # c
        <4>1. PICK x \in 1 .. n, z \in 1 .. n, r \in 1 .. n : x = hi[g] /\ z = lo[g] /\ r = pos[g]
          BY <1>1
        <4>2. r <= s /\ p < r => x <= s /\ p < z
          BY <1>3, <2>1, <4>1, Zenon DEF Apart
        <4>3. hi2[g] = x /\ lo2[g] = z /\ hi2[h] = s /\ lo2[h] = p /\ pos[h] = p
          BY <1>3, <1>8, <1>9, <3>4, <4>1
        <4>4. ~ (r < p /\ p <= r)
          OBVIOUS
        <4>5. QED
          BY <4>1, <4>2, <4>3, <4>4, Zenon
      <3>5. CASE h = c /\ g # b /\ g # c
        <4>1. PICK x \in 1 .. n, z \in 1 .. n, r \in 1 .. n : x = hi[g] /\ z = lo[g] /\ r = pos[g]
          BY <1>1
        <4>2. r <= s /\ p < r => x <= s /\ p < z
          BY <1>3, <2>1, <4>1, Zenon DEF Apart
        <4>3. hi2[g] = x /\ lo2[g] = z /\ hi2[h] = s /\ lo2[h] = p - 1 /\ pos[h] = p - 1
          BY <1>3, <1>4, <1>8, <1>9, <3>5, <4>1
        <4>4. r # p
          BY <1>5, <3>5, <4>1
        <4>5. /\ r <= s /\ p - 1 < r => x <= s /\ p - 1 < z
              /\ ~ (r < p - 1 /\ p - 1 <= r)
          BY <4>2, <4>4
        <4>6. QED
          BY <4>1, <4>3, <4>5, Zenon
      <3>6. CASE g = b /\ h # b /\ h # c
        <4>1. PICK a \in 1 .. n, q \in 1 .. n, y \in 1 .. n : a = hi[h] /\ y = lo[h] /\ q = pos[h]
          BY <1>1
        <4>2. /\ p <= a /\ q < p => s <= a /\ q < p - 1
              /\ p < q /\ y <= p => s < q /\ y <= p - 1
          <5>1. /\ pos[b] <= hi[h] /\ pos[h] < pos[b] => hi[b] <= hi[h] /\ pos[h] < lo[b]
                /\ pos[b] < pos[h] /\ lo[h] <= pos[b] => hi[b] < pos[h] /\ lo[h] <= lo[b]
            BY <2>1, Zenon DEF Apart
          <5>2. pos[b] = p /\ hi[b] = s /\ lo[b] = p - 1
            BY <1>3, <1>4
          <5>3. QED
            BY <4>1, <5>1, <5>2, Zenon
        <4>3. hi2[h] = a /\ lo2[h] = y /\ hi2[g] = s /\ lo2[g] = p /\ pos[g] = p
          BY <1>3, <1>8, <1>9, <3>6, <4>1
        <4>4. /\ p <= a /\ q < p => s <= a /\ q < p
              /\ p < q /\ y <= p => s < q /\ y <= p
          BY <4>2
        <4>5. QED
          BY <4>1, <4>3, <4>4, Zenon
      <3>7. CASE g = c /\ h # b /\ h # c
        <4>1. PICK a \in 1 .. n, q \in 1 .. n, y \in 1 .. n : a = hi[h] /\ y = lo[h] /\ q = pos[h]
          BY <1>1
        <4>2. /\ p <= a /\ q < p => s <= a /\ q < p - 1
              /\ p < q /\ y <= p => s < q /\ y <= p - 1
          <5>1. /\ pos[b] <= hi[h] /\ pos[h] < pos[b] => hi[b] <= hi[h] /\ pos[h] < lo[b]
                /\ pos[b] < pos[h] /\ lo[h] <= pos[b] => hi[b] < pos[h] /\ lo[h] <= lo[b]
            BY <2>1, Zenon DEF Apart
          <5>2. pos[b] = p /\ hi[b] = s /\ lo[b] = p - 1
            BY <1>3, <1>4
          <5>3. QED
            BY <4>1, <5>1, <5>2, Zenon
        <4>3. hi2[h] = a /\ lo2[h] = y /\ hi2[g] = s /\ lo2[g] = p - 1 /\ pos[g] = p - 1
          BY <1>3, <1>4, <1>8, <1>9, <3>7, <4>1
        <4>4. a # p - 1 /\ q # p /\ q # p - 1
          BY <1>5, <1>6, <3>7, <4>1
        <4>5. /\ p - 1 <= a /\ q < p - 1 => s <= a /\ q < p - 1
              /\ p - 1 < q /\ y <= p - 1 => s < q /\ y <= p - 1
          BY <4>2, <4>4
        <4>6. QED
          BY <4>1, <4>3, <4>5, Zenon
      <3>8. CASE g # b /\ g # c /\ h # b /\ h # c
        <4>1. hi2[h] = hi[h] /\ lo2[h] = lo[h] /\ hi2[g] = hi[g] /\ lo2[g] = lo[g]
          BY <1>9, <3>8
        <4>2. QED
          BY <2>1, <4>1, Zenon DEF Apart
      <3>9. QED
        BY <3>1, <3>2, <3>3, <3>4, <3>5, <3>6, <3>7, <3>8
    <2>3. QED
      BY <2>2, Zenon DEF Apart
  <1>16. Placed(n, root2, lt2, gt2, lo2, hi2, pos)
    <2>1. OneEach(n, pos)
      BY DEF Placed
    <2>2. QED
      BY <1>10, <1>11, <1>12, <1>13, <1>14, <1>15, <2>1, Zenon DEF Placed
  <1>17. ASSUME NEW name, Named(n, name), InOrder(n, name, lo, hi, pos), ByLowWord(n, name)
         PROVE  InOrder(n, name, lo2, hi2, pos)
    <2>1. ASSUME NEW g \in 1 .. n, NEW h \in 1 .. n
          PROVE  /\ pos[g] <= hi2[h] /\ pos[h] < pos[g] => Cmp(name[g], name[h]) > 0
                 /\ pos[g] < pos[h] /\ lo2[h] <= pos[g] => Cmp(name[g], name[h]) < 0
      <3>1. /\ pos[g] <= hi[h] /\ pos[h] < pos[g] => Cmp(name[g], name[h]) > 0
            /\ pos[g] < pos[h] /\ lo[h] <= pos[g] => Cmp(name[g], name[h]) < 0
        BY <1>17, Zenon DEF InOrder
      <3>2. CASE h # b /\ h # c
        <4>1. hi2[h] = hi[h] /\ lo2[h] = lo[h]
          BY <1>9, <3>2
        <4>2. QED
          BY <3>1, <4>1, Zenon
      <3>3. CASE h = b
        <4>1. hi2[h] = hi[h] /\ lo2[h] = p /\ pos[h] = p
          BY <1>3, <1>8, <3>3
        <4>2. PICK r \in 1 .. n : r = pos[g]
          BY <1>1
        <4>3. ~ (r < p /\ p <= r)
          OBVIOUS
        <4>4. QED
          BY <3>1, <4>1, <4>2, <4>3, Zenon
      <3>4. CASE h = c
        <4>1. hi2[h] = s /\ lo2[h] = p - 1 /\ pos[h] = p - 1
          BY <1>4, <1>8, <3>4
        <4>2. PICK r \in 1 .. n : r = pos[g]
          BY <1>1
        <4>3. ~ (r < p - 1 /\ p - 1 <= r)
          OBVIOUS
        <4>4. PICK u \in Int, v \in Int, t \in Int :
                u = AsInt(name[g]) /\ v = AsInt(name[b]) /\ t = AsInt(name[c])
          BY <1>17, CmpIsInt DEF Named
        <4>5. t - v < 0
          <5>1. pos[b] <= hi[b] /\ pos[c] < pos[b] /\ lo[b] <= pos[c]
            BY <1>3, <1>4
          <5>2. Cmp(name[c], name[b]) < 0
            BY <1>17, <5>1, Zenon DEF InOrder
          <5>3. Cmp(name[c], name[b]) = t - v
            BY <1>17, <4>4, Zenon DEF ByLowWord
          <5>4. QED
            BY <5>2, <5>3, Zenon
        <4>6. r <= s /\ p < r => u - v > 0
          <5>1. r <= s /\ p < r => Cmp(name[g], name[b]) > 0
            BY <1>3, <1>17, <4>2, Zenon DEF InOrder
          <5>2. Cmp(name[g], name[b]) = u - v
            BY <1>17, <4>4, Zenon DEF ByLowWord
          <5>3. QED
            BY <5>1, <5>2, Zenon
        <4>7. r = p => u = v
          <5>1. r = p => g = b
            BY <1>3, <4>2 DEF Placed, OneEach
          <5>2. QED
            BY <4>4, <5>1
        <4>8. r <= s /\ p - 1 < r => u - t > 0
          BY <4>5, <4>6, <4>7
        <4>9. Cmp(name[g], name[h]) = u - t
          BY <1>17, <3>4, <4>4, Zenon DEF ByLowWord
        <4>10. QED
          BY <4>1, <4>2, <4>3, <4>8, <4>9, Zenon
      <3>5. QED
        BY <3>2, <3>3, <3>4
    <2>2. QED
      BY <2>1, Zenon DEF InOrder
  <1>18. QED
    BY <1>16, <1>17

-----------------------------------------------------------------------------
(* What the code does to the nodes, done to the functions.                       *)
LEMMA LessWritten ==
  ASSUME NEW n \in Nat, NEW name, NEW lt, NEW gt, NEW h \in 1 .. n, NEW c
  PROVE  [Nodes(n, name, lt, gt) EXCEPT ![h]["lt"] = c] = Nodes(n, name, With(n, lt, h, c), gt)
  <1>1. PICK s : s = Nodes(n, name, lt, gt)
    OBVIOUS
  <1>2. HasLength(s, n) /\ \A j \in 1 .. n : s[j] = [name |-> name[j], lt |-> lt[j], gt |-> gt[j]]
    <2>1. HasLength(s, n)
      BY <1>1, NodesHaveLength
    <2>2. \A j \in 1 .. n : s[j] = [name |-> name[j], lt |-> lt[j], gt |-> gt[j]]
      BY <1>1 DEF Nodes
    <2>3. QED
      BY <2>1, <2>2
  <1>3. PICK r : r = [s[h] EXCEPT !["lt"] = c]
    OBVIOUS
  <1>4. r = [name |-> name[h], lt |-> c, gt |-> gt[h]]
    <2>1. PICK x : x = s[h]
      OBVIOUS
    <2>2. x = [name |-> name[h], lt |-> lt[h], gt |-> gt[h]]
      BY <1>2, <2>1
    <2>3. r = [x EXCEPT !["lt"] = c]
      BY <1>3, <2>1
    <2>4. QED
      BY <2>2, <2>3
  <1>5. [s EXCEPT ![h]["lt"] = c] = [j \in 1 .. n |-> IF j = h THEN r ELSE s[j]]
    BY <1>2, <1>3 DEF HasLength
  <1>6. PICK f : f = With(n, lt, h, c)
    OBVIOUS
  <1>7. \A j \in 1 .. n : f[j] = IF j = h THEN c ELSE lt[j]
    BY <1>6 DEF With
  <1>8. ASSUME NEW j \in 1 .. n
        PROVE  (IF j = h THEN r ELSE s[j]) = [name |-> name[j], lt |-> f[j], gt |-> gt[j]]
    <2>1. CASE j = h
      BY <1>4, <1>7, <2>1
    <2>2. CASE j # h
      BY <1>2, <1>7, <2>2
    <2>3. QED
      BY <2>1, <2>2
  <1>9. [s EXCEPT ![h]["lt"] = c] = [j \in 1 .. n |-> [name |-> name[j], lt |-> f[j], gt |-> gt[j]]]
    BY <1>5, <1>8, Zenon
  <1>10. QED
    BY <1>1, <1>6, <1>9, Zenon DEF Nodes

(* Writing the greater branch of one node.                                       *)
LEMMA GreaterWritten ==
  ASSUME NEW n \in Nat, NEW name, NEW lt, NEW gt, NEW h \in 1 .. n, NEW c
  PROVE  [Nodes(n, name, lt, gt) EXCEPT ![h]["gt"] = c] = Nodes(n, name, lt, With(n, gt, h, c))
  <1>1. PICK s : s = Nodes(n, name, lt, gt)
    OBVIOUS
  <1>2. HasLength(s, n) /\ \A j \in 1 .. n : s[j] = [name |-> name[j], lt |-> lt[j], gt |-> gt[j]]
    <2>1. HasLength(s, n)
      BY <1>1, NodesHaveLength
    <2>2. \A j \in 1 .. n : s[j] = [name |-> name[j], lt |-> lt[j], gt |-> gt[j]]
      BY <1>1 DEF Nodes
    <2>3. QED
      BY <2>1, <2>2
  <1>3. PICK r : r = [s[h] EXCEPT !["gt"] = c]
    OBVIOUS
  <1>4. r = [name |-> name[h], lt |-> lt[h], gt |-> c]
    <2>1. PICK x : x = s[h]
      OBVIOUS
    <2>2. x = [name |-> name[h], lt |-> lt[h], gt |-> gt[h]]
      BY <1>2, <2>1
    <2>3. r = [x EXCEPT !["gt"] = c]
      BY <1>3, <2>1
    <2>4. QED
      BY <2>2, <2>3
  <1>5. [s EXCEPT ![h]["gt"] = c] = [j \in 1 .. n |-> IF j = h THEN r ELSE s[j]]
    BY <1>2, <1>3 DEF HasLength
  <1>6. PICK f : f = With(n, gt, h, c)
    OBVIOUS
  <1>7. \A j \in 1 .. n : f[j] = IF j = h THEN c ELSE gt[j]
    BY <1>6 DEF With
  <1>8. ASSUME NEW j \in 1 .. n
        PROVE  (IF j = h THEN r ELSE s[j]) = [name |-> name[j], lt |-> lt[j], gt |-> f[j]]
    <2>1. CASE j = h
      BY <1>4, <1>7, <2>1
    <2>2. CASE j # h
      BY <1>2, <1>7, <2>2
    <2>3. QED
      BY <2>1, <2>2
  <1>9. [s EXCEPT ![h]["gt"] = c] = [j \in 1 .. n |-> [name |-> name[j], lt |-> lt[j], gt |-> f[j]]]
    BY <1>5, <1>8, Zenon
  <1>10. QED
    BY <1>1, <1>6, <1>9, Zenon DEF Nodes

(* Link writes the less branch when the name compares less,                      *)
LEMMA LinkedLess ==
  ASSUME NEW n \in Nat, NEW name, NEW lt, NEW gt, NEW h \in 1 .. n, NEW k, NEW c,
         Cmp(k, name[h]) < 0
  PROVE  Link(Nodes(n, name, lt, gt), h, k, c) = Nodes(n, name, With(n, lt, h, c), gt)
  <1>1. Nodes(n, name, lt, gt)[h].name = name[h]
    BY FieldsOfNode
  <1>2. Side(k, Nodes(n, name, lt, gt)[h]) = "lt"
    BY <1>1, Zenon DEF Side
  <1>3. PICK s : s = [Nodes(n, name, lt, gt) EXCEPT ![h]["lt"] = c]
    OBVIOUS
  <1>4. s = Nodes(n, name, With(n, lt, h, c), gt)
    BY <1>3, LessWritten
  <1>5. Link(Nodes(n, name, lt, gt), h, k, c) = s
    BY <1>2, <1>3, Zenon DEF Link
  <1>6. QED
    BY <1>4, <1>5, Zenon

(* and the greater one when it does not.                                         *)
LEMMA LinkedGreater ==
  ASSUME NEW n \in Nat, NEW name, NEW lt, NEW gt, NEW h \in 1 .. n, NEW k, NEW c,
         ~ (Cmp(k, name[h]) < 0)
  PROVE  Link(Nodes(n, name, lt, gt), h, k, c) = Nodes(n, name, lt, With(n, gt, h, c))
  <1>1. Nodes(n, name, lt, gt)[h].name = name[h]
    BY FieldsOfNode
  <1>2. Side(k, Nodes(n, name, lt, gt)[h]) = "gt"
    BY <1>1, Zenon DEF Side
  <1>3. PICK s : s = [Nodes(n, name, lt, gt) EXCEPT ![h]["gt"] = c]
    OBVIOUS
  <1>4. s = Nodes(n, name, lt, With(n, gt, h, c))
    BY <1>3, GreaterWritten
  <1>5. Link(Nodes(n, name, lt, gt), h, k, c) = s
    BY <1>2, <1>3, Zenon DEF Link
  <1>6. QED
    BY <1>4, <1>5, Zenon

(* A new node at the end has the name given and no branch.                       *)
LEMMA NodesAppended ==
  ASSUME NEW n \in Nat, NEW name, NEW lt, NEW gt, NEW k
  PROVE  Append(Nodes(n, name, lt, gt), [name |-> k, lt |-> 0, gt |-> 0])
       = Nodes(n + 1, Extended(name, n, k), Extended(lt, n, 0), Extended(gt, n, 0))
  <1> DEFINE S == {Nodes(n, name, lt, gt)[i] : i \in 1 .. n} \cup {[name |-> k, lt |-> 0, gt |-> 0]}
  <1>1. PICK s, leaf : s = Nodes(n, name, lt, gt) /\ leaf = [name |-> k, lt |-> 0, gt |-> 0]
    OBVIOUS
  <1>2. HasLength(s, n) /\ Len(s) = n
    BY <1>1, NodesHaveLength
  <1>3. s \in [1 .. n -> S] /\ leaf \in S
    BY <1>1, <1>2 DEF HasLength
  <1> HIDE DEF S
  <1>4. s \in Seq(S)
    BY <1>3, SeqDef
  <1>5. PICK a : a = Append(s, leaf)
    OBVIOUS
  <1>6. a \in Seq(S) /\ Len(a) = n + 1 /\ (\A i \in 1 .. n : a[i] = s[i]) /\ a[n + 1] = leaf
    BY <1>2, <1>3, <1>4, <1>5, AppendProperties
  <1>7. a = [i \in 1 .. n + 1 |-> a[i]]
    BY <1>6, LenProperties
  <1>8. ASSUME NEW i \in 1 .. n + 1
        PROVE  a[i] = [name |-> Extended(name, n, k)[i], lt |-> Extended(lt, n, 0)[i],
                       gt |-> Extended(gt, n, 0)[i]]
    <2>1. CASE i = n + 1
      BY <1>1, <1>6, <2>1 DEF Extended
    <2>2. CASE i \in 1 .. n
      <3>1. a[i] = [name |-> name[i], lt |-> lt[i], gt |-> gt[i]]
        BY <1>1, <1>6, <2>2 DEF Nodes
      <3>2. Extended(name, n, k)[i] = name[i] /\ Extended(lt, n, 0)[i] = lt[i]
            /\ Extended(gt, n, 0)[i] = gt[i]
        BY <2>2 DEF Extended
      <3>3. QED
        BY <3>1, <3>2
    <2>3. QED
      BY <2>1, <2>2
  <1>9. a = Nodes(n + 1, Extended(name, n, k), Extended(lt, n, 0), Extended(gt, n, 0))
    BY <1>7, <1>8, Zenon DEF Nodes
  <1>10. QED
    BY <1>1, <1>5, <1>9

(* The nodes with a leaf for k below b.                                          *)
LEMMA LeafLinked ==
  ASSUME NEW n \in Nat, NEW name, NEW lt, NEW gt, NEW k, NEW b \in 1 .. n, NEW pos, pos[b] \in Nat,
         NEW e, e = IF Cmp(k, name[b]) < 0 THEN pos[b] ELSE pos[b] + 1
  PROVE  Append(Link(Nodes(n, name, lt, gt), b, k, n + 1), [name |-> k, lt |-> 0, gt |-> 0])
       = Nodes(n + 1, Extended(name, n, k), HangLess(n, lt, b, pos, e), HangGreater(n, gt, b, pos, e))
  <1>1. PICK m, leaf : m = n + 1 /\ leaf = [name |-> k, lt |-> 0, gt |-> 0]
    OBVIOUS
  <1>2. \A f, g : Append(Nodes(n, name, f, g), leaf)
                 = Nodes(m, Extended(name, n, k), Extended(f, n, 0), Extended(g, n, 0))
    BY <1>1, NodesAppended
  <1>3. PICK linked : linked = Link(Nodes(n, name, lt, gt), b, k, m)
    OBVIOUS
  <1>4. PICK lt1, gt1 : lt1 = HangLess(n, lt, b, pos, e) /\ gt1 = HangGreater(n, gt, b, pos, e)
    OBVIOUS
  <1>5. Append(linked, leaf) = Nodes(m, Extended(name, n, k), lt1, gt1)
    <2>1. CASE Cmp(k, name[b]) < 0
      <3>1. linked = Nodes(n, name, With(n, lt, b, m), gt)
        BY <1>3, <2>1, LinkedLess
      <3>2. e = pos[b]
        BY <2>1, Zenon
      <3>3. Extended(With(n, lt, b, m), n, 0) = lt1
        BY <1>1, <1>4, <3>2 DEF Extended, With, HangLess
      <3>4. Extended(gt, n, 0) = gt1
        BY <1>4, <3>2 DEF Extended, HangGreater
      <3>5. QED
        BY <1>2, <3>1, <3>3, <3>4, Zenon
    <2>2. CASE ~ (Cmp(k, name[b]) < 0)
      <3>1. linked = Nodes(n, name, lt, With(n, gt, b, m))
        BY <1>3, <2>2, LinkedGreater
      <3>2. e = pos[b] + 1
        BY <2>2, Zenon
      <3>3. e # pos[b]
        BY <3>2
      <3>4. Extended(lt, n, 0) = lt1
        BY <1>4, <3>3 DEF Extended, HangLess
      <3>5. Extended(With(n, gt, b, m), n, 0) = gt1
        BY <1>1, <1>4, <3>3 DEF Extended, With, HangGreater
      <3>6. QED
        BY <1>2, <3>1, <3>4, <3>5, Zenon
    <2>3. QED
      BY <2>1, <2>2
  <1>6. QED
    BY <1>1, <1>3, <1>4, <1>5, Zenon

(* A rotation of b with the leaf c on the side its low word names.               *)
LEMMA BalancedGreater ==
  ASSUME NEW n \in Nat, NEW name, NEW lt, NEW gt, NEW b \in 1 .. n, NEW c \in 1 .. n,
         NEW nodes, nodes = Nodes(n, name, lt, gt),
         gt[b] = c, lt[c] = 0, AsInt(name[b]) > 0, ~ (AsInt(name[c]) < 0)
  PROVE  /\ Balance(nodes, b).nodes = Nodes(n, name, With(n, lt, c, b), With(n, gt, b, 0))
         /\ Balance(nodes, b).top = c
  <1> DEFINE side == IF AsInt(nodes[b].name) > 0 THEN "gt" ELSE "lt"
             back == Other(side)
             deep == nodes[b][side]
             bf   == AsInt(nodes[deep].name)
             mid  == nodes[deep][back]
             once == [nodes EXCEPT ![b][side] = mid, ![deep][back] = b]
  <1>1. side = "gt" /\ back = "lt"
    <2>1. nodes[b].name = name[b]
      BY FieldsOfNode
    <2>2. side = "gt"
      BY <2>1
    <2>3. QED
      BY <2>2 DEF Other
  <1>2. deep = c
    <2>1. nodes[b]["gt"] = gt[b]
      BY FieldsOfNode
    <2>2. QED
      BY <1>1, <2>1, Zenon
  <1>3. bf = AsInt(name[c])
    <2>1. nodes[c].name = name[c]
      BY FieldsOfNode
    <2>2. QED
      BY <1>2, <2>1, Zenon
  <1>4. mid = 0
    <2>1. nodes[c]["lt"] = lt[c]
      BY FieldsOfNode
    <2>2. QED
      BY <1>1, <1>2, <2>1, Zenon
  <1>5. Balance(nodes, b) = [nodes |-> once, top |-> deep]
    <2>1. ~ ((side = "gt" /\ bf < 0) \/ (side = "lt" /\ bf > 0))
      BY <1>1, <1>3
    <2> HIDE DEF side, bf
    <2>2. QED
      BY <2>1 DEF Balance, side, bf
  <1>6. once = [[nodes EXCEPT ![b]["gt"] = 0] EXCEPT ![c]["lt"] = b]
    <2> HIDE DEF side, back, deep, mid
    <2>1. QED
      BY <1>1, <1>2, <1>4, Zenon
  <1>7. [nodes EXCEPT ![b]["gt"] = 0] = Nodes(n, name, lt, With(n, gt, b, 0))
    BY GreaterWritten
  <1>8. once = Nodes(n, name, With(n, lt, c, b), With(n, gt, b, 0))
    <2> HIDE DEF once
    <2>1. [Nodes(n, name, lt, With(n, gt, b, 0)) EXCEPT ![c]["lt"] = b]
          = Nodes(n, name, With(n, lt, c, b), With(n, gt, b, 0))
      BY LessWritten
    <2>2. QED
      BY <1>6, <1>7, <2>1, Zenon
  <1> HIDE DEF once, deep
  <1>9. QED
    BY <1>2, <1>5, <1>8

(* The other side: one rotation when b leans to its less side.                   *)
LEMMA BalancedLess ==
  ASSUME NEW n \in Nat, NEW name, NEW lt, NEW gt, NEW b \in 1 .. n, NEW c \in 1 .. n,
         NEW nodes, nodes = Nodes(n, name, lt, gt),
         lt[b] = c, gt[c] = 0, ~ (AsInt(name[b]) > 0), ~ (AsInt(name[c]) > 0)
  PROVE  /\ Balance(nodes, b).nodes = Nodes(n, name, With(n, lt, b, 0), With(n, gt, c, b))
         /\ Balance(nodes, b).top = c
  <1> DEFINE side == IF AsInt(nodes[b].name) > 0 THEN "gt" ELSE "lt"
             back == Other(side)
             deep == nodes[b][side]
             bf   == AsInt(nodes[deep].name)
             mid  == nodes[deep][back]
             once == [nodes EXCEPT ![b][side] = mid, ![deep][back] = b]
  <1>1. side = "lt" /\ back = "gt"
    <2>1. nodes[b].name = name[b]
      BY FieldsOfNode
    <2>2. side = "lt"
      BY <2>1
    <2>3. QED
      BY <2>2 DEF Other
  <1>2. deep = c
    <2>1. nodes[b]["lt"] = lt[b]
      BY FieldsOfNode
    <2>2. QED
      BY <1>1, <2>1, Zenon
  <1>3. bf = AsInt(name[c])
    <2>1. nodes[c].name = name[c]
      BY FieldsOfNode
    <2>2. QED
      BY <1>2, <2>1, Zenon
  <1>4. mid = 0
    <2>1. nodes[c]["gt"] = gt[c]
      BY FieldsOfNode
    <2>2. QED
      BY <1>1, <1>2, <2>1, Zenon
  <1>5. Balance(nodes, b) = [nodes |-> once, top |-> deep]
    <2>1. ~ ((side = "gt" /\ bf < 0) \/ (side = "lt" /\ bf > 0))
      BY <1>1, <1>3
    <2> HIDE DEF side, bf
    <2>2. QED
      BY <2>1 DEF Balance, side, bf
  <1>6. once = [[nodes EXCEPT ![b]["lt"] = 0] EXCEPT ![c]["gt"] = b]
    <2> HIDE DEF side, back, deep, mid
    <2>1. QED
      BY <1>1, <1>2, <1>4, Zenon
  <1>7. [nodes EXCEPT ![b]["lt"] = 0] = Nodes(n, name, With(n, lt, b, 0), gt)
    BY LessWritten
  <1>8. once = Nodes(n, name, With(n, lt, b, 0), With(n, gt, c, b))
    <2> HIDE DEF once
    <2>1. [Nodes(n, name, With(n, lt, b, 0), gt) EXCEPT ![c]["gt"] = b]
          = Nodes(n, name, With(n, lt, b, 0), With(n, gt, c, b))
      BY GreaterWritten
    <2>2. QED
      BY <1>6, <1>7, <2>1, Zenon
  <1> HIDE DEF once, deep
  <1>9. QED
    BY <1>2, <1>5, <1>8

-----------------------------------------------------------------------------
(* A search for k that ends at b, which is not the same.                         *)
EndsAt(n, root, name, lt, gt, k, w, d, b) ==
  /\ n \in Nat /\ root \in 1 .. n /\ k \in Int /\ d \in 1 .. n
  /\ IsWay(w, d, Onward(n, name, lt, gt, k), n, root)
  /\ b = w[d] /\ Cmp(k, name[b]) # 0

(* What is known of the way to where a search ends.                              *)
LEMMA EndFacts ==
  ASSUME NEW n, NEW root, NEW name, NEW lt, NEW gt, NEW k, NEW w, NEW d, NEW b,
         EndsAt(n, root, name, lt, gt, k, w, d, b), NEW link, link = Onward(n, name, lt, gt, k)
  PROVE  /\ n \in Nat /\ root \in 1 .. n /\ k \in Int /\ d \in 1 .. n /\ b \in 1 .. n
         /\ w[1] = root /\ w[d] = b /\ link[b] = 0 /\ Cmp(k, name[b]) # 0
         /\ \A i \in 1 .. d : w[i] \in 1 .. n /\ (i < d => w[i + 1] = link[w[i]])
         /\ HasLength(w, d) /\ Len(w) = d /\ w # <<>>
         /\ IF Cmp(k, name[b]) < 0 THEN lt[b] = 0 ELSE gt[b] = 0
  <1>1. /\ n \in Nat /\ root \in 1 .. n /\ k \in Int /\ d \in 1 .. n
        /\ IsWay(w, d, link, n, root)
        /\ b = w[d] /\ Cmp(k, name[b]) # 0
    BY DEF EndsAt
  <1>2. /\ HasLength(w, d) /\ (\A i \in 1 .. d : w[i] \in 1 .. n)
        /\ w[1] = root /\ link[w[d]] = 0
        /\ \A i \in 1 .. d : i < d => w[i + 1] = link[w[i]]
    BY <1>1 DEF IsWay
  <1>3. Len(w) = d
    <2>1. d \in Nat
      BY <1>1
    <2>2. QED
      BY <1>2, <2>1, LengthIs
  <1>4. w # <<>>
    <2>1. Len(<<>>) = 0 /\ d # 0
      BY <1>1
    <2>2. QED
      BY <1>3, <2>1
  <1>5. b \in 1 .. n
    BY <1>1, <1>2
  <1>6. link[b] = IF Cmp(k, name[b]) = 0 THEN 0 ELSE IF Cmp(k, name[b]) < 0 THEN lt[b] ELSE gt[b]
    BY <1>1, <1>5, OnwardLinks
  <1>7. IF Cmp(k, name[b]) < 0 THEN lt[b] = 0 ELSE gt[b] = 0
    BY <1>1, <1>2, <1>6
  <1>8. QED
    BY <1>1, <1>2, <1>3, <1>4, <1>5, <1>7

(* Only the node before b on the way leads to b.                                 *)
LEMMA OneBefore ==
  ASSUME NEW n, NEW root, NEW lt, NEW gt, NEW lo, NEW hi, NEW pos, NEW name,
         Placed(n, root, lt, gt, lo, hi, pos), Named(n, name), NEW k, NEW w, NEW d, NEW b,
         EndsAt(n, root, name, lt, gt, k, w, d, b)
  PROVE  /\ root = b <=> d = 1
         /\ d > 1 => d - 1 \in 1 .. d
         /\ \A h \in 1 .. n :
              /\ lt[h] = b <=> d > 1 /\ h = w[d - 1] /\ Cmp(k, name[h]) < 0
              /\ gt[h] = b <=> d > 1 /\ h = w[d - 1] /\ ~ (Cmp(k, name[h]) < 0)
  <1>1. PICK link : link = Onward(n, name, lt, gt, k)
    OBVIOUS
  <1>2. /\ n \in Nat /\ root \in 1 .. n /\ k \in Int /\ d \in 1 .. n /\ b \in 1 .. n
        /\ w[1] = root /\ w[d] = b /\ link[b] = 0 /\ Cmp(k, name[b]) # 0
        /\ \A i \in 1 .. d : w[i] \in 1 .. n /\ (i < d => w[i + 1] = link[w[i]])
    BY <1>1, EndFacts
  <1>3. \A g \in 1 .. n : /\ lt[g] \in 0 .. n /\ gt[g] \in 0 .. n
                          /\ lo[g] \in 1 .. n /\ hi[g] \in 1 .. n /\ pos[g] \in 1 .. n
    BY DEF Placed, Types, Gives
  <1>4. \A g \in 1 .. n : lo[g] <= pos[g] /\ pos[g] <= hi[g]
    BY DEF Placed, Between
  <1>5. \A g \in 1 .. n : link[g] = IF Cmp(k, name[g]) = 0 THEN 0
                                    ELSE IF Cmp(k, name[g]) < 0 THEN lt[g] ELSE gt[g]
    BY <1>1, <1>2, OnwardLinks
  (* b comes only at the end *)
  <1>6. ASSUME NEW i \in 1 .. d, w[i] = b
        PROVE  i = d
    <2> SUFFICES ASSUME i < d
                 PROVE  FALSE
      BY <1>2
    <2>1. i + 1 \in 1 .. d
      BY <1>2
    <2>2. w[i + 1] = link[b] /\ w[i + 1] \in 1 .. n
      BY <1>2, <1>6, <2>1
    <2>3. QED
      BY <1>2, <2>2
  <1>7. root = b <=> d = 1
    <2>1. 1 \in 1 .. d
      BY <1>2
    <2>2. root = b => d = 1
      BY <1>2, <1>6, <2>1
    <2>3. QED
      BY <1>2, <2>2
  <1>8. d > 1 => d - 1 \in 1 .. d /\ d - 1 < d /\ d - 1 + 1 = d
    BY <1>2
  <1>9. IsWay(w, d, link, n, root)
    BY <1>1 DEF EndsAt
  <1>10. ASSUME NEW h \in 1 .. n, lt[h] = b
         PROVE  d > 1 /\ h = w[d - 1] /\ Cmp(k, name[h]) < 0
    <2>1. b # 0
      BY <1>2
    <2>2. lo[b] = lo[h] /\ hi[b] = pos[h] - 1
      BY <1>10, <2>1 DEF Placed, LessBranch
    <2>3. lo[h] <= pos[b] /\ pos[b] < pos[h] /\ pos[b] <= hi[h] /\ h # b
      BY <1>2, <1>3, <1>4, <2>2
    <2>4. d \in Nat
      BY <1>2
    <2>5. PICK j \in 1 .. d : j < d /\ w[j] = h /\ Cmp(k, name[h]) < 0 /\ w[j + 1] = lt[h]
      BY <1>1, <1>2, <1>9, <2>3, <2>4, MetOnTheWay
    <2>6. j + 1 \in 1 .. d
      BY <1>2, <2>5
    <2>7. j + 1 = d
      BY <1>6, <1>10, <2>5, <2>6
    <2>8. d > 1 /\ j = d - 1
      BY <1>2, <2>7
    <2>9. QED
      BY <2>5, <2>8
  <1>11. ASSUME NEW h \in 1 .. n, gt[h] = b
         PROVE  d > 1 /\ h = w[d - 1] /\ Cmp(k, name[h]) > 0
    <2>1. b # 0
      BY <1>2
    <2>2. lo[b] = pos[h] + 1 /\ hi[b] = hi[h]
      BY <1>11, <2>1 DEF Placed, GreaterBranch
    <2>3. pos[h] < pos[b] /\ pos[b] <= hi[h] /\ lo[h] <= pos[b] /\ h # b
      BY <1>2, <1>3, <1>4, <2>2
    <2>4. d \in Nat
      BY <1>2
    <2>5. PICK j \in 1 .. d : j < d /\ w[j] = h /\ Cmp(k, name[h]) > 0 /\ w[j + 1] = gt[h]
      BY <1>1, <1>2, <1>9, <2>3, <2>4, MetOnTheWay
    <2>6. j + 1 \in 1 .. d
      BY <1>2, <2>5
    <2>7. j + 1 = d
      BY <1>6, <1>11, <2>5, <2>6
    <2>8. d > 1 /\ j = d - 1
      BY <1>2, <2>7
    <2>9. QED
      BY <2>5, <2>8
  <1>12. ASSUME NEW h \in 1 .. n, d > 1, h = w[d - 1]
         PROVE  b = IF Cmp(k, name[h]) < 0 THEN lt[h] ELSE gt[h]
    <2>1. link[h] = b
      BY <1>2, <1>8, <1>12
    <2>2. QED
      BY <1>2, <1>5, <2>1
  <1>13. ASSUME NEW h \in 1 .. n
         PROVE  /\ lt[h] = b <=> d > 1 /\ h = w[d - 1] /\ Cmp(k, name[h]) < 0
                /\ gt[h] = b <=> d > 1 /\ h = w[d - 1] /\ ~ (Cmp(k, name[h]) < 0)
    <2>1. Cmp(k, name[h]) \in Int
      BY <1>2, CmpIsInt DEF Named
    <2>2. Cmp(k, name[h]) > 0 => ~ (Cmp(k, name[h]) < 0)
      BY <2>1
    <2>3. QED
      BY <1>10, <1>11, <1>12, <2>2, Zenon
  <1>14. QED
    BY <1>7, <1>8, <1>13

(* A leaf hung where the search ended.                                           *)
LEMMA LeafAdded ==
  ASSUME NEW n, NEW root, NEW lt, NEW gt, NEW lo, NEW hi, NEW pos, NEW name,
         Placed(n, root, lt, gt, lo, hi, pos), Named(n, name), InOrder(n, name, lo, hi, pos),
         NEW k, NEW w, NEW d, NEW b, EndsAt(n, root, name, lt, gt, k, w, d, b),
         NEW e, e = IF Cmp(k, name[b]) < 0 THEN pos[b] ELSE pos[b] + 1
  PROVE  /\ Placed(n + 1, root, HangLess(n, lt, b, pos, e), HangGreater(n, gt, b, pos, e),
                   HangLo(n, lo, b, pos, e), HangHi(n, hi, b, pos, e), HangPos(n, pos, e))
         /\ InOrder(n + 1, Extended(name, n, k),
                    HangLo(n, lo, b, pos, e), HangHi(n, hi, b, pos, e), HangPos(n, pos, e))
         /\ Named(n + 1, Extended(name, n, k))
  <1>1. PICK link : link = Onward(n, name, lt, gt, k)
    OBVIOUS
  <1>2. /\ n \in Nat /\ root \in 1 .. n /\ k \in Int /\ d \in 1 .. n /\ b \in 1 .. n
        /\ w[1] = root /\ w[d] = b /\ Cmp(k, name[b]) # 0
        /\ IF Cmp(k, name[b]) < 0 THEN lt[b] = 0 ELSE gt[b] = 0
    BY <1>1, EndFacts
  <1>3. \A g \in 1 .. n : lo[g] \in 1 .. n /\ hi[g] \in 1 .. n /\ pos[g] \in 1 .. n
    BY DEF Placed, Types, Gives
  <1>4. PICK p \in 1 .. n : p = pos[b]
    BY <1>2, <1>3
  <1>5. e = (IF Cmp(k, name[b]) < 0 THEN p ELSE p + 1) /\ p # p + 1
    BY <1>4
  <1>6. e \in {pos[b], pos[b] + 1} /\ (e = pos[b] => lt[b] = 0) /\ (e # pos[b] => gt[b] = 0)
    BY <1>2, <1>4, <1>5
  <1>7. Placed(n + 1, root, HangLess(n, lt, b, pos, e), HangGreater(n, gt, b, pos, e),
               HangLo(n, lo, b, pos, e), HangHi(n, hi, b, pos, e), HangPos(n, pos, e))
    BY <1>2, <1>6, LeafHung
  <1>8. ASSUME NEW h \in 1 .. n, lo[h] <= pos[b], pos[b] <= hi[h]
        PROVE  /\ e <= pos[h] => Cmp(k, name[h]) < 0
               /\ pos[h] < e => Cmp(k, name[h]) > 0
    <2>1. CASE h = b
      <3>1. PICK c \in Int : c = Cmp(k, name[b])
        BY <1>2, CmpIsInt DEF Named
      <3>2. c # 0 /\ e = (IF c < 0 THEN p ELSE p + 1)
        BY <1>2, <1>5, <3>1
      <3>3. /\ e <= p => c < 0
            /\ p < e => c > 0
        BY <3>2
      <3>4. QED
        BY <1>4, <2>1, <3>1, <3>3, Zenon
    <2>2. CASE h # b
      <3>1. d \in Nat /\ IsWay(w, d, link, n, root)
        BY <1>1, <1>2 DEF EndsAt
      <3>2. /\ pos[b] < pos[h] => Cmp(k, name[h]) < 0
            /\ pos[h] < pos[b] => Cmp(k, name[h]) > 0
        BY <1>1, <1>2, <1>8, <2>2, <3>1, MetOnTheWay
      <3>3. pos[h] # pos[b] /\ pos[h] \in Int
        BY <1>2, <1>3, <2>2 DEF Placed, OneEach
      <3>4. e = p \/ e = p + 1
        BY <1>5
      <3>5. (e <= pos[h] => p < pos[h]) /\ (pos[h] < e => pos[h] < p)
        <4>1. PICK q \in Int : q = pos[h]
          BY <3>3
        <4>2. q # p
          BY <1>4, <3>3, <4>1
        <4>3. (e <= q => p < q) /\ (q < e => q < p)
          BY <3>4, <4>2
        <4>4. QED
          BY <4>1, <4>3
      <3>6. QED
        BY <1>4, <3>2, <3>5, Zenon
    <2>3. QED
      BY <2>1, <2>2
  <1>9. InOrder(n + 1, Extended(name, n, k),
                HangLo(n, lo, b, pos, e), HangHi(n, hi, b, pos, e), HangPos(n, pos, e))
    BY <1>2, <1>6, <1>8, LeafInOrder
  <1>10. Named(n + 1, Extended(name, n, k))
    <2>1. \A h \in 1 .. n : name[h] \in Int
      BY DEF Named
    <2>2. PICK name1 : name1 = Extended(name, n, k)
      OBVIOUS
    <2>3. HasLength(name1, n + 1)
      BY <2>2 DEF Extended, HasLength
    <2>4. ASSUME NEW h \in 1 .. n + 1
          PROVE  name1[h] \in Int
      <3>1. name1[h] = IF h = n + 1 THEN k ELSE name[h]
        BY <2>2 DEF Extended
      <3>2. h # n + 1 => h \in 1 .. n
        BY <1>2
      <3>3. QED
        BY <1>2, <2>1, <3>1, <3>2
    <2>5. QED
      BY <2>2, <2>3, <2>4 DEF Named
  <1>11. QED
    BY <1>7, <1>9, <1>10

-----------------------------------------------------------------------------
(* With low words that are safe, only the node that the leaf is hung from can be *)
(* due for a rotation, towards the leaf, and only when the order of the names is *)
(* that of the low words.                                                        *)
LEMMA OnlyTheLastTurns ==
  ASSUME NEW n, NEW root, NEW lt, NEW gt, NEW lo, NEW hi, NEW pos, NEW name, NEW nodes,
         nodes = Nodes(n, name, lt, gt),
         Placed(n, root, lt, gt, lo, hi, pos), Named(n, name), InOrder(n, name, lo, hi, pos),
         NEW k, NEW w, NEW d, NEW b, EndsAt(n, root, name, lt, gt, k, w, d, b),
         NEW ks, k \in ks, \A h \in 1 .. n : name[h] \in ks, SafeLowWords(ks),
         NEW i \in Unbalanced(nodes, w), MustRotate(nodes, w[i], k)
  PROVE  /\ i = d
         /\ \A x, y \in ks : Cmp(x, y) = AsInt(x) - AsInt(y)
         /\ \/ AsInt(name[b]) = 1 /\ ~ (Cmp(k, name[b]) < 0)
            \/ AsInt(name[b]) = -1 /\ Cmp(k, name[b]) < 0
  <1>1. PICK link : link = Onward(n, name, lt, gt, k)
    OBVIOUS
  <1>2. /\ n \in Nat /\ root \in 1 .. n /\ k \in Int /\ d \in 1 .. n /\ b \in 1 .. n
        /\ w[1] = root /\ w[d] = b /\ link[b] = 0 /\ Cmp(k, name[b]) # 0
        /\ \A j \in 1 .. d : w[j] \in 1 .. n /\ (j < d => w[j + 1] = link[w[j]])
        /\ Len(w) = d
    BY <1>1, EndFacts
  <1>3. \A h \in 1 .. n : nodes[h].name = name[h]
    BY <1>2, FieldsOfNode
  <1>4. /\ i \in 1 .. d /\ AsInt(nodes[w[i]].name) # 0
        /\ \A j \in i + 1 .. d : AsInt(nodes[w[j]].name) = 0
    BY <1>2 DEF Unbalanced
  <1>5. PICK u \in 1 .. n : u = w[i]
    BY <1>2, <1>4
  <1>6. PICK a \in Int : a = AsInt(name[u])
    BY CmpIsInt DEF Named
  <1>7. a + (IF Cmp(k, name[u]) < 0 THEN -1 ELSE 1) \in {-2, 2}
    BY <1>3, <1>5, <1>6 DEF MustRotate
  <1>8. a # 0 /\ a \in {-3, -1, 1, 3}
    <2>1. a # 0
      BY <1>3, <1>4, <1>5, <1>6
    <2>2. a + (-1) \in {-2, 2} \/ a + 1 \in {-2, 2}
      BY <1>7
    <2>3. QED
      BY <2>1, <2>2
  <1>9. name[u] \in ks
    OBVIOUS
  <1>10. \A x \in ks : /\ AsInt(x) \notin {-3, 3}
                       /\ \A y \in ks : Cmp(x, y) = AsInt(x) - AsInt(y)
    <2>1. ~ (\A x \in ks : AsInt(x) \notin {-3, -1, 1, 3})
      BY <1>6, <1>8, <1>9, Zenon
    <2>2. QED
      BY <2>1, Zenon DEF SafeLowWords
  <1>11. a \notin {-3, 3}
    BY <1>6, <1>9, <1>10, Zenon
  <1>12. \/ a = 1 /\ ~ (Cmp(k, name[u]) < 0)
         \/ a = -1 /\ Cmp(k, name[u]) < 0
    <2>1. a = 1 \/ a = -1
      BY <1>8, <1>11
    <2>2. CASE Cmp(k, name[u]) < 0
      <3>1. a + (-1) \in {-2, 2}
        BY <1>7, <2>2, Zenon
      <3>2. a = -1
        BY <2>1, <3>1
      <3>3. QED
        BY <2>2, <3>2
    <2>3. CASE ~ (Cmp(k, name[u]) < 0)
      <3>1. a + 1 \in {-2, 2}
        BY <1>7, <2>3, Zenon
      <3>2. a = 1
        BY <2>1, <3>1
      <3>3. QED
        BY <2>3, <3>2
    <2>4. QED
      BY <2>2, <2>3
  <1>13. i = d
    <2> SUFFICES ASSUME i < d
                 PROVE  FALSE
      BY <1>2, <1>4
    <2>1. i + 1 \in 1 .. d /\ i + 1 \in i + 1 .. d
      BY <1>2, <1>4
    <2>2. PICK v \in 1 .. n : v = w[i + 1]
      BY <1>2, <2>1
    <2>3. AsInt(name[v]) = 0
      BY <1>3, <1>4, <2>1, <2>2
    <2>4. link[u] = v
      BY <1>2, <1>4, <1>5, <2>2
    <2>5. v = IF Cmp(k, name[u]) < 0 THEN lt[u] ELSE gt[u]
      <3>1. link[u] = IF Cmp(k, name[u]) = 0 THEN 0
                      ELSE IF Cmp(k, name[u]) < 0 THEN lt[u] ELSE gt[u]
        BY <1>1, <1>2, OnwardLinks
      <3>2. v # 0
        OBVIOUS
      <3>3. QED
        BY <2>4, <3>1, <3>2
    <2>6. Cmp(name[v], name[u]) = 0 - a
      <3>1. name[v] \in ks
        OBVIOUS
      <3>2. QED
        BY <1>6, <1>9, <1>10, <2>3, <3>1, Zenon
    <2>7. \A g \in 1 .. n : lo[g] \in Int /\ hi[g] \in Int /\ pos[g] \in Int
      BY DEF Placed, Types, Gives
    <2>8. lo[v] <= pos[v] /\ pos[v] <= hi[v] /\ lo[u] <= pos[u] /\ pos[u] <= hi[u]
      BY DEF Placed, Between
    <2>9. CASE a = 1 /\ ~ (Cmp(k, name[u]) < 0)
      <3>1. gt[u] = v /\ v # 0
        BY <2>5, <2>9
      <3>2. lo[v] = pos[u] + 1 /\ hi[v] = hi[u]
        BY <3>1 DEF Placed, GreaterBranch
      <3>3. pos[u] < pos[v] /\ pos[v] <= hi[u]
        BY <2>7, <2>8, <3>2
      <3>4. Cmp(name[v], name[u]) > 0
        BY <3>3, Zenon DEF InOrder
      <3>5. 0 - a > 0
        BY <2>6, <3>4, Zenon
      <3>6. QED
        BY <2>9, <3>5
    <2>10. CASE a = -1 /\ Cmp(k, name[u]) < 0
      <3>1. lt[u] = v /\ v # 0
        BY <2>5, <2>10
      <3>2. lo[v] = lo[u] /\ hi[v] = pos[u] - 1
        BY <3>1 DEF Placed, LessBranch
      <3>3. lo[u] <= pos[v] /\ pos[v] < pos[u]
        BY <2>7, <2>8, <3>2
      <3>4. Cmp(name[v], name[u]) < 0
        BY <3>3, Zenon DEF InOrder
      <3>5. 0 - a < 0
        BY <2>6, <3>4, Zenon
      <3>6. QED
        BY <2>10, <3>5
    <2>11. QED
      BY <1>12, <2>9, <2>10
  <1>14. u = b
    BY <1>2, <1>5, <1>13
  <1>15. \/ AsInt(name[b]) = 1 /\ ~ (Cmp(k, name[b]) < 0)
         \/ AsInt(name[b]) = -1 /\ Cmp(k, name[b]) < 0
    BY <1>6, <1>12, <1>14, Zenon
  <1>16. QED
    BY <1>10, <1>13, <1>15, Zenon

-----------------------------------------------------------------------------
(* LinkedLess and LinkedGreater, said of every link at once.                     *)
LEMMA EveryLink ==
  \A n, name, lt, gt, k, h, c : n \in Nat /\ h \in 1 .. n =>
    /\ Cmp(k, name[h]) < 0
         => Link(Nodes(n, name, lt, gt), h, k, c) = Nodes(n, name, With(n, lt, h, c), gt)
    /\ ~ (Cmp(k, name[h]) < 0)
         => Link(Nodes(n, name, lt, gt), h, k, c) = Nodes(n, name, lt, With(n, gt, h, c))
  BY LinkedLess, LinkedGreater

(* What the rotation and the link to its parent make of the nodes: the leaf c in *)
(* the place of b.                                                               *)
LEMMA TurnedToGreater ==
  ASSUME NEW n, NEW root, NEW lt, NEW gt, NEW lo, NEW hi, NEW pos, NEW name,
         Placed(n, root, lt, gt, lo, hi, pos), Named(n, name), NEW k, NEW w, NEW d, NEW b,
         EndsAt(n, root, name, lt, gt, k, w, d, b), ~ (Cmp(k, name[b]) < 0),
         NEW m, m = n + 1, NEW name1, name1 = Extended(name, n, k),
         NEW e, e = IF Cmp(k, name[b]) < 0 THEN pos[b] ELSE pos[b] + 1,
         NEW lt1, lt1 = HangLess(n, lt, b, pos, e), NEW gt1, gt1 = HangGreater(n, gt, b, pos, e),
         NEW turned, turned = Nodes(m, name1, With(m, lt1, m, b), With(m, gt1, b, 0)),
         NEW nodes2, nodes2 = IF d = 1 THEN turned ELSE Link(turned, w[d - 1], k, m)
  PROVE  nodes2 = Nodes(m, name1, TurnDown(m, lt1, b, m), TurnOff(m, gt1, b, m))
  <1>1. PICK link : link = Onward(n, name, lt, gt, k)
    OBVIOUS
  <1>2. /\ n \in Nat /\ root \in 1 .. n /\ d \in 1 .. n /\ b \in 1 .. n
        /\ w[d] = b /\ link[b] = 0
        /\ \A j \in 1 .. d : w[j] \in 1 .. n /\ (j < d => w[j + 1] = link[w[j]])
    BY <1>1, EndFacts
  <1>3. /\ root = b <=> d = 1
        /\ d > 1 => d - 1 \in 1 .. d
        /\ \A h \in 1 .. n :
             /\ lt[h] = b <=> d > 1 /\ h = w[d - 1] /\ Cmp(k, name[h]) < 0
             /\ gt[h] = b <=> d > 1 /\ h = w[d - 1] /\ ~ (Cmp(k, name[h]) < 0)
    BY OneBefore
  <1>4. m \in Nat /\ m \in 1 .. m /\ b \in 1 .. m /\ b # m /\ m # 0 /\ b # 0
        /\ (\A h \in 1 .. m : h = m \/ h \in 1 .. n) /\ (\A h \in 1 .. n : h \in 1 .. m /\ h # m)
    BY <1>2
  <1>5. e # pos[b]
    <2>1. pos[b] \in Int
      BY <1>2 DEF Placed, Types, Gives
    <2>2. e = pos[b] + 1
      BY Zenon
    <2>3. QED
      BY <2>1, <2>2
  <1>6. /\ lt1[m] = 0 /\ gt1[m] = 0 /\ gt1[b] = m
        /\ \A h \in 1 .. n : lt1[h] = lt[h] /\ (h # b => gt1[h] = gt[h])
    BY <1>2, <1>4, <1>5 DEF HangLess, HangGreater
  <1>7. name1[m] = k /\ \A h \in 1 .. n : name1[h] = name[h]
    BY <1>4 DEF Extended
  <1>8. PICK ltA, gtA, ltB, gtB : /\ ltA = With(m, lt1, m, b) /\ gtA = With(m, gt1, b, 0)
                                  /\ ltB = TurnDown(m, lt1, b, m) /\ gtB = TurnOff(m, gt1, b, m)
    OBVIOUS
  <1>9. /\ HasLength(ltA, m) /\ HasLength(gtA, m) /\ HasLength(ltB, m) /\ HasLength(gtB, m)
        /\ \A h \in 1 .. m : /\ ltA[h] = IF h = m THEN b ELSE lt1[h]
                             /\ gtA[h] = IF h = b THEN 0 ELSE gt1[h]
                             /\ ltB[h] = IF h = m THEN b ELSE IF lt1[h] = b THEN m ELSE lt1[h]
                             /\ gtB[h] = IF h = b THEN 0 ELSE IF gt1[h] = b THEN m ELSE gt1[h]
    BY <1>8 DEF With, TurnDown, TurnOff, HasLength
  <1>10. turned = Nodes(m, name1, ltA, gtA)
    BY <1>8
  <1>11. CASE d = 1
    <2>1. \A h \in 1 .. n : lt[h] # b /\ gt[h] # b
      BY <1>3, <1>11
    <2>2. ASSUME NEW h \in 1 .. m
          PROVE  ltA[h] = ltB[h] /\ gtA[h] = gtB[h]
      <3>1. CASE h = m
        BY <1>4, <1>6, <1>9, <3>1
      <3>2. CASE h \in 1 .. n
        <4>1. lt1[h] # b /\ gt1[h] # b
          BY <1>4, <1>6, <2>1, <3>2
        <4>2. QED
          BY <1>4, <1>9, <3>2, <4>1
      <3>3. QED
        BY <1>4, <3>1, <3>2
    <2>3. ltA = ltB /\ gtA = gtB
      BY <1>9, <2>2, Zenon DEF HasLength
    <2>4. nodes2 = turned
      BY <1>11
    <2>5. QED
      BY <1>8, <1>10, <2>3, <2>4, Zenon
  <1>12. CASE d # 1
    <2>1. d > 1 /\ d - 1 \in 1 .. d /\ d - 1 < d /\ d - 1 + 1 = d
      BY <1>2, <1>3, <1>12
    <2>2. PICK u \in 1 .. n : u = w[d - 1]
      BY <1>2, <2>1
    <2>3. u # b
      <3>1. link[u] = b
        BY <1>2, <2>1, <2>2
      <3>2. QED
        BY <1>2, <1>4, <3>1
    <2>4. u \in 1 .. m /\ u # m /\ name1[u] = name[u]
      BY <1>4, <1>7
    <2>5. nodes2 = Link(Nodes(m, name1, ltA, gtA), u, k, m)
      BY <1>10, <1>12, <2>2
    <2>6. \A h \in 1 .. n : /\ lt[h] = b <=> h = u /\ Cmp(k, name[u]) < 0
                            /\ gt[h] = b <=> h = u /\ ~ (Cmp(k, name[u]) < 0)
      BY <1>3, <2>1, <2>2
    <2>7. CASE Cmp(k, name[u]) < 0
      <3>1. nodes2 = Nodes(m, name1, With(m, ltA, u, m), gtA)
        <4>1. Cmp(k, name1[u]) < 0
          BY <2>4, <2>7
        <4>2. PICK c \in Nat : c = m /\ u \in 1 .. c
          BY <1>4, <2>4
        <4>3. Link(Nodes(c, name1, ltA, gtA), u, k, c) = Nodes(c, name1, With(c, ltA, u, c), gtA)
          BY <4>1, <4>2, EveryLink
        <4>4. QED
          BY <2>5, <4>2, <4>3, Zenon
      <3>2. PICK ltC : ltC = With(m, ltA, u, m)
        OBVIOUS
      <3>3. HasLength(ltC, m) /\ \A h \in 1 .. m : ltC[h] = IF h = u THEN m ELSE ltA[h]
        BY <3>2 DEF With, HasLength
      <3>4. ASSUME NEW h \in 1 .. m
            PROVE  ltC[h] = ltB[h] /\ gtA[h] = gtB[h]
        <4>1. CASE h = m
          BY <1>4, <1>6, <1>9, <2>4, <3>3, <4>1
        <4>2. CASE h \in 1 .. n
          <5>1. (lt1[h] = b <=> h = u) /\ gt1[h] # b
            BY <1>4, <1>6, <2>6, <2>7, <4>2
          <5>2. QED
            BY <1>4, <1>9, <3>3, <4>2, <5>1
        <4>3. QED
          BY <1>4, <4>1, <4>2
      <3>5. ltC = ltB /\ gtA = gtB
        BY <1>9, <3>3, <3>4, Zenon DEF HasLength
      <3>6. QED
        BY <1>8, <3>1, <3>2, <3>5, Zenon
    <2>8. CASE ~ (Cmp(k, name[u]) < 0)
      <3>1. nodes2 = Nodes(m, name1, ltA, With(m, gtA, u, m))
        <4>1. ~ (Cmp(k, name1[u]) < 0)
          BY <2>4, <2>8
        <4>2. PICK c \in Nat : c = m /\ u \in 1 .. c
          BY <1>4, <2>4
        <4>3. Link(Nodes(c, name1, ltA, gtA), u, k, c) = Nodes(c, name1, ltA, With(c, gtA, u, c))
          BY <4>1, <4>2, EveryLink
        <4>4. QED
          BY <2>5, <4>2, <4>3, Zenon
      <3>2. PICK gtC : gtC = With(m, gtA, u, m)
        OBVIOUS
      <3>3. HasLength(gtC, m) /\ \A h \in 1 .. m : gtC[h] = IF h = u THEN m ELSE gtA[h]
        BY <3>2 DEF With, HasLength
      <3>4. ASSUME NEW h \in 1 .. m
            PROVE  ltA[h] = ltB[h] /\ gtC[h] = gtB[h]
        <4>1. CASE h = m
          BY <1>4, <1>6, <1>9, <2>4, <3>3, <4>1
        <4>2. CASE h \in 1 .. n
          <5>1. lt1[h] # b /\ (h # b => (gt1[h] = b <=> h = u))
            BY <1>4, <1>6, <2>6, <2>8, <4>2
          <5>2. QED
            BY <1>4, <1>9, <2>3, <3>3, <4>2, <5>1
        <4>3. QED
          BY <1>4, <4>1, <4>2
      <3>5. ltA = ltB /\ gtC = gtB
        BY <1>9, <3>3, <3>4, Zenon DEF HasLength
      <3>6. QED
        BY <1>8, <3>1, <3>2, <3>5, Zenon
    <2>9. QED
      BY <2>7, <2>8
  <1>13. QED
    BY <1>11, <1>12

(* The same with the leaf on the less side of b: the writes of insert that hang, *)
(* rotate and link it are TurnOff and TurnDown.                                  *)
LEMMA TurnedToLess ==
  ASSUME NEW n, NEW root, NEW lt, NEW gt, NEW lo, NEW hi, NEW pos, NEW name,
         Placed(n, root, lt, gt, lo, hi, pos), Named(n, name), NEW k, NEW w, NEW d, NEW b,
         EndsAt(n, root, name, lt, gt, k, w, d, b), Cmp(k, name[b]) < 0,
         NEW m, m = n + 1, NEW name1, name1 = Extended(name, n, k),
         NEW e, e = IF Cmp(k, name[b]) < 0 THEN pos[b] ELSE pos[b] + 1,
         NEW gt1, gt1 = HangGreater(n, gt, b, pos, e), NEW lt1, lt1 = HangLess(n, lt, b, pos, e),
         NEW turned, turned = Nodes(m, name1, With(m, lt1, b, 0), With(m, gt1, m, b)),
         NEW nodes2, nodes2 = IF d = 1 THEN turned ELSE Link(turned, w[d - 1], k, m)
  PROVE  nodes2 = Nodes(m, name1, TurnOff(m, lt1, b, m), TurnDown(m, gt1, b, m))
  <1>1. PICK link : link = Onward(n, name, lt, gt, k)
    OBVIOUS
  <1>2. /\ n \in Nat /\ root \in 1 .. n /\ d \in 1 .. n /\ b \in 1 .. n
        /\ w[d] = b /\ link[b] = 0
        /\ \A j \in 1 .. d : w[j] \in 1 .. n /\ (j < d => w[j + 1] = link[w[j]])
    BY <1>1, EndFacts
  <1>3. /\ root = b <=> d = 1
        /\ d > 1 => d - 1 \in 1 .. d
        /\ \A h \in 1 .. n :
             /\ gt[h] = b <=> d > 1 /\ h = w[d - 1] /\ ~ (Cmp(k, name[h]) < 0)
             /\ lt[h] = b <=> d > 1 /\ h = w[d - 1] /\ Cmp(k, name[h]) < 0
    BY OneBefore
  <1>4. m \in Nat /\ m \in 1 .. m /\ b \in 1 .. m /\ b # m /\ m # 0 /\ b # 0
        /\ (\A h \in 1 .. m : h = m \/ h \in 1 .. n) /\ (\A h \in 1 .. n : h \in 1 .. m /\ h # m)
    BY <1>2
  <1>5. e = pos[b]
    <2>1. pos[b] \in Int
      BY <1>2 DEF Placed, Types, Gives
    <2>2. QED
      BY Zenon
  <1>6. /\ gt1[m] = 0 /\ lt1[m] = 0 /\ lt1[b] = m
        /\ \A h \in 1 .. n : gt1[h] = gt[h] /\ (h # b => lt1[h] = lt[h])
    BY <1>2, <1>4, <1>5 DEF HangGreater, HangLess
  <1>7. name1[m] = k /\ \A h \in 1 .. n : name1[h] = name[h]
    BY <1>4 DEF Extended
  <1>8. PICK gtA, ltA, gtB, ltB : /\ gtA = With(m, gt1, m, b) /\ ltA = With(m, lt1, b, 0)
                                  /\ gtB = TurnDown(m, gt1, b, m) /\ ltB = TurnOff(m, lt1, b, m)
    OBVIOUS
  <1>9. /\ HasLength(gtA, m) /\ HasLength(ltA, m) /\ HasLength(gtB, m) /\ HasLength(ltB, m)
        /\ \A h \in 1 .. m : /\ gtA[h] = IF h = m THEN b ELSE gt1[h]
                             /\ ltA[h] = IF h = b THEN 0 ELSE lt1[h]
                             /\ gtB[h] = IF h = m THEN b ELSE IF gt1[h] = b THEN m ELSE gt1[h]
                             /\ ltB[h] = IF h = b THEN 0 ELSE IF lt1[h] = b THEN m ELSE lt1[h]
    BY <1>8 DEF With, TurnDown, TurnOff, HasLength
  <1>10. turned = Nodes(m, name1, ltA, gtA)
    BY <1>8
  <1>11. CASE d = 1
    <2>1. \A h \in 1 .. n : gt[h] # b /\ lt[h] # b
      BY <1>3, <1>11
    <2>2. ASSUME NEW h \in 1 .. m
          PROVE  gtA[h] = gtB[h] /\ ltA[h] = ltB[h]
      <3>1. CASE h = m
        BY <1>4, <1>6, <1>9, <3>1
      <3>2. CASE h \in 1 .. n
        <4>1. gt1[h] # b /\ lt1[h] # b
          BY <1>4, <1>6, <2>1, <3>2
        <4>2. QED
          BY <1>4, <1>9, <3>2, <4>1
      <3>3. QED
        BY <1>4, <3>1, <3>2
    <2>3. gtA = gtB /\ ltA = ltB
      BY <1>9, <2>2, Zenon DEF HasLength
    <2>4. nodes2 = turned
      BY <1>11
    <2>5. QED
      BY <1>8, <1>10, <2>3, <2>4, Zenon
  <1>12. CASE d # 1
    <2>1. d > 1 /\ d - 1 \in 1 .. d /\ d - 1 < d /\ d - 1 + 1 = d
      BY <1>2, <1>3, <1>12
    <2>2. PICK u \in 1 .. n : u = w[d - 1]
      BY <1>2, <2>1
    <2>3. u # b
      <3>1. link[u] = b
        BY <1>2, <2>1, <2>2
      <3>2. QED
        BY <1>2, <1>4, <3>1
    <2>4. u \in 1 .. m /\ u # m /\ name1[u] = name[u]
      BY <1>4, <1>7
    <2>5. nodes2 = Link(Nodes(m, name1, ltA, gtA), u, k, m)
      BY <1>10, <1>12, <2>2
    <2>6. \A h \in 1 .. n : /\ gt[h] = b <=> h = u /\ ~ (Cmp(k, name[u]) < 0)
                            /\ lt[h] = b <=> h = u /\ Cmp(k, name[u]) < 0
      BY <1>3, <2>1, <2>2
    <2>7. CASE ~ (Cmp(k, name[u]) < 0)
      <3>1. nodes2 = Nodes(m, name1, ltA, With(m, gtA, u, m))
        <4>1. ~ (Cmp(k, name1[u]) < 0)
          BY <2>4, <2>7
        <4>2. PICK c \in Nat : c = m /\ u \in 1 .. c
          BY <1>4, <2>4
        <4>3. Link(Nodes(c, name1, ltA, gtA), u, k, c) = Nodes(c, name1, ltA, With(c, gtA, u, c))
          BY <4>1, <4>2, EveryLink
        <4>4. QED
          BY <2>5, <4>2, <4>3, Zenon
      <3>2. PICK gtC : gtC = With(m, gtA, u, m)
        OBVIOUS
      <3>3. HasLength(gtC, m) /\ \A h \in 1 .. m : gtC[h] = IF h = u THEN m ELSE gtA[h]
        BY <3>2 DEF With, HasLength
      <3>4. ASSUME NEW h \in 1 .. m
            PROVE  gtC[h] = gtB[h] /\ ltA[h] = ltB[h]
        <4>1. CASE h = m
          BY <1>4, <1>6, <1>9, <2>4, <3>3, <4>1
        <4>2. CASE h \in 1 .. n
          <5>1. (gt1[h] = b <=> h = u) /\ lt1[h] # b
            BY <1>4, <1>6, <2>6, <2>7, <4>2
          <5>2. QED
            BY <1>4, <1>9, <3>3, <4>2, <5>1
        <4>3. QED
          BY <1>4, <4>1, <4>2
      <3>5. gtC = gtB /\ ltA = ltB
        BY <1>9, <3>3, <3>4, Zenon DEF HasLength
      <3>6. QED
        BY <1>8, <3>1, <3>2, <3>5, Zenon
    <2>8. CASE Cmp(k, name[u]) < 0
      <3>1. nodes2 = Nodes(m, name1, With(m, ltA, u, m), gtA)
        <4>1. Cmp(k, name1[u]) < 0
          BY <2>4, <2>8
        <4>2. PICK c \in Nat : c = m /\ u \in 1 .. c
          BY <1>4, <2>4
        <4>3. Link(Nodes(c, name1, ltA, gtA), u, k, c) = Nodes(c, name1, With(c, ltA, u, c), gtA)
          BY <4>1, <4>2, EveryLink
        <4>4. QED
          BY <2>5, <4>2, <4>3, Zenon
      <3>2. PICK ltC : ltC = With(m, ltA, u, m)
        OBVIOUS
      <3>3. HasLength(ltC, m) /\ \A h \in 1 .. m : ltC[h] = IF h = u THEN m ELSE ltA[h]
        BY <3>2 DEF With, HasLength
      <3>4. ASSUME NEW h \in 1 .. m
            PROVE  gtA[h] = gtB[h] /\ ltC[h] = ltB[h]
        <4>1. CASE h = m
          BY <1>4, <1>6, <1>9, <2>4, <3>3, <4>1
        <4>2. CASE h \in 1 .. n
          <5>1. gt1[h] # b /\ (h # b => (lt1[h] = b <=> h = u))
            BY <1>4, <1>6, <2>6, <2>8, <4>2
          <5>2. QED
            BY <1>4, <1>9, <2>3, <3>3, <4>2, <5>1
        <4>3. QED
          BY <1>4, <4>1, <4>2
      <3>5. gtA = gtB /\ ltC = ltB
        BY <1>9, <3>3, <3>4, Zenon DEF HasLength
      <3>6. QED
        BY <1>8, <3>1, <3>2, <3>5, Zenon
    <2>9. QED
      BY <2>7, <2>8
  <1>13. QED
    BY <1>11, <1>12

(* The nodes when the leaf is added and nothing is turned.                       *)
Hung(n, name, lt, gt, k, b) ==
  Append(Link(Nodes(n, name, lt, gt), b, k, n + 1), [name |-> k, lt |-> 0, gt |-> 0])

-----------------------------------------------------------------------------
(* LeafLinked, BalancedGreater and BalancedLess, said of all leaves and turns.   *)
LEMMA EveryLeaf ==
  \A n \in Nat : \A name, lt, gt, k, pos, e : \A b \in 1 .. n :
    pos[b] \in Nat /\ e = (IF Cmp(k, name[b]) < 0 THEN pos[b] ELSE pos[b] + 1)
    => Hung(n, name, lt, gt, k, b)
       = Nodes(n + 1, Extended(name, n, k), HangLess(n, lt, b, pos, e), HangGreater(n, gt, b, pos, e))
  BY LeafLinked DEF Hung

(* A rotation to the less side.                                                  *)
LEMMA EveryGreaterTurn ==
  \A n, name, lt, gt, b, c, nodes :
    n \in Nat /\ b \in 1 .. n /\ c \in 1 .. n /\ nodes = Nodes(n, name, lt, gt)
    /\ gt[b] = c /\ lt[c] = 0 /\ AsInt(name[b]) > 0 /\ ~ (AsInt(name[c]) < 0)
    => /\ Balance(nodes, b).nodes = Nodes(n, name, With(n, lt, c, b), With(n, gt, b, 0))
       /\ Balance(nodes, b).top = c
  BY BalancedGreater

(* A rotation to the greater side.                                               *)
LEMMA EveryLessTurn ==
  \A n, name, lt, gt, b, c, nodes :
    n \in Nat /\ b \in 1 .. n /\ c \in 1 .. n /\ nodes = Nodes(n, name, lt, gt)
    /\ lt[b] = c /\ gt[c] = 0 /\ ~ (AsInt(name[b]) > 0) /\ ~ (AsInt(name[c]) > 0)
    => /\ Balance(nodes, b).nodes = Nodes(n, name, With(n, lt, b, 0), With(n, gt, c, b))
       /\ Balance(nodes, b).top = c
  BY BalancedLess

-----------------------------------------------------------------------------
(* A leaf on the greater side of b is the only node there, and the first that    *)
(* no other subtree begins with.                                                 *)
LEMMA LeafOnGreater ==
  ASSUME NEW n, NEW root, NEW lt, NEW gt, NEW lo, NEW hi, NEW pos,
         n \in Nat, Placed(n, root, lt, gt, lo, hi, pos), NEW b \in 1 .. n, NEW e, e = pos[b] + 1,
         NEW lt1, lt1 = HangLess(n, lt, b, pos, e), NEW gt1, gt1 = HangGreater(n, gt, b, pos, e),
         NEW lo1, lo1 = HangLo(n, lo, b, pos, e), NEW pos1, pos1 = HangPos(n, pos, e)
  PROVE  /\ b \in 1 .. n + 1 /\ n + 1 \in 1 .. n + 1
         /\ gt1[b] = n + 1 /\ lt1[n + 1] = 0 /\ gt1[n + 1] = 0
         /\ \A h \in 1 .. n + 1 : /\ lt1[h] # n + 1
                                  /\ gt1[h] = n + 1 => h = b
                                  /\ h # n + 1 => lo1[h] # pos1[n + 1]
  <1>1. PICK m \in Nat : m = n + 1
    OBVIOUS
  <1>2. /\ m \in 1 .. m /\ b \in 1 .. m /\ b # m /\ m # 0
        /\ (\A h \in 1 .. m : h = m \/ h \in 1 .. n) /\ (\A h \in 1 .. n : h \in 1 .. m /\ h # m)
        /\ \A h \in 0 .. n : h # m
    BY <1>1
  <1>3. \A h \in 1 .. n : lt[h] \in 0 .. n /\ gt[h] \in 0 .. n /\ lo[h] \in Int /\ pos[h] \in Int
    BY DEF Placed, Types, Gives
  <1>4. e # pos[b] /\ e \in Int
    <2>1. PICK p \in Int : p = pos[b]
      BY <1>3
    <2>2. e = p + 1
      BY <2>1
    <2>3. QED
      BY <2>1, <2>2
  <1>5. /\ lt1 = [h \in 1 .. m |-> IF h = m THEN 0 ELSE IF h = b /\ e = pos[b] THEN m ELSE lt[h]]
        /\ gt1 = [h \in 1 .. m |-> IF h = m THEN 0 ELSE IF h = b /\ e # pos[b] THEN m ELSE gt[h]]
        /\ lo1 = [h \in 1 .. m |-> IF h = m THEN e ELSE IF lo[h] > pos[b] THEN lo[h] + 1 ELSE lo[h]]
        /\ pos1 = [h \in 1 .. m |-> IF h = m THEN e ELSE IF pos[h] >= e THEN pos[h] + 1 ELSE pos[h]]
    BY <1>1 DEF HangLess, HangGreater, HangLo, HangPos
  <1>6. /\ gt1[b] = m /\ lt1[m] = 0 /\ gt1[m] = 0 /\ pos1[m] = e
        /\ \A h \in 1 .. n : /\ lt1[h] = lt[h] /\ (h # b => gt1[h] = gt[h])
                             /\ lo1[h] = IF lo[h] > pos[b] THEN lo[h] + 1 ELSE lo[h]
    BY <1>2, <1>4, <1>5, Zenon
  <1>7. ASSUME NEW h \in 1 .. m
        PROVE  lt1[h] # m /\ (gt1[h] = m => h = b) /\ (h # m => lo1[h] # pos1[m])
    <2>1. CASE h = m
      BY <1>2, <1>6, <2>1
    <2>2. CASE h \in 1 .. n
      <3>1. lt1[h] # m /\ (gt1[h] = m => h = b)
        BY <1>2, <1>3, <1>6, <2>2, Zenon
      <3>2. PICK l \in Int : l = lo[h]
        BY <1>3, <2>2
      <3>3. PICK p \in Int : p = pos[b]
        BY <1>3
      <3>4. lo1[h] = IF l > p THEN l + 1 ELSE l
        BY <1>6, <2>2, <3>2, <3>3, Zenon
      <3>5. e = p + 1
        BY <3>3
      <3>6. lo1[h] # e
        BY <3>4, <3>5
      <3>7. QED
        BY <1>6, <3>1, <3>6, Zenon
    <2>3. QED
      BY <1>2, <2>1, <2>2
  <1>8. QED
    BY <1>1, <1>2, <1>6, <1>7

(* A leaf hung from b and an order of names that is that of the low words.       *)
Grows(n, root, lt, gt, lo, hi, pos, name, k, w, d, b) ==
  /\ Placed(n, root, lt, gt, lo, hi, pos)
  /\ Named(n, name)
  /\ InOrder(n, name, lo, hi, pos)
  /\ EndsAt(n, root, name, lt, gt, k, w, d, b)

Ordered(ks, n, name, k) == /\ ks \subseteq Int /\ k \in ks /\ \A h \in 1 .. n : name[h] \in ks
                           /\ \A x, y \in ks : Cmp(x, y) = AsInt(x) - AsInt(y)

LeansGreater(name, k, b) == AsInt(name[b]) = 1 /\ ~ (Cmp(k, name[b]) < 0)
LeansLess(name, k, b)    == AsInt(name[b]) = -1 /\ Cmp(k, name[b]) < 0

(* A leaf hung on the greater side of b, which leans there: after the rotation   *)
(* and the link from above, it is a tree in order again.                         *)
LEMMA RotatedGreater ==
  ASSUME NEW n, NEW root, NEW lt, NEW gt, NEW lo, NEW hi, NEW pos, NEW name, NEW k, NEW w, NEW d, NEW b,
         Grows(n, root, lt, gt, lo, hi, pos, name, k, w, d, b),
         LeansGreater(name, k, b), NEW ks, Ordered(ks, n, name, k),
         NEW added, added = Hung(n, name, lt, gt, k, b)
  PROVE  /\ Balance(added, b).top = n + 1
         /\ \E lt2, gt2, lo2, hi2, pos2 :
              /\ Placed(n + 1, IF d = 1 THEN n + 1 ELSE root, lt2, gt2, lo2, hi2, pos2)
              /\ Named(n + 1, Extended(name, n, k))
              /\ InOrder(n + 1, Extended(name, n, k), lo2, hi2, pos2)
              /\ (IF d = 1 THEN Balance(added, b).nodes
                  ELSE Link(Balance(added, b).nodes, w[d - 1], k, n + 1))
                 = Nodes(n + 1, Extended(name, n, k), lt2, gt2)
  <1>1. /\ Placed(n, root, lt, gt, lo, hi, pos) /\ Named(n, name) /\ InOrder(n, name, lo, hi, pos)
        /\ EndsAt(n, root, name, lt, gt, k, w, d, b)
    BY DEF Grows
  <1>2. n \in Nat /\ k \in Int /\ b \in 1 .. n /\ Cmp(k, name[b]) # 0 /\ (root = b <=> d = 1)
    <2>1. PICK link : link = Onward(n, name, lt, gt, k)
      OBVIOUS
    <2>2. n \in Nat /\ k \in Int /\ b \in 1 .. n /\ Cmp(k, name[b]) # 0
      BY <1>1, <2>1, EndFacts
    <2>3. root = b <=> d = 1
      BY <1>1, OneBefore
    <2>4. QED
      BY <2>2, <2>3
  <1>3. pos[b] \in Nat
    BY <1>1, <1>2 DEF Placed, Types, Gives
  <1>4. PICK e : e = IF Cmp(k, name[b]) < 0 THEN pos[b] ELSE pos[b] + 1
    OBVIOUS
  <1>5. e = pos[b] + 1
    BY <1>4, Zenon DEF LeansGreater
  <1>6. PICK lt1, gt1, lo1, hi1, pos1, name1 :
          /\ lt1 = HangLess(n, lt, b, pos, e) /\ gt1 = HangGreater(n, gt, b, pos, e)
          /\ lo1 = HangLo(n, lo, b, pos, e) /\ hi1 = HangHi(n, hi, b, pos, e)
          /\ pos1 = HangPos(n, pos, e) /\ name1 = Extended(name, n, k)
    OBVIOUS
  <1>7. Placed(n + 1, root, lt1, gt1, lo1, hi1, pos1) /\ InOrder(n + 1, name1, lo1, hi1, pos1)
        /\ Named(n + 1, name1)
    <2>1. /\ Placed(n + 1, root, HangLess(n, lt, b, pos, e), HangGreater(n, gt, b, pos, e),
                    HangLo(n, lo, b, pos, e), HangHi(n, hi, b, pos, e), HangPos(n, pos, e))
          /\ InOrder(n + 1, Extended(name, n, k),
                     HangLo(n, lo, b, pos, e), HangHi(n, hi, b, pos, e), HangPos(n, pos, e))
          /\ Named(n + 1, Extended(name, n, k))
      BY <1>1, <1>4, LeafAdded
    <2>2. QED
      BY <1>6, <2>1, Zenon
  <1>8. /\ b \in 1 .. n + 1 /\ n + 1 \in 1 .. n + 1
        /\ gt1[b] = n + 1 /\ lt1[n + 1] = 0 /\ gt1[n + 1] = 0
        /\ \A h \in 1 .. n + 1 : /\ lt1[h] # n + 1
                                 /\ gt1[h] = n + 1 => h = b
                                 /\ h # n + 1 => lo1[h] # pos1[n + 1]
    BY <1>1, <1>2, <1>5, <1>6, LeafOnGreater
  <1>9. added = Nodes(n + 1, name1, lt1, gt1)
    <2>1. n \in Nat /\ b \in 1 .. n
      BY <1>2
    <2>2. Hung(n, name, lt, gt, k, b)
          = Nodes(n + 1, Extended(name, n, k), HangLess(n, lt, b, pos, e), HangGreater(n, gt, b, pos, e))
      BY <2>1, <1>3, <1>4, EveryLeaf
    <2>3. QED
      BY <1>6, <2>2, Zenon
  <1>10. /\ name1[b] = name[b] /\ name1[n + 1] = k
         /\ \A h \in 1 .. n + 1 : name1[h] \in ks
    <2>1. /\ b # n + 1 /\ b \in 1 .. n + 1 /\ n + 1 \in 1 .. n + 1
          /\ \A h \in 1 .. n + 1 : h = n + 1 \/ h \in 1 .. n
      BY <1>2
    <2>2. \A h \in 1 .. n + 1 : name1[h] = IF h = n + 1 THEN k ELSE name[h]
      BY <1>6, Zenon DEF Extended
    <2>3. QED
      BY <2>1, <2>2, Zenon DEF Ordered
  <1>11. ByLowWord(n + 1, name1)
    BY <1>10, Zenon DEF ByLowWord, Ordered
  <1>12. ~ (AsInt(k) < 0)
    <2>1. name[b] \in Int
      BY <1>2, Zenon DEF Ordered
    <2>2. Cmp(k, name[b]) = AsInt(k) - 1
      BY <1>2, Zenon DEF Ordered, LeansGreater
    <2>3. PICK a \in Int : a = AsInt(k)
      BY <1>2, CmpIsInt
    <2>4. PICK c \in Int : c = Cmp(k, name[b])
      BY <1>2, <2>1, CmpIsInt
    <2>5. c = a - 1 /\ c # 0 /\ ~ (c < 0)
      BY <1>2, <2>2, <2>3, <2>4, Zenon DEF LeansGreater
    <2>6. ~ (a < 0)
      BY <2>5
    <2>7. QED
      BY <2>3, <2>6, Zenon
  <1>13. /\ Balance(added, b).nodes = Nodes(n + 1, name1, With(n + 1, lt1, n + 1, b), With(n + 1, gt1, b, 0))
         /\ Balance(added, b).top = n + 1
    <2>1. PICK m \in Nat : m = n + 1
      BY <1>2
    <2>2. PICK c \in 1 .. m : c = n + 1
      BY <1>8, <2>1
    <2>3. /\ b \in 1 .. m /\ added = Nodes(m, name1, lt1, gt1) /\ gt1[b] = c /\ lt1[c] = 0
          /\ name1[c] = k
      BY <1>8, <1>9, <1>10, <2>1, <2>2, Zenon
    <2>4. AsInt(name1[b]) > 0
      <3>1. AsInt(name1[b]) = 1
        BY <1>10, Zenon DEF LeansGreater
      <3>2. QED
        BY <3>1
    <2>5. ~ (AsInt(name1[c]) < 0)
      BY <1>12, <2>3, Zenon
    <2>6. /\ Balance(added, b).nodes = Nodes(m, name1, With(m, lt1, c, b), With(m, gt1, b, 0))
          /\ Balance(added, b).top = c
      BY <2>3, <2>4, <2>5, EveryGreaterTurn
    <2>7. QED
      BY <2>1, <2>2, <2>6, Zenon
  <1>14. PICK lt2, gt2, lo2, hi2, root2 :
           /\ lt2 = TurnDown(n + 1, lt1, b, n + 1) /\ gt2 = TurnOff(n + 1, gt1, b, n + 1)
           /\ lo2 = With(n + 1, lo1, n + 1, lo1[b]) /\ hi2 = With(n + 1, hi1, b, pos1[b])
           /\ root2 = IF root = b THEN n + 1 ELSE root
    OBVIOUS
  <1>15. (IF d = 1 THEN Balance(added, b).nodes
          ELSE Link(Balance(added, b).nodes, w[d - 1], k, n + 1)) = Nodes(n + 1, name1, lt2, gt2)
    <2>1. PICK m, turned, nodes2 :
            /\ m = n + 1
            /\ turned = Nodes(m, name1, With(m, lt1, m, b), With(m, gt1, b, 0))
            /\ nodes2 = IF d = 1 THEN turned ELSE Link(turned, w[d - 1], k, m)
      OBVIOUS
    <2>2. nodes2 = Nodes(m, name1, TurnDown(m, lt1, b, m), TurnOff(m, gt1, b, m))
      BY <1>1, <1>4, <1>6, <2>1, TurnedToGreater DEF LeansGreater
    <2>3. QED
      BY <1>13, <1>14, <2>1, <2>2, Zenon
  <1>16. /\ Placed(n + 1, root2, lt2, gt2, lo2, hi2, pos1)
         /\ InOrder(n + 1, name1, lo2, hi2, pos1)
    <2>1. PICK m \in Nat : m = n + 1
      BY <1>2
    <2>2. PICK c \in 1 .. m : c = n + 1
      BY <1>8, <2>1
    <2>3. /\ Placed(m, root, lt1, gt1, lo1, hi1, pos1) /\ b \in 1 .. m
          /\ gt1[b] = c /\ lt1[c] = 0 /\ gt1[c] = 0
          /\ \A h \in 1 .. m : lt1[h] # c /\ (gt1[h] = c => h = b) /\ (h # c => lo1[h] # pos1[c])
          /\ Named(m, name1) /\ InOrder(m, name1, lo1, hi1, pos1) /\ ByLowWord(m, name1)
      BY <1>7, <1>8, <1>11, <2>1, <2>2, Zenon
    <2>4. /\ lt2 = TurnDown(m, lt1, b, c) /\ gt2 = TurnOff(m, gt1, b, c)
          /\ lo2 = With(m, lo1, c, lo1[b]) /\ hi2 = With(m, hi1, b, pos1[b])
          /\ root2 = IF root = b THEN c ELSE root
      BY <1>14, <2>1, <2>2, Zenon
    <2>5. /\ Placed(m, root2, lt2, gt2, lo2, hi2, pos1)
          /\ \A nm : Named(m, nm) /\ InOrder(m, nm, lo1, hi1, pos1) /\ ByLowWord(m, nm)
                       => InOrder(m, nm, lo2, hi2, pos1)
      BY <2>3, <2>4, TurnedGreater
    <2>6. QED
      BY <2>1, <2>3, <2>5, Zenon
  <1>17. root2 = IF d = 1 THEN n + 1 ELSE root
    BY <1>2, <1>14, Zenon
  <1>18. QED
    BY <1>6, <1>7, <1>13, <1>15, <1>16, <1>17, Zenon

-----------------------------------------------------------------------------
(* The same on the less side, of a leaf that no other subtree ends with.         *)
LEMMA LeafOnLess ==
  ASSUME NEW n, NEW root, NEW lt, NEW gt, NEW lo, NEW hi, NEW pos,
         n \in Nat, Placed(n, root, lt, gt, lo, hi, pos), NEW b \in 1 .. n, NEW e, e = pos[b],
         NEW lt1, lt1 = HangLess(n, lt, b, pos, e), NEW gt1, gt1 = HangGreater(n, gt, b, pos, e),
         NEW hi1, hi1 = HangHi(n, hi, b, pos, e), NEW pos1, pos1 = HangPos(n, pos, e)
  PROVE  /\ b \in 1 .. n + 1 /\ n + 1 \in 1 .. n + 1
         /\ lt1[b] = n + 1 /\ lt1[n + 1] = 0 /\ gt1[n + 1] = 0
         /\ \A h \in 1 .. n + 1 : /\ gt1[h] # n + 1
                                  /\ lt1[h] = n + 1 => h = b
                                  /\ h # n + 1 => hi1[h] # pos1[n + 1]
  <1>1. PICK m \in Nat : m = n + 1
    OBVIOUS
  <1>2. /\ m \in 1 .. m /\ b \in 1 .. m /\ b # m /\ m # 0
        /\ (\A h \in 1 .. m : h = m \/ h \in 1 .. n) /\ (\A h \in 1 .. n : h \in 1 .. m /\ h # m)
        /\ \A h \in 0 .. n : h # m
    BY <1>1
  <1>3. \A h \in 1 .. n : lt[h] \in 0 .. n /\ gt[h] \in 0 .. n /\ hi[h] \in Int /\ pos[h] \in Int
    BY DEF Placed, Types, Gives
  <1>4. e = pos[b] /\ e \in Int
    BY <1>3
  <1>5. /\ lt1 = [h \in 1 .. m |-> IF h = m THEN 0 ELSE IF h = b /\ e = pos[b] THEN m ELSE lt[h]]
        /\ gt1 = [h \in 1 .. m |-> IF h = m THEN 0 ELSE IF h = b /\ e # pos[b] THEN m ELSE gt[h]]
        /\ hi1 = [h \in 1 .. m |-> IF h = m THEN e ELSE IF hi[h] >= pos[b] THEN hi[h] + 1 ELSE hi[h]]
        /\ pos1 = [h \in 1 .. m |-> IF h = m THEN e ELSE IF pos[h] >= e THEN pos[h] + 1 ELSE pos[h]]
    BY <1>1 DEF HangLess, HangGreater, HangHi, HangPos
  <1>6. /\ lt1[b] = m /\ lt1[m] = 0 /\ gt1[m] = 0 /\ pos1[m] = e
        /\ \A h \in 1 .. n : /\ gt1[h] = gt[h] /\ (h # b => lt1[h] = lt[h])
                             /\ hi1[h] = IF hi[h] >= pos[b] THEN hi[h] + 1 ELSE hi[h]
    BY <1>2, <1>4, <1>5, Zenon
  <1>7. ASSUME NEW h \in 1 .. m
        PROVE  gt1[h] # m /\ (lt1[h] = m => h = b) /\ (h # m => hi1[h] # pos1[m])
    <2>1. CASE h = m
      BY <1>2, <1>6, <2>1
    <2>2. CASE h \in 1 .. n
      <3>1. gt1[h] # m /\ (lt1[h] = m => h = b)
        BY <1>2, <1>3, <1>6, <2>2, Zenon
      <3>2. PICK l \in Int : l = hi[h]
        BY <1>3, <2>2
      <3>3. PICK p \in Int : p = pos[b]
        BY <1>3
      <3>4. hi1[h] = IF l >= p THEN l + 1 ELSE l
        BY <1>6, <2>2, <3>2, <3>3, Zenon
      <3>5. e = p
        BY <3>3
      <3>6. hi1[h] # e
        BY <3>4, <3>5
      <3>7. QED
        BY <1>6, <3>1, <3>6, Zenon
    <2>3. QED
      BY <1>2, <2>1, <2>2
  <1>8. QED
    BY <1>1, <1>2, <1>6, <1>7

(* The same with the leaf on the less side of b.                                 *)
LEMMA RotatedLess ==
  ASSUME NEW n, NEW root, NEW lt, NEW gt, NEW lo, NEW hi, NEW pos, NEW name, NEW k, NEW w, NEW d, NEW b,
         Grows(n, root, lt, gt, lo, hi, pos, name, k, w, d, b),
         LeansLess(name, k, b), NEW ks, Ordered(ks, n, name, k),
         NEW added, added = Hung(n, name, lt, gt, k, b)
  PROVE  /\ Balance(added, b).top = n + 1
         /\ \E lt2, gt2, lo2, hi2, pos2 :
              /\ Placed(n + 1, IF d = 1 THEN n + 1 ELSE root, lt2, gt2, lo2, hi2, pos2)
              /\ Named(n + 1, Extended(name, n, k))
              /\ InOrder(n + 1, Extended(name, n, k), lo2, hi2, pos2)
              /\ (IF d = 1 THEN Balance(added, b).nodes
                  ELSE Link(Balance(added, b).nodes, w[d - 1], k, n + 1))
                 = Nodes(n + 1, Extended(name, n, k), lt2, gt2)
  <1>1. /\ Placed(n, root, lt, gt, lo, hi, pos) /\ Named(n, name) /\ InOrder(n, name, lo, hi, pos)
        /\ EndsAt(n, root, name, lt, gt, k, w, d, b)
    BY DEF Grows
  <1>2. n \in Nat /\ k \in Int /\ b \in 1 .. n /\ Cmp(k, name[b]) # 0 /\ (root = b <=> d = 1)
    <2>1. PICK link : link = Onward(n, name, lt, gt, k)
      OBVIOUS
    <2>2. n \in Nat /\ k \in Int /\ b \in 1 .. n /\ Cmp(k, name[b]) # 0
      BY <1>1, <2>1, EndFacts
    <2>3. root = b <=> d = 1
      BY <1>1, OneBefore
    <2>4. QED
      BY <2>2, <2>3
  <1>3. pos[b] \in Nat
    BY <1>1, <1>2 DEF Placed, Types, Gives
  <1>4. PICK e : e = IF Cmp(k, name[b]) < 0 THEN pos[b] ELSE pos[b] + 1
    OBVIOUS
  <1>5. e = pos[b]
    BY <1>4, Zenon DEF LeansLess
  <1>6. PICK lt1, gt1, lo1, hi1, pos1, name1 :
          /\ lt1 = HangLess(n, lt, b, pos, e) /\ gt1 = HangGreater(n, gt, b, pos, e)
          /\ lo1 = HangLo(n, lo, b, pos, e) /\ hi1 = HangHi(n, hi, b, pos, e)
          /\ pos1 = HangPos(n, pos, e) /\ name1 = Extended(name, n, k)
    OBVIOUS
  <1>7. Placed(n + 1, root, lt1, gt1, lo1, hi1, pos1) /\ InOrder(n + 1, name1, lo1, hi1, pos1)
        /\ Named(n + 1, name1)
    <2>1. /\ Placed(n + 1, root, HangLess(n, lt, b, pos, e), HangGreater(n, gt, b, pos, e),
                    HangLo(n, lo, b, pos, e), HangHi(n, hi, b, pos, e), HangPos(n, pos, e))
          /\ InOrder(n + 1, Extended(name, n, k),
                     HangLo(n, lo, b, pos, e), HangHi(n, hi, b, pos, e), HangPos(n, pos, e))
          /\ Named(n + 1, Extended(name, n, k))
      BY <1>1, <1>4, LeafAdded
    <2>2. QED
      BY <1>6, <2>1, Zenon
  <1>8. /\ b \in 1 .. n + 1 /\ n + 1 \in 1 .. n + 1
        /\ lt1[b] = n + 1 /\ lt1[n + 1] = 0 /\ gt1[n + 1] = 0
        /\ \A h \in 1 .. n + 1 : /\ gt1[h] # n + 1
                                 /\ lt1[h] = n + 1 => h = b
                                 /\ h # n + 1 => hi1[h] # pos1[n + 1]
    BY <1>1, <1>2, <1>5, <1>6, LeafOnLess
  <1>9. added = Nodes(n + 1, name1, lt1, gt1)
    <2>1. n \in Nat /\ b \in 1 .. n
      BY <1>2
    <2>2. Hung(n, name, lt, gt, k, b)
          = Nodes(n + 1, Extended(name, n, k), HangLess(n, lt, b, pos, e), HangGreater(n, gt, b, pos, e))
      BY <2>1, <1>3, <1>4, EveryLeaf
    <2>3. QED
      BY <1>6, <2>2, Zenon
  <1>10. /\ name1[b] = name[b] /\ name1[n + 1] = k
         /\ \A h \in 1 .. n + 1 : name1[h] \in ks
    <2>1. /\ b # n + 1 /\ b \in 1 .. n + 1 /\ n + 1 \in 1 .. n + 1
          /\ \A h \in 1 .. n + 1 : h = n + 1 \/ h \in 1 .. n
      BY <1>2
    <2>2. \A h \in 1 .. n + 1 : name1[h] = IF h = n + 1 THEN k ELSE name[h]
      BY <1>6, Zenon DEF Extended
    <2>3. QED
      BY <2>1, <2>2, Zenon DEF Ordered
  <1>11. ByLowWord(n + 1, name1)
    BY <1>10, Zenon DEF ByLowWord, Ordered
  <1>12. ~ (AsInt(k) > 0)
    <2>1. name[b] \in Int
      BY <1>2, Zenon DEF Ordered
    <2>2. Cmp(k, name[b]) = AsInt(k) - (-1)
      BY <1>2, Zenon DEF Ordered, LeansLess
    <2>3. PICK a \in Int : a = AsInt(k)
      BY <1>2, CmpIsInt
    <2>4. PICK c \in Int : c = Cmp(k, name[b])
      BY <1>2, <2>1, CmpIsInt
    <2>5. c = a - (-1) /\ c < 0
      BY <1>2, <2>2, <2>3, <2>4, Zenon DEF LeansLess
    <2>6. ~ (a > 0)
      BY <2>5
    <2>7. QED
      BY <2>3, <2>6, Zenon
  <1>13. /\ Balance(added, b).nodes = Nodes(n + 1, name1, With(n + 1, lt1, b, 0), With(n + 1, gt1, n + 1, b))
         /\ Balance(added, b).top = n + 1
    <2>1. PICK m \in Nat : m = n + 1
      BY <1>2
    <2>2. PICK c \in 1 .. m : c = n + 1
      BY <1>8, <2>1
    <2>3. /\ b \in 1 .. m /\ added = Nodes(m, name1, lt1, gt1) /\ lt1[b] = c /\ gt1[c] = 0
          /\ name1[c] = k
      BY <1>8, <1>9, <1>10, <2>1, <2>2, Zenon
    <2>4. ~ (AsInt(name1[b]) > 0)
      <3>1. AsInt(name1[b]) = -1
        BY <1>10, Zenon DEF LeansLess
      <3>2. QED
        BY <3>1
    <2>5. ~ (AsInt(name1[c]) > 0)
      BY <1>12, <2>3, Zenon
    <2>6. /\ Balance(added, b).nodes = Nodes(m, name1, With(m, lt1, b, 0), With(m, gt1, c, b))
          /\ Balance(added, b).top = c
      BY <2>3, <2>4, <2>5, EveryLessTurn
    <2>7. QED
      BY <2>1, <2>2, <2>6, Zenon
  <1>14. PICK lt2, gt2, lo2, hi2, root2 :
           /\ lt2 = TurnOff(n + 1, lt1, b, n + 1) /\ gt2 = TurnDown(n + 1, gt1, b, n + 1)
           /\ lo2 = With(n + 1, lo1, b, pos1[b]) /\ hi2 = With(n + 1, hi1, n + 1, hi1[b])
           /\ root2 = IF root = b THEN n + 1 ELSE root
    OBVIOUS
  <1>15. (IF d = 1 THEN Balance(added, b).nodes
          ELSE Link(Balance(added, b).nodes, w[d - 1], k, n + 1)) = Nodes(n + 1, name1, lt2, gt2)
    <2>1. PICK m, turned, nodes2 :
            /\ m = n + 1
            /\ turned = Nodes(m, name1, With(m, lt1, b, 0), With(m, gt1, m, b))
            /\ nodes2 = IF d = 1 THEN turned ELSE Link(turned, w[d - 1], k, m)
      OBVIOUS
    <2>2. nodes2 = Nodes(m, name1, TurnOff(m, lt1, b, m), TurnDown(m, gt1, b, m))
      BY <1>1, <1>4, <1>6, <2>1, TurnedToLess DEF LeansLess
    <2>3. QED
      BY <1>13, <1>14, <2>1, <2>2, Zenon
  <1>16. /\ Placed(n + 1, root2, lt2, gt2, lo2, hi2, pos1)
         /\ InOrder(n + 1, name1, lo2, hi2, pos1)
    <2>1. PICK m \in Nat : m = n + 1
      BY <1>2
    <2>2. PICK c \in 1 .. m : c = n + 1
      BY <1>8, <2>1
    <2>3. /\ Placed(m, root, lt1, gt1, lo1, hi1, pos1) /\ b \in 1 .. m
          /\ lt1[b] = c /\ gt1[c] = 0 /\ lt1[c] = 0
          /\ \A h \in 1 .. m : gt1[h] # c /\ (lt1[h] = c => h = b) /\ (h # c => hi1[h] # pos1[c])
          /\ Named(m, name1) /\ InOrder(m, name1, lo1, hi1, pos1) /\ ByLowWord(m, name1)
      BY <1>7, <1>8, <1>11, <2>1, <2>2, Zenon
    <2>4. /\ lt2 = TurnOff(m, lt1, b, c) /\ gt2 = TurnDown(m, gt1, b, c)
          /\ lo2 = With(m, lo1, b, pos1[b]) /\ hi2 = With(m, hi1, c, hi1[b])
          /\ root2 = IF root = b THEN c ELSE root
      BY <1>14, <2>1, <2>2, Zenon
    <2>5. /\ Placed(m, root2, lt2, gt2, lo2, hi2, pos1)
          /\ \A nm : Named(m, nm) /\ InOrder(m, nm, lo1, hi1, pos1) /\ ByLowWord(m, nm)
                       => InOrder(m, nm, lo2, hi2, pos1)
      BY <2>3, <2>4, TurnedLess
    <2>6. QED
      BY <2>1, <2>3, <2>5, Zenon
  <1>17. root2 = IF d = 1 THEN n + 1 ELSE root
    BY <1>2, <1>14, Zenon
  <1>18. QED
    BY <1>6, <1>7, <1>13, <1>15, <1>16, <1>17, Zenon

-----------------------------------------------------------------------------
(* The first node is the whole tree.                                             *)
LEMMA OneLeaf ==
  ASSUME NEW name, NEW k \in Int
  PROVE  \E lt, gt, lo, hi, pos :
           IsTree([root |-> 1, nodes |-> <<[name |-> k, lt |-> 0, gt |-> 0]>>],
                  1, Extended(name, 0, k), lt, gt, lo, hi, pos)
  <1>1. PICK t : t = [root |-> 1, nodes |-> <<[name |-> k, lt |-> 0, gt |-> 0]>>]
    OBVIOUS
  <1>2. PICK name1, none, one : /\ name1 = Extended(name, 0, k)
                                /\ none = [h \in 1 .. 1 |-> 0]
                                /\ one = [h \in 1 .. 1 |-> 1]
    OBVIOUS
  <1>3. name1 = [h \in 1 .. 1 |-> k]
    <2>1. name1 = [h \in 1 .. 0 + 1 |-> IF h = 0 + 1 THEN k ELSE name[h]]
      BY <1>2 DEF Extended
    <2>2. QED
      BY <2>1
  <1>4. t.root = 1 /\ t.nodes = <<[name |-> k, lt |-> 0, gt |-> 0]>>
    BY <1>1
  <1>5. Nodes(1, name1, none, none) = <<[name |-> k, lt |-> 0, gt |-> 0]>>
    BY <1>2, <1>3 DEF Nodes
  <1>6. Types(1, none, none, one, one, one)
    BY <1>2 DEF Types, Gives, HasLength
  <1>7. RootSpans(1, 1, one, one)
    BY <1>2 DEF RootSpans
  <1>8. Between(1, one, one, one)
    BY <1>2 DEF Between
  <1>9. LessBranch(1, none, one, one, one) /\ GreaterBranch(1, none, one, one, one)
    BY <1>2 DEF LessBranch, GreaterBranch
  <1>10. OneEach(1, one)
    BY <1>2 DEF OneEach
  <1>11. Apart(1, one, one, one)
    BY <1>2 DEF Apart
  <1>12. Named(1, name1)
    BY <1>3 DEF Named, HasLength
  <1>13. InOrder(1, name1, one, one, one)
    BY <1>2 DEF InOrder
  <1>14. Placed(1, 1, none, none, one, one, one)
    BY <1>6, <1>7, <1>8, <1>9, <1>10, <1>11 DEF Placed
  <1>15. IsTree(t, 1, name1, none, none, one, one, one)
    BY <1>4, <1>5, <1>12, <1>13, <1>14 DEF IsTree
  <1>16. QED
    BY <1>1, <1>2, <1>15

(* The fields of a tree.                                                         *)
LEMMA RootAndNodes ==
  ASSUME NEW r, NEW s
  PROVE  [root |-> r, nodes |-> s].root = r /\ [root |-> r, nodes |-> s].nodes = s
  OBVIOUS

(* What insert makes of a tree that has no node for the name.                    *)
LEMMA InsertIsTree ==
  ASSUME NEW t, NEW n, NEW name, NEW lt, NEW gt, NEW lo, NEW hi, NEW pos,
         IsTree(t, n, name, lt, gt, lo, hi, pos), NEW ks, ks \subseteq Int, SafeLowWords(ks),
         NEW k \in ks, \A h \in 1 .. n : name[h] \in ks, ~Get(t, k)
  PROVE  \E lt2, gt2, lo2, hi2, pos2 :
           IsTree(Insert(t, k), n + 1, Extended(name, n, k), lt2, gt2, lo2, hi2, pos2)
  <1>1. n \in Nat /\ t.nodes = Nodes(n, name, lt, gt) /\ Placed(n, t.root, lt, gt, lo, hi, pos)
        /\ Named(n, name) /\ InOrder(n, name, lo, hi, pos)
    BY DEF IsTree
  <1> DEFINE root  == t.root
             nodes == t.nodes
             w     == Path(t, k)
             leaf  == [name |-> k, lt |-> 0, gt |-> 0]
             added == Append(Link(nodes, w[Len(w)], k, Len(nodes) + 1), leaf)
             Rotated(i) ==
               LET turned == Balance(added, w[i])
               IN  IF i = 1 THEN [root |-> turned.top, nodes |-> turned.nodes]
                   ELSE [root  |-> root,
                         nodes |-> Link(turned.nodes, w[i - 1], k, turned.top)]
             due == {i \in Unbalanced(nodes, w) : MustRotate(nodes, w[i], k)}
  <1>2. Insert(t, k) = IF w = <<>> THEN [root |-> Len(nodes) + 1, nodes |-> <<leaf>>]
                       ELSE IF due = {} THEN [root |-> root, nodes |-> added]
                       ELSE Rotated(CHOOSE i \in due : TRUE)
    BY DEF Insert
  <1>3. Len(nodes) = n
    BY <1>1, NodesHaveLength
  <1>4. /\ root = t.root /\ nodes = t.nodes /\ w = Path(t, k)
        /\ leaf = [name |-> k, lt |-> 0, gt |-> 0]
        /\ added = Append(Link(nodes, w[Len(w)], k, Len(nodes) + 1), leaf)
    OBVIOUS
  <1> HIDE DEF root, nodes, w, leaf, added, Rotated, due
  <1>5. PICK d \in 0 .. n : /\ IsWay(w, d, Onward(n, name, lt, gt, k), n, root)
                            /\ Len(w) = d
                            /\ root \in 0 .. n
                            /\ n # 0 => root # 0
                            /\ d = 0 => w = <<>>
                            /\ d # 0 => w # <<>>
                            /\ Get(t, k) <=> d # 0 /\ Same(k, name[w[d]])
    BY <1>4, SearchGoesDown
  <1>6. CASE d = 0
    <2>1. n = 0
      BY <1>1, <1>5, <1>6 DEF IsWay
    <2>2. Insert(t, k) = [root |-> Len(nodes) + 1, nodes |-> <<leaf>>]
      BY <1>2, <1>5, <1>6, Zenon
    <2>3. Len(nodes) + 1 = 1 /\ n + 1 = 1
      BY <1>3, <2>1
    <2>4. Insert(t, k) = [root |-> 1, nodes |-> <<[name |-> k, lt |-> 0, gt |-> 0]>>]
      BY <1>4, <2>2, <2>3, Zenon
    <2>5. QED
      <3>1. k \in Int
        OBVIOUS
      <3>2. \E lt2, gt2, lo2, hi2, pos2 :
              IsTree(Insert(t, k), 1, Extended(name, 0, k), lt2, gt2, lo2, hi2, pos2)
        BY <2>4, <3>1, OneLeaf, Zenon
      <3>3. QED
        BY <2>1, <2>3, <3>2, Zenon
  <1>7. CASE d # 0
    <2>1. PICK b : b = w[d]
      OBVIOUS
    <2>2. d \in 1 .. n /\ root \in 1 .. n /\ b \in 1 .. n
      BY <1>1, <1>5, <1>7, <2>1 DEF IsWay
    <2>3. EndsAt(n, root, name, lt, gt, k, w, d, b)
      <3>1. Cmp(k, name[b]) # 0
        BY <1>5, <1>7, <2>1 DEF Same
      <3>2. k \in Int
        OBVIOUS
      <3>3. QED
        BY <1>1, <1>5, <2>1, <2>2, <3>1, <3>2 DEF EndsAt
    <2>4. added = Hung(n, name, lt, gt, k, b)
      BY <1>1, <1>4, <1>3, <1>5, <2>1, Zenon DEF Hung
    <2>5. w # <<>>
      BY <1>5, <1>7
    <2>6. CASE due = {}
      <3>1. Insert(t, k) = [root |-> root, nodes |-> added]
        BY <1>2, <2>5, <2>6, Zenon
      <3>2. Insert(t, k).root = root /\ Insert(t, k).nodes = added
        BY <3>1, RootAndNodes, Zenon
      <3>3. PICK e : e = IF Cmp(k, name[b]) < 0 THEN pos[b] ELSE pos[b] + 1
        OBVIOUS
      <3>4. /\ Placed(n + 1, root, HangLess(n, lt, b, pos, e), HangGreater(n, gt, b, pos, e),
                      HangLo(n, lo, b, pos, e), HangHi(n, hi, b, pos, e), HangPos(n, pos, e))
            /\ InOrder(n + 1, Extended(name, n, k),
                       HangLo(n, lo, b, pos, e), HangHi(n, hi, b, pos, e), HangPos(n, pos, e))
            /\ Named(n + 1, Extended(name, n, k))
        BY <1>1, <1>4, <2>3, <3>3, LeafAdded
      <3>5. Hung(n, name, lt, gt, k, b)
            = Nodes(n + 1, Extended(name, n, k), HangLess(n, lt, b, pos, e), HangGreater(n, gt, b, pos, e))
        <4>1. n \in Nat /\ b \in 1 .. n
          BY <1>1, <2>2
        <4>2. pos[b] \in Nat
          BY <1>1, <2>2 DEF Placed, Types, Gives
        <4>3. QED
          BY <3>3, <4>1, <4>2, EveryLeaf
      <3>6. n + 1 \in Nat
        BY <1>1
      <3>7. QED
        BY <2>4, <3>2, <3>4, <3>5, <3>6, Zenon DEF IsTree
    <2>7. CASE due # {}
      <3>1. PICK i \in due : i = CHOOSE j \in due : TRUE
        BY <2>7
      <3>2. Insert(t, k) = Rotated(i)
        BY <1>2, <2>5, <2>7, <3>1, Zenon
      <3>3. i \in Unbalanced(nodes, w) /\ MustRotate(nodes, w[i], k)
        BY DEF due
      <3>4. /\ i = d
            /\ \A x, y \in ks : Cmp(x, y) = AsInt(x) - AsInt(y)
            /\ \/ AsInt(name[b]) = 1 /\ ~ (Cmp(k, name[b]) < 0)
               \/ AsInt(name[b]) = -1 /\ Cmp(k, name[b]) < 0
        BY <1>1, <1>4, <2>3, <3>3, OnlyTheLastTurns
      <3>5. Ordered(ks, n, name, k)
        BY <3>4, Zenon DEF Ordered
      <3>6. Grows(n, root, lt, gt, lo, hi, pos, name, k, w, d, b)
        BY <1>1, <1>4, <2>3, Zenon DEF Grows
      <3>7. LeansGreater(name, k, b) \/ LeansLess(name, k, b)
        BY <3>4, Zenon DEF LeansGreater, LeansLess
      <3>8. /\ Balance(added, b).top = n + 1
            /\ \E lt2, gt2, lo2, hi2, pos2 :
                 /\ Placed(n + 1, IF d = 1 THEN n + 1 ELSE root, lt2, gt2, lo2, hi2, pos2)
                 /\ Named(n + 1, Extended(name, n, k))
                 /\ InOrder(n + 1, Extended(name, n, k), lo2, hi2, pos2)
                 /\ (IF d = 1 THEN Balance(added, b).nodes
                     ELSE Link(Balance(added, b).nodes, w[d - 1], k, n + 1))
                    = Nodes(n + 1, Extended(name, n, k), lt2, gt2)
        <4>1. CASE LeansGreater(name, k, b)
          BY <2>4, <3>5, <3>6, <4>1, RotatedGreater
        <4>2. CASE LeansLess(name, k, b)
          BY <2>4, <3>5, <3>6, <4>2, RotatedLess
        <4>3. QED
          BY <3>7, <4>1, <4>2
      <3>9. /\ Insert(t, k).root = IF d = 1 THEN n + 1 ELSE root
            /\ Insert(t, k).nodes = IF d = 1 THEN Balance(added, b).nodes
                                    ELSE Link(Balance(added, b).nodes, w[d - 1], k, n + 1)
        <4>1. Insert(t, k) = IF d = 1 THEN [root |-> n + 1, nodes |-> Balance(added, b).nodes]
                             ELSE [root  |-> root,
                                   nodes |-> Link(Balance(added, b).nodes, w[d - 1], k, n + 1)]
          BY <2>1, <3>2, <3>4, <3>8, Zenon DEF Rotated
        <4>2. CASE d = 1
          <5>1. Insert(t, k) = [root |-> n + 1, nodes |-> Balance(added, b).nodes]
            BY <4>1, <4>2, Zenon
          <5>2. PICK s : s = Balance(added, b).nodes
            OBVIOUS
          <5>3. PICK r : r = n + 1
            OBVIOUS
          <5>4. Insert(t, k).root = r /\ Insert(t, k).nodes = s
            <6>1. Insert(t, k) = [root |-> r, nodes |-> s]
              BY <5>1, <5>2, <5>3, Zenon
            <6>2. QED
              BY <6>1
          <5>5. Insert(t, k).root = n + 1 /\ Insert(t, k).nodes = Balance(added, b).nodes
            BY <5>2, <5>3, <5>4, Zenon
          <5>6. QED
            BY <4>2, <5>5, Zenon
        <4>3. CASE d # 1
          <5>1. Insert(t, k) = [root  |-> root,
                                nodes |-> Link(Balance(added, b).nodes, w[d - 1], k, n + 1)]
            BY <4>1, <4>3, Zenon
          <5>2. PICK s : s = Link(Balance(added, b).nodes, w[d - 1], k, n + 1)
            OBVIOUS
          <5>3. PICK r : r = root
            OBVIOUS
          <5>4. Insert(t, k).root = r /\ Insert(t, k).nodes = s
            <6>1. Insert(t, k) = [root |-> r, nodes |-> s]
              BY <5>1, <5>2, <5>3, Zenon
            <6>2. QED
              BY <6>1
          <5>5. /\ Insert(t, k).root = root
                /\ Insert(t, k).nodes = Link(Balance(added, b).nodes, w[d - 1], k, n + 1)
            BY <5>2, <5>3, <5>4, Zenon
          <5>6. QED
            BY <4>3, <5>5, Zenon
        <4>4. QED
          BY <4>2, <4>3
      <3>10. n + 1 \in Nat
        BY <1>1
      <3>11. QED
        BY <3>8, <3>9, <3>10, Zenon DEF IsTree
    <2>8. QED
      BY <2>6, <2>7
  <1>8. QED
    BY <1>6, <1>7

-----------------------------------------------------------------------------
(* Iterators: the branches taken from the root to a node.                        *)
Marks(n) == [node : 1 .. n, greater : BOOLEAN]

NodeAt(it, j)    == it[j].node
GreaterAt(it, j) == it[j].greater

(* it goes on from a node to another by the branch that it says.                 *)
GoesOn(it, m, n, lt, gt) ==
  \A j \in 1 .. m :
    /\ NodeAt(it, j) \in 1 .. n
    /\ j < m => NodeAt(it, j + 1) = IF GreaterAt(it, j + 1) THEN gt[NodeAt(it, j)]
                                    ELSE lt[NodeAt(it, j)]

Trail(it, m, n, root, lt, gt) ==
  /\ m \in Nat \ {0} /\ it \in Seq(Marks(n)) /\ Len(it) = m
  /\ NodeAt(it, 1) = root /\ ~GreaterAt(it, 1)
  /\ GoesOn(it, m, n, lt, gt)

(* Going down the lesser branches ends at the first node of the subtree.         *)
LEMMA LessKeepsLo ==
  ASSUME NEW n \in Nat, NEW root, NEW lt, NEW gt, NEW lo, NEW hi, NEW pos,
         Placed(n, root, lt, gt, lo, hi, pos), NEW from \in 1 .. n, NEW d \in 1 .. n, NEW w,
         IsWay(w, d, lt, n, from)
  PROVE  pos[w[d]] = lo[from]
  <1>1. /\ \A i \in 1 .. d : w[i] \in 1 .. n /\ (i < d => w[i + 1] = lt[w[i]])
        /\ w[1] = from /\ lt[w[d]] = 0
    BY DEF IsWay
  <1>2. \A h \in 1 .. n : IF lt[h] = 0 THEN lo[h] = pos[h] ELSE lo[lt[h]] = lo[h]
    BY DEF Placed, LessBranch
  <1> DEFINE bad == {i \in 1 .. d : lo[w[i]] # lo[from]}
  <1>3. bad = {}
    <2> SUFFICES ASSUME bad # {}
                 PROVE  FALSE
      OBVIOUS
    <2>1. PICK m \in bad : \A j \in bad : m <= j
      <3>1. bad \subseteq Nat
        OBVIOUS
      <3> HIDE DEF bad
      <3>2. QED
        BY <3>1, LeastNatural
    <2>2. m \in 1 .. d /\ lo[w[m]] # lo[from]
      OBVIOUS
    <2>3. m # 1
      BY <1>1, <2>2
    <2>4. m - 1 \in 1 .. d /\ m - 1 < d /\ m - 1 + 1 = m /\ ~ (m <= m - 1)
      BY <2>2, <2>3
    <2>5. lo[w[m - 1]] = lo[from]
      BY <2>1, <2>4
    <2>6. w[m - 1] \in 1 .. n /\ w[m] = lt[w[m - 1]] /\ w[m] \in 1 .. n
      BY <1>1, <2>2, <2>4
    <2>7. PICK g \in 1 .. n : g = w[m - 1]
      BY <2>6
    <2>8. lt[g] # 0 /\ w[m] = lt[g] /\ lo[g] = lo[from]
      BY <2>5, <2>6, <2>7
    <2>9. lo[w[m]] = lo[g]
      BY <1>2, <2>8
    <2>10. QED
      BY <2>2, <2>8, <2>9
  <1>4. d \in 1 .. d
    OBVIOUS
  <1>5. lo[w[d]] = lo[from] /\ w[d] \in 1 .. n
    BY <1>1, <1>3, <1>4
  <1>6. QED
    BY <1>1, <1>2, <1>5

GoesLess(down, d, n, lt, lo, pos, g) ==
  /\ d \in 1 .. n /\ down \in Seq(Marks(n)) /\ Len(down) = d
  /\ NodeAt(down, 1) = g
  /\ \A j \in 1 .. d : /\ NodeAt(down, j) \in 1 .. n
                       /\ j > 1 => ~GreaterAt(down, j)
                       /\ j < d => NodeAt(down, j + 1) = lt[NodeAt(down, j)]
  /\ pos[NodeAt(down, d)] = lo[g]

(* start_iter_least and the second half of operator++ go down the less branches, *)
(* and remember the branch they came by.                                         *)
LEMMA DownGoesLess ==
  ASSUME NEW t, NEW n, NEW name, NEW lt, NEW gt, NEW lo, NEW hi, NEW pos,
         IsTree(t, n, name, lt, gt, lo, hi, pos), NEW g \in 1 .. n, NEW greater \in BOOLEAN,
         NEW down, down = Down(t, g, greater)
  PROVE  \E d : GoesLess(down, d, n, lt, lo, pos, g) /\ (GreaterAt(down, 1) <=> greater)
  <1>1. n \in Nat /\ t.nodes = Nodes(n, name, lt, gt) /\ Placed(n, t.root, lt, gt, lo, hi, pos)
    BY DEF IsTree
  <1>2. Len(t.nodes) = n
    BY <1>1, NodesHaveLength
  <1>3. HasLength(lt, n)
    BY <1>1 DEF Placed, Types, Gives
  <1>4. [i \in 1 .. Len(t.nodes) |-> t.nodes[i].lt] = lt
    <2>1. \A i \in 1 .. n : t.nodes[i].lt = lt[i]
      BY <1>1, FieldsOfNode
    <2>2. QED
      BY <1>2, <1>3, <2>1 DEF HasLength
  <1>5. PICK w : w = Walk(lt, g)
    OBVIOUS
  <1>6. PICK d \in 0 .. n : IsWay(w, d, lt, n, g) /\ Len(w) = d
    <2>1. g \in 0 .. n /\ \A h \in 1 .. n : lt[h] \in {0, lt[h], gt[h]}
      BY <1>1
    <2>2. QED
      BY <1>1, <1>3, <1>5, <2>1, WayDown
  <1>7. /\ d \in 1 .. n /\ w[1] = g /\ HasLength(w, d)
        /\ \A j \in 1 .. d : w[j] \in 1 .. n /\ (j < d => w[j + 1] = lt[w[j]])
    BY <1>1, <1>6 DEF IsWay
  <1>8. DOMAIN w = 1 .. d
    BY <1>7 DEF HasLength
  <1>9. down = [i \in 1 .. d |-> [node |-> w[i], greater |-> greater /\ i = 1]]
    <2>1. down = [i \in DOMAIN w |-> [node |-> w[i], greater |-> greater /\ i = 1]]
      BY <1>4, <1>5, Zenon DEF Down
    <2>2. QED
      BY <1>8, <2>1
  <1>10. \A j \in 1 .. d : /\ NodeAt(down, j) = w[j]
                           /\ GreaterAt(down, j) <=> (greater /\ j = 1)
                           /\ down[j] \in Marks(n)
    <2> SUFFICES ASSUME NEW j \in 1 .. d
                 PROVE  /\ NodeAt(down, j) = w[j]
                        /\ GreaterAt(down, j) <=> (greater /\ j = 1)
                        /\ down[j] \in Marks(n)
      OBVIOUS
    <2>1. PICK v \in BOOLEAN : v = (greater /\ j = 1)
      OBVIOUS
    <2>2. PICK x \in 1 .. n : x = w[j]
      BY <1>7
    <2>3. down[j] = [node |-> w[j], greater |-> greater /\ j = 1]
      BY <1>9
    <2>4. down[j] = [node |-> x, greater |-> v]
      BY <2>1, <2>2, <2>3, Zenon
    <2>5. down[j].node = x /\ down[j].greater = v /\ down[j] \in Marks(n)
      BY <2>4 DEF Marks
    <2>6. QED
      BY <2>1, <2>2, <2>5, Zenon DEF NodeAt, GreaterAt
  <1>11. HasLength(down, d)
    BY <1>9 DEF HasLength
  <1>12. Len(down) = d
    <2>1. d \in Nat
      BY <1>7
    <2>2. QED
      BY <1>11, <2>1, LengthIs
  <1>13. down \in Seq(Marks(n))
    <2>1. down \in [1 .. d -> Marks(n)]
      BY <1>10, <1>11 DEF HasLength
    <2>2. d \in Nat
      BY <1>7
    <2>3. QED
      BY <2>1, <2>2, SeqDef
  <1>14. pos[w[d]] = lo[g]
    BY <1>1, <1>6, <1>7, LessKeepsLo
  <1>15. 1 \in 1 .. d /\ d \in 1 .. d /\ \A j \in 1 .. d : j < d => j + 1 \in 1 .. d
    BY <1>7
  <1>16. /\ NodeAt(down, 1) = g /\ (GreaterAt(down, 1) <=> greater)
         /\ pos[NodeAt(down, d)] = lo[g]
    BY <1>7, <1>10, <1>14, <1>15, Zenon
  <1>17. ASSUME NEW j \in 1 .. d
         PROVE  /\ NodeAt(down, j) \in 1 .. n
                /\ j > 1 => ~GreaterAt(down, j)
                /\ j < d => NodeAt(down, j + 1) = lt[NodeAt(down, j)]
    <2>1. j > 1 => j # 1
      OBVIOUS
    <2>2. j < d => j + 1 \in 1 .. d
      BY <1>7
    <2>3. QED
      BY <1>7, <1>10, <2>1, <2>2, Zenon
  <1>18. QED
    BY <1>7, <1>12, <1>13, <1>16, <1>17, Zenon DEF GoesLess

-----------------------------------------------------------------------------
(* it is the iterator at the i-th node.                                          *)
MeetsAt(it, i, n, root, lt, gt, pos) ==
  \E m : Trail(it, m, n, root, lt, gt) /\ pos[NodeAt(it, m)] = i

(* The iterator that clearself starts with is at the first node.                 *)
LEMMA StartIsTrail ==
  ASSUME NEW t, NEW n, NEW name, NEW lt, NEW gt, NEW lo, NEW hi, NEW pos,
         IsTree(t, n, name, lt, gt, lo, hi, pos), n # 0, NEW start, start = Down(t, t.root, FALSE)
  PROVE  MeetsAt(start, 1, n, t.root, lt, gt, pos)
  <1>1. n \in Nat /\ t.root \in 1 .. n /\ lo[t.root] = 1
    BY DEF IsTree, Placed, RootSpans
  <1>2. PICK no \in BOOLEAN : no = FALSE
    OBVIOUS
  <1>3. PICK g \in 1 .. n : g = t.root
    BY <1>1
  <1>4. PICK down : down = Down(t, g, no)
    OBVIOUS
  <1>5. PICK d : GoesLess(down, d, n, lt, lo, pos, g) /\ (GreaterAt(down, 1) <=> no)
    BY <1>4, DownGoesLess
  <1>6. \A j \in 1 .. d : j < d => j + 1 \in 1 .. d /\ j + 1 > 1
    BY <1>1, <1>5 DEF GoesLess
  <1>7. GoesOn(down, d, n, lt, gt)
    BY <1>5, <1>6, Zenon DEF GoesOn, GoesLess
  <1>8. d \in Nat \ {0}
    BY <1>1, <1>5 DEF GoesLess
  <1>9. Trail(down, d, n, t.root, lt, gt)
    BY <1>2, <1>3, <1>5, <1>7, <1>8, Zenon DEF Trail, GoesLess
  <1>10. QED
    BY <1>1, <1>2, <1>3, <1>4, <1>5, <1>9, Zenon DEF GoesLess, MeetsAt

(* Up past the greater branches there is the next node, or nothing.              *)
LEMMA PastTheGreater ==
  ASSUME NEW n \in Nat, NEW root, NEW lt, NEW gt, NEW lo, NEW hi, NEW pos,
         Placed(n, root, lt, gt, lo, hi, pos), NEW it, NEW m, Trail(it, m, n, root, lt, gt),
         NEW top, top = NodeAt(it, m), gt[top] = 0,
         NEW c \in 0 .. m - 1, c = 0 \/ ~GreaterAt(it, c + 1),
         \A j \in c + 1 .. m - 1 : GreaterAt(it, j + 1)
  PROVE  IF c = 0 THEN pos[top] = n ELSE pos[NodeAt(it, c)] = pos[top] + 1
  <1>1. /\ m \in Nat \ {0} /\ NodeAt(it, 1) = root
        /\ \A j \in 1 .. m : /\ NodeAt(it, j) \in 1 .. n
                             /\ j < m => NodeAt(it, j + 1) = IF GreaterAt(it, j + 1) THEN gt[NodeAt(it, j)]
                                                             ELSE lt[NodeAt(it, j)]
    BY DEF Trail, GoesOn
  <1>2. c \in Nat /\ c + 1 \in 1 .. m /\ m \in 1 .. m /\ m \in c + 1 .. m
    BY <1>1
  <1>3. PICK b \in 1 .. n : b = NodeAt(it, c + 1)
    BY <1>1, <1>2
  <1> DEFINE bad == {j \in c + 1 .. m : hi[NodeAt(it, j)] # hi[b]}
  <1>4. bad = {}
    <2> SUFFICES ASSUME bad # {}
                 PROVE  FALSE
      OBVIOUS
    <2>1. PICK e \in bad : \A j \in bad : e <= j
      <3>1. bad \subseteq Nat
        BY <1>2
      <3> HIDE DEF bad
      <3>2. QED
        BY <3>1, LeastNatural
    <2>2. e \in c + 1 .. m /\ hi[NodeAt(it, e)] # hi[b]
      OBVIOUS
    <2>3. e # c + 1
      BY <1>3, <2>2
    <2>4. PICK f \in c + 1 .. m - 1 : f + 1 = e
      <3>1. e - 1 \in c + 1 .. m - 1 /\ e - 1 + 1 = e
        BY <1>1, <1>2, <2>2, <2>3
      <3>2. QED
        BY <3>1
    <2>5. f \in c + 1 .. m /\ f \in 1 .. m /\ f < m /\ e \in 1 .. m /\ ~ (e <= f)
      BY <1>1, <1>2, <2>2, <2>4
    <2>6. hi[NodeAt(it, f)] = hi[b]
      BY <2>1, <2>5
    <2>7. GreaterAt(it, e)
      BY <2>4
    <2>8. NodeAt(it, e) = gt[NodeAt(it, f)]
      BY <1>1, <2>4, <2>5, <2>7, Zenon
    <2>9. PICK g, x \in 1 .. n : g = NodeAt(it, f) /\ x = NodeAt(it, e)
      BY <1>1, <2>5
    <2>10. gt[g] = x /\ x # 0
      BY <2>8, <2>9
    <2>11. hi[x] = hi[g]
      BY <2>10 DEF Placed, GreaterBranch
    <2>12. QED
      BY <2>2, <2>6, <2>9, <2>11
  <1>5. top \in 1 .. n /\ hi[top] = hi[b]
    BY <1>1, <1>2, <1>4
  <1>6. hi[top] = pos[top]
    BY <1>5 DEF Placed, GreaterBranch
  <1>7. CASE c = 0
    <2>1. b = root
      BY <1>1, <1>3, <1>7
    <2>2. n # 0
      BY <1>3
    <2>3. hi[root] = n
      BY <2>2 DEF Placed, RootSpans
    <2>4. QED
      BY <1>5, <1>6, <1>7, <2>1, <2>3
  <1>8. CASE c # 0
    <2>1. c \in 1 .. m /\ c < m
      BY <1>1, <1>8
    <2>2. PICK a \in 1 .. n : a = NodeAt(it, c)
      BY <1>1, <2>1
    <2>3. b = lt[a]
      BY <1>1, <1>3, <1>8, <2>1, <2>2, Zenon
    <2>4. lt[a] # 0
      BY <2>3
    <2>5. hi[b] = pos[a] - 1
      BY <2>3, <2>4 DEF Placed, LessBranch
    <2>6. pos[a] \in Int /\ pos[top] \in Int
      BY <1>5 DEF Placed, Types, Gives
    <2>7. PICK p, q \in Int : p = pos[a] /\ q = pos[top]
      BY <2>6
    <2>8. q = p - 1
      BY <1>5, <1>6, <2>5, <2>7, Zenon
    <2>9. p = q + 1
      BY <2>8
    <2>10. QED
      BY <1>8, <2>2, <2>7, <2>9, Zenon
  <1>9. QED
    BY <1>7, <1>8

-----------------------------------------------------------------------------
(* An iterator cut short is the iterator at a node above.                        *)
LEMMA PrefixIsTrail ==
  ASSUME NEW n, NEW root, NEW lt, NEW gt, NEW it, NEW m, Trail(it, m, n, root, lt, gt), NEW c \in 1 .. m
  PROVE  /\ Trail(SubSeq(it, 1, c), c, n, root, lt, gt)
         /\ NodeAt(SubSeq(it, 1, c), c) = NodeAt(it, c)
  <1>1. /\ m \in Nat \ {0} /\ it \in Seq(Marks(n)) /\ Len(it) = m
        /\ NodeAt(it, 1) = root /\ ~GreaterAt(it, 1) /\ GoesOn(it, m, n, lt, gt)
    BY DEF Trail
  <1>2. c \in Nat \ {0} /\ c \in Int /\ 1 <= c /\ c - 1 + 1 = c /\ 1 \in 1 .. c /\ c \in 1 .. c
    BY <1>1
  <1>3. PICK S : S = Marks(n)
    OBVIOUS
  <1>4. \A i \in 1 .. c : it[i] \in S
    BY <1>1, <1>3, ElementOfSeq
  <1>5. PICK s : s = SubSeq(it, 1, c)
    OBVIOUS
  <1>6. s \in Seq(S) /\ Len(s) = c /\ \A i \in 1 .. c : s[i] = it[i]
    <2>1. /\ s \in Seq(S)
          /\ Len(s) = IF 1 <= c THEN c - 1 + 1 ELSE 0
          /\ \A i \in 1 .. c - 1 + 1 : s[i] = it[1 + i - 1]
      BY <1>2, <1>4, <1>5, SubSeqProperties
    <2>2. \A i \in 1 .. c : 1 + i - 1 = i
      BY <1>2
    <2>3. QED
      BY <1>2, <2>1, <2>2
  <1>7. \A i \in 1 .. c : NodeAt(s, i) = NodeAt(it, i) /\ (GreaterAt(s, i) <=> GreaterAt(it, i))
    BY <1>6, Zenon DEF NodeAt, GreaterAt
  <1>8. GoesOn(s, c, n, lt, gt)
    <2>1. \A j \in 1 .. c : j \in 1 .. m /\ (j < c => j < m /\ j + 1 \in 1 .. c)
      BY <1>1, <1>2
    <2>2. QED
      BY <1>1, <1>7, <2>1, Zenon DEF GoesOn
  <1>9. Trail(s, c, n, root, lt, gt)
    BY <1>1, <1>2, <1>3, <1>6, <1>7, <1>8, Zenon DEF Trail
  <1>10. QED
    BY <1>2, <1>5, <1>7, <1>9

(* s goes on from the end of it by the greater branch, and then down.            *)
Joins(s, e, it, m, down, d, n, root, lt, gt, lo, pos, g) ==
  /\ n \in Nat /\ e \in Nat /\ e = m + d /\ s = it \o down
  /\ Trail(it, m, n, root, lt, gt) /\ g = gt[NodeAt(it, m)]
  /\ GoesLess(down, d, n, lt, lo, pos, g) /\ GreaterAt(down, 1)

(* An iterator with a way down appended is the iterator at the end of that way.  *)
LEMMA JoinIsTrail ==
  ASSUME NEW s, NEW e, NEW it, NEW m, NEW down, NEW d, NEW n, NEW root, NEW lt, NEW gt, NEW lo,
         NEW pos, NEW g, Joins(s, e, it, m, down, d, n, root, lt, gt, lo, pos, g)
  PROVE  /\ Trail(s, e, n, root, lt, gt)
         /\ NodeAt(s, e) = NodeAt(down, d)
  <1>1. /\ n \in Nat /\ e \in Nat /\ e = m + d /\ s = it \o down
        /\ Trail(it, m, n, root, lt, gt) /\ g = gt[NodeAt(it, m)]
        /\ GoesLess(down, d, n, lt, lo, pos, g) /\ GreaterAt(down, 1)
    BY DEF Joins
  <1>2. /\ m \in Nat \ {0} /\ it \in Seq(Marks(n)) /\ Len(it) = m
        /\ NodeAt(it, 1) = root /\ ~GreaterAt(it, 1) /\ GoesOn(it, m, n, lt, gt)
    BY <1>1 DEF Trail
  <1>3. /\ d \in 1 .. n /\ down \in Seq(Marks(n)) /\ Len(down) = d
        /\ NodeAt(down, 1) = g /\ GreaterAt(down, 1)
        /\ \A j \in 1 .. d : /\ NodeAt(down, j) \in 1 .. n
                             /\ j > 1 => ~GreaterAt(down, j)
                             /\ j < d => NodeAt(down, j + 1) = lt[NodeAt(down, j)]
    BY <1>1, Zenon DEF GoesLess
  <1>4. PICK S : S = Marks(n)
    OBVIOUS
  <1>5. /\ s \in Seq(S) /\ Len(s) = e
        /\ \A i \in 1 .. e : s[i] = IF i <= m THEN it[i] ELSE down[i - m]
    <2>1. it \in Seq(S) /\ down \in Seq(S)
      BY <1>1, <1>2, <1>3, <1>4
    <2>2. /\ s \in Seq(S) /\ Len(s) = Len(it) + Len(down)
          /\ \A i \in 1 .. Len(it) + Len(down) : s[i] = IF i <= Len(it) THEN it[i] ELSE down[i - Len(it)]
      BY <1>1, <2>1, ConcatProperties
    <2>3. QED
      BY <1>1, <1>2, <1>3, <2>2, Zenon
  <1>6. \A i \in 1 .. m : NodeAt(s, i) = NodeAt(it, i) /\ (GreaterAt(s, i) <=> GreaterAt(it, i))
    <2>1. \A i \in 1 .. m : i \in 1 .. e /\ i <= m
      BY <1>1, <1>2, <1>3
    <2>2. QED
      BY <1>5, <2>1, Zenon DEF NodeAt, GreaterAt
  <1>7. \A i \in 1 .. d : /\ NodeAt(s, m + i) = NodeAt(down, i)
                          /\ GreaterAt(s, m + i) <=> GreaterAt(down, i)
    <2> SUFFICES ASSUME NEW i \in 1 .. d
                 PROVE  /\ NodeAt(s, m + i) = NodeAt(down, i)
                        /\ GreaterAt(s, m + i) <=> GreaterAt(down, i)
      OBVIOUS
    <2>1. PICK x \in 1 .. e : x = m + i /\ ~ (x <= m) /\ x - m = i
      BY <1>1, <1>2, <1>3
    <2>2. s[x] = down[i]
      BY <1>5, <2>1, Zenon
    <2>3. QED
      BY <2>1, <2>2, Zenon DEF NodeAt, GreaterAt
  <1>8. ASSUME NEW j \in 1 .. e
        PROVE  /\ NodeAt(s, j) \in 1 .. n
               /\ j < e => NodeAt(s, j + 1) = IF GreaterAt(s, j + 1) THEN gt[NodeAt(s, j)]
                                              ELSE lt[NodeAt(s, j)]
    <2>1. CASE j < m
      <3>1. j \in 1 .. m /\ j + 1 \in 1 .. m
        BY <1>2, <2>1
      <3>2. QED
        BY <1>2, <1>6, <2>1, <3>1, Zenon DEF GoesOn
    <2>2. CASE j = m
      <3>1. j \in 1 .. m /\ 1 \in 1 .. d
        BY <1>1, <1>2, <1>3, <2>2
      <3>2. NodeAt(s, j) = NodeAt(it, m) /\ NodeAt(s, j) \in 1 .. n
        BY <1>2, <1>6, <2>2, <3>1, Zenon DEF GoesOn
      <3>3. NodeAt(s, j + 1) = g /\ GreaterAt(s, j + 1)
        BY <1>1, <1>3, <1>7, <2>2, <3>1, Zenon
      <3>4. QED
        BY <1>1, <3>2, <3>3, Zenon
    <2>3. CASE j > m
      <3>1. PICK i \in 1 .. d : j = m + i
        <4>1. j - m \in 1 .. d /\ j = m + (j - m)
          BY <1>1, <1>2, <1>3, <2>3
        <4>2. QED
          BY <4>1
      <3>2. NodeAt(s, j) = NodeAt(down, i) /\ NodeAt(s, j) \in 1 .. n
        BY <1>3, <1>7, <3>1, Zenon
      <3>3. CASE j < e
        <4>1. i < d /\ i + 1 \in 1 .. d /\ m + (i + 1) = j + 1 /\ i + 1 > 1
          BY <1>1, <1>2, <1>3, <3>1, <3>3
        <4>2. NodeAt(s, j + 1) = NodeAt(down, i + 1) /\ ~GreaterAt(s, j + 1)
          BY <1>3, <1>7, <4>1, Zenon
        <4>3. QED
          BY <1>3, <3>2, <4>1, <4>2, Zenon
      <3>4. QED
        BY <3>2, <3>3
    <2>4. QED
      BY <1>2, <2>1, <2>2, <2>3
  <1>9. GoesOn(s, e, n, lt, gt)
    BY <1>8, Zenon DEF GoesOn
  <1>10. 1 \in 1 .. m /\ d \in 1 .. d /\ e \in Nat \ {0}
    BY <1>1, <1>2, <1>3
  <1>11. Trail(s, e, n, root, lt, gt)
    BY <1>2, <1>4, <1>5, <1>6, <1>9, <1>10, Zenon DEF Trail
  <1>12. NodeAt(s, m + d) = NodeAt(down, d)
    BY <1>1, <1>7, <1>10
  <1>13. QED
    BY <1>1, <1>11, <1>12, Zenon

-----------------------------------------------------------------------------
(* A set of naturals up to m has a greatest element.                             *)
LEMMA LastOfBounded ==
  ASSUME NEW m \in Nat, NEW S, S \subseteq 0 .. m, S # {}
  PROVE  \E c \in S : \A x \in S : x <= c
  <1> DEFINE far == {m - x : x \in S}
  <1>1. far \subseteq Nat /\ far # {}
    <2>1. \A x \in S : x \in 0 .. m
      OBVIOUS
    <2>2. \A x \in 0 .. m : m - x \in Nat
      OBVIOUS
    <2>3. far \subseteq Nat
      BY <2>1, <2>2
    <2>4. far # {}
      OBVIOUS
    <2>5. QED
      BY <2>3, <2>4
  <1> HIDE DEF far
  <1>2. PICK f \in far : \A y \in far : f <= y
    BY <1>1, LeastNatural
  <1>3. PICK c \in S : f = m - c
    BY DEF far
  <1>4. \A x \in S : m - c <= m - x
    BY <1>2, <1>3 DEF far
  <1>5. ASSUME NEW x \in S
        PROVE  x <= c
    <2>1. x \in Int /\ c \in Int /\ m - c <= m - x
      BY <1>4
    <2>2. QED
      BY <2>1
  <1>6. QED
    BY <1>5

(* From a node, the iterator goes on to the next one, or is empty after the last.*)
LEMMA AdvanceGoesOn ==
  ASSUME NEW t, NEW n, NEW name, NEW lt, NEW gt, NEW lo, NEW hi, NEW pos,
         IsTree(t, n, name, lt, gt, lo, hi, pos),
         NEW it, NEW m, Trail(it, m, n, t.root, lt, gt), NEW top, top = NodeAt(it, m)
  PROVE  \/ pos[top] = n /\ Advance(t, it) = <<>>
         \/ \E m2 : /\ Trail(Advance(t, it), m2, n, t.root, lt, gt)
                    /\ pos[NodeAt(Advance(t, it), m2)] = pos[top] + 1
  <1>1. n \in Nat /\ t.nodes = Nodes(n, name, lt, gt) /\ Placed(n, t.root, lt, gt, lo, hi, pos)
    BY DEF IsTree
  <1>2. m \in Nat \ {0} /\ it \in Seq(Marks(n)) /\ Len(it) = m /\ GoesOn(it, m, n, lt, gt)
    BY DEF Trail
  <1>3. top \in 1 .. n
    <2>1. m \in 1 .. m
      BY <1>2
    <2>2. QED
      BY <1>2, <2>1, Zenon DEF GoesOn
  <1>4. t.nodes[top].gt = gt[top]
    BY <1>1, <1>3, FieldsOfNode
  <1> DEFINE ups == {c \in 0 .. m - 1 : c = 0 \/ ~GreaterAt(it, c + 1)}
  <1>5. Advance(t, it) = IF gt[top] # 0 THEN it \o Down(t, gt[top], TRUE)
                         ELSE SubSeq(it, 1, CHOOSE c \in ups : \A x \in ups : x <= c)
    <2>1. it[Len(it)].node = top
      BY <1>2, Zenon DEF NodeAt
    <2>2. Advance(t, it) = IF t.nodes[it[Len(it)].node].gt # 0
                           THEN it \o Down(t, t.nodes[it[Len(it)].node].gt, TRUE)
                           ELSE SubSeq(it, 1,
                                  CHOOSE c \in {e \in 0 .. Len(it) - 1 : e = 0 \/ ~it[e + 1].greater} :
                                    \A x \in {e \in 0 .. Len(it) - 1 : e = 0 \/ ~it[e + 1].greater} : x <= c)
      BY DEF Advance
    <2>3. {e \in 0 .. Len(it) - 1 : e = 0 \/ ~it[e + 1].greater} = ups
      BY <1>2, Zenon DEF GreaterAt
    <2> HIDE DEF ups
    <2>4. QED
      BY <1>4, <2>1, <2>2, <2>3, Zenon
  <1>6. CASE gt[top] # 0
    <2>1. PICK g \in 1 .. n : g = gt[top]
      BY <1>1, <1>3, <1>6 DEF Placed, Types, Gives
    <2>2. PICK yes \in BOOLEAN : yes = TRUE
      OBVIOUS
    <2>3. PICK down : down = Down(t, g, yes)
      OBVIOUS
    <2>4. PICK d \in 1 .. n : GoesLess(down, d, n, lt, lo, pos, g) /\ (GreaterAt(down, 1) <=> yes)
      <3>1. PICK d : GoesLess(down, d, n, lt, lo, pos, g) /\ (GreaterAt(down, 1) <=> yes)
        BY <2>3, DownGoesLess
      <3>2. d \in 1 .. n
        BY <3>1, Zenon DEF GoesLess
      <3>3. QED
        BY <3>1, <3>2
    <2>5. Advance(t, it) = it \o down
      <3> HIDE DEF ups
      <3>1. QED
        BY <1>5, <1>6, <2>1, <2>2, <2>3, Zenon
    <2>6. PICK e \in Nat : e = m + d
      BY <1>2
    <2>7. PICK s : s = it \o down
      OBVIOUS
    <2>8. Trail(s, e, n, t.root, lt, gt) /\ NodeAt(s, e) = NodeAt(down, d)
      <3>1. g = gt[NodeAt(it, m)] /\ m \in Nat
        BY <1>2, <2>1
      <3>2. GreaterAt(down, 1)
        BY <2>2, <2>4, Zenon
      <3>3. PICK root : root = t.root
        OBVIOUS
      <3>4. n \in Nat /\ Trail(it, m, n, root, lt, gt)
        BY <1>1, <3>3, Zenon
      <3>5. Joins(s, e, it, m, down, d, n, root, lt, gt, lo, pos, g)
        <4>1. n \in Nat /\ e \in Nat /\ e = m + d
          BY <2>6, <3>4
        <4>2. GoesLess(down, d, n, lt, lo, pos, g)
          BY <2>4
        <4>3. QED
          BY <2>7, <3>1, <3>2, <3>4, <4>1, <4>2, Zenon DEF Joins
      <3>6. Trail(s, e, n, root, lt, gt) /\ NodeAt(s, e) = NodeAt(down, d)
        BY <3>5, JoinIsTrail
      <3>7. QED
        BY <3>3, <3>6, Zenon
    <2>9. pos[NodeAt(down, d)] = lo[g]
      BY <2>4, Zenon DEF GoesLess
    <2>10. lo[g] = pos[top] + 1
      BY <1>1, <1>3, <1>6, <2>1 DEF Placed, GreaterBranch
    <2>11. QED
      BY <2>5, <2>7, <2>8, <2>9, <2>10, Zenon
  <1>7. CASE gt[top] = 0
    <2>1. PICK c \in ups : \A x \in ups : x <= c
      <3>1. m - 1 \in Nat /\ ups \subseteq 0 .. m - 1 /\ 0 \in ups
        BY <1>2
      <3> HIDE DEF ups
      <3>2. QED
        BY <3>1, LastOfBounded
    <2>2. PICK a \in ups : /\ a = CHOOSE e \in ups : \A x \in ups : x <= e
                           /\ \A x \in ups : x <= a
      <3> HIDE DEF ups
      <3>1. QED
        BY <2>1
    <2>3. Advance(t, it) = SubSeq(it, 1, a)
      <3> HIDE DEF ups
      <3>1. QED
        BY <1>5, <1>7, <2>2, Zenon
    <2>4. a \in 0 .. m - 1 /\ (a = 0 \/ ~GreaterAt(it, a + 1))
      OBVIOUS
    <2>5. \A j \in a + 1 .. m - 1 : GreaterAt(it, j + 1)
      <3> SUFFICES ASSUME NEW j \in a + 1 .. m - 1, ~GreaterAt(it, j + 1)
                   PROVE  FALSE
        OBVIOUS
      <3>1. j \in 0 .. m - 1 /\ ~ (j <= a)
        BY <1>2, <2>4
      <3>2. j \in ups
        BY <3>1
      <3> HIDE DEF ups
      <3>3. QED
        BY <2>2, <3>1, <3>2
    <2>6. IF a = 0 THEN pos[top] = n ELSE pos[NodeAt(it, a)] = pos[top] + 1
      BY <1>1, <1>7, <2>4, <2>5, PastTheGreater
    <2>7. CASE a = 0
      <3>1. 1 \in Int /\ 0 \in Int /\ 0 < 1
        OBVIOUS
      <3>2. SubSeq(it, 1, 0) = <<>>
        BY <3>1, SubSeqEmpty
      <3>3. QED
        BY <2>3, <2>6, <2>7, <3>2, Zenon
    <2>8. CASE a # 0
      <3>1. a \in 1 .. m
        BY <1>2, <2>4, <2>8
      <3>2. /\ Trail(SubSeq(it, 1, a), a, n, t.root, lt, gt)
            /\ NodeAt(SubSeq(it, 1, a), a) = NodeAt(it, a)
        BY <3>1, PrefixIsTrail
      <3>3. QED
        BY <2>3, <2>6, <2>8, <3>2, Zenon
    <2>9. QED
      BY <2>7, <2>8
  <1>8. QED
    BY <1>6, <1>7

-----------------------------------------------------------------------------
(* The names in the tree are those of its handles.                               *)
LEMMA NamesAre ==
  ASSUME NEW t, NEW n, NEW name, NEW lt, NEW gt, NEW lo, NEW hi, NEW pos,
         IsTree(t, n, name, lt, gt, lo, hi, pos)
  PROVE  Names(t) = {name[h] : h \in 1 .. n}
  <1>1. n \in Nat /\ t.nodes = Nodes(n, name, lt, gt)
    BY DEF IsTree
  <1>2. Len(t.nodes) = n
    BY <1>1, NodesHaveLength
  <1>3. \A h \in 1 .. n : t.nodes[h].name = name[h]
    BY <1>1, FieldsOfNode
  <1>4. QED
    BY <1>2, <1>3, Zenon DEF Names

(* An iterator at a node is not empty.                                           *)
LEMMA TrailIsLong ==
  ASSUME NEW it, NEW m, NEW n, NEW root, NEW lt, NEW gt, Trail(it, m, n, root, lt, gt)
  PROVE  it \in Seq(Marks(n)) /\ it # <<>> /\ Len(it) = m
  <1>1. m \in Nat \ {0} /\ it \in Seq(Marks(n)) /\ Len(it) = m
    BY DEF Trail
  <1>2. Len(<<>>) = 0
    OBVIOUS
  <1>3. QED
    BY <1>1, <1>2

(* What operator++ makes of an iterator, once it is past the last node too.      *)
Onto(t, it) == IF it = <<>> THEN <<>> ELSE Advance(t, it)

Trails(n, root, lt, gt) == {it \in Seq(Marks(n)) : \E m : Trail(it, m, n, root, lt, gt)}

Iterates(f, t, n) ==
  /\ f = [i \in 0 .. n |-> f[i]]
  /\ f[0] = Down(t, t.root, FALSE)
  /\ \A i \in 1 .. n : f[i] = Onto(t, f[i - 1])

(* The iterator of clearself can be followed step by step.                       *)
LEMMA IteratorsExist ==
  ASSUME NEW t, NEW n, NEW name, NEW lt, NEW gt, NEW lo, NEW hi, NEW pos,
         IsTree(t, n, name, lt, gt, lo, hi, pos), n # 0
  PROVE  \E f : Iterates(f, t, n)
  <1> DEFINE S == Trails(n, t.root, lt, gt) \cup {<<>>}
             step == [a \in S \X (1 .. n) |-> Onto(t, a[1])]
  <1>1. n \in Nat
    BY DEF IsTree
  <1>2. PICK start : start = Down(t, t.root, FALSE)
    OBVIOUS
  <1>3. start \in S
    <2>1. MeetsAt(start, 1, n, t.root, lt, gt, pos)
      BY <1>2, StartIsTrail
    <2>2. QED
      BY <2>1, TrailIsLong, Zenon DEF Trails, MeetsAt
  <1>4. ASSUME NEW it \in S
        PROVE  Onto(t, it) \in S
    <2>1. CASE it = <<>>
      BY <2>1, Zenon DEF Onto
    <2>2. CASE it # <<>>
      <3>1. PICK m : Trail(it, m, n, t.root, lt, gt)
        BY <2>2 DEF Trails
      <3>2. Onto(t, it) = Advance(t, it)
        BY <2>2, Zenon DEF Onto
      <3>3. PICK next : next = Advance(t, it)
        OBVIOUS
      <3>4. next = <<>> \/ \E m2 : Trail(next, m2, n, t.root, lt, gt)
        BY <3>1, <3>3, AdvanceGoesOn
      <3>5. next \in S
        BY <3>4, TrailIsLong, Zenon DEF Trails
      <3>6. QED
        BY <3>2, <3>3, <3>5
    <2>3. QED
      BY <2>1, <2>2
  <1>5. step \in [S \X (1 .. n) -> S]
    <2> HIDE DEF S
    <2>1. \A a \in S \X (1 .. n) : a[1] \in S
      OBVIOUS
    <2>2. QED
      BY <1>4, <2>1
  <1>6. \A it \in S : \A i \in 1 .. n : step[<<it, i>>] = Onto(t, it)
    <2> HIDE DEF S
    <2>1. QED
      OBVIOUS
  <1> HIDE DEF S, step
  <1>7. PICK f : Steps(f, S, start, n, step)
    BY <1>1, <1>3, <1>5, StepsExist
  <1>8. f = [i \in 0 .. n |-> f[i]] /\ f[0] = start /\ (\A i \in 0 .. n : f[i] \in S)
        /\ \A i \in 1 .. n : f[i] = step[<<f[i - 1], i>>]
    BY <1>7 DEF Steps
  <1>9. \A i \in 1 .. n : i - 1 \in 0 .. n
    BY <1>1
  <1>10. \A i \in 1 .. n : f[i] = Onto(t, f[i - 1])
    BY <1>6, <1>8, <1>9, Zenon
  <1>11. QED
    BY <1>2, <1>8, <1>10, Zenon DEF Iterates

-----------------------------------------------------------------------------
(* The iterator meets the nodes in their order.                                  *)
MeetsInOrder(f, n, root, lt, gt, pos) ==
  \A i \in 1 .. n : MeetsAt(f[i - 1], i, n, root, lt, gt, pos)

(* At its i-th step it is at the node whose place is i, and after the last it is *)
(* empty.                                                                        *)
LEMMA IteratorMeetsAll ==
  ASSUME NEW t, NEW n, NEW name, NEW lt, NEW gt, NEW lo, NEW hi, NEW pos,
         IsTree(t, n, name, lt, gt, lo, hi, pos), n # 0,
         NEW f, f[0] = Down(t, t.root, FALSE), \A i \in 1 .. n : f[i] = Onto(t, f[i - 1])
  PROVE  MeetsInOrder(f, n, t.root, lt, gt, pos)
  <1>1. n \in Nat
    BY DEF IsTree
  <1> DEFINE Good(i) == MeetsAt(f[i - 1], i, n, t.root, lt, gt, pos)
             bad == {i \in 1 .. n : ~Good(i)}
  <1>2. bad = {}
    <2> SUFFICES ASSUME bad # {}
                 PROVE  FALSE
      OBVIOUS
    <2>1. PICK e \in bad : \A j \in bad : e <= j
      <3>1. bad \subseteq Nat
        BY <1>1
      <3> HIDE DEF bad
      <3>2. QED
        BY <3>1, LeastNatural
    <2>2. e \in 1 .. n /\ ~Good(e)
      OBVIOUS
    <2>3. Good(1)
      <3>1. 1 - 1 = 0
        OBVIOUS
      <3>2. PICK start : start = f[0]
        OBVIOUS
      <3>3. MeetsAt(start, 1, n, t.root, lt, gt, pos)
        BY <3>2, StartIsTrail
      <3>4. QED
        BY <3>1, <3>2, <3>3, Zenon
    <2>4. e # 1
      <3> HIDE DEF Good
      <3>1. QED
        BY <2>2, <2>3
    <2>5. PICK d \in 1 .. n : d = e - 1 /\ d < e /\ d + 1 = e /\ d # n
      <3>1. e - 1 \in 1 .. n /\ e - 1 < e /\ e - 1 + 1 = e /\ e - 1 # n
        BY <1>1, <2>2, <2>4
      <3>2. QED
        BY <3>1
    <2>6. Good(d)
      <3>1. ~ (e <= d)
        BY <2>2, <2>5
      <3>2. d \notin bad
        BY <2>1, <3>1
      <3> HIDE DEF Good
      <3>3. QED
        BY <3>2
    <2>7. PICK it : it = f[d - 1]
      OBVIOUS
    <2>8. PICK m : Trail(it, m, n, t.root, lt, gt) /\ pos[NodeAt(it, m)] = d
      BY <2>6, <2>7 DEF MeetsAt
    <2>9. it # <<>>
      BY <2>8, TrailIsLong
    <2>10. f[d] = Advance(t, it)
      BY <2>7, <2>9, Zenon DEF Onto
    <2>11. PICK top : top = NodeAt(it, m)
      OBVIOUS
    <2>12. \/ pos[top] = n /\ Advance(t, it) = <<>>
           \/ \E m2 : /\ Trail(Advance(t, it), m2, n, t.root, lt, gt)
                      /\ pos[NodeAt(Advance(t, it), m2)] = pos[top] + 1
      BY <2>8, <2>11, AdvanceGoesOn
    <2>13. \E m2 : Trail(f[d], m2, n, t.root, lt, gt) /\ pos[NodeAt(f[d], m2)] = e
      BY <2>5, <2>8, <2>10, <2>11, <2>12, Zenon
    <2>14. Good(e)
      BY <2>5, <2>13, Zenon DEF MeetsAt
    <2>15. QED
      BY <2>2, <2>14
  <1>3. \A i \in 1 .. n : Good(i)
    <2> HIDE DEF Good
    <2>1. QED
      BY <1>2
  <1>4. QED
    BY <1>3, Zenon DEF MeetsInOrder

(* clearself hands over all the names, however the tree was built: the walk over *)
(* it follows its branches and meets every node.                                 *)
LEMMA ClearselfGivesAll ==
  ASSUME NEW t, NEW n, NEW name, NEW lt, NEW gt, NEW lo, NEW hi, NEW pos,
         IsTree(t, n, name, lt, gt, lo, hi, pos)
  PROVE  {Clearself(t)[i] : i \in DOMAIN Clearself(t)} = Names(t)
  <1>1. n \in Nat /\ t.nodes = Nodes(n, name, lt, gt) /\ Placed(n, t.root, lt, gt, lo, hi, pos)
    BY DEF IsTree
  <1>2. Len(t.nodes) = n
    BY <1>1, NodesHaveLength
  <1>3. Names(t) = {name[h] : h \in 1 .. n}
    BY NamesAre
  <1> DEFINE All(f) == [i \in 0 .. Len(t.nodes) |->
                          IF i = 0 THEN Down(t, t.root, FALSE)
                          ELSE IF f[i - 1] = <<>> THEN <<>> ELSE Advance(t, f[i - 1])]
             all == CHOOSE f : f = All(f)
  <1>4. Clearself(t) = [i \in {j \in 1 .. Len(t.nodes) : all[j - 1] # <<>>} |->
                          t.nodes[all[i - 1][Len(all[i - 1])].node].name]
    BY DEF Clearself
  <1>5. CASE n = 0
    <2>1. 1 .. n = {}
      BY <1>5
    <2>2. {j \in 1 .. n : all[j - 1] # <<>>} = {}
      BY <2>1
    <2>3. DOMAIN Clearself(t) = {}
      BY <1>2, <1>4, <2>2
    <2>4. QED
      BY <1>3, <2>1, <2>3
  <1>6. CASE n # 0
    <2>1. PICK f : /\ f = [i \in 0 .. n |-> f[i]]
                   /\ f[0] = Down(t, t.root, FALSE)
                   /\ \A i \in 1 .. n : f[i] = Onto(t, f[i - 1])
      <3>1. \E f : Iterates(f, t, n)
        BY <1>6, IteratorsExist
      <3>2. QED
        BY <3>1, Zenon DEF Iterates
    <2>2. f = All(f)
      <3>1. \A i \in 0 .. n : i # 0 => i \in 1 .. n
        BY <1>1
      <3>2. \A i \in 0 .. n : f[i] = IF i = 0 THEN Down(t, t.root, FALSE)
                                     ELSE IF f[i - 1] = <<>> THEN <<>> ELSE Advance(t, f[i - 1])
        BY <2>1, <3>1, Zenon DEF Onto
      <3>3. f = [i \in 0 .. n |-> IF i = 0 THEN Down(t, t.root, FALSE)
                                  ELSE IF f[i - 1] = <<>> THEN <<>> ELSE Advance(t, f[i - 1])]
        BY <2>1, <3>2
      <3>4. QED
        BY <1>2, <3>3
    <2>3. all = All(all)
      <3> HIDE DEF All
      <3>1. QED
        BY <2>2, Zenon
    <2>4. PICK at : at = all
      OBVIOUS
    <2>5. at[0] = Down(t, t.root, FALSE) /\ \A i \in 1 .. n : at[i] = Onto(t, at[i - 1])
      <3> HIDE DEF all
      <3>1. at = [i \in 0 .. n |-> IF i = 0 THEN Down(t, t.root, FALSE)
                                   ELSE IF at[i - 1] = <<>> THEN <<>> ELSE Advance(t, at[i - 1])]
        BY <1>2, <2>3, <2>4
      <3>2. 0 \in 0 .. n /\ \A i \in 1 .. n : i \in 0 .. n /\ i # 0
        BY <1>1
      <3>3. QED
        BY <3>1, <3>2 DEF Onto
    <2>6. MeetsInOrder(at, n, t.root, lt, gt, pos)
      BY <1>6, <2>5, IteratorMeetsAll
    <2>7. PICK q : q = Clearself(t)
      OBVIOUS
    <2>8. q = [i \in {j \in 1 .. n : at[j - 1] # <<>>} |-> t.nodes[at[i - 1][Len(at[i - 1])].node].name]
      <3> HIDE DEF all
      <3>1. QED
        BY <1>2, <1>4, <2>4, <2>7
    <2> HIDE DEF All, all
    <2>9. \A i \in 1 .. n : at[i - 1] # <<>>
      BY <2>6, TrailIsLong DEF MeetsInOrder, MeetsAt
    <2>10. DOMAIN q = 1 .. n
      BY <2>8, <2>9
    <2>11. ASSUME NEW i \in 1 .. n
           PROVE  \E h \in 1 .. n : q[i] = name[h] /\ pos[h] = i
      <3>1. PICK it : it = at[i - 1]
        OBVIOUS
      <3>2. PICK m : Trail(it, m, n, t.root, lt, gt) /\ pos[NodeAt(it, m)] = i
        BY <2>6, <3>1 DEF MeetsInOrder, MeetsAt
      <3>3. m \in 1 .. m /\ Len(it) = m
        BY <3>2 DEF Trail
      <3>4. PICK h \in 1 .. n : h = NodeAt(it, m)
        BY <3>2, <3>3, Zenon DEF Trail, GoesOn
      <3>5. q[i] = t.nodes[it[Len(it)].node].name
        BY <2>8, <2>9, <3>1
      <3>6. q[i] = t.nodes[h].name
        BY <3>3, <3>4, <3>5, Zenon DEF NodeAt
      <3>7. t.nodes[h].name = name[h]
        BY <1>1, FieldsOfNode
      <3>8. QED
        BY <3>2, <3>4, <3>6, <3>7
    <2>12. ASSUME NEW h \in 1 .. n
           PROVE  \E i \in 1 .. n : q[i] = name[h]
      <3>1. PICK i \in 1 .. n : i = pos[h]
        BY <1>1 DEF Placed, Types, Gives
      <3>2. PICK g \in 1 .. n : q[i] = name[g] /\ pos[g] = i
        BY <2>11
      <3>3. g = h
        BY <1>1, <3>1, <3>2 DEF Placed, OneEach
      <3>4. QED
        BY <3>2, <3>3
    <2>13. {q[i] : i \in 1 .. n} = {name[h] : h \in 1 .. n}
      BY <2>11, <2>12
    <2>14. QED
      BY <1>3, <2>7, <2>10, <2>13, Zenon
  <1>7. QED
    BY <1>5, <1>6

-----------------------------------------------------------------------------
(* A tree of some of the hashes ks.                                              *)
Holds(t, ks) == \E n, name, lt, gt, lo, hi, pos :
                  IsTree(t, n, name, lt, gt, lo, hi, pos) /\ \A h \in 1 .. n : name[h] \in ks

(* An empty tree is one of any hashes.                                           *)
LEMMA EmptyHolds ==
  ASSUME NEW ks
  PROVE  Holds(EmptyTree, ks) /\ Names(EmptyTree) = {}
  <1>1. PICK none : none = [h \in 1 .. 0 |-> 0]
    OBVIOUS
  <1>2. EmptyTree.root = 0 /\ EmptyTree.nodes = <<>>
    BY DEF EmptyTree
  <1>3. Nodes(0, none, none, none) = <<>>
    BY DEF Nodes
  <1>4. Types(0, none, none, none, none, none)
    BY <1>1 DEF Types, Gives, HasLength
  <1>5. RootSpans(0, 0, none, none) /\ Between(0, none, none, none)
    BY DEF RootSpans, Between
  <1>6. LessBranch(0, none, none, none, none) /\ GreaterBranch(0, none, none, none, none)
    BY DEF LessBranch, GreaterBranch
  <1>7. OneEach(0, none) /\ Apart(0, none, none, none)
    BY DEF OneEach, Apart
  <1>8. Named(0, none)
    BY <1>1 DEF Named, HasLength
  <1>9. InOrder(0, none, none, none, none)
    BY DEF InOrder
  <1>10. Placed(0, 0, none, none, none, none, none)
    BY <1>4, <1>5, <1>6, <1>7 DEF Placed
  <1>11. IsTree(EmptyTree, 0, none, none, none, none, none, none)
    BY <1>2, <1>3, <1>8, <1>9, <1>10 DEF IsTree
  <1>12. \A h \in 1 .. 0 : none[h] \in ks
    OBVIOUS
  <1>13. Holds(EmptyTree, ks)
    BY <1>11, <1>12, Zenon DEF Holds
  <1>14. Len(EmptyTree.nodes) = 0
    BY <1>2
  <1>15. Names(EmptyTree) = {}
    BY <1>14 DEF Names
  <1>16. QED
    BY <1>13, <1>15

(* What a search finds and what clearself gives, of any tree of hashes.          *)
LEMMA WhatItHolds ==
  ASSUME NEW t, NEW ks, Holds(t, ks)
  PROVE  /\ Names(t) \subseteq ks
         /\ \A k \in Names(t) : Get(t, k)
         /\ \A k : Get(t, k) => \E s \in Names(t) : Same(k, s)
         /\ {Clearself(t)[i] : i \in DOMAIN Clearself(t)} = Names(t)
  <1>1. PICK n, name, lt, gt, lo, hi, pos :
          IsTree(t, n, name, lt, gt, lo, hi, pos) /\ \A h \in 1 .. n : name[h] \in ks
    BY Zenon DEF Holds
  <1>2. Names(t) = {name[h] : h \in 1 .. n}
    BY <1>1, NamesAre
  <1>3. Names(t) \subseteq ks
    BY <1>1, <1>2
  <1>4. ASSUME NEW k \in Names(t)
        PROVE  Get(t, k)
    <2>1. PICK g \in 1 .. n : k = name[g]
      BY <1>2
    <2>2. Get(t, name[g])
      BY <1>1, NameIsFound
    <2>3. QED
      BY <2>1, <2>2, Zenon
  <1>5. ASSUME NEW k, Get(t, k)
        PROVE  \E s \in Names(t) : Same(k, s)
    <2>1. PICK h \in 1 .. n : Same(k, name[h])
      BY <1>1, <1>5, FoundIsThere
    <2>2. name[h] \in Names(t)
      BY <1>2
    <2>3. QED
      BY <2>1, <2>2, Zenon
  <1>6. {Clearself(t)[i] : i \in DOMAIN Clearself(t)} = Names(t)
    BY <1>1, ClearselfGivesAll
  <1>7. QED
    BY <1>3, <1>4, <1>5, <1>6, Zenon

(* set adds the hash, or finds another with the same low word.                   *)
LEMMA SetHolds ==
  ASSUME NEW t, NEW ks, Holds(t, ks), ks \subseteq Int, SafeLowWords(ks), NEW k \in ks
  PROVE  /\ Holds(Set(t, k), ks)
         /\ \/ Names(Set(t, k)) = Names(t) \cup {k}
            \/ Names(Set(t, k)) = Names(t) /\ \E s \in Names(t) : Same(k, s)
  <1>1. CASE Get(t, k)
    <2>1. Set(t, k) = t
      BY <1>1, Zenon DEF Set, Get
    <2>2. \E s \in Names(t) : Same(k, s)
      BY <1>1, WhatItHolds
    <2>3. QED
      BY <2>1, <2>2, Zenon
  <1>2. CASE ~Get(t, k)
    <2>1. PICK n, name, lt, gt, lo, hi, pos :
            IsTree(t, n, name, lt, gt, lo, hi, pos) /\ \A h \in 1 .. n : name[h] \in ks
      BY Zenon DEF Holds
    <2>2. Set(t, k) = Insert(t, k)
      BY <1>2, Zenon DEF Set, Get
    <2>3. PICK m, name1 : m = n + 1 /\ name1 = Extended(name, n, k)
      OBVIOUS
    <2>4. PICK lt2, gt2, lo2, hi2, pos2 : IsTree(Insert(t, k), m, name1, lt2, gt2, lo2, hi2, pos2)
      <3>1. \E lt2, gt2, lo2, hi2, pos2 :
              IsTree(Insert(t, k), n + 1, Extended(name, n, k), lt2, gt2, lo2, hi2, pos2)
        BY <1>2, <2>1, InsertIsTree
      <3>2. QED
        BY <2>3, <3>1, Zenon
    <2>5. n \in Nat
      BY <2>1 DEF IsTree
    <2>6. (\A h \in 1 .. m : h = m \/ h \in 1 .. n) /\ m \in 1 .. m
          /\ \A h \in 1 .. n : h \in 1 .. m /\ h # m
      BY <2>3, <2>5
    <2>7. name1[m] = k /\ \A h \in 1 .. n : name1[h] = name[h]
      <3>1. name1 = [h \in 1 .. m |-> IF h = m THEN k ELSE name[h]]
        BY <2>3, Zenon DEF Extended
      <3>2. QED
        BY <2>6, <3>1, Zenon
    <2>8. \A h \in 1 .. m : name1[h] \in ks
      BY <2>1, <2>6, <2>7, Zenon
    <2>9. Names(t) = {name[h] : h \in 1 .. n}
      BY <2>1, NamesAre
    <2>10. Names(Insert(t, k)) = {name1[h] : h \in 1 .. m}
      BY <2>4, NamesAre
    <2>11. {name1[h] : h \in 1 .. m} = {name[h] : h \in 1 .. n} \cup {k}
      <3>1. \A x \in {name1[h] : h \in 1 .. m} : x \in {name[h] : h \in 1 .. n} \cup {k}
        BY <2>6, <2>7, Zenon
      <3>2. \A x \in {name[h] : h \in 1 .. n} \cup {k} : x \in {name1[h] : h \in 1 .. m}
        BY <2>6, <2>7, Zenon
      <3>3. QED
        BY <3>1, <3>2
    <2>12. Holds(Insert(t, k), ks)
      BY <2>4, <2>8, Zenon DEF Holds
    <2>13. QED
      BY <2>2, <2>9, <2>10, <2>11, <2>12, Zenon
  <1>3. QED
    BY <1>1, <1>2

-----------------------------------------------------------------------------
(* The refinement: what the two stores hold together is the set of SeenSet.      *)
(* Between its two looks, a worker has not found the hash in the tree; if it was *)
(* stored when the check began, it must then be in the file, where it stays.     *)
Moved == \A w \in Workers : pc[w] = "checkF" /\ key[w] \in since[w] => key[w] \in file

(* The tree is one of the hashes, in order; what a check may have seen at its    *)
(* start is a part of what is stored, since nothing stored is ever lost.         *)
SetInv == /\ hashes \subseteq Keys /\ SafeLowWords(hashes)
          /\ Holds(tree, hashes)
          /\ key \in [Workers -> hashes] /\ pc \in [Workers -> Points]
          /\ since = [w \in Workers |-> since[w]]
          /\ \A w \in Workers : since[w] \subseteq Stored
          /\ Moved

(* What a worker at p is doing in SeenSet.                                       *)
DoingAt(p) == CASE p = "idle" -> "idle"
                [] p \in {"checkM", "checkF"} -> "checking"
                [] OTHER -> "adding"

(* Where a worker is in the code decides what it is doing in SeenSet.            *)
LEMMA DoingByPoint ==
  ASSUME pc \in [Workers -> Points], NEW w \in Workers, NEW from, NEW to, Goto(w, from, to),
         NEW dfrom, dfrom = DoingAt(from), NEW dto, dto = DoingAt(to)
  PROVE  /\ Seen!Goto(w, dfrom, dto)
         /\ dfrom = dto => SeenSetDoing' = SeenSetDoing
  <1>1. pc[w] = from /\ pc' = [pc EXCEPT ![w] = to]
    BY DEF Goto
  <1>2. SeenSetDoing = [v \in Workers |-> DoingAt(pc[v])]
    BY DEF SeenSetDoing, DoingAt
  <1>3. SeenSetDoing' = [v \in Workers |-> DoingAt(pc'[v])]
    BY DEF SeenSetDoing, DoingAt
  <1>4. SeenSetDoing[w] = dfrom
    BY <1>1, <1>2
  <1>5. \A v \in Workers : pc'[v] = IF v = w THEN to ELSE pc[v]
    BY <1>1
  <1>6. SeenSetDoing' = [SeenSetDoing EXCEPT ![w] = dto]
    <2>1. \A v \in Workers : DoingAt(pc'[v]) = IF v = w THEN dto ELSE DoingAt(pc[v])
      BY <1>5, Zenon
    <2>2. QED
      BY <1>2, <1>3, <2>1
  <1>7. dfrom = dto => SeenSetDoing' = SeenSetDoing
    BY <1>2, <1>4, <1>6
  <1>8. QED
    BY <1>4, <1>6, <1>7 DEF Seen!Goto

(* At the start nothing is stored, in the tree, in the file or in SeenSet.       *)
LEMMA InitSet == Init => SetInv /\ Seen!Init
  <1> SUFFICES ASSUME Init
               PROVE  SetInv /\ Seen!Init
    OBVIOUS
  <1>1. hashes \subseteq Keys /\ Cardinality(hashes) = MaxHashes /\ SafeLowWords(hashes)
    BY DEF Init
  <1>2. hashes # {}
    <2>1. MaxHashes # 0
      BY ContentSeenAssumption
    <2>2. Cardinality({}) = 0
      BY FS_EmptySet
    <2>3. QED
      BY <1>1, <2>1, <2>2
  <1>3. key \in [Workers -> hashes]
    <2>1. (CHOOSE k \in hashes : TRUE) \in hashes
      BY <1>2
    <2>2. QED
      BY <2>1 DEF Init
  <1>4. pc = [w \in Workers |-> "idle"] /\ since = [w \in Workers |-> {}]
        /\ tree = EmptyTree /\ file = {}
    BY DEF Init
  <1>5. Holds(tree, hashes) /\ Stored = {}
    <2>1. Holds(EmptyTree, hashes) /\ Names(EmptyTree) = {}
      BY EmptyHolds
    <2>2. QED
      BY <1>4, <2>1 DEF Stored
  <1>6. pc \in [Workers -> Points]
    BY <1>4 DEF Points
  <1>7. Moved
    BY <1>4 DEF Moved
  <1>8. SetInv
    BY <1>1, <1>3, <1>4, <1>5, <1>6, <1>7 DEF SetInv
  <1>9. SeenSetDoing = [w \in Workers |-> "idle"]
    BY <1>4 DEF SeenSetDoing
  <1>10. key \in [Workers -> Keys]
    BY <1>1, <1>3
  <1>11. Seen!Init
    BY <1>4, <1>5, <1>9, <1>10 DEF Seen!Init
  <1>12. QED
    BY <1>8, <1>11

(* A step that keeps the two stores and what the workers check.                  *)
LEMMA Looking ==
  ASSUME SetInv, NEW w \in Workers, UNCHANGED <<hashes, tree, file, key, since>>,
         NEW from, NEW to \in Points, Goto(w, from, to),
         to = "checkF" /\ key[w] \in since[w] => key[w] \in file
  PROVE  SetInv' /\ Stored' = Stored
  <1>1. Stored' = Stored
    BY DEF Stored
  <1>2. pc' \in [Workers -> Points]
    BY DEF SetInv, Goto
  <1>3. \A v \in Workers : pc'[v] = IF v = w THEN to ELSE pc[v]
    BY DEF SetInv, Goto
  <1>4. Moved'
    BY <1>3 DEF Moved, SetInv
  <1>5. QED
    BY <1>1, <1>2, <1>4 DEF SetInv

(* Each step of a worker keeps the invariant, and is a step of SeenSet or a      *)
(* stutter of it: the second look answers a check that the first did not, and    *)
(* Set is where a hash is added.                                                 *)
LEMMA StepSet ==
  ASSUME SetInv, NEW w \in Workers, Check(w) \/ Proceed(w)
  PROVE  SetInv' /\ (Seen!Check(w) \/ Seen!Known(w) \/ Seen!Unknown(w) \/ Seen!Add(w) \/ UNCHANGED Seen!vars)
  <1>1. /\ hashes \subseteq Keys /\ hashes \subseteq Int /\ SafeLowWords(hashes)
        /\ Holds(tree, hashes)
        /\ key \in [Workers -> hashes] /\ pc \in [Workers -> Points]
        /\ since = [v \in Workers |-> since[v]]
        /\ \A v \in Workers : since[v] \subseteq Stored
        /\ Moved
    BY ContentSeenAssumption DEF SetInv
  <1>2. key[w] \in hashes
    BY <1>1
  <1>3. /\ \A k \in Names(tree) : Get(tree, k)
        /\ \A k : Get(tree, k) => \E s \in Names(tree) : Same(k, s)
        /\ {Clearself(tree)[i] : i \in DOMAIN Clearself(tree)} = Names(tree)
    BY <1>1, WhatItHolds
  <1>4. /\ DoingAt("idle") = "idle" /\ DoingAt("checkM") = "checking" /\ DoingAt("checkF") = "checking"
        /\ DoingAt("add") = "adding" /\ DoingAt("write2file") = "adding" /\ DoingAt("set") = "adding"
    BY DEF DoingAt
  <1>5. CASE Check(w)
    <2>1. /\ Goto(w, "idle", "checkM")
          /\ since' = [since EXCEPT ![w] = Stored]
          /\ UNCHANGED <<hashes, tree, m_counter, file>>
      BY <1>5 DEF Check
    <2>2. PICK k \in hashes : key' = [key EXCEPT ![w] = k]
      BY <1>5 DEF Check
    <2>3. Stored' = Stored
      BY <2>1 DEF Stored
    <2>4. pc' \in [Workers -> Points] /\ \A v \in Workers : pc'[v] = IF v = w THEN "checkM" ELSE pc[v]
      BY <1>1, <2>1 DEF Goto, Points
    <2>5. key' \in [Workers -> hashes] /\ \A v \in Workers : v # w => key'[v] = key[v]
      BY <1>1, <2>2
    <2>6. /\ since' = [v \in Workers |-> since'[v]]
          /\ \A v \in Workers : since'[v] = IF v = w THEN Stored ELSE since[v]
      BY <1>1, <2>1
    <2>7. Moved'
      BY <1>1, <2>1, <2>4, <2>5, <2>6 DEF Moved
    <2>8. SetInv'
      BY <1>1, <2>1, <2>3, <2>4, <2>5, <2>6, <2>7 DEF SetInv
    <2>9. Seen!Goto(w, "idle", "checking")
      BY <1>1, <1>4, <2>1, DoingByPoint
    <2>10. k \in Keys
      BY <1>1
    <2>11. Seen!Check(w)
      BY <2>1, <2>2, <2>3, <2>9, <2>10 DEF Seen!Check
    <2>12. QED
      BY <2>8, <2>11
  <1>6. CASE CheckM(w)
    <2>1. UNCHANGED <<hashes, tree, file, key, since>>
      BY <1>6 DEF CheckM
    <2>2. CASE Get(tree, key[w])
      <3>1. Goto(w, "checkM", "idle")
        BY <1>6, <2>2 DEF CheckM
      <3>2. SetInv' /\ Stored' = Stored
        BY <2>1, <3>1, Looking DEF Points
      <3>3. Seen!Goto(w, "checking", "idle")
        BY <1>1, <1>4, <3>1, DoingByPoint
      <3>4. Seen!Like(key[w])
        BY <1>3, <2>2 DEF Seen!Like, Stored
      <3>5. Seen!Known(w)
        BY <2>1, <3>2, <3>3, <3>4 DEF Seen!Known
      <3>6. QED
        BY <3>2, <3>5
    <2>3. CASE ~Get(tree, key[w])
      <3>1. Goto(w, "checkM", "checkF")
        BY <1>6, <2>3 DEF CheckM
      <3>2. key[w] \in since[w] => key[w] \in file
        BY <1>1, <1>3, <2>3 DEF Stored
      <3>3. SetInv' /\ Stored' = Stored
        BY <2>1, <3>1, <3>2, Looking DEF Points
      <3>4. SeenSetDoing' = SeenSetDoing
        BY <1>1, <1>4, <3>1, DoingByPoint
      <3>5. UNCHANGED Seen!vars
        BY <2>1, <3>3, <3>4 DEF Seen!vars
      <3>6. QED
        BY <3>3, <3>5
    <2>4. QED
      BY <2>2, <2>3
  <1>7. CASE CheckF(w)
    <2>1. UNCHANGED <<hashes, tree, file, key, since>>
      BY <1>7 DEF CheckF
    <2>2. CASE key[w] \in file
      <3>1. Goto(w, "checkF", "idle")
        BY <1>7, <2>2 DEF CheckF
      <3>2. SetInv' /\ Stored' = Stored
        BY <2>1, <3>1, Looking DEF Points
      <3>3. Seen!Goto(w, "checking", "idle")
        BY <1>1, <1>4, <3>1, DoingByPoint
      <3>4. Same(key[w], key[w])
        BY <1>1, <1>2, SameAsItself DEF Same
      <3>5. Seen!Like(key[w])
        BY <2>2, <3>4 DEF Seen!Like, Stored
      <3>6. Seen!Known(w)
        BY <2>1, <3>2, <3>3, <3>5 DEF Seen!Known
      <3>7. QED
        BY <3>2, <3>6
    <2>3. CASE key[w] \notin file
      <3>1. Goto(w, "checkF", "add")
        BY <1>7, <2>3 DEF CheckF
      <3>2. SetInv' /\ Stored' = Stored
        BY <2>1, <3>1, Looking DEF Points
      <3>3. Seen!Goto(w, "checking", "adding")
        BY <1>1, <1>4, <3>1, DoingByPoint
      <3>4. key[w] \notin since[w]
        BY <1>1, <2>3, <3>1 DEF Moved, Goto
      <3>5. Seen!Unknown(w)
        BY <2>1, <3>2, <3>3, <3>4 DEF Seen!Unknown
      <3>6. QED
        BY <3>2, <3>5
    <2>4. QED
      BY <2>2, <2>3
  <1>8. CASE Add(w)
    <2>1. UNCHANGED <<hashes, tree, file, key, since>>
      BY <1>8 DEF Add
    <2>2. Goto(w, "add", "write2file") \/ Goto(w, "add", "set")
      BY <1>8 DEF Add
    <2>3. SetInv' /\ Stored' = Stored
      BY <2>1, <2>2, Looking DEF Points
    <2>4. SeenSetDoing' = SeenSetDoing
      BY <1>1, <1>4, <2>2, DoingByPoint
    <2>5. UNCHANGED Seen!vars
      BY <2>1, <2>3, <2>4 DEF Seen!vars
    <2>6. QED
      BY <2>3, <2>5
  <1>9. CASE Write2File(w)
    <2>1. Goto(w, "write2file", "set") /\ UNCHANGED <<hashes, key, since>>
      BY <1>9 DEF Write2File
    <2>2. SeenSetDoing' = SeenSetDoing
      BY <1>1, <1>4, <2>1, DoingByPoint
    <2>3. pc' \in [Workers -> Points] /\ \A v \in Workers : pc'[v] = IF v = w THEN "set" ELSE pc[v]
      BY <1>1, <2>1 DEF Goto, Points
    <2>4. \/ tree' = EmptyTree /\ file' = file \cup Names(tree)
          \/ tree' = tree /\ file' = file
      BY <1>3, <1>9 DEF Write2File
    <2>5. Holds(tree', hashes) /\ Stored' = Stored
      <3>1. Holds(EmptyTree, hashes) /\ Names(EmptyTree) = {}
        BY EmptyHolds
      <3>2. QED
        BY <1>1, <2>4, <3>1 DEF Stored
    <2>6. Moved'
      BY <1>1, <2>1, <2>3, <2>4 DEF Moved
    <2>7. SetInv'
      BY <1>1, <2>1, <2>3, <2>5, <2>6 DEF SetInv
    <2>8. UNCHANGED Seen!vars
      BY <2>1, <2>2, <2>5 DEF Seen!vars
    <2>9. QED
      BY <2>7, <2>8
  <1>10. CASE SetInTree(w)
    <2>1. Goto(w, "set", "idle") /\ tree' = Set(tree, key[w]) /\ UNCHANGED <<hashes, file, key, since>>
      BY <1>10 DEF SetInTree
    <2>2. Seen!Goto(w, "adding", "idle")
      BY <1>1, <1>4, <2>1, DoingByPoint
    <2>3. pc' \in [Workers -> Points] /\ \A v \in Workers : pc'[v] = IF v = w THEN "idle" ELSE pc[v]
      BY <1>1, <2>1 DEF Goto, Points
    <2>4. /\ Holds(tree', hashes)
          /\ \/ Names(tree') = Names(tree) \cup {key[w]}
             \/ Names(tree') = Names(tree) /\ \E s \in Names(tree) : Same(key[w], s)
      <3>1. PICK k \in hashes : k = key[w]
        BY <1>2
      <3>2. /\ Holds(Set(tree, k), hashes)
            /\ \/ Names(Set(tree, k)) = Names(tree) \cup {k}
               \/ Names(Set(tree, k)) = Names(tree) /\ \E s \in Names(tree) : Same(k, s)
        BY <1>1, SetHolds
      <3>3. QED
        BY <2>1, <3>1, <3>2
    <2>5. \/ Stored' = Stored \cup {key[w]}
          \/ Stored' = Stored /\ Seen!Like(key[w])
      BY <2>1, <2>4 DEF Stored, Seen!Like
    <2>6. Moved'
      BY <1>1, <2>1, <2>3 DEF Moved
    <2>7. \A v \in Workers : since'[v] \subseteq Stored'
      BY <1>1, <2>1, <2>5
    <2>8. SetInv'
      BY <1>1, <2>1, <2>3, <2>4, <2>6, <2>7 DEF SetInv
    <2>9. Seen!Add(w)
      BY <2>1, <2>2, <2>5 DEF Seen!Add
    <2>10. QED
      BY <2>8, <2>9
  <1>11. QED
    BY <1>5, <1>6, <1>7, <1>8, <1>9, <1>10 DEF Proceed

(* So does each step of the specification.                                       *)
LEMMA NextSet == SetInv /\ [Next]_vars => SetInv' /\ [Seen!Next]_(Seen!vars)
  <1> SUFFICES ASSUME SetInv, [Next]_vars
               PROVE  SetInv' /\ [Seen!Next]_(Seen!vars)
    OBVIOUS
  <1>1. CASE Next
    <2>1. PICK w \in Workers : Check(w) \/ Proceed(w)
      BY <1>1 DEF Next
    <2>2. SetInv' /\ (Seen!Check(w) \/ Seen!Known(w) \/ Seen!Unknown(w) \/ Seen!Add(w) \/ UNCHANGED Seen!vars)
      BY <2>1, StepSet
    <2>3. QED
      BY <2>2 DEF Seen!Next
  <1>2. CASE UNCHANGED vars
    <2>1. UNCHANGED <<hashes, tree, file, pc, key, since>>
      BY <1>2 DEF vars
    <2>2. Stored' = Stored /\ SeenSetDoing' = SeenSetDoing /\ Moved' = Moved
      BY <2>1 DEF Stored, SeenSetDoing, Moved
    <2>3. QED
      BY <2>1, <2>2 DEF SetInv, Seen!vars
  <1>3. QED
    BY <1>1, <1>2

(* The tree in memory and the B-tree file together are one set of hashes: a hash *)
(* that was added is found, whatever was rotated, emptied or looked up meanwhile *)
(* by others, and only one like it is taken for it.                              *)
THEOREM StoresAreOneSet == Spec => ImplementsSeenSet
  <1>1. QED
    BY InitSet, NextSet, PTL DEF Spec, ImplementsSeenSet, Seen!Spec
=============================================================================
