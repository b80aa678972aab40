-------------------------------- MODULE AVLTree --------------------------------
(* The tree in memory (avl_tree.h) as the class env of avl_ex1.cpp instantiates  *)
(* it.  Two things there are not what the template expects, and make this no AVL *)
(* tree: set_bf is empty and get_bf returns the node's name cut to an int, so    *)
(* that a subtree is rotated when the name says so and never for its depth; and  *)
(* the comparison cuts the difference of two names to an int, so that names with *)
(* the same low word are equal and the order of the others goes round.           *)
(*                                                                               *)
(* A handle is the position of a node in nodes, 0 the null pointer; following    *)
(* that is an error of the evaluation.                                           *)
EXTENDS Integers, Sequences, FiniteSets

CONSTANT IntHalf   \* half the values that an int can have (2^31)

ASSUME AVLAssumption == IntHalf \in Nat \ {0}

(* The value an integer has when it is cut to an int.                            *)
AsInt(x) == ((x + IntHalf) % (2 * IntHalf)) - IntHalf

Cmp(a, b) == AsInt(a - b)
Same(a, b) == Cmp(a, b) = 0

EmptyTree == [root |-> 0, nodes |-> <<>>]

Names(t) == {t.nodes[h].name : h \in 1 .. Len(t.nodes)}

Side(k, node)  == IF Cmp(k, node.name) < 0 THEN "lt" ELSE "gt"
Other(side)    == IF side = "lt" THEN "gt" ELSE "lt"

(* The nodes on the way from h, where next says which one comes after each; no   *)
(* way is longer than there are nodes.                                           *)
Walk(next, h) ==
  LET at[i \in 0 .. Len(next)] ==
        IF i = 0 THEN h ELSE IF at[i - 1] = 0 THEN 0 ELSE next[at[i - 1]]
  IN  [i \in {j \in 1 .. Len(next) : at[j - 1] # 0} |-> at[i - 1]]

(* The nodes a search for k visits, from the root down.                          *)
Path(t, k) ==
  Walk([h \in 1 .. Len(t.nodes) |-> IF Same(k, t.nodes[h].name) THEN 0
                                    ELSE t.nodes[h][Side(k, t.nodes[h])]], t.root)

Search(t, k) == LET path == Path(t, k)
                    last == IF path = <<>> THEN 0 ELSE path[Len(path)]
                IN  IF last # 0 /\ Same(k, t.nodes[last].name) THEN last ELSE 0

(* env::get, as the test its callers make of it: values are never 0.             *)
Get(t, k) == Search(t, k) # 0

-----------------------------------------------------------------------------
(* balance rotates the subtree at b towards the side its "factor" names.         *)
Balance(nodes, b) ==
  LET side == IF AsInt(nodes[b].name) > 0 THEN "gt" ELSE "lt"
      back == Other(side)
      deep == nodes[b][side]
      bf   == AsInt(nodes[deep].name)
      mid  == nodes[deep][back]
  IN  IF (side = "gt" /\ bf < 0) \/ (side = "lt" /\ bf > 0)
      THEN [nodes |-> [nodes EXCEPT ![b][side] = nodes[mid][back],
                                    ![deep][back] = nodes[mid][side],
                                    ![mid][back] = b, ![mid][side] = deep],
            top   |-> mid]
      ELSE [nodes |-> [nodes EXCEPT ![b][side] = mid, ![deep][back] = b],
            top   |-> deep]

(* The last node of the path whose factor is not 0, and the factor the insertion *)
(* would give it: 2 or -2 has it rotated.                                        *)
Unbalanced(nodes, path) ==
  {i \in 1 .. Len(path) : /\ AsInt(nodes[path[i]].name) # 0
                          /\ \A j \in i + 1 .. Len(path) : AsInt(nodes[path[j]].name) = 0}

MustRotate(nodes, b, k) ==
  AsInt(nodes[b].name) + (IF Cmp(k, nodes[b].name) < 0 THEN -1 ELSE 1) \in {-2, 2}

Link(nodes, parent, k, child) == [nodes EXCEPT ![parent][Side(k, nodes[parent])] = child]

(* insert, of a name that search has not found.                                  *)
Insert(t, k) ==
  LET path   == Path(t, k)
      new    == Len(t.nodes) + 1
      leaf   == [name |-> k, lt |-> 0, gt |-> 0]
      added  == Append(Link(t.nodes, path[Len(path)], k, new), leaf)
      Rotated(i) ==
        LET turned == Balance(added, path[i])
        IN  IF i = 1 THEN [root |-> turned.top, nodes |-> turned.nodes]
            ELSE [root  |-> t.root,
                  nodes |-> Link(turned.nodes, path[i - 1], k, turned.top)]
      due == {i \in Unbalanced(t.nodes, path) : MustRotate(t.nodes, path[i], k)}
  IN  IF path = <<>> THEN [root |-> new, nodes |-> <<leaf>>]
      ELSE IF due = {} THEN [root |-> t.root, nodes |-> added]
      ELSE Rotated(CHOOSE i \in due : TRUE)

(* env::set with the value 1: a node with the same low word keeps its name.      *)
Set(t, k) == IF Search(t, k) # 0 THEN t ELSE Insert(t, k)

-----------------------------------------------------------------------------
(* An iterator is the path from the root to a node; "greater" says which branch  *)
(* led to the node.  start_iter_least goes down the lesser branches.             *)
Down(t, h, greater) ==
  LET way == Walk([n \in 1 .. Len(t.nodes) |-> t.nodes[n].lt], h)
  IN  [i \in DOMAIN way |-> [node |-> way[i], greater |-> greater /\ i = 1]]

(* Goes back up one branch too few: a greater one is not skipped.                *)
AdvanceFault(t, it) ==
  LET gt == t.nodes[it[Len(it)].node].gt
  IN  IF gt # 0 THEN it \o Down(t, gt, TRUE)
      ELSE LET ups == {m \in 0 .. Len(it) - 1 : m = 0 \/ it[m + 1].greater = it[Len(it)].greater}
           IN  SubSeq(it, 1, CHOOSE m \in ups : \A n \in ups : n <= m)

(* operator++: down into the greater subtree, or up past the greater branches.   *)
Advance(t, it) ==
  LET gt  == t.nodes[it[Len(it)].node].gt
      ups == {m \in 0 .. Len(it) - 1 : m = 0 \/ ~it[m + 1].greater}
  IN  IF gt # 0 THEN it \o Down(t, gt, TRUE)
      ELSE SubSeq(it, 1, CHOOSE m \in ups : \A n \in ups : n <= m)

(* clearself(q): the names in the order the iterator meets them.                 *)
Clearself(t) ==
  LET its[i \in 0 .. Len(t.nodes)] ==
        IF i = 0 THEN Down(t, t.root, FALSE)
        ELSE IF its[i - 1] = <<>> THEN <<>> ELSE Advance(t, its[i - 1])
      steps == {i \in 1 .. Len(t.nodes) : its[i - 1] # <<>>}
  IN  [i \in steps |-> LET it == its[i - 1] IN t.nodes[it[Len(it)].node].name]
=============================================================================
