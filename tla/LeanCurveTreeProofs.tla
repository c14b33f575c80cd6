------------------------- MODULE LeanCurveTreeProofs -------------------------
(***************************************************************************)
(* LeanCurveTree forgets every subtree once it is full and every leaf at   *)
(* once, yet it always commits to all of them: for every arity, height and *)
(* number of insertions.                                                   *)
(***************************************************************************)
EXTENDS LeanCurveTree, CurveTreeNodesProofs

USE LAssumption, HeightAssumption, MaxInsertsAssumption

-----------------------------------------------------------------------------
(* The loop of insert, one level at a time.                                *)
LEMMA UpdateUpwardsDef ==
  ASSUME NEW nodes, NEW leaf, NEW n
  PROVE  UpdateUpwards(nodes, leaf, n)
           = [i \in Levels |->
                update_node(Position(n, i), nodes[i],
                            IF i = 0 THEN leaf ELSE UpdateUpwards(nodes, leaf, n)[i - 1].commitment,
                            default_nodes[i].x_coord)]
<1> DEFINE Eq(g, i) == update_node(Position(n, i), nodes[i],
                                   IF i = 0 THEN leaf ELSE g[i - 1].commitment,
                                   default_nodes[i].x_coord)
           Part(g, q) == g = [i \in 0 .. q |-> Eq(g, i)]
           Good == {q \in 0 .. Root : \E g : Part(g, q)}
<1>0. Root \in Nat /\ Levels = 0 .. Root
  BY DEF Root, Levels
<1>1. 0 \in Good
  <2> DEFINE first == update_node(Position(n, 0), nodes[0], leaf, default_nodes[0].x_coord)
             g == [i \in 0 .. 0 |-> first]
  <2>1. Part(g, 0)
    <3> HIDE DEF first
    <3>1. \A i \in 0 .. 0 : g[i] = first /\ Eq(g, i) = first
      BY DEF first
    <3> HIDE DEF Eq
    <3> QED BY <3>1
  <2> HIDE DEF Part, g
  <2> QED BY <1>0, <2>1
<1>2. ASSUME NEW q \in 0 .. Root, q > 0, q - 1 \in Good PROVE q \in Good
  <2>1. PICK g : Part(g, q - 1)
    BY <1>2
  <2> DEFINE top == update_node(Position(n, q), nodes[q], g[q - 1].commitment,
                                default_nodes[q].x_coord)
             h == [i \in 0 .. q |-> IF i < q THEN g[i] ELSE top]
  <2>2. ASSUME NEW i \in 0 .. q PROVE h[i] = Eq(h, i)
    <3>1. CASE i = q
      <4> HIDE DEF top
      <4>1. h[q] = top /\ h[q - 1] = g[q - 1]
        BY <1>0, <1>2
      <4> HIDE DEF h
      <4> QED BY <3>1, <4>1, <1>2 DEF top
    <3>2. CASE i # q
      <4> HIDE DEF top
      <4>1. i \in 0 .. q - 1 /\ h[i] = g[i] /\ (i > 0 => h[i - 1] = g[i - 1])
        BY <3>2, <1>0, <1>2
      <4> HIDE DEF h
      <4>2. g[i] = Eq(g, i)
        <5> HIDE DEF Eq
        <5> QED BY <4>1, <2>1
      <4> QED BY <4>1, <4>2
    <3> QED BY <3>1, <3>2
  <2>3. Part(h, q)
    <3> HIDE DEF Eq, top
    <3> QED BY <2>2
  <2> HIDE DEF Part, h
  <2> QED BY <2>3
<1>3. Root \in Good
  <2> HIDE DEF Good
  <2> QED BY <1>0, <1>1, <1>2, SegmentInduction
<1>4. \E g : g = [i \in Levels |-> Eq(g, i)]
  <2> HIDE DEF Eq
  <2> QED BY <1>0, <1>3
<1> QED BY <1>4 DEF UpdateUpwards

-----------------------------------------------------------------------------
(* A node without children is the node of the tree over any subtree that   *)
(* holds no leaf yet.                                                      *)
LEMMA EmptyNodeOver ==
  ASSUME NEW i \in Levels, NEW k \in Nat, NEW some \in Seq(Leaf),
         k * Capacity[i + 1] >= Len(some)
  PROVE  EmptyNode(i) = NodeOver(some, i, k, 0)
<1>1. i + 1 \in 0 .. Height
  BY DEF Levels
<1>2. TreeOver(some)[i + 1][k] = DefaultSubtree[i + 1]
  BY <1>1, EmptySubtree
<1>3. default_nodes[i].commitment = DefaultSubtree[i + 1]
  BY DefaultSubtreeDef DEF default_nodes, combine_default
<1> DEFINE opening == TreeOver(some)[i + 1][k]
<1>4. NodeOver(some, i, k, 0) = OpenedNode(opening, 0)
  BY DEF NodeOver
<1> HIDE DEF opening
<1>5. [j \in 1 .. 0 |-> opening[j - 1]] = <<>>
  OBVIOUS
<1>6. OpenedNode(opening, 0) = [x_coords |-> <<>>, commitment |-> opening]
  BY <1>5 DEF OpenedNode
<1> QED BY <1>2, <1>3, <1>4, <1>6 DEF EmptyNode, opening

(* Nothing lies beyond the path of the last leaf.                          *)
LEMMA NothingBeyond ==
  ASSUME NEW b \in Nat, NEW i \in Levels, NEW s \in Slots, s >= Position(b, i) + 1
  PROVE  (Ancestor(b, i + 1) * L + s) * Capacity[i] >= b + 1
<1> DEFINE c == Capacity[i]
           a == Ancestor(b, i)
           k == Ancestor(b, i + 1) * L + s
<1>1. c \in Nat \ {0}
  BY CapacityFacts DEF Levels
<1>2. a \in Nat /\ Ancestor(b, i + 1) \in Nat /\ Position(b, i) \in Slots
  BY AncestorFacts DEF Levels
<1>3. a = Ancestor(b, i + 1) * L + Position(b, i)
  BY AncestorFacts
<1>4. Ancestor(b, i + 1) * L \in Nat
  BY <1>2, MulNat
<1>5. k \in Nat /\ k >= a + 1
  BY <1>2, <1>3, <1>4 DEF Slots
<1>6. b = c * a + (b % c) /\ b % c \in 0 .. c - 1
  BY <1>1, DivMod DEF Ancestor
<1> HIDE DEF c, a, k
<1>7. c * (a + 1) <= c * k
  BY <1>1, <1>2, <1>5, MulMonotone
<1>8. c * (a + 1) = c * a + c /\ c * k = k * c /\ c * a \in Nat /\ c * k \in Nat
  BY <1>1, <1>2, <1>5, MulNat
<1> QED BY <1>1, <1>6, <1>7, <1>8 DEF c, k

-----------------------------------------------------------------------------
(* Of the kept node of a level, after set_full_subtrees_to_default made    *)
(* room for leaf n: it is the node of the tree on the path of leaf n, and  *)
(* leaf n's child there is either the one changed last or the first that   *)
(* holds no leaf.                                                          *)
Ready(nodes, i, n) ==
  \E m \in {Position(n, i), Position(n, i) + 1} :
    /\ set_full_subtrees_to_default(nodes, n)[i] = NodeOver(leaves, i, Ancestor(n, i + 1), m)
    /\ m = Position(n, i) => Ancestor(n, i) * Capacity[i] >= n

(* What a node of the tree's level i is after the last leaf, when the tree *)
(* is within its capacity.                                                 *)
LEMMA FirstLeafReady ==
  ASSUME TypeOK, \A j \in Levels : NodeMatchesTree(j), next_leaf_index = 0, NEW i \in Levels
  PROVE  Ready(path_nodes, i, 0)
<1>1. i + 1 \in 0 .. Height /\ i \in 0 .. Height
  BY DEF Levels
<1>2. Capacity[i + 1] \in Nat \ {0} /\ Capacity[i] \in Nat \ {0}
  BY <1>1, CapacityFacts
<1>3. Ancestor(0, i + 1) = 0 /\ Ancestor(0, i) = 0 /\ Position(0, i) = 0
  <2>1. \A c \in Nat \ {0} : 0 \div c = 0 /\ 0 % c = 0
    <3> SUFFICES ASSUME NEW c \in Nat \ {0} PROVE 0 \div c = 0 /\ 0 % c = 0
      OBVIOUS
    <3>1. (c * 0 + 0) \div c = 0 /\ (c * 0 + 0) % c = 0
      BY DivUnique
    <3> QED BY <3>1
  <2> QED BY <1>2, <2>1 DEF Ancestor, Position
<1>4. path_nodes[i] = EmptyNode(i)
  BY DEF NodeMatchesTree
<1>5. set_full_subtrees_to_default(path_nodes, 0)[i] = EmptyNode(i)
  <2>1. i # Root => ~ (0 >= children_count[i])
    BY <1>2 DEF children_count
  <2> QED BY <1>4, <2>1 DEF set_full_subtrees_to_default
<1>6. EmptyNode(i) = NodeOver(leaves, i, 0, 0)
  <2>1. 0 * Capacity[i + 1] >= Len(leaves)
    BY <1>2 DEF TypeOK
  <2> QED BY <2>1, EmptyNodeOver DEF TypeOK
<1> QED BY <1>2, <1>3, <1>5, <1>6 DEF Ready

LEMMA NextLeafReady ==
  ASSUME TypeOK, \A j \in Levels : NodeMatchesTree(j), next_leaf_index # 0,
         next_leaf_index < Capacity[Height], NEW i \in Levels
  PROVE  Ready(path_nodes, i, next_leaf_index)
<1> DEFINE n == next_leaf_index
           b == next_leaf_index - 1
<1>1. n \in Nat /\ b \in Nat /\ n = b + 1 /\ leaves \in Seq(Leaf) /\ Len(leaves) = n
  BY DEF TypeOK
<1>2. i \in 0 .. Height /\ i + 1 \in 0 .. Height /\ Root + 1 = Height
  BY DEF Levels, Root
<1>3. path_nodes[i] = NodeOver(leaves, i, Ancestor(b, i + 1), Position(b, i) + 1)
  BY DEF NodeMatchesTree
<1> HIDE DEF n, b
<1>4. /\ Capacity[i] \in Nat \ {0} /\ Capacity[i + 1] \in Nat \ {0}
      /\ Capacity[i + 1] = L * Capacity[i]
  BY <1>2, CapacityFacts
<1>5. /\ Ancestor(n, i) \in Nat /\ Ancestor(b, i) \in Nat
      /\ Ancestor(n, i + 1) \in Nat /\ Ancestor(b, i + 1) \in Nat
      /\ Position(n, i) \in Nat /\ Position(b, i) \in Nat
      /\ Ancestor(n, i) = Ancestor(n, i + 1) * L + Position(n, i)
      /\ Ancestor(b, i) = Ancestor(b, i + 1) * L + Position(b, i)
  <2>1. /\ Ancestor(n, i) \in Nat /\ Ancestor(n, i + 1) \in Nat
        /\ Position(n, i) \in Slots
        /\ Ancestor(n, i) = Ancestor(n, i + 1) * L + Position(n, i)
    BY <1>1, <1>2, AncestorFacts
  <2>2. /\ Ancestor(b, i) \in Nat /\ Ancestor(b, i + 1) \in Nat
        /\ Position(b, i) \in Slots
        /\ Ancestor(b, i) = Ancestor(b, i + 1) * L + Position(b, i)
    BY <1>1, <1>2, AncestorFacts
  <2> QED BY <2>1, <2>2 DEF Slots
<1>6. ASSUME NEW j \in 0 .. Height
      PROVE  IF n % Capacity[j] = 0
             THEN Ancestor(n, j) = Ancestor(b, j) + 1 /\ Ancestor(n, j) * Capacity[j] = n
             ELSE Ancestor(n, j) = Ancestor(b, j)
  BY <1>1, NextLeaf
<1>7. CASE i # Root /\ n % Capacity[i + 1] = 0
  <2> DEFINE k == Ancestor(n, i + 1)
             c == Capacity[i]
  <2>1. k * Capacity[i + 1] = n /\ k \in Nat
    BY <1>2, <1>5, <1>6, <1>7
  <2>2. n >= Capacity[i + 1]
    <3>1. k = Ancestor(b, i + 1) + 1
      BY <1>2, <1>6, <1>7
    <3>2. 1 <= k
      BY <1>5, <3>1
    <3> HIDE DEF k
    <3> DEFINE C == Capacity[i + 1]
    <3>3. C \in Nat /\ k * C = n
      BY <1>4, <2>1
    <3> HIDE DEF C
    <3>4. C * 1 <= C * k
      BY <2>1, <3>2, <3>3, MulMonotone
    <3>5. C * 1 = C /\ C * k = n
      BY <2>1, <3>3
    <3> QED BY <3>3, <3>4, <3>5, <1>1 DEF C
  <2>3. set_full_subtrees_to_default(path_nodes, n)[i] = EmptyNode(i)
    BY <1>7, <2>2 DEF set_full_subtrees_to_default, children_count
  <2>4. EmptyNode(i) = NodeOver(leaves, i, k, 0)
    <3>1. k * Capacity[i + 1] >= Len(leaves)
      BY <1>1, <2>1
    <3> HIDE DEF k
    <3> QED BY <1>1, <2>1, <3>1, EmptyNodeOver
  <2>5. Ancestor(n, i) = L * k /\ Position(n, i) = 0 /\ Ancestor(n, i) * c = n
    <3> HIDE DEF k, c
    <3>0. c \in Nat \ {0} /\ Capacity[i + 1] = L * c
      BY <1>4 DEF c
    <3>1. L * k \in Nat
      BY <2>1, MulNat
    <3>2. c * (L * k) = n
      BY <2>1, <3>0
    <3>3. (c * (L * k) + 0) \div c = L * k
      <4> DEFINE q == L * k
      <4>1. q \in Nat /\ c \in Nat \ {0} /\ 0 \in 0 .. c - 1
        BY <3>0, <3>1
      <4> HIDE DEF q
      <4>2. (c * q + 0) \div c = q
        BY <4>1, DivUnique
      <4> QED BY <4>2 DEF q
    <3>4. Ancestor(n, i) = L * k
      BY <1>1, <3>2, <3>3 DEF Ancestor, c
    <3>5. (L * k + 0) % L = 0
      BY <2>1, DivUnique
    <3>6. Position(n, i) = 0
      BY <3>1, <3>4, <3>5 DEF Position
    <3>7. (L * k) * c = n
      BY <3>0, <3>1, <3>2
    <3> QED BY <3>4, <3>6, <3>7
  <2> QED BY <1>1, <2>3, <2>4, <2>5 DEF Ready, n
<1>8. CASE ~ (i # Root /\ n % Capacity[i + 1] = 0)
  <2>1. set_full_subtrees_to_default(path_nodes, n)[i] = path_nodes[i]
    BY <1>8 DEF set_full_subtrees_to_default, children_count
  <2>2. Ancestor(n, i + 1) = Ancestor(b, i + 1)
    <3>1. CASE i = Root
      <4>1. n < Capacity[Height] /\ b < Capacity[Height]
        <5>1. Capacity[Height] \in Nat
          BY CapacityFacts
        <5> QED BY <1>1, <5>1 DEF n
      <4> QED BY <1>1, <1>2, <3>1, <4>1, AncestorFacts
    <3>2. CASE i # Root
      BY <1>2, <1>6, <1>8, <3>2
    <3> QED BY <3>1, <3>2
  <2>3. IF n % Capacity[i] = 0
        THEN Position(n, i) = Position(b, i) + 1 /\ Ancestor(n, i) * Capacity[i] = n
        ELSE Position(n, i) = Position(b, i)
    <3> DEFINE kL == Ancestor(b, i + 1) * L
    <3>1. kL \in Nat
      BY <1>5, MulNat
    <3>2. Ancestor(n, i) = kL + Position(n, i) /\ Ancestor(b, i) = kL + Position(b, i)
      BY <1>5, <2>2
    <3> HIDE DEF kL
    <3> QED BY <1>2, <1>5, <1>6, <3>1, <3>2
  <2> DEFINE m == Position(b, i) + 1
  <2>4. set_full_subtrees_to_default(path_nodes, n)[i] = NodeOver(leaves, i, Ancestor(n, i + 1), m)
    BY <1>3, <2>1, <2>2
  <2>5. m \in {Position(n, i), Position(n, i) + 1}
    BY <2>3
  <2>6. m = Position(n, i) => Ancestor(n, i) * Capacity[i] >= n
    BY <1>1, <1>5, <2>3
  <2> QED BY <2>4, <2>5, <2>6 DEF Ready, n
<1> QED BY <1>7, <1>8

-----------------------------------------------------------------------------
(* The loop then turns every level into the node of the tree with the leaf *)
(* appended, from the bottom up.                                           *)
LEMMA UpdateUpwardsOver ==
  ASSUME NEW leaf \in Leaf, leaves \in Seq(Leaf), NEW n, n = Len(leaves),
         NEW nodes, \A j \in Levels : Ready(nodes, j, n), NEW i \in Levels
  PROVE  UpdateUpwards(set_full_subtrees_to_default(nodes, n), leaf, n)[i]
           = NodeOver(Append(leaves, leaf), i, Ancestor(n, i + 1), Position(n, i) + 1)
<1> DEFINE ready == set_full_subtrees_to_default(nodes, n)
           new == UpdateUpwards(ready, leaf, n)
           grown == Append(leaves, leaf)
           Want(j) == NodeOver(grown, j, Ancestor(n, j + 1), Position(n, j) + 1)
           Good == {j \in Levels : new[j] = Want(j)}
<1>1. Root \in Nat /\ Levels = 0 .. Root /\ n \in Nat
  BY DEF Root, Levels
<1>2. ASSUME NEW j \in Levels,
             (IF j = 0 THEN leaf ELSE new[j - 1].commitment) = TreeOver(grown)[j][Ancestor(n, j)]
      PROVE  new[j] = Want(j)
  <2>1. new[j] = update_node(Position(n, j), ready[j],
                             IF j = 0 THEN leaf ELSE new[j - 1].commitment,
                             default_nodes[j].x_coord)
    <3> HIDE DEF ready
    <3> DEFINE Eq(f, q) == update_node(Position(n, q), ready[q],
                                       IF q = 0 THEN leaf ELSE f[q - 1].commitment,
                                       default_nodes[q].x_coord)
    <3>1. new = [q \in Levels |-> Eq(new, q)]
      BY UpdateUpwardsDef
    <3> HIDE DEF new, Eq
    <3>2. new[j] = Eq(new, j)
      BY <3>1
    <3> QED BY <3>2 DEF Eq
  <2>2. PICK m \in {Position(n, j), Position(n, j) + 1} :
          /\ ready[j] = NodeOver(leaves, j, Ancestor(n, j + 1), m)
          /\ m = Position(n, j) => Ancestor(n, j) * Capacity[j] >= n
    BY DEF Ready
  <2> HIDE DEF ready, new
  <2>3. new[j] = update_node(Position(n, j), NodeOver(leaves, j, Ancestor(n, j + 1), m),
                             TreeOver(grown)[j][Ancestor(n, j)], default_nodes[j].x_coord)
    BY <1>2, <2>1, <2>2
  <2> QED BY <2>2, <2>3, UpdateNodeOver
<1>3. 0 \in Good
  <2>1. TreeOver(grown)[0][Ancestor(n, 0)] = leaf
    <3>1. Ancestor(n, 0) = n
      BY <1>1, AncestorFacts
    <3>2. LeafRow(grown)[n] = leaf
      BY AppendProperties, <1>1 DEF LeafRow
    <3> QED BY <3>1, <3>2, TreeOverDef
  <2> HIDE DEF new, Want, grown
  <2>2. 0 \in Levels
    BY <1>1
  <2> QED BY <1>2, <2>1, <2>2
<1>4. ASSUME NEW j \in 0 .. Root, j > 0, j - 1 \in Good PROVE j \in Good
  <2>1. j \in Levels /\ j - 1 \in Levels /\ (j - 1) + 1 = j /\ j # 0
    BY <1>1, <1>4
  <2>2. new[j - 1] = Want(j - 1)
    BY <1>4
  <2>3. new[j - 1].commitment = TreeOver(grown)[j][Ancestor(n, j)]
    <3> HIDE DEF new, grown
    <3> QED BY <2>1, <2>2 DEF NodeOver, OpenedNode
  <2> HIDE DEF new, Want, grown
  <2> QED BY <1>2, <2>1, <2>3
<1>5. \A j \in 0 .. Root : j \in Good
  <2> HIDE DEF Good
  <2> QED BY <1>1, <1>3, <1>4, SegmentInduction
<1> QED BY <1>1, <1>5

-----------------------------------------------------------------------------
(* TypeOK is inductive by itself, over-filled tree included.               *)
LEMMA UpdatedNodeType ==
  ASSUME NEW node, NEW p \in Slots, NEW child, NEW d,
         IsNode(node)
  PROVE  IsNode(update_node(p, node, child, d))
<1> DEFINE new == update_node(p, node, child, d)
           x == X(child)
           kept == node.x_coords
           m == Len(kept)
<1>1. kept = [j \in 1 .. m |-> kept[j]] /\ m \in 0 .. L
  BY DEF IsNode, IsVec
<1>2. new.x_coords = IF p < m THEN [kept EXCEPT ![p + 1] = x] ELSE Append(kept, x)
  BY DEF update_node
<1>3. DOMAIN new.commitment = Slots
  BY DEF update_node, IsNode
<1> HIDE DEF new, x, kept, m
<1>4. CASE p < m
  <2>1. new.x_coords = [j \in 1 .. m |-> IF j = p + 1 THEN x ELSE kept[j]]
    BY <1>1, <1>2, <1>4 DEF Slots
  <2>2. Len(new.x_coords) = m
    BY <1>1, <2>1
  <2>3. IsVec(new.x_coords)
    BY <1>1, <2>1, <2>2 DEF IsVec
  <2> QED BY <1>1, <1>3, <2>2, <2>3 DEF new, IsNode
<1>5. CASE ~ (p < m)
  <2> DEFINE f(j) == IF j = m + 1 THEN x ELSE kept[j]
  <2>1. new.x_coords = [j \in 1 .. m + 1 |-> f(j)]
    <3>1. Len([j \in 1 .. m |-> kept[j]]) = m
      BY <1>1
    <3>2. Append([j \in 1 .. m |-> kept[j]], x) = [j \in 1 .. m + 1 |-> f(j)]
      BY <1>1, <3>1
    <3> QED BY <1>1, <1>2, <1>5, <3>2
  <2> HIDE DEF f
  <2>2. Len(new.x_coords) = m + 1
    BY <1>1, <2>1
  <2>3. IsVec(new.x_coords)
    BY <1>1, <2>1, <2>2 DEF IsVec
  <2>4. m + 1 \in 0 .. L
    BY <1>1, <1>5 DEF Slots
  <2> QED BY <1>3, <2>2, <2>3, <2>4 DEF new, IsNode
<1> QED BY <1>4, <1>5

LEMMA TypeInit == Init => TypeOK
<1> SUFFICES ASSUME Init PROVE TypeOK
  OBVIOUS
<1>1. ASSUME NEW i \in Levels
      PROVE  /\ path_nodes[i].x_coords = <<>>
             /\ DOMAIN path_nodes[i].commitment = Slots
  BY DEF Init, EmptyNode, default_nodes, combine_default
<1>2. IsVec(<<>>)
  BY DEF IsVec
<1> QED BY <1>1, <1>2 DEF Init, TypeOK, IsNode

LEMMA TypeStep == TypeOK /\ [Next]_vars => TypeOK'
<1> SUFFICES ASSUME TypeOK, [Next]_vars PROVE TypeOK'
  OBVIOUS
<1>1. CASE UNCHANGED <<next_leaf_index, path_nodes, leaves>>
  BY <1>1 DEF TypeOK, IsNode, IsVec
<1>2. ASSUME NEW leaf \in Leaf, AddLeaf(leaf) PROVE TypeOK'
  <2> DEFINE n == next_leaf_index
             ready == set_full_subtrees_to_default(path_nodes, n)
             new == UpdateUpwards(ready, leaf, n)
             below(i) == IF i = 0 THEN leaf ELSE new[i - 1].commitment
  <2>1. n \in Nat /\ n < MaxInserts /\ path_nodes' = new /\ next_leaf_index' = n + 1
    BY <1>2 DEF AddLeaf, TypeOK
  <2>2. next_leaf_index' \in 0 .. MaxInserts
    BY <2>1
  <2>3. leaves' \in Seq(Leaf) /\ Len(leaves') = next_leaf_index'
    BY <1>2 DEF AddLeaf, TypeOK
  <2>4. ASSUME NEW i \in Levels PROVE IsNode(ready[i])
    <3>1. /\ EmptyNode(i).x_coords = <<>>
          /\ DOMAIN EmptyNode(i).commitment = Slots
      BY DEF EmptyNode, default_nodes, combine_default
    <3>2. IsNode(EmptyNode(i))
      BY <3>1 DEF IsNode, IsVec
    <3>3. ready[i] = EmptyNode(i) \/ ready[i] = path_nodes[i]
      BY DEF set_full_subtrees_to_default
    <3> QED BY <3>2, <3>3 DEF TypeOK
  <2>5. DOMAIN new = Levels
    BY UpdateUpwardsDef
  <2>6. ASSUME NEW i \in Levels
        PROVE  new[i] = update_node(Position(n, i), ready[i], below(i), default_nodes[i].x_coord)
    <3> HIDE DEF ready
    <3> DEFINE Eq(f, q) == update_node(Position(n, q), ready[q],
                                       IF q = 0 THEN leaf ELSE f[q - 1].commitment,
                                       default_nodes[q].x_coord)
    <3>1. new = [q \in Levels |-> Eq(new, q)]
      BY UpdateUpwardsDef
    <3> HIDE DEF new, Eq
    <3>2. new[i] = Eq(new, i)
      BY <3>1
    <3> QED BY <3>2 DEF Eq
  <2>7. ASSUME NEW i \in Levels PROVE IsNode(new[i])
    <3>1. Position(n, i) \in Slots
      BY <2>1, AncestorFacts DEF Levels
    <3> HIDE DEF new, ready, below, n
    <3> QED BY <3>1, <2>4, <2>6, UpdatedNodeType
  <2>8. DOMAIN path_nodes' = Levels
    BY <2>1, <2>5
  <2> HIDE DEF new
  <2>9. (\A i \in Levels : IsNode(path_nodes[i]))'
    BY <2>1, <2>7 DEF IsNode, IsVec
  <2> QED BY <2>2, <2>3, <2>8, <2>9 DEF TypeOK
<1> QED BY <1>1, <1>2 DEF Next, vars, insert, insert_and_return_path, path_for_last_added_leaf

-----------------------------------------------------------------------------
(* The inductive invariant.  FrontierMatchesTree alone is not inductive:   *)
(* its step needs to know how many leaves there are.                       *)
IInv == TypeOK /\ FrontierMatchesTree

LEMMA InvariantInit == Init => IInv
BY TypeInit DEF Init, IInv, FrontierMatchesTree, NodeMatchesTree

LEMMA InvariantStep == IInv /\ [Next]_vars => IInv'
<1> SUFFICES ASSUME IInv, [Next]_vars PROVE IInv'
  OBVIOUS
<1>1. TypeOK /\ TypeOK'
  BY TypeStep DEF IInv
<1>2. CASE UNCHANGED <<next_leaf_index, path_nodes, leaves>>
  BY <1>1, <1>2 DEF IInv, FrontierMatchesTree, WithinCapacity, NodeMatchesTree
<1>3. ASSUME NEW leaf \in Leaf, AddLeaf(leaf), WithinCapacity', NEW i \in Levels
      PROVE  NodeMatchesTree(i)'
  <2> DEFINE n == next_leaf_index
  <2>1. n \in Nat /\ next_leaf_index' = n + 1 /\ leaves' = Append(leaves, leaf)
    BY <1>1, <1>3 DEF AddLeaf, TypeOK
  <2>2. n < Capacity[Height] /\ WithinCapacity
    <3>1. Capacity[Height] \in Nat
      BY CapacityFacts
    <3> QED BY <1>3, <2>1, <3>1 DEF WithinCapacity
  <2>3. \A j \in Levels : NodeMatchesTree(j)
    BY <2>2 DEF IInv, FrontierMatchesTree
  <2>4. \A j \in Levels : Ready(path_nodes, j, n)
    BY <1>1, <2>2, <2>3, FirstLeafReady, NextLeafReady
  <2>5. path_nodes'[i] = NodeOver(Append(leaves, leaf), i, Ancestor(n, i + 1), Position(n, i) + 1)
    <3>1. leaves \in Seq(Leaf) /\ n = Len(leaves)
      BY <1>1 DEF TypeOK
    <3>2. path_nodes' = UpdateUpwards(set_full_subtrees_to_default(path_nodes, n), leaf, n)
      BY <1>3 DEF AddLeaf
    <3> HIDE DEF n
    <3> QED BY <2>4, <3>1, <3>2, UpdateUpwardsOver
  <2>6. next_leaf_index' # 0 /\ next_leaf_index' - 1 = n
    BY <2>1
  <2> QED BY <2>1, <2>5, <2>6 DEF NodeMatchesTree
<1>4. ASSUME NEW leaf \in Leaf, AddLeaf(leaf) PROVE FrontierMatchesTree'
  BY <1>3, <1>4 DEF FrontierMatchesTree
<1> QED BY <1>1, <1>2, <1>4
        DEF IInv, Next, vars, insert, insert_and_return_path, path_for_last_added_leaf

(* The kept nodes are those of the complete tree over all leaves.          *)
THEOREM FrontierTheorem == Spec => []FrontierMatchesTree
<1>1. IInv => FrontierMatchesTree
  BY DEF IInv
<1> QED BY <1>1, InvariantInit, InvariantStep, PTL DEF Spec

(* The state is well-typed in every reachable state, past the capacity too. *)
THEOREM TypeTheorem == Spec => []TypeOK
BY TypeInit, TypeStep, PTL DEF Spec

-----------------------------------------------------------------------------
(* Every kept node, padded, opens its own commitment.                      *)
LEMMA PaddedNode ==
  ASSUME TypeOK, WithinCapacity, FrontierMatchesTree, NEW i \in Levels
  PROVE  PaddedXCoords(path_nodes[i], default_nodes[i].x_coord) = path_nodes[i].commitment
<1>0. leaves \in Seq(Leaf) /\ Len(leaves) = next_leaf_index /\ next_leaf_index \in Nat
  BY DEF TypeOK
<1>1. i + 1 \in 0 .. Height /\ i \in 0 .. Height
  BY DEF Levels
<1>2. NodeMatchesTree(i)
  BY DEF FrontierMatchesTree
<1>3. CASE next_leaf_index = 0
  <2>1. Capacity[i] \in Nat /\ Capacity[i + 1] \in Nat
    BY <1>1, CapacityFacts
  <2>2. path_nodes[i] = NodeOver(leaves, i, 0, 0)
    <3>1. 0 * Capacity[i + 1] >= Len(leaves)
      BY <1>0, <1>3, <2>1
    <3> QED BY <1>0, <1>2, <1>3, <3>1, EmptyNodeOver DEF NodeMatchesTree
  <2>3. \A s \in Slots : (0 * L + s) * Capacity[i] >= Len(leaves)
    <3> SUFFICES ASSUME NEW s \in Slots PROVE (0 * L + s) * Capacity[i] >= Len(leaves)
      OBVIOUS
    <3>1. 0 * L + s = s /\ s \in Nat
      BY DEF Slots
    <3>2. s * Capacity[i] \in Nat
      BY <3>1, <2>1, MulNat
    <3> QED BY <1>0, <1>3, <3>1, <3>2
  <2>4. 0 \in 0 .. L
    OBVIOUS
  <2> QED BY <1>0, <2>2, <2>3, <2>4, PaddingOpensCommitment
<1>4. CASE next_leaf_index # 0
  <2> DEFINE b == next_leaf_index - 1
             k == Ancestor(b, i + 1)
             m == Position(b, i) + 1
  <2>1. b \in Nat /\ Len(leaves) = b + 1
    BY <1>0, <1>4
  <2>2. path_nodes[i] = NodeOver(leaves, i, k, m)
    BY <1>2, <1>4 DEF NodeMatchesTree
  <2>3. \A s \in Slots : s >= m => (k * L + s) * Capacity[i] >= Len(leaves)
    BY <2>1, NothingBeyond
  <2>4. k \in Nat
    BY <1>1, <2>1, AncestorFacts
  <2>5. m \in 0 .. L
    <3>1. Position(b, i) \in Slots
      BY <1>1, <2>1, AncestorFacts
    <3> QED BY <3>1 DEF Slots
  <2> HIDE DEF b, k, m
  <2> QED BY <1>0, <2>2, <2>3, <2>4, <2>5, PaddingOpensCommitment
<1> QED BY <1>3, <1>4

(* The commitment of the top node is the root of the complete tree.        *)
LEMMA TopNode ==
  ASSUME TypeOK, WithinCapacity, FrontierMatchesTree
  PROVE  path_nodes[Root].commitment = RootOver(leaves)
<1>0. leaves \in Seq(Leaf) /\ Len(leaves) = next_leaf_index /\ next_leaf_index \in Nat
  BY DEF TypeOK
<1>1. Root \in Levels /\ Root + 1 = Height
  BY DEF Root, Levels
<1>2. NodeMatchesTree(Root)
  BY <1>1 DEF FrontierMatchesTree
<1>3. CASE next_leaf_index = 0
  <2>1. Capacity[Height] \in Nat
    BY CapacityFacts
  <2>2. 0 * Capacity[Root + 1] >= Len(leaves)
    BY <1>0, <1>1, <1>3, <2>1
  <2>3. path_nodes[Root] = NodeOver(leaves, Root, 0, 0)
    BY <1>0, <1>1, <1>2, <1>3, <2>2, EmptyNodeOver DEF NodeMatchesTree
  <2> QED BY <1>1, <2>3 DEF NodeOver, OpenedNode, RootOver
<1>4. CASE next_leaf_index # 0
  <2> DEFINE b == next_leaf_index - 1
             m == Position(b, Root) + 1
  <2>1. b \in Nat /\ b < Capacity[Height]
    <3>1. Capacity[Height] \in Nat
      BY CapacityFacts
    <3> QED BY <1>0, <1>4, <3>1 DEF WithinCapacity
  <2>2. path_nodes[Root] = NodeOver(leaves, Root, Ancestor(b, Height), m)
    BY <1>1, <1>2, <1>4 DEF NodeMatchesTree
  <2> HIDE DEF b, m
  <2>3. Ancestor(b, Height) = 0
    BY <2>1, AncestorFacts
  <2> QED BY <1>1, <2>2, <2>3 DEF NodeOver, OpenedNode, RootOver
<1> QED BY <1>3, <1>4

(* The root commits to every leaf ever inserted, and is handed out with    *)
(* its opening.                                                            *)
THEOREM RootTheorem == Spec => []RootCommitsToAllLeaves
<1>1. IInv => RootCommitsToAllLeaves
  <2> SUFFICES ASSUME IInv, WithinCapacity
               PROVE  /\ root_node.commitment = RootOver(leaves)
                      /\ root_node.x_coord_children = root_node.commitment
    BY DEF RootCommitsToAllLeaves
  <2>1. Root \in Levels
    BY DEF Root, Levels
  <2>2. /\ root_node.commitment = path_nodes[Root].commitment
        /\ root_node.x_coord_children
             = PaddedXCoords(path_nodes[Root], default_nodes[Root].x_coord)
    BY DEF root_node, inner_root_node
  <2> QED BY <2>1, <2>2, PaddedNode, TopNode DEF IInv
<1> QED BY <1>1, InvariantInit, InvariantStep, PTL DEF Spec

-----------------------------------------------------------------------------
(* A returned path is WitnessOf the kept nodes: the query computes it from *)
(* the state, the insertion from the state it leaves.                      *)
PathIsCurrent ==
  returned # NoPath => leaves # <<>> /\ returned = WitnessOf(path_nodes, leaves[Len(leaves)])

LEMMA PathStep == IInv /\ PathIsCurrent /\ [Next]_vars => PathIsCurrent'
<1> SUFFICES ASSUME IInv, PathIsCurrent, [Next]_vars PROVE PathIsCurrent'
  OBVIOUS
<1>1. CASE UNCHANGED vars
  BY <1>1 DEF PathIsCurrent, vars
<1>2. ASSUME NEW leaf \in Leaf, insert(leaf) PROVE PathIsCurrent'
  BY <1>2 DEF PathIsCurrent, insert
<1>3. ASSUME NEW leaf \in Leaf, insert_and_return_path(leaf) PROVE PathIsCurrent'
  <2>1. leaves \in Seq(Leaf) /\ leaves' = Append(leaves, leaf)
    BY <1>3 DEF IInv, TypeOK, insert_and_return_path, AddLeaf
  <2>2. leaves' # <<>> /\ leaves'[Len(leaves')] = leaf
    BY <2>1, AppendProperties
  <2>3. returned' = WitnessOf(path_nodes', leaf)
    BY <1>3 DEF insert_and_return_path
  <2> QED BY <2>2, <2>3 DEF PathIsCurrent, WitnessOf
<1>4. CASE path_for_last_added_leaf
  BY <1>4 DEF PathIsCurrent, path_for_last_added_leaf, WitnessOf
<1> QED BY <1>1, <1>2, <1>3, <1>4 DEF Next

(* Every path the tree hands out opens its current root.                   *)
LEMMA WitnessOpensRoot ==
  ASSUME IInv, WithinCapacity, leaves # <<>>
  PROVE  PathOpens(WitnessOf(path_nodes, leaves[Len(leaves)]), leaves[Len(leaves)],
                   Len(leaves) - 1, root_node.commitment)
<1> DEFINE leaf == leaves[Len(leaves)]
           path == WitnessOf(path_nodes, leaf)
           b == Len(leaves) - 1
           below(i) == IF i = 0 THEN leaf ELSE path_nodes[i - 1].commitment
<1>0. TypeOK /\ FrontierMatchesTree /\ leaves \in Seq(Leaf) /\ Len(leaves) = next_leaf_index
  BY DEF IInv, TypeOK
<1>1. b \in Nat /\ next_leaf_index # 0 /\ b = next_leaf_index - 1
  BY <1>0
<1>2. 0 \in Levels /\ Root \in Levels
  BY DEF Root, Levels
<1>3. ASSUME NEW i \in Levels
      PROVE  /\ path[i].child_node_to_randomize = below(i)
             /\ path[i].x_coord_children = path_nodes[i].commitment
  <2>1. PaddedXCoords(path_nodes[i], default_nodes[i].x_coord) = path_nodes[i].commitment
    BY <1>0, PaddedNode
  <2> QED BY <2>1 DEF WitnessOf, get_witness_node
<1>4. ASSUME NEW i \in Levels
      PROVE  path_nodes[i].commitment = TreeOver(leaves)[i + 1][Ancestor(b, i + 1)]
  <2>1. NodeMatchesTree(i)
    BY <1>0 DEF FrontierMatchesTree
  <2>2. path_nodes[i] = NodeOver(leaves, i, Ancestor(b, i + 1), Position(b, i) + 1)
    BY <1>1, <2>1 DEF NodeMatchesTree
  <2> QED BY <2>2 DEF NodeOver, OpenedNode
<1>5. ASSUME NEW i \in Levels PROVE below(i) = TreeOver(leaves)[i][Ancestor(b, i)]
  <2>1. CASE i = 0
    <3>1. Ancestor(b, 0) = b
      BY <1>1, AncestorFacts
    <3>2. LeafRow(leaves)[b] = leaf
      BY <1>0, <1>1 DEF LeafRow
    <3> QED BY <2>1, <3>1, <3>2, TreeOverDef
  <2>2. CASE i # 0
    <3>1. i - 1 \in Levels /\ (i - 1) + 1 = i
      BY <2>2 DEF Levels
    <3> QED BY <1>4, <2>2, <3>1
  <2> QED BY <2>1, <2>2
<1>6. ASSUME NEW i \in Levels
      PROVE  path_nodes[i].commitment[Position(b, i)] = X(below(i))
  <2> DEFINE T == TreeOver(leaves)
             row == T[i]
             k == Ancestor(b, i + 1)
  <2>1. /\ k \in Nat /\ Position(b, i) \in Slots
        /\ Ancestor(b, i) = k * L + Position(b, i)
    <3>1. i \in 0 .. Height /\ i + 1 \in 0 .. Height
      BY DEF Levels
    <3> QED BY <1>1, <3>1, AncestorFacts
  <2>2. T[i + 1] = ParentRow(row)
    BY TreeOverDef
  <2>3. path_nodes[i].commitment = T[i + 1][k]
    BY <1>4
  <2>4. below(i) = row[Ancestor(b, i)]
    BY <1>5
  <2> HIDE DEF T, row, k, below
  <2>5. ParentRow(row)[k] = [s \in Slots |-> X(row[k * L + s])]
    BY <2>1 DEF ParentRow
  <2> QED BY <2>1, <2>2, <2>3, <2>4, <2>5
<1>7. ASSUME NEW i \in Levels \ {0}
      PROVE  path[i].child_node_to_randomize = path[i - 1].x_coord_children
  <2>1. i \in Levels /\ i - 1 \in Levels /\ i # 0
    BY DEF Levels
  <2> HIDE DEF path
  <2> QED BY <1>3, <2>1
<1>8. root_node.commitment = path_nodes[Root].commitment
  BY DEF root_node, inner_root_node
<1> HIDE DEF path, leaf, b
<1>9. path[0].child_node_to_randomize = leaf
  BY <1>2, <1>3
<1>10. \A i \in Levels :
         path[i].x_coord_children[Position(b, i)] = X(path[i].child_node_to_randomize)
  <2> HIDE DEF below
  <2> QED BY <1>3, <1>6
<1>11. path[Root].x_coord_children = root_node.commitment
  BY <1>2, <1>3, <1>8
<1> QED BY <1>7, <1>9, <1>10, <1>11 DEF PathOpens, path, leaf, b

THEOREM PathTheorem == Spec => []ReturnedPathOpensRoot
<1>1. Init => PathIsCurrent
  BY DEF Init, PathIsCurrent
<1>2. IInv /\ PathIsCurrent => ReturnedPathOpensRoot
  BY WitnessOpensRoot DEF PathIsCurrent, ReturnedPathOpensRoot
<1> QED BY <1>1, <1>2, PathStep, InvariantInit, InvariantStep, PTL DEF Spec

-----------------------------------------------------------------------------
(* The slots of the root whose subtrees are full stay as they are.         *)
LEMMA SlotsKeptStep ==
  IInv /\ IInv' /\ [Next]_vars => (next_leaf_index < Capacity[Height] => FullRootSlotsKept)
<1> SUFFICES ASSUME IInv, IInv', [Next]_vars, next_leaf_index < Capacity[Height],
                    NEW s \in Slots, (s + 1) * Capacity[Root] <= next_leaf_index
             PROVE  path_nodes'[Root].commitment[s] = path_nodes[Root].commitment[s]
  BY DEF FullRootSlotsKept
<1> DEFINE n == next_leaf_index
           c == Capacity[Root]
<1>0. n \in Nat /\ leaves \in Seq(Leaf) /\ Len(leaves) = n
  BY DEF IInv, TypeOK
<1>1. Root \in Levels /\ Root \in 0 .. Height /\ Root + 1 = Height
  BY DEF Root, Levels
<1>2. CASE UNCHANGED path_nodes
  BY <1>2
<1>3. ASSUME NEW leaf \in Leaf, AddLeaf(leaf)
      PROVE  path_nodes'[Root].commitment[s] = path_nodes[Root].commitment[s]
  <2> DEFINE T == TreeOver(leaves)
             U == TreeOver(Append(leaves, leaf))
  <2>1. leaves' = Append(leaves, leaf) /\ next_leaf_index' = n + 1
    BY <1>3 DEF AddLeaf
  <2>2. WithinCapacity /\ WithinCapacity'
    <3>1. Capacity[Height] \in Nat
      BY CapacityFacts
    <3> QED BY <1>0, <2>1, <3>1 DEF WithinCapacity
  <2>3. path_nodes[Root].commitment = T[Height][0]
    BY <2>2, TopNode DEF IInv, RootOver
  <2>4. path_nodes'[Root].commitment = U[Height][0]
    <3>1. (path_nodes[Root].commitment = RootOver(leaves))'
      BY <2>2, TopNode, PTL DEF IInv
    <3> QED BY <2>1, <3>1 DEF RootOver
  <2>5. T[Height] = ParentRow(T[Root]) /\ U[Height] = ParentRow(U[Root])
    BY <1>1, TreeOverDef
  <2>6. s # Ancestor(n, Root)
    <3>1. c \in Nat \ {0}
      BY <1>1, CapacityFacts
    <3>2. n = c * Ancestor(n, Root) + (n % c) /\ n % c \in 0 .. c - 1 /\ Ancestor(n, Root) \in Nat
      BY <1>0, <3>1, DivMod DEF Ancestor
    <3> HIDE DEF c
    <3>3. (s + 1) * c = c * s + c
      BY <3>1 DEF Slots
    <3>4. (s + 1) * c <= n
      BY DEF c
    <3>5. s \in Nat
      BY DEF Slots
    <3> SUFFICES ASSUME s = Ancestor(n, Root) PROVE FALSE
      OBVIOUS
    <3>6. c * s \in Nat /\ n = c * s + (n % c)
      BY <3>1, <3>2, <3>5, MulNat
    <3> QED BY <3>1, <3>2, <3>3, <3>4, <3>6
  <2>7. U[Root][s] = T[Root][s]
    <3>1. s \in Nat /\ n = Len(leaves)
      BY <1>0 DEF Slots
    <3> HIDE DEF n
    <3> QED BY <1>0, <1>1, <2>6, <3>1, AppendChangesAncestors
  <2> DEFINE row == T[Root]
             new_row == U[Root]
  <2> HIDE DEF T, U, row, new_row
  <2>8. ParentRow(row)[0][s] = X(row[0 * L + s]) /\ ParentRow(new_row)[0][s] = X(new_row[0 * L + s])
    BY DEF ParentRow
  <2>9. 0 * L + s = s
    BY DEF Slots
  <2> QED BY <2>3, <2>4, <2>5, <2>7, <2>8, <2>9 DEF row, new_row
<1> QED BY <1>2, <1>3 DEF Next, vars, insert, insert_and_return_path, path_for_last_added_leaf

THEOREM AppendOnlyTheorem == Spec => AppendOnlyWithinCapacity
BY InvariantInit, InvariantStep, SlotsKeptStep, PTL DEF Spec, AppendOnlyWithinCapacity

-----------------------------------------------------------------------------
(* Of a tree that is never over-filled nothing can be seen but a growing   *)
(* log and the commitment to it.                                           *)
THEOREM LogTheorem ==
  ASSUME MaxInserts <= Capacity[Height]
  PROVE  Spec => ImplementsLog
<1> DEFINE Grow == Log!Grow
<1>0. Capacity[Height] \in Nat
  BY CapacityFacts
<1>1. TypeOK => WithinCapacity
  BY <1>0 DEF TypeOK, WithinCapacity
<1>2. IInv => root_node.commitment = RootOver(leaves)
  BY <1>1, TopNode DEF IInv, root_node, inner_root_node
<1>3. Init => Log!Init
  <2> SUFFICES ASSUME Init PROVE leaves = <<>> /\ root_node.commitment = RootOver(leaves)
    BY DEF Log!Init
  <2> QED BY <1>2, InvariantInit DEF Init
<1>4. IInv /\ IInv' /\ [Next]_vars => [Grow]_<<leaves, root_node.commitment>>
  <2> SUFFICES ASSUME IInv, IInv', [Next]_vars
               PROVE  [Grow]_<<leaves, root_node.commitment>>
    OBVIOUS
  <2>1. CASE UNCHANGED <<path_nodes, leaves>>
    <3>1. UNCHANGED root_node.commitment
      BY <2>1 DEF root_node, inner_root_node
    <3> QED BY <2>1, <3>1
  <2>2. ASSUME NEW leaf \in Leaf, AddLeaf(leaf) PROVE Grow
    <3>1. leaves \in Seq(Leaf) /\ leaves' = Append(leaves, leaf) /\ leaves' \in Seq(Leaf)
      BY <2>2 DEF AddLeaf, IInv, TypeOK
    <3>2. Len(leaves') > Len(leaves)
      BY <3>1
    <3>3. SubSeq(leaves', 1, Len(leaves)) = leaves
      BY <3>1
    <3>4. root_node.commitment' = RootOver(leaves')
      <4>1. WithinCapacity'
        BY <1>0 DEF IInv, TypeOK, WithinCapacity
      <4>2. (path_nodes[Root].commitment = RootOver(leaves))'
        BY <4>1, TopNode, PTL DEF IInv
      <4> QED BY <4>2 DEF root_node, inner_root_node
    <3> QED BY <3>1, <3>2, <3>3, <3>4 DEF Log!Grow
  <2> QED BY <2>1, <2>2
          DEF Next, vars, insert, insert_and_return_path, path_for_last_added_leaf
<1> QED BY <1>3, <1>4, InvariantInit, InvariantStep, PTL DEF Spec, ImplementsLog, Log!Spec
=============================================================================
