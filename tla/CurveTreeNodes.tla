--------------------------- MODULE CurveTreeNodes ---------------------------
(***************************************************************************)
(* The nodes that both incremental trees (LeanCurveTree, PartialCurveTree) *)
(* are made of, and the helpers of relations/src/lean_curve_tree.rs that   *)
(* create, update and read them.                                           *)
(*                                                                         *)
(* Field and group elements are symbolic.  A Pedersen commitment to L      *)
(* x-coordinates is the function from slots to what the commitment opens   *)
(* to, which is faithful as long as nobody finds a discrete logarithm      *)
(* between generators.  Adding gen[pos] * (new - old) to it turns slot pos *)
(* into `new' only when that slot did hold `old'; otherwise the slot holds *)
(* old's remainder, a field element that is no child's x-coordinate.       *)
(*                                                                         *)
(* Levels are counted from the parents of the leaves (0) to the root       *)
(* (Height - 1).  The code keeps level i in odd_..[i / 2] for even i and   *)
(* in even_..[i / 2] for odd i, because the two parities are commitments   *)
(* on the two curves of the cycle.                                         *)
(***************************************************************************)
EXTENDS Integers, Sequences

CONSTANTS
  L,            \* arity of the tree (the const generic L)
  Height,       \* number of levels of inner nodes
  Leaf,         \* the leaves that may be inserted (points of the odd curve)
  DefaultLeaf,  \* LeanCurveTree::default_leaf(), the point at infinity
  Scrambled     \* a field element that is no child's x-coordinate

ASSUME LAssumption == L \in Nat \ {0}
ASSUME HeightAssumption == Height \in Nat \ {0}
ASSUME DefaultLeafAssumption == DefaultLeaf \notin Leaf

Slots == 0 .. L - 1
Levels == 0 .. Height - 1
Root == Height - 1

(***************************************************************************)
(* Capacity[i] = L^i leaves lie below a node of level i - 1.               *)
(***************************************************************************)
Capacity[i \in 0 .. Height] == IF i = 0 THEN 1 ELSE L * Capacity[i - 1]

(* The node of level i - 1 above leaf n (the leaf itself for i = 0): the   *)
(* value of curr_idx after i rounds of curr_idx /= L.                      *)
Ancestor(n, i) == n \div Capacity[i]

(* Mutant: positions counted from one.                                     *)
Position_from_one(n, i) == Ancestor(n + 1, i) % L

(* Which child of its parent that node is: curr_idx % L.                   *)
Position(n, i) == Ancestor(n, i) % L

(* (child + delta).x: distinct children have distinct x-coordinates, and   *)
(* an x-coordinate is an element of the other field than the child's.      *)
X(child) == [x |-> child]

(***************************************************************************)
(* combine_default: all L children equal.                                  *)
(***************************************************************************)
combine_default(child) ==
  [x_coord |-> X(child), commitment |-> [s \in Slots |-> X(child)]]

(* The root of a complete subtree of default leaves, by its height.        *)
DefaultSubtree[i \in 0 .. Height] ==
  IF i = 0 THEN DefaultLeaf ELSE combine_default(DefaultSubtree[i - 1]).commitment

default_nodes == [i \in Levels |-> combine_default(DefaultSubtree[i])]

(* A node none of whose children was set yet.                              *)
EmptyNode(i) == [x_coords |-> <<>>, commitment |-> default_nodes[i].commitment]

(***************************************************************************)
(* update_node.  `x_coords' is a Vec: a position beyond its end pushes,    *)
(* whatever the position is.                                               *)
(***************************************************************************)
Replaced(entry, old, new) ==
  IF new = old THEN entry ELSE IF entry = old THEN new ELSE Scrambled

(* Mutant: x_coords grows on every update.                                 *)
update_node_always_pushes(pos, node, child, default_x) ==
  [x_coords   |-> Append(node.x_coords, X(child)),
   commitment |-> [node.commitment EXCEPT
                     ![pos] = Replaced(@, IF pos < Len(node.x_coords)
                                          THEN node.x_coords[pos + 1] ELSE default_x, X(child))]]

(* Mutant: the commitment is updated as if the slot still held the default. *)
update_node_forgets_old(pos, node, child, default_x) ==
  [x_coords   |-> IF pos < Len(node.x_coords) THEN [node.x_coords EXCEPT ![pos + 1] = X(child)]
                                              ELSE Append(node.x_coords, X(child)),
   commitment |-> [node.commitment EXCEPT ![pos] = Replaced(@, default_x, X(child))]]

update_node(pos, node, child, default_x) ==
  LET known == pos < Len(node.x_coords)
      old   == IF known THEN node.x_coords[pos + 1] ELSE default_x
  IN  [x_coords   |-> IF known THEN [node.x_coords EXCEPT ![pos + 1] = X(child)]
                               ELSE Append(node.x_coords, X(child)),
       commitment |-> [node.commitment EXCEPT ![pos] = Replaced(@, old, X(child))]]

(* The L x-coordinates of a node's children, padded with the default one:  *)
(* the array both get_witness_node and inner_root_node build.              *)
PaddedXCoords(node, default_x) ==
  [s \in Slots |-> IF s < Len(node.x_coords) THEN node.x_coords[s + 1] ELSE default_x]

get_witness_node(node, child, default_x) ==
  [child_node_to_randomize |-> child,
   x_coord_children        |-> PaddedXCoords(node, default_x)]

inner_root_node(node, i) ==
  [commitment        |-> node.commitment,
   x_coord_children  |-> PaddedXCoords(node, default_nodes[i].x_coord)]

-----------------------------------------------------------------------------
(***************************************************************************)
(* What the incremental trees are compared with: the complete L-ary tree   *)
(* over all leaves, missing leaves being default leaves.                   *)
(* TreeOver(leaves)[i][k] is its k-th node of height i (leaves: height 0). *)
(***************************************************************************)
LeafRow(leaves) ==
  [k \in Nat |-> IF k < Len(leaves) THEN leaves[k + 1] ELSE DefaultLeaf]

ParentRow(row) == [k \in Nat |-> [s \in Slots |-> X(row[k * L + s])]]

TreeOver(leaves) ==
  LET tree[i \in 0 .. Height] == IF i = 0 THEN LeafRow(leaves) ELSE ParentRow(tree[i - 1])
  IN  tree

(* The k-th node of level i, of which the first m x-coordinates are kept.  *)
OpenedNode(opening, m) ==
  [x_coords |-> [j \in 1 .. m |-> opening[j - 1]], commitment |-> opening]

NodeOver(leaves, i, k, m) == OpenedNode(TreeOver(leaves)[i + 1][k], m)

RootOver(leaves) == TreeOver(leaves)[Height][0]

(***************************************************************************)
(* What makes a witness path usable by the prover and acceptable to the    *)
(* verifier: at every level the child to rerandomize is a slot of the      *)
(* array it is selected from, that array is what the child one level up    *)
(* commits to, and the topmost array is what the root commits to.  The     *)
(* slots are those of leaf number `index'.                                 *)
(***************************************************************************)
PathOpens(path, leaf, index, root_commitment) ==
  /\ path[0].child_node_to_randomize = leaf
  /\ \A i \in Levels :
       path[i].x_coord_children[Position(index, i)] = X(path[i].child_node_to_randomize)
  /\ \A i \in Levels \ {0} :
       path[i].child_node_to_randomize = path[i - 1].x_coord_children
  /\ path[Root].x_coord_children = root_commitment
=============================================================================
