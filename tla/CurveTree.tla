------------------------------ MODULE CurveTree ------------------------------
(***************************************************************************)
(* relations/src/curve_tree.rs: the tree that keeps all of its nodes.  Its *)
(* M trees share the leaves; tree t commits to children with its own L     *)
(* generators, L*t .. L*t + L-1.  It is built at once by from_leaves and   *)
(* then changed leaf by leaf with update_leaf, which refreshes the path of *)
(* ONE of the M trees; callers are expected to repeat it for the others.   *)
(*                                                                         *)
(* Nodes are named by their height (leaves 0) and their index at that      *)
(* height.  A commitment is its coefficient at every generator.            *)
(***************************************************************************)
EXTENDS Integers, Sequences, FiniteSetsExt

CONSTANTS
  L,          \* branching factor
  M,          \* number of trees over the same leaves
  Leaf,       \* values a leaf can have
  Zero,       \* the zero of the field: x-coordinate of a missing child
  Scrambled,  \* a field element that is no child's x-coordinate
  Error,      \* Err(ChildDoesntExistAtIndex)
  MaxLeaves,  \* bound on the number of leaves the tree is built from
  MaxHeight   \* bound on the height asked for

ASSUME LAssumption == L \in Nat \ {0, 1}
ASSUME MAssumption == M \in Nat \ {0}
ASSUME BoundsAssumption == MaxLeaves \in Nat \ {0} /\ MaxHeight \in Nat

VARIABLES
  height,            \* of the root
  leaf_values,       \* the leaves, by index
  x_coord_children,  \* by tree, height and index of the node
  commitments,       \* commitments_to_children, likewise
  told               \* history: the leaves as each of the trees was told them

vars == <<height, leaf_values, x_coord_children, commitments, told>>

Slots == 0 .. L - 1
TreeIndices == 0 .. M - 1
Generators == 0 .. L * M - 1

X(child) == [x |-> child]

(* SingleLayerParameters::commit with zero blinding.                       *)
commit(x, tree_index) ==
  [g \in Generators |->
     IF g \div L = tree_index THEN x[g - L * tree_index] ELSE Zero]

-----------------------------------------------------------------------------
(* from_leaves: rows of nodes until one is left, then single-child nodes   *)
(* until the height asked for (increase_height).                           *)

(* num_nodes_at_current_level after `h' rounds                             *)
NumNodes(n, h) ==
  LET count[j \in 0 .. h] == IF j = 0 THEN n ELSE (count[j - 1] + L - 1) \div L
  IN  count[h]

(* Mutant: the height asked for is taken as it is.                         *)
HeightFor_as_asked(n, asked) == asked

HeightFor(n, asked) ==
  LET natural == CHOOSE h \in 0 .. n : /\ NumNodes(n, h) = 1
                                       /\ \A j \in 0 .. h - 1 : NumNodes(n, j) > 1
  IN  IF asked > natural THEN asked ELSE natural

(* x_coordinates: the children that exist, zero for the others.            *)
x_coordinates(row, k) ==
  [s \in Slots |-> IF k * L + s \in DOMAIN row THEN X(row[k * L + s]) ELSE Zero]

(* combine, for every node of every height: rows[0] are the leaves, the    *)
(* row of height j > 0 the commitments of the nodes of that height.        *)
Rows(values, h, tree_index) ==
  LET n == Cardinality(DOMAIN values)
      row[j \in 0 .. h] ==
        IF j = 0 THEN values
        ELSE [k \in 0 .. NumNodes(n, j) - 1 |->
                commit(x_coordinates(row[j - 1], k), tree_index)]
  IN  row

BuiltCommitments(values, h, tree_index) ==
  [j \in 1 .. h |-> Rows(values, h, tree_index)[j]]

BuiltXCoords(values, h, tree_index) ==
  [j \in 1 .. h |->
     [k \in 0 .. NumNodes(Cardinality(DOMAIN values), j) - 1 |->
        x_coordinates(Rows(values, h, tree_index)[j - 1], k)]]

from_leaves(values, asked) ==
  /\ height = HeightFor(Cardinality(DOMAIN values), asked)
  /\ leaf_values = values
  /\ x_coord_children = [t \in TreeIndices |-> BuiltXCoords(values, height, t)]
  /\ commitments = [t \in TreeIndices |-> BuiltCommitments(values, height, t)]
  /\ told = [t \in TreeIndices |-> values]

Init ==
  \E n \in 1 .. MaxLeaves, asked \in 0 .. MaxHeight :
    \E values \in [0 .. n - 1 -> Leaf] : from_leaves(values, asked)

-----------------------------------------------------------------------------
(* Walking down: child_index takes the leaf index modulo the capacity of   *)
(* the node it is asked at, so from the root on an index beyond the        *)
(* capacity means another leaf.                                            *)

child_index(leaf_index, h) == (leaf_index % L^h) \div L^(h - 1)

(* The node at height h on the way to a leaf: from the root down, every    *)
(* child index is appended as a digit.                                     *)
NodeIndex(leaf_index, h) ==
  LET index[j \in 0 .. height - h] ==
        IF j = 0 THEN 0 ELSE index[j - 1] * L + child_index(leaf_index, height - j + 1)
  IN  index[height - h]

NumLeaves == Cardinality(DOMAIN leaf_values)

(* get_child succeeds at every node on the way.                            *)
ChildrenExist(leaf_index) ==
  \A h \in 0 .. height - 1 : NodeIndex(leaf_index, h) < NumNodes(NumLeaves, h)

get_leaf(leaf_index) ==
  IF ChildrenExist(leaf_index) THEN leaf_values[NodeIndex(leaf_index, 0)] ELSE Error

(* CurveTreeNode::commitment of the node at height h on the way.           *)
commitment(leaf_index, h, tree_index) ==
  IF h = 0 THEN leaf_values[NodeIndex(leaf_index, 0)]
  ELSE commitments[tree_index][h][NodeIndex(leaf_index, h)]

(* generate_witness_node_for_this_and_children, from the root down.        *)
get_path_to_leaf_for_proof(leaf_index, tree_index) ==
  IF ~ ChildrenExist(leaf_index) THEN Error
  ELSE [h \in 1 .. height |->
          [x_coord_children        |-> x_coord_children[tree_index][h][NodeIndex(leaf_index, h)],
           child_node_to_randomize |-> commitment(leaf_index, h - 1, tree_index)]]

(* Root node                                                               *)
root_commitment(tree_index) == commitments[tree_index][height][0]

-----------------------------------------------------------------------------
Replaced(entry, old, new) ==
  IF new = old THEN entry ELSE IF entry = old THEN new ELSE Scrambled

(* Mutant: the generators of the first tree are used for every tree.       *)
UpdatedNode_first_generators(leaf_index, h, tree_index, child) ==
  LET k     == NodeIndex(leaf_index, h)
      slot  == child_index(leaf_index, h)
      old_x == x_coord_children[tree_index][h][k][slot]
  IN  [x_coords   |-> [x_coord_children[tree_index][h][k] EXCEPT ![slot] = X(child)],
       commitment |-> [commitments[tree_index][h][k]
                         EXCEPT ![slot] = Replaced(@, old_x, X(child))]]

(* Mutant: the kept x-coordinates are not refreshed.                       *)
UpdatedNode_keeps_x(leaf_index, h, tree_index, child) ==
  LET k     == NodeIndex(leaf_index, h)
      slot  == child_index(leaf_index, h)
      old_x == x_coord_children[tree_index][h][k][slot]
  IN  [x_coords   |-> x_coord_children[tree_index][h][k],
       commitment |-> [commitments[tree_index][h][k]
                         EXCEPT ![L * tree_index + slot] = Replaced(@, old_x, X(child))]]

(* update_x_coord_and_commitment of the node at height h on the way, when  *)
(* its child's commitment became `child': the new opening and commitment.  *)
UpdatedNode(leaf_index, h, tree_index, child) ==
  LET k     == NodeIndex(leaf_index, h)
      slot  == child_index(leaf_index, h)
      old_x == x_coord_children[tree_index][h][k][slot]
  IN  [x_coords   |-> [x_coord_children[tree_index][h][k] EXCEPT ![slot] = X(child)],
       commitment |-> [commitments[tree_index][h][k]
                         EXCEPT ![L * tree_index + slot] = Replaced(@, old_x, X(child))]]

(* update_leaf.  Without such a leaf get_child_mut().unwrap() panics       *)
(* before anything was changed.                                            *)
update_leaf(leaf_index, tree_index, new_leaf_value) ==
  LET updated[h \in 0 .. height] ==
        IF h = 0 THEN [x_coords |-> <<>>, commitment |-> new_leaf_value]
        ELSE UpdatedNode(leaf_index, h, tree_index, updated[h - 1].commitment)
      OnPath(h, k) == k = NodeIndex(leaf_index, h)
  IN  /\ ChildrenExist(leaf_index)
      /\ leaf_values' = [leaf_values EXCEPT ![NodeIndex(leaf_index, 0)] = new_leaf_value]
      /\ x_coord_children' =
           [x_coord_children EXCEPT ![tree_index] =
              [h \in DOMAIN @ |-> [k \in DOMAIN @[h] |->
                 IF OnPath(h, k) THEN updated[h].x_coords
                 ELSE x_coord_children[tree_index][h][k]]]]
      /\ commitments' =
           [commitments EXCEPT ![tree_index] =
              [h \in DOMAIN @ |-> [k \in DOMAIN @[h] |->
                 IF OnPath(h, k) THEN updated[h].commitment
                 ELSE commitments[tree_index][h][k]]]]
      /\ told' = [told EXCEPT ![tree_index][leaf_index % L^height] = new_leaf_value]
      /\ UNCHANGED height

Next ==
  \E leaf_index \in 0 .. MaxLeaves, tree_index \in TreeIndices, value \in Leaf :
    update_leaf(leaf_index, tree_index, value)

Spec == Init /\ [][Next]_vars

-----------------------------------------------------------------------------
(***************************************************************************)
(* TypeOK: the shape of the tree is the one from_leaves gave it.           *)
(***************************************************************************)
TypeOK ==
  /\ height \in 0 .. MaxHeight + MaxLeaves
  /\ leaf_values \in [0 .. NumLeaves - 1 -> Leaf]
  /\ NumLeaves <= L^height
  /\ \A t \in TreeIndices :
       /\ DOMAIN told[t] = DOMAIN leaf_values
       /\ \A h \in 1 .. height :
            /\ DOMAIN commitments[t][h] = 0 .. NumNodes(NumLeaves, h) - 1
            /\ DOMAIN x_coord_children[t][h] = DOMAIN commitments[t][h]

(***************************************************************************)
(* UpdatesEqualRebuild: after any updates, whichever trees they went to,   *)
(* every tree has exactly the nodes from_leaves would build today from the *)
(* leaves that tree was told.  In particular no update of one tree leaks   *)
(* into the generators of another.                                         *)
(***************************************************************************)
UpdatesEqualRebuild ==
  \A t \in TreeIndices :
    /\ commitments[t] = BuiltCommitments(told[t], height, t)
    /\ x_coord_children[t] = BuiltXCoords(told[t], height, t)

Includes(node) == \E s \in Slots : node.x_coord_children[s] = X(node.child_node_to_randomize)

PathOpens(path, leaf, tree_index) ==
  /\ path[1].child_node_to_randomize = leaf
  /\ \A h \in 1 .. height : Includes(path[h])
  /\ \A h \in 2 .. height :
       path[h].child_node_to_randomize = commit(path[h - 1].x_coord_children, tree_index)
  /\ commit(path[height].x_coord_children, tree_index) = root_commitment(tree_index)

(***************************************************************************)
(* ToldPathsOpenRoot: the path to a leaf leads to the root of a tree that  *)
(* was told the leaf's current value: every child is among the             *)
(* x-coordinates of its parent, and those are what the node commits to.    *)
(* get_leaf answers that value too, and the error wherever there is none.  *)
(***************************************************************************)
ToldPathsOpenRoot ==
  \A n \in 0 .. L^height - 1 :
    /\ get_leaf(n) = IF n \in DOMAIN leaf_values THEN leaf_values[n] ELSE Error
    /\ n \in DOMAIN leaf_values /\ height > 0 =>
         \A t \in TreeIndices :
           told[t][n] = leaf_values[n]
             => PathOpens(get_path_to_leaf_for_proof(n, t), get_leaf(n), t)
=============================================================================
