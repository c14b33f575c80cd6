---------------------------- MODULE LeanCurveTree ----------------------------
(***************************************************************************)
(* relations/src/lean_curve_tree.rs: the append-only tree that keeps one   *)
(* node per level, those on the path from the last inserted leaf to the    *)
(* root, and nothing else of what was inserted.                            *)
(***************************************************************************)
EXTENDS CurveTreeNodes

CONSTANTS
  MaxInserts,   \* bound on the number of insertions; the code has none
  NoPath        \* what insert() returns: nothing

ASSUME MaxInsertsAssumption == MaxInserts \in Nat

VARIABLES
  next_leaf_index,
  path_nodes,   \* {odd,even}_level_path_nodes, by level
  leaves,       \* history: every leaf inserted so far, oldest first
  returned      \* the value the last call returned

vars == <<next_leaf_index, path_nodes, leaves, returned>>

Init ==
  /\ next_leaf_index = 0
  /\ path_nodes = [i \in Levels |-> EmptyNode(i)]
  /\ leaves = <<>>
  /\ returned = NoPath

(* children_count[i], for the levels below the root                        *)
children_count == [i \in Levels \ {Root} |-> Capacity[i + 1]]

(* Mutant: the x-coordinates are reset, the commitment is not.             *)
set_full_subtrees_to_default_keeps_commitment(nodes, n) ==
  [i \in Levels |->
     IF i # Root /\ n >= children_count[i] /\ n % children_count[i] = 0
     THEN [nodes[i] EXCEPT !.x_coords = <<>>]
     ELSE nodes[i]]

set_full_subtrees_to_default(nodes, n) ==
  [i \in Levels |->
     IF /\ i # Root
        /\ n >= children_count[i]
        /\ n % children_count[i] = 0
     THEN EmptyNode(i)
     ELSE nodes[i]]

(* Mutant: every level takes the node below it as it was before.           *)
UpdateUpwards_old_child(nodes, leaf, n) ==
  [i \in Levels |->
     update_node(Position(n, i), nodes[i], IF i = 0 THEN leaf ELSE nodes[i - 1].commitment,
                 default_nodes[i].x_coord)]

(* The loop of insert: every level takes the node just updated below it.   *)
UpdateUpwards(nodes, leaf, n) ==
  LET updated[i \in Levels] ==
        update_node(Position(n, i), nodes[i],
                    IF i = 0 THEN leaf ELSE updated[i - 1].commitment,
                    default_nodes[i].x_coord)
  IN  updated

WitnessOf(nodes, leaf) ==
  [i \in Levels |->
     get_witness_node(nodes[i], IF i = 0 THEN leaf ELSE nodes[i - 1].commitment,
                      default_nodes[i].x_coord)]

root_node == inner_root_node(path_nodes[Root], Root)

(* Mutant: full subtrees are dropped after the insertion that filled them. *)
AddLeaf_resets_after(leaf) ==
  /\ next_leaf_index < MaxInserts
  /\ path_nodes' = set_full_subtrees_to_default(UpdateUpwards(path_nodes, leaf, next_leaf_index),
                                                next_leaf_index + 1)
  /\ next_leaf_index' = next_leaf_index + 1
  /\ leaves' = Append(leaves, leaf)

AddLeaf(leaf) ==
  /\ next_leaf_index < MaxInserts
  /\ path_nodes' = UpdateUpwards(set_full_subtrees_to_default(path_nodes, next_leaf_index),
                                 leaf, next_leaf_index)
  /\ next_leaf_index' = next_leaf_index + 1
  /\ leaves' = Append(leaves, leaf)

insert(leaf) ==
  /\ AddLeaf(leaf)
  /\ returned' = NoPath

insert_and_return_path(leaf) ==
  /\ AddLeaf(leaf)
  /\ returned' = WitnessOf(path_nodes', leaf)

(* The caller passes the leaf it inserted last.                            *)
path_for_last_added_leaf ==
  /\ leaves # <<>>
  /\ returned' = WitnessOf(path_nodes, leaves[Len(leaves)])
  /\ UNCHANGED <<next_leaf_index, path_nodes, leaves>>

Next ==
  \/ \E leaf \in Leaf : insert(leaf) \/ insert_and_return_path(leaf)
  \/ path_for_last_added_leaf

Spec == Init /\ [][Next]_vars

-----------------------------------------------------------------------------
(***************************************************************************)
(* TypeOK: one node per level, never with more than L x-coordinates, even  *)
(* when the tree is over-filled.                                           *)
(***************************************************************************)
IsVec(s) == s = [j \in 1 .. Len(s) |-> s[j]]

IsNode(node) ==
  /\ Len(node.x_coords) \in 0 .. L
  /\ IsVec(node.x_coords)
  /\ DOMAIN node.commitment = Slots

TypeOK ==
  /\ next_leaf_index \in 0 .. MaxInserts
  /\ leaves \in Seq(Leaf)
  /\ Len(leaves) = next_leaf_index
  /\ DOMAIN path_nodes = Levels
  /\ \A i \in Levels : IsNode(path_nodes[i])

WithinCapacity == next_leaf_index <= Capacity[Height]

(***************************************************************************)
(* FrontierMatchesTree: the kept nodes are the nodes of the complete tree  *)
(* above the last leaf: same commitment, and as x-coordinates those of its *)
(* children up to the one on the path.  Everything that was dropped by     *)
(* set_full_subtrees_to_default is still committed to, one level up.       *)
(***************************************************************************)
NodeMatchesTree(i) ==
  LET last == next_leaf_index - 1
  IN  path_nodes[i] = IF next_leaf_index = 0 THEN EmptyNode(i)
                      ELSE NodeOver(leaves, i, Ancestor(last, i + 1), Position(last, i) + 1)

FrontierMatchesTree == WithinCapacity => \A i \in Levels : NodeMatchesTree(i)

(***************************************************************************)
(* RootCommitsToAllLeaves: root_node() is the root of the complete tree    *)
(* over all leaves ever inserted, although the tree keeps none of them,    *)
(* and the x-coordinates handed to the verifier are its opening.           *)
(***************************************************************************)
RootCommitsToAllLeaves ==
  WithinCapacity => /\ root_node.commitment = RootOver(leaves)
                    /\ root_node.x_coord_children = root_node.commitment

(***************************************************************************)
(* ReturnedPathOpensRoot: the path insert_and_return_path built level by   *)
(* level, and the one path_for_last_added_leaf rebuilds later, lead from   *)
(* the last leaf to the current root.                                      *)
(***************************************************************************)
ReturnedPathOpensRoot ==
  WithinCapacity /\ returned # NoPath
    => PathOpens(returned, leaves[Len(leaves)], Len(leaves) - 1, root_node.commitment)

(***************************************************************************)
(* A slot of the root whose subtree is full is never written again.  The   *)
(* documentation of the struct promises this ("Append only curve tree")    *)
(* for the tree as such ...                                                *)
(***************************************************************************)
FullRootSlotsKept ==
  \A s \in Slots :
    (s + 1) * Capacity[Root] <= next_leaf_index
      => path_nodes'[Root].commitment[s] = path_nodes[Root].commitment[s]

AppendOnly == [][FullRootSlotsKept]_vars

(***************************************************************************)
(* ... and it holds while the tree has room: insert() has no check, and    *)
(* leaf number L^Height lands on the path of leaf 0.                       *)
(***************************************************************************)
AppendOnlyWithinCapacity ==
  [][next_leaf_index < Capacity[Height] => FullRootSlotsKept]_vars

(***************************************************************************)
(* ImplementsLog: seen through its root, the tree is a log of all leaves   *)
(* that only grows; dropping full subtrees is invisible.  (For runs that   *)
(* stay within the capacity.)                                              *)
(***************************************************************************)
Log == INSTANCE CommittedLog
         WITH Element <- Leaf, Commit <- RootOver, log <- leaves, root <- root_node.commitment

ImplementsLog == Log!Spec
=============================================================================
