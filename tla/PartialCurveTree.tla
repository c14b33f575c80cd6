--------------------------- MODULE PartialCurveTree ---------------------------
(***************************************************************************)
(* relations/src/partial_curve_tree.rs: the tree a wallet keeps.  It       *)
(* follows the LeanCurveTree of the chain (the variables of that module):  *)
(* a leaf of its own is inserted with the path nodes the chain had right   *)
(* after inserting it, all other leaves are replayed in order by           *)
(* update_on_leaves, and nodes are dropped by clear_full_nodes.  The       *)
(* wallet may fall behind the chain by any number of leaves.               *)
(***************************************************************************)
EXTENDS LeanCurveTree, FiniteSetsExt, Functions

CONSTANTS
  ClearAnytime   \* do callers call clear_full_nodes when it drops nodes that are not full?

VARIABLES
  partial_next,  \* next_leaf_index of the wallet's tree
  levels,        \* {odd,even}_levels: by level, the known nodes by index
  tracked,       \* `leaves' of the wallet's tree: tracked leaves by index
  outcome        \* what the wallet's last call returned

chain == <<next_leaf_index, path_nodes, leaves, returned>>
wallet == <<partial_next, levels, tracked, outcome>>
pvars == <<chain, wallet>>

NothingKnown == [k \in {} |-> EmptyNode(0)]

PartialInit ==
  /\ Init
  /\ partial_next = 0
  /\ levels = [i \in Levels |-> NothingKnown]
  /\ tracked = [k \in {} |-> DefaultLeaf]
  /\ outcome = "none"

(* Mutant: an entry that exists is kept.                                   *)
With_if_absent(map, key, value) ==
  [k \in DOMAIN map \cup {key} |-> IF k \in DOMAIN map THEN map[k] ELSE value]

(* BTreeMap::insert                                                        *)
With(map, key, value) ==
  [k \in DOMAIN map \cup {key} |-> IF k = key THEN value ELSE map[k]]

(* The node of level i above leaf n, or the one _update creates for it:    *)
(* its x_coords already hold one default x-coordinate.                     *)
KnownNode(known, i, n) ==
  LET k == Ancestor(n, i + 1)
  IN  IF k \in DOMAIN known[i] THEN known[i][k]
      ELSE [EmptyNode(i) EXCEPT !.x_coords = <<default_nodes[i].x_coord>>]

(* One round of the outer loop of update_on_leaves; its inner loop updates *)
(* level by level, as insert does in LeanCurveTree.                        *)
(* Mutant: the updated node is stored under the child's index.             *)
Replay_at_child(known, leaf, n) ==
  LET onpath == UpdateUpwards([i \in Levels |-> KnownNode(known, i, n)], leaf, n)
  IN  [i \in Levels |-> With(known[i], Ancestor(n, i), onpath[i])]

Replay(known, leaf, n) ==
  LET onpath == UpdateUpwards([i \in Levels |-> KnownNode(known, i, n)], leaf, n)
  IN  [i \in Levels |-> With(known[i], Ancestor(n, i + 1), onpath[i])]

(* Mutant: every leaf of a batch is replayed at the first one's index.     *)
ReplayAll_same_index(known, batch, n) ==
  LET after[j \in 0 .. Len(batch)] ==
        IF j = 0 THEN known ELSE Replay(after[j - 1], batch[j], n)
  IN  after[Len(batch)]

ReplayAll(known, batch, n) ==
  LET after[j \in 0 .. Len(batch)] ==
        IF j = 0 THEN known ELSE Replay(after[j - 1], batch[j], n + j - 1)
  IN  after[Len(batch)]

(* Mutant: paths computed with the capacity of a child.                    *)
Removed_child_capacity(i) == DOMAIN levels[i] \ {n \div Capacity[i] : n \in DOMAIN tracked}

(* The nodes of level i that clear_full_nodes removes: every one that is   *)
(* on no tracked leaf's path.                                              *)
Removed(i) == DOMAIN levels[i] \ {n \div Capacity[i + 1] : n \in DOMAIN tracked}

(* A level's node is full when its subtree has all its leaves.             *)
Full(i, k) == (k + 1) * Capacity[i + 1] <= partial_next

HasPath(n) == \A i \in Levels : Ancestor(n, i + 1) \in DOMAIN levels[i]

(* get_path_to_leaf for a tracked leaf; its unwraps succeed when HasPath.  *)
get_path_to_leaf(n) ==
  [i \in Levels |->
     get_witness_node(levels[i][Ancestor(n, i + 1)],
                      IF i = 0 THEN tracked[n] ELSE levels[i - 1][Ancestor(n, i)].commitment,
                      default_nodes[i].x_coord)]

partial_root_node == inner_root_node(levels[Root][0], Root)

-----------------------------------------------------------------------------
ChainInserts(leaf) ==
  /\ insert(leaf)
  /\ UNCHANGED wallet

(* The wallet tracks the leaf the chain inserted last.                     *)
insert_leaf ==
  LET n == next_leaf_index - 1
  IN  /\ leaves # <<>>
      /\ IF partial_next = Capacity[Height]
         THEN outcome' = "TreeWontSupportRequiredInsertions"
              /\ UNCHANGED <<partial_next, levels, tracked>>
         ELSE IF n \in DOMAIN tracked
         THEN outcome' = "LeafAlreadyExistAtIndex"
              /\ UNCHANGED <<partial_next, levels, tracked>>
         ELSE IF DOMAIN tracked # {} /\ n # partial_next
         THEN outcome' = "LeafIndexNotAsExpected"
              /\ UNCHANGED <<partial_next, levels, tracked>>
         ELSE /\ levels' = [i \in Levels |-> With(levels[i], Ancestor(n, i + 1), path_nodes[i])]
              /\ tracked' = With(tracked, n, leaves[Len(leaves)])
              /\ partial_next' = n + 1
              /\ outcome' = "Ok"
      /\ UNCHANGED chain

(* Mutant: next_leaf_index is advanced once per call, not once per leaf.   *)
update_on_leaves_counts_once(count) ==
  /\ partial_next + count <= next_leaf_index
  /\ partial_next + count <= Capacity[Height]
  /\ levels' = ReplayAll(levels, SubSeq(leaves, partial_next + 1, partial_next + count),
                         partial_next)
  /\ partial_next' = partial_next + 1
  /\ outcome' = "Ok"
  /\ UNCHANGED <<tracked, chain>>

(* The wallet replays the next `count' leaves it has not seen.             *)
update_on_leaves(count) ==
  /\ partial_next + count <= next_leaf_index
  /\ IF partial_next + count > Capacity[Height]
     THEN /\ outcome' = "TreeWontSupportRequiredInsertions"
          /\ UNCHANGED <<partial_next, levels, tracked>>
     ELSE /\ levels' = ReplayAll(levels, SubSeq(leaves, partial_next + 1, partial_next + count),
                                 partial_next)
          /\ partial_next' = partial_next + count
          /\ outcome' = "Ok"
          /\ UNCHANGED tracked
  /\ UNCHANGED chain

clear_full_nodes ==
  /\ levels' = [i \in Levels |-> Restrict(levels[i], DOMAIN levels[i] \ Removed(i))]
  /\ outcome' = "Ok"
  /\ UNCHANGED <<partial_next, tracked, chain>>

(* What the doc comment of clear_full_nodes lets a caller expect.          *)
OnlyFullRemoved == \A i \in Levels : \A k \in Removed(i) : Full(i, k)

PartialNext ==
  \/ \E leaf \in Leaf : ChainInserts(leaf)
  \/ insert_leaf
  \/ \E count \in 1 .. MaxInserts : update_on_leaves(count)
  \/ (ClearAnytime \/ OnlyFullRemoved) /\ clear_full_nodes

PartialSpec == PartialInit /\ [][PartialNext]_pvars

-----------------------------------------------------------------------------
(***************************************************************************)
(* PartialTypeOK: the wallet is never ahead of the chain, every node it    *)
(* keeps is well-formed and no map holds an index beyond the frontier.     *)
(***************************************************************************)
PartialTypeOK ==
  /\ partial_next \in 0 .. next_leaf_index
  /\ DOMAIN tracked \subseteq 0 .. partial_next - 1
  /\ \A i \in Levels : \A k \in DOMAIN levels[i] :
       /\ k \in 0 .. Ancestor(partial_next - 1, i + 1)
       /\ IsNode(levels[i][k])

(* What the chain had when it was where the wallet is now.                 *)
Seen == SubSeq(leaves, 1, partial_next)

Fits == partial_next <= Capacity[Height]

(***************************************************************************)
(* RootIsTheChains: the wallet's root is the one the chain had after       *)
(* partial_next leaves, whatever mixture of tracked insertions, replayed   *)
(* batches and removals led there; so a wallet that has caught up proves   *)
(* against the root the verifiers of the chain use.                        *)
(***************************************************************************)
RootIsTheChains ==
  Fits /\ 0 \in DOMAIN levels[Root]
    => /\ partial_root_node.commitment = RootOver(Seen)
       /\ partial_next = next_leaf_index => partial_root_node = root_node

(***************************************************************************)
(* TrackedPathsOpenRoot: every tracked leaf keeps a path ("providing their *)
(* most recent path"): no node on it is missing, and it leads from the     *)
(* leaf to the root the chain had after partial_next leaves.               *)
(***************************************************************************)
TrackedPathsOpenRoot ==
  Fits => \A n \in DOMAIN tracked :
            /\ HasPath(n)
            /\ PathOpens(get_path_to_leaf(n), leaves[n + 1], n, RootOver(Seen))

(***************************************************************************)
(* NoNodeIsStale: a kept node on the path of a tracked leaf is the node of *)
(* the tree, with all of its children that exist.                          *)
(***************************************************************************)
FilledSlots(i, k) ==
  {s \in Slots : (k * L + s) * Capacity[i] < partial_next}

NoNodeIsStale ==
  Fits => \A n \in DOMAIN tracked, i \in Levels :
            LET k == Ancestor(n, i + 1)
            IN  levels[i][k] = NodeOver(Seen, i, k, Cardinality(FilledSlots(i, k)))

(***************************************************************************)
(* WalletImplementsLog: the wallet's tree is the same log, read up to      *)
(* where the wallet is: it never goes back and never skips into a root     *)
(* that is not the commitment to all leaves up to there.  A wallet that    *)
(* has no root node (it holds no leaf yet, or tracks none and cleared a    *)
(* full tree) shows no root to compare; beyond the capacity, where the     *)
(* chain's own root is no longer the log's, nothing is claimed.            *)
(***************************************************************************)
ShownRoot ==
  IF 0 \in DOMAIN levels[Root] THEN partial_root_node.commitment ELSE RootOver(Seen)

WalletLog == INSTANCE CommittedLog
               WITH Element <- Leaf, Commit <- RootOver, log <- Seen, root <- ShownRoot

WalletImplementsLog ==
  WalletLog!Init /\ [][Fits' => WalletLog!Grow \/ UNCHANGED <<Seen, ShownRoot>>]_pvars

=============================================================================
