-------------------- MODULE BatchedSelectAndRerandomize --------------------
(***************************************************************************)
(* The membership gadgets for curve forests: up to M leaves, the k-th in   *)
(* the k-th of M trees that share their leaves, are proved along one       *)
(* multi-path.  The nodes of a level are committed to in one sum, which is *)
(* re-randomised once; only the leaves are re-randomised one by one.       *)
(* Several multi-paths may share the M roots, whose children they then     *)
(* select together: a path takes its own children out of the common list.  *)
(*                                                                         *)
(* As in SelectAndRerandomize a constraint system is the sequence of calls *)
(* made on it, and the two sides index the same lists in code of their own.*)
(***************************************************************************)
EXTENDS GadgetCalls, FiniteSetsExt

CONSTANTS
  M,              \* trees in the forest, and so leaves in a multi-path
  Heights,        \* heights of the forest
  MaxPaths,       \* bound on the multi-paths proved together
  MaxStray        \* bound on the points too many in a path that arrives damaged

ASSUME ForestAssumption ==
  /\ M \in Nat \ {0} /\ Heights \subseteq Nat \ {0} /\ MaxPaths \in Nat /\ MaxStray \in Nat

VARIABLES
  gadget,         \* which of the gadgets is used
  height,         \* height of the tree of each multi-path
  indices,        \* number of leaves of each multi-path
  prover,         \* the gadget on the two Provers
  paths,          \* the randomized multi-paths the verifier is given; NoPaths before
  verifier        \* the gadget on the two Verifiers

vars == <<gadget, height, indices, prover, paths, verifier>>

Gadgets == {
  "lookups", "lookups_for_common_root",      \* batched_curve_tree_prover, _verifier
  "divisors", "divisors_for_same_root"}      \* batched_prover, _verifier
WithDivisors == {"divisors", "divisors_for_same_root"}
Together == {"lookups_for_common_root", "divisors_for_same_root"}

NoPaths == <<>>
num_paths == Len(indices)
root_curve == CurveOf(height[1])

-----------------------------------------------------------------------------
(* The witness.  The nodes of a level are named by their sum.              *)
internal_levels(p, c) == inner_levels(height[p], c)

Sum(p, level) == <<p, level>>
Leaf(p, k) == <<p, 0, k>>

(* randomize_nodes: the sums of the children of a curve's inner nodes, on  *)
(* the other curve; the parents of the leaves, at level 1, are left out.   *)
rerandomized_sums(p, c) ==
  LET parents == SelectSeq(internal_levels(p, Other(c)), LAMBDA l : l > 1)
  IN  [i \in DOMAIN parents |-> Rerandomized(Sum(p, parents[i] - 1), Scalar(c, p, i))]

rerandomizations_of_selected(p) ==
  [k \in 1 .. indices[p] |-> Rerandomized(Leaf(p, k), Scalar("leaf", p, k))]

-----------------------------------------------------------------------------
(* Calls on a constraint system.                                           *)
(* The root is public; any other parent is a sum of n committed nodes.     *)
Root == Rerandomized(<<"root">>, <<>>)
CommitVec(parent, n) == <<"commit_vec", parent, n>>
Select(parent, k) == IF parent = Root THEN <<"select_public_set", k>> ELSE <<"select", parent, k>>
Committed(parent, n) == IF parent = Root THEN <<>> ELSE <<CommitVec(parent, n)>>

(* The sum of the children selected from some of a parent's n chunks.      *)
Selected(parent, chunks) == <<parent, chunks>>
re_randomize(selected, child) == <<"re_randomize", selected, child>>

Added(k) == IF k = 1 THEN <<>> ELSE << <<"checked_curve_addition">> >>

select_and_accumulate(parent, n) ==
  FlattenSeq([k \in 1 .. n |-> <<Allocate, Allocate, Select(parent, k), CurveCheck>> \o Added(k)])

single_level_batched_select_and_rerandomize(parent, n, child) ==
  select_and_accumulate(parent, n) \o <<re_randomize(Selected(parent, 1 .. n), child)>>

single_level_select_and_rerandomize(parent, k, child) ==
  <<Claim(child), Allocate, Select(parent, k), Allocate, CurveCheck,
    re_randomize(Selected(parent, {k}), child)>>

(* The children whose x-coordinates are constrained already.               *)
accumulate_selected_children(n) ==
  FlattenSeq([k \in 1 .. n |-> <<Allocate, CurveCheck>> \o Added(k)])

(* A re-randomised sum or leaf and the divisor that is to show its scalar. *)
Item(selected, child, divisor) == [selected |-> selected, child |-> child, divisor |-> divisor]

Blinded(name, items) ==
  LET all == FlattenSeq(items)
  IN  [i \in DOMAIN all |-> <<name, all[i].selected, all[i].child, all[i].divisor>>]

constraints_for_dlogs_presummed(c, g) ==
  <<DlogChallenge>>
    \o Blinded("discrete_log_blinding_assume_on_curve", g.summed[c])
    \o (IF c = "odd" THEN Blinded("discrete_log_blinding", g.leaves) ELSE <<>>)

-----------------------------------------------------------------------------
(* Roots that several multi-paths share.  ns has the number of leaves of   *)
(* each; of the r-th root's children those with r leaves or more have one. *)
ChildrenOf(ns, r) == Cardinality({p \in DOMAIN ns : ns[p] >= r})
MostLeaves(ns) == Max(Range(ns))

(* One variable for each child, the r-th root's children in path order.    *)
SelectedOfRoots(ns) ==
  FlattenSeq([r \in 1 .. MostLeaves(ns) |->
    [j \in 1 .. ChildrenOf(ns, r) |-> Allocate]
      \o << <<"multi_select_public_set", r, ChildrenOf(ns, r)>> >>])

(* The variables that become a path's, each the j-th of the r-th root.     *)
(* With lookups the j-th variable goes to the j-th path.                   *)
xs_by_position(ns, p) == {<<r, p>> : r \in {r \in 1 .. MostLeaves(ns) : ChildrenOf(ns, r) >= p}}

(* Mutant: with divisors too.                                              *)
x_vars_per_mp_by_position(ns, p) == {<<r, p>> : r \in 1 .. ns[p]}

(* With divisors a path keeps those that were allocated for it.            *)
x_vars_per_mp(ns, p) ==
  {<<r, Cardinality({q \in 1 .. p : ns[q] >= r})>> : r \in 1 .. ns[p]}

-----------------------------------------------------------------------------
(* The state of a gadget: pos is how far the current path's two loops got. *)
NewGadget(status) ==
  [status |-> status, path |-> 1, pos |-> [c \in Curves |-> 0],
   calls  |-> [c \in Curves |-> <<>>],
   summed |-> [c \in Curves |-> [p \in 1 .. num_paths |-> <<>>]],
   leaves |-> [p \in 1 .. num_paths |-> <<>>],
   witnessed |-> {}]

Called(g, c, calls) == [g EXCEPT !.calls[c] = @ \o calls]
Opened(g, openings) == [g EXCEPT !.witnessed = @ \cup openings]
Stopped(g, status) == [g EXCEPT !.status = status]
AtLevels(g, p) == [g EXCEPT !.status = "levels", !.path = p, !.pos = [c \in Curves |-> 0]]
AllPaths == [p \in 1 .. num_paths |-> p]

WithDlogs(g) ==
  IF gadget \in WithDivisors
  THEN [g EXCEPT !.calls = [c \in Curves |-> @[c] \o constraints_for_dlogs_presummed(c, g)]]
  ELSE g

(* A sum of selected children and the divisor of its re-randomisation.     *)
WithSum(g, c, p, calls, selected, child, divisor) ==
  [Called(g, c, calls \o <<CommitDivisor(divisor)>>) EXCEPT
     !.summed[c][p] = Append(@, Item(selected, child, divisor))]

WithLeaf(g, p, calls, selected, child, divisor) ==
  [Called(g, "odd", calls \o <<Claim(child), CommitDivisor(divisor)>>) EXCEPT
     !.leaves[p] = Append(@, Item(selected, child, divisor))]

(* The leaves of a path, selected from their parents' sum one by one.      *)
WithLeaves(g, p, parent, n, leaf, divisor) ==
  FoldLeft(LAMBDA h, k :
             IF gadget \in WithDivisors
             THEN WithLeaf(h, p, <<Allocate, Allocate, Select(parent, k)>>,
                           Selected(parent, {k}), leaf[k], divisor[k])
             ELSE Called(h, "odd", single_level_select_and_rerandomize(parent, k, leaf[k])),
           Called(g, "odd", Committed(parent, n)), [k \in 1 .. n |-> k])

(* Leaves right below shared roots, where x_vars are already selected.     *)
WithLeavesOfRoots(g, ns, p, leaf, divisor) ==
  FoldLeft(LAMBDA h, k : WithLeaf(h, p, <<Allocate>>,
                                  Selected(Root, {x \in x_vars_per_mp(ns, p) : x[1] = k}),
                                  leaf[k], divisor[k]),
           g, [k \in 1 .. ns[p] |-> k])

(* The selected children of the root, summed: alone, or out of the shared. *)
WithRootSum(g, ns, p, child, divisor) ==
  LET c == root_curve
  IN  CASE gadget = "lookups" ->
             Called(g, c, single_level_batched_select_and_rerandomize(Root, ns[p], child))
        [] gadget = "lookups_for_common_root" ->
             Called(g, c, accumulate_selected_children(ns[p])
                            \o <<re_randomize(Selected(Root, xs_by_position(ns, p)), child)>>)
        [] gadget = "divisors" ->
             WithSum(g, c, p, select_and_accumulate(Root, ns[p]),
                     Selected(Root, 1 .. ns[p]), child, divisor)
        [] gadget = "divisors_for_same_root" ->
             WithSum(g, c, p, accumulate_selected_children(ns[p]),
                     Selected(Root, x_vars_per_mp(ns, p)), child, divisor)

(* A level: n committed nodes, a child of each, and the sum of these.      *)
WithLevelSum(g, c, p, parent, n, child, divisor) ==
  IF gadget \in WithDivisors
  THEN WithSum(g, c, p, <<CommitVec(parent, n)>> \o select_and_accumulate(parent, n),
               Selected(parent, 1 .. n), child, divisor)
  ELSE Called(g, c, <<CommitVec(parent, n)>>
                      \o single_level_batched_select_and_rerandomize(parent, n, child))

-----------------------------------------------------------------------------
(* The prover.  It starts with the calls that build the witness:           *)
(* get_paths_to_leaves takes up to M leaves, get_optmz_paths_to_leaves any *)
(* number but none.  Every error ends the gadget; panics are told apart.   *)
ProverRootSum(g, p) ==
  LET child  == rerandomized_sums(p, Other(root_curve))[1]
      scalar == Scalar(Other(root_curve), p, 1)
  IN  WithRootSum(Opened(g, {Opening(child, Sum(p, height[p] - 1), scalar)}),
                  indices, p, child, scalar)

(* The leaves' parents are committed to in parent, or are the roots.       *)
ProvedLeaves(g, p, parent, opening) ==
  LET leaf     == rerandomizations_of_selected(p)
      scalar   == [k \in 1 .. indices[p] |-> Scalar("leaf", p, k)]
      openings == opening \cup
                     {Opening(leaf[k], Leaf(p, k), scalar[k]) : k \in 1 .. indices[p]}
  IN  WithLeaves(Opened(g, openings), p, parent, indices[p], leaf, scalar)

ProvedLeavesOfRoots(g, p) ==
  LET leaf     == rerandomizations_of_selected(p)
      scalar   == [k \in 1 .. indices[p] |-> Scalar("leaf", p, k)]
      openings == {Opening(leaf[k], Leaf(p, k), scalar[k]) : k \in 1 .. indices[p]}
  IN  WithLeavesOfRoots(Opened(g, openings), indices, p, leaf, scalar)

Panicked(g) == Stopped(g, "panicked")

(* Mutant: a malformed path is indexed all the same.                       *)
Refused_unchecked(g) == Panicked(g)

Refused(g) == Stopped(g, "refused")

ProverStart ==
  /\ prover.status = "root"
  /\ prover' =
       CASE num_paths = 0 \/ \E p \in 1 .. num_paths : indices[p] > M -> Refused(prover)
         [] num_paths > 0 /\ indices[1] = 0 -> Panicked(prover)
         [] OTHER ->
              LET shared == Called(prover, root_curve, SelectedOfRoots(indices))
              IN  CASE gadget = "lookups" ->
                         IF rerandomized_sums(1, Other(root_curve)) = <<>> THEN Panicked(prover)
                         ELSE AtLevels(ProverRootSum(prover, 1), 1)
                    [] gadget = "lookups_for_common_root" ->
                         IF \E p \in 1 .. num_paths : CurveOf(height[p]) # root_curve
                         THEN Refused(prover)
                         ELSE Stopped(shared, "child")
                    [] gadget = "divisors" ->
                         AtLevels(IF height[1] > 1 THEN ProverRootSum(prover, 1) ELSE prover, 1)
                    [] gadget = "divisors_for_same_root" ->
                         IF height[1] > 1
                         THEN AtLevels(FoldLeft(ProverRootSum, shared, AllPaths), 1)
                         ELSE Stopped(WithDlogs(FoldLeft(ProvedLeavesOfRoots, shared, AllPaths)),
                                      "finished")
  /\ UNCHANGED <<gadget, height, indices, paths, verifier>>

(* Between the shared children of the roots and the levels of a path: the  *)
(* first sum of either curve is read, and as many variables as leaves are  *)
(* asserted.                                                               *)
ProverChild ==
  /\ prover.status = "child"
  /\ LET p == prover.path
     IN  prover' = IF \/ \E c \in Curves : rerandomized_sums(p, c) = <<>>
                      \/ Cardinality(xs_by_position(indices, p)) # indices[p]
                   THEN Panicked(prover)
                   ELSE AtLevels(ProverRootSum(prover, p), p)
  /\ UNCHANGED <<gadget, height, indices, paths, verifier>>

prover_index(c, i) == IF c = root_curve THEN i + 1 ELSE i

(* One level.  The last odd one has the leaves; with divisors they wait.   *)
ProvedLevel(g, p, c, i) ==
  LET internal == internal_levels(p, c)
      index    == prover_index(c, i)
      parent   == rerandomized_sums(p, c)[i]
      opening  == Opening(parent, Sum(p, internal[index]), Scalar(c, p, i))
      child    == rerandomized_sums(p, Other(c))[index]
      scalar   == Scalar(Other(c), p, index)
  IN  IF index > Len(internal) THEN g
      ELSE IF c = "odd" /\ index = Len(internal)
      THEN IF gadget \in WithDivisors THEN g ELSE ProvedLeaves(g, p, parent, {opening})
      ELSE WithLevelSum(Opened(g, {opening, Opening(child, Sum(p, internal[index] - 1), scalar)}),
                        c, p, parent, indices[p], child, scalar)

(* With lookups the loops run in parallel, with divisors one by one.       *)
Turn(c, even_done) == gadget \in WithDivisors /\ c = "odd" => even_done

ProverLevel(c) ==
  LET p == prover.path
      n == Len(internal_levels(p, c))
  IN  /\ prover.status = "levels" /\ prover.pos[c] < n
      /\ Turn(c, prover.pos["even"] = Len(internal_levels(p, "even")))
      /\ prover' = [ProvedLevel(prover, p, c, prover.pos[c] + 1) EXCEPT !.pos[c] = @ + 1]
      /\ UNCHANGED <<gadget, height, indices, paths, verifier>>

(* Mutant: the parent of the first odd sum's children.                     *)
leaf_parent_index_first(p) == 1

(* The place of the leaves' parents among the odd sums.                    *)
leaf_parent_index(p) ==
  LET last == Len(internal_levels(p, "odd"))
  IN  IF root_curve = "odd" /\ last > 1 THEN last - 1 ELSE last

ProvedLeafLevel(g, p) ==
  LET i    == leaf_parent_index(p)
      odd  == rerandomized_sums(p, "odd")
  IN  IF i > Len(odd) THEN ProvedLeaves(g, p, Root, {})
      ELSE ProvedLeaves(g, p, odd[i], {Opening(odd[i], Sum(p, 1), Scalar("odd", p, i))})

(* Mutant: the challenges are drawn after each path.                       *)
AfterPath_dlogs(g) ==
  IF g.path < num_paths
  THEN IF gadget = "lookups_for_common_root" THEN [g EXCEPT !.status = "child", !.path = @ + 1]
       ELSE AtLevels(WithDlogs(g), g.path + 1)
  ELSE Stopped(WithDlogs(g), "finished")

(* A path is done.                                                         *)
AfterPath(g) ==
  IF g.path < num_paths
  THEN IF gadget = "lookups_for_common_root" THEN [g EXCEPT !.status = "child", !.path = @ + 1]
       ELSE AtLevels(g, g.path + 1)
  ELSE Stopped(WithDlogs(g), "finished")

ProverJoin ==
  /\ prover.status = "levels"
  /\ \A c \in Curves : prover.pos[c] = Len(internal_levels(prover.path, c))
  /\ prover' = AfterPath(IF gadget \in WithDivisors THEN ProvedLeafLevel(prover, prover.path)
                         ELSE prover)
  /\ UNCHANGED <<gadget, height, indices, paths, verifier>>

-----------------------------------------------------------------------------
(* The multi-paths the prover returns, and those that arrive.              *)
Commitments(even, odd) == [c \in Curves |-> IF c = "even" THEN even ELSE odd]

DivisorsOf(p, c) ==
  LET items == prover.summed[c][p] \o (IF c = "odd" THEN prover.leaves[p] ELSE <<>>)
  IN  [k \in DOMAIN items |-> items[k].divisor]

HonestPaths ==
  [p \in 1 .. num_paths |->
     [commitments |-> [c \in Curves |-> rerandomized_sums(p, c)],
      selected    |-> rerandomizations_of_selected(p),
      divisors    |-> [c \in Curves |-> DivisorsOf(p, c)]]]

Arrive(sent) ==
  /\ prover.status = "finished" /\ paths = NoPaths
  /\ paths' = sent
  /\ verifier' = NewGadget("root")
  /\ UNCHANGED <<gadget, height, indices, prover>>

Arrives == Arrive(HonestPaths)

(* The first path arrives with lists of other lengths.                     *)
Lengths(s) == 0 .. Len(s) + MaxStray

ArrivesDamaged ==
  /\ prover.status = "finished"
  /\ LET path == HonestPaths[1]
     IN  \E even \in Lengths(path.commitments["even"]), odd \in Lengths(path.commitments["odd"]),
            selected \in Lengths(path.selected) :
           Arrive([HonestPaths EXCEPT
             ![1].commitments = Commitments(Resized(@["even"], even, "even"),
                                            Resized(@["odd"], odd, "odd")),
             ![1].selected = Resized(@, selected, "leaf")])

ArrivesWithOtherDivisors ==
  /\ prover.status = "finished" /\ gadget \in WithDivisors
  /\ LET path == HonestPaths[1]
     IN  \E even \in Lengths(path.divisors["even"]), odd \in Lengths(path.divisors["odd"]) :
           Arrive([HonestPaths EXCEPT
             ![1].divisors = Commitments(Resized(@["even"], even, "even divisors"),
                                         Resized(@["odd"], odd, "odd divisors"))])

-----------------------------------------------------------------------------
(* The verifier.  What it knows of the leaves' number is what arrived.     *)
num_indices == [p \in DOMAIN paths |-> Len(paths[p].selected)]

(* A path with neither commitments is taken for one of height 1.           *)
NoCommitments(p) == \A c \in Curves : paths[p].commitments[c] = <<>>

is_height_one == gadget \in WithDivisors /\ \A p \in DOMAIN paths : NoCommitments(p)

(* root_is_even: the curve of the root as the lists' lengths tell it.      *)
InvalidRootType(p) ==
  LET even == Len(paths[p].commitments["even"])
      odd  == Len(paths[p].commitments["odd"])
  IN  ~ (odd = IF root_curve = "even" THEN even + 1 ELSE even)

(* What the roots' level needs of a path.                                  *)
HasRootsChild(p) ==
  /\ paths[p].commitments[Other(root_curve)] # <<>>
  /\ gadget \in WithDivisors => paths[p].divisors[root_curve] # <<>>

RefusedAtOnce ==
  \/ \E p \in DOMAIN paths : num_indices[p] = 0 \/ num_indices[p] > M
  \/ gadget = "lookups_for_common_root" /\ \E p \in DOMAIN paths : InvalidRootType(p)
  \/ is_height_one /\ (root_curve = "even" \/ \E p \in DOMAIN paths :
                         Len(paths[p].divisors["odd"]) < num_indices[p])
  \/ /\ gadget # "lookups_for_common_root" /\ ~is_height_one
     /\ \E p \in DOMAIN paths : ~HasRootsChild(p)

VerifierRootSum(g, p) ==
  LET divisor == IF gadget \in WithDivisors THEN paths[p].divisors[root_curve][1] ELSE <<>>
  IN  WithRootSum(g, num_indices, p, paths[p].commitments[Other(root_curve)][1], divisor)

(* The divisors of the leaves, after the first from.                       *)
VerifiedLeaves(g, p, parent, from) ==
  LET leaf    == paths[p].selected
      divisor == [k \in 1 .. num_indices[p] |-> paths[p].divisors["odd"][from + k]]
  IN  WithLeaves(g, p, parent, num_indices[p], leaf, divisor)

VerifiedLeavesOfRoots(g, p) ==
  WithLeavesOfRoots(g, num_indices, p, paths[p].selected, paths[p].divisors["odd"])

VerifierStart ==
  /\ verifier.status = "root"
  /\ LET shared == Called(verifier, root_curve, SelectedOfRoots(num_indices))
     IN  verifier' =
           IF RefusedAtOnce THEN Refused(verifier)
           ELSE CASE gadget = "lookups_for_common_root" -> Stopped(shared, "child")
                  [] gadget = "divisors_for_same_root" /\ is_height_one ->
                       Stopped(WithDlogs(FoldLeft(VerifiedLeavesOfRoots, shared, AllPaths)),
                               "finished")
                  [] gadget = "divisors_for_same_root" /\ ~is_height_one ->
                       AtLevels(FoldLeft(VerifierRootSum, shared, AllPaths), 1)
                  [] gadget = "divisors" /\ is_height_one ->
                       Stopped(WithDlogs(VerifiedLeaves(verifier, 1, Root, 0)), "finished")
                  [] OTHER -> AtLevels(VerifierRootSum(verifier, 1), 1)
  /\ UNCHANGED <<gadget, height, indices, prover, paths>>

VerifierChild ==
  /\ verifier.status = "child"
  /\ LET p == verifier.path
     IN  verifier' =
           CASE \E c \in Curves : paths[p].commitments[c] = <<>> -> Refused(verifier)
             [] (\A c \in Curves : paths[p].commitments[c] # <<>>)
                /\ Cardinality(xs_by_position(num_indices, p)) # num_indices[p] ->
                  Panicked(verifier)
             [] OTHER -> AtLevels(VerifierRootSum(verifier, p), p)
  /\ UNCHANGED <<gadget, height, indices, prover, paths>>

(* Mutant: the offset is the other curve's.                                *)
child_index_other_root(c, parent_index) ==
  IF c # root_curve THEN parent_index + 1 ELSE parent_index

child_index(c, parent_index) == IF c = root_curve THEN parent_index + 1 ELSE parent_index

(* The levels of a curve's loop: with divisors, without the leaves' odd one*)
parent_levels(p, c) ==
  LET n == Len(paths[p].commitments[c])
  IN  IF gadget \in WithDivisors /\ c = "odd" /\ n > 0 THEN n - 1 ELSE n

(* Mutant: a parent without a child is passed over.                        *)
ThreadFailed_skipped(g, c) == [g EXCEPT !.pos[c] = @ + 1]

ThreadFailed(g, c) == [g EXCEPT !.pos[c] = Failed]

VerifiedLevel(g, p, c, parent_index) ==
  LET index    == child_index(c, parent_index)
      parent   == paths[p].commitments[c][parent_index]
      children == paths[p].commitments[Other(c)]
      divisors == paths[p].divisors[c]
      advanced == [g EXCEPT !.pos[c] = @ + 1]
  IN  IF gadget \notin WithDivisors /\ c = "odd" /\ parent_index = Len(paths[p].commitments[c])
      THEN VerifiedLeaves(advanced, p, parent, 0)
      ELSE IF index > Len(children) \/ (gadget \in WithDivisors /\ index > Len(divisors))
      THEN ThreadFailed(g, c)
      ELSE WithLevelSum(advanced, c, p, parent, num_indices[p], children[index],
                        IF gadget \in WithDivisors THEN divisors[index] ELSE <<>>)

VerifierLevel(c) ==
  LET p == verifier.path
  IN  /\ verifier.status = "levels"
      /\ verifier.pos[c] \in 0 .. parent_levels(p, c) - 1
      /\ Turn(c, verifier.pos["even"] = parent_levels(p, "even"))
      /\ verifier' = VerifiedLevel(verifier, p, c, verifier.pos[c] + 1)
      /\ UNCHANGED <<gadget, height, indices, prover, paths>>

leaf_divisor_start(p) == Len(paths[p].divisors["odd"]) - num_indices[p]

VerifiedLeafLevel(g, p) ==
  LET odd  == paths[p].commitments["odd"]
  IN  IF gadget \notin WithDivisors THEN g
      ELSE VerifiedLeaves(g, p, Last(odd), leaf_divisor_start(p))

(* Without any odd commitment there is nothing the leaves could be below.  *)
ThreadDone(c) == verifier.pos[c] \in {Failed, parent_levels(verifier.path, c)}

VerifierJoin ==
  /\ verifier.status = "levels"
  /\ \A c \in Curves : ThreadDone(c) \/ ~Turn(c, verifier.pos["even"] # Failed)
  /\ LET p == verifier.path
     IN  verifier' =
           IF \/ \E c \in Curves : verifier.pos[c] = Failed
              \/ paths[p].commitments["odd"] = <<>>
              \/ gadget \in WithDivisors /\ leaf_divisor_start(p) < 0
           THEN Refused(verifier)
           ELSE AfterPath(VerifiedLeafLevel(verifier, p))
  /\ UNCHANGED <<gadget, height, indices, prover, paths>>

-----------------------------------------------------------------------------
(* The leaves asked for: for one root they are cut into chunks of M.       *)
Chunks(n) ==
  [p \in 1 .. (n + M - 1) \div M |-> IF p * M <= n THEN M ELSE n % M]

Requests(g) ==
  CASE g \in {"lookups", "divisors"} -> {<<n>> : n \in 0 .. M + 1}
    [] g = "lookups_for_common_root" -> UNION {[1 .. n -> 1 .. M] : n \in 0 .. MaxPaths}
    [] g = "divisors_for_same_root" -> {Chunks(n) : n \in 0 .. M * MaxPaths}

(* Only with lookups does the caller bring the paths of a common root.     *)
HeightsOf(g, n) ==
  IF g = "lookups_for_common_root" THEN [1 .. n -> Heights]
  ELSE {[p \in 1 .. n |-> h] : h \in Heights}

Init ==
  /\ gadget \in Gadgets
  /\ indices \in Requests(gadget)
  /\ height \in HeightsOf(gadget, Len(indices))
  /\ prover = NewGadget("root")
  /\ paths = NoPaths
  /\ verifier = NewGadget("waiting")

Next ==
  \/ ProverStart
  \/ ProverChild
  \/ \E c \in Curves : ProverLevel(c)
  \/ ProverJoin
  \/ Arrives
  \/ ArrivesDamaged
  \/ ArrivesWithOtherDivisors
  \/ VerifierStart
  \/ VerifierChild
  \/ \E c \in Curves : VerifierLevel(c)
  \/ VerifierJoin

Spec == Init /\ [][Next]_vars

-----------------------------------------------------------------------------
(***************************************************************************)
(* TypeOK: how a gadget can end.  The prover panics without a leaf, with   *)
(* lookups below roots too low for the nodes it reads, and by an assertion *)
(* on paths that take their variables by position.  Nothing that arrives   *)
(* makes the verifier panic but that assertion.                            *)
(***************************************************************************)
TypeOK ==
  /\ prover.status \in {"root", "child", "levels", "finished", "refused", "panicked"}
  /\ verifier.status \in {"waiting", "root", "child", "levels", "finished", "refused", "panicked"}
  /\ prover.status = "panicked" =>
       \/ indices[1] = 0
       \/ gadget = "lookups" /\ height[1] = 1
       \/ gadget = "lookups_for_common_root"
            /\ \/ \E p \in 1 .. num_paths : height[p] \in {1, 2} \/ indices[p] = 0
               \/ \E p, q \in 1 .. num_paths : p < q /\ indices[p] < indices[q]
  /\ verifier.status = "panicked" => gadget = "lookups_for_common_root"
  /\ prover.path \in 1 .. MaxPaths /\ verifier.path \in 1 .. MaxPaths
  /\ prover.status = "levels" =>
       \A c \in Curves : prover.pos[c] \in 0 .. Len(internal_levels(prover.path, c))
  /\ \A c \in Curves : verifier.pos[c] >= Failed

(***************************************************************************)
(* SameCalls: on each of the two curves the verifier makes the calls the   *)
(* prover made, in the same order, whichever gadget, number of leaves and  *)
(* height, and however the two curves' loops interleave.                   *)
(***************************************************************************)
SameCalls ==
  verifier.status # "waiting" /\ paths = HonestPaths =>
    /\ verifier.status \notin {"refused", "panicked"}
    /\ \A c \in Curves :
         IF verifier.status = "finished" THEN verifier.calls[c] = prover.calls[c]
         ELSE IsPrefix(verifier.calls[c], prover.calls[c])

(***************************************************************************)
(* WitnessFits: wherever the prover opens or claims a sum or a leaf, the   *)
(* nodes and the scalar it gives are those the point was made of: the      *)
(* lists of nodes, sums and scalars are never read at different levels.    *)
(***************************************************************************)
WitnessFits ==
  \A w \in prover.witnessed : w.claimed = Rerandomized(w.node, w.scalar)

(* The sums of a path from the roots' children to the leaves' parents.     *)
Chain(path) ==
  LET first  == path.commitments[Other(root_curve)]
      second == path.commitments[root_curve]
  IN  [k \in 1 .. Len(first) + Len(second) |->
         IF k % 2 = 1 THEN first[(k + 1) \div 2] ELSE second[k \div 2]]

IsLink(call) == call[1] \in {"re_randomize", "discrete_log_blinding",
                             "discrete_log_blinding_assume_on_curve"}

(* What a child is shown to be selected from, each time that it is shown.  *)
LinksTo(child, calls) ==
  LET links == SelectSeq(calls, LAMBDA x : IsLink(x) /\ x[3] = child)
  IN  [k \in DOMAIN links |-> links[k][2]]

Times(call, calls) == Len(SelectSeq(calls, LAMBDA x : x = call))

(***************************************************************************)
(* NothingUnlinked: a multi-path the verifier's gadget goes through is one *)
(* chain of sums from the roots to the leaves, whatever lists arrived: each*)
(* sum is opened once, to as many nodes as there are leaves, and shown     *)
(* once to be the sum of one child of each of the nodes above it; and the  *)
(* k-th leaf is shown once to be a child of the k-th of the nodes above.   *)
(***************************************************************************)
NothingUnlinked ==
  verifier.status = "finished" =>
    \A p \in DOMAIN paths :
      LET chain    == Chain(paths[p])
          n        == num_indices[p]
          curve(k) == IF k % 2 = 1 THEN Other(root_curve) ELSE root_curve
          links(k) == LinksTo(chain[k], verifier.calls[Other(curve(k))])
          leaf(k)  == LinksTo(paths[p].selected[k], verifier.calls["odd"])
      IN  /\ Len(paths[p].commitments[Other(root_curve)])
               - Len(paths[p].commitments[root_curve]) \in {0, 1}
          /\ curve(Len(chain)) = "odd"
          /\ \A k \in DOMAIN chain :
               /\ Times(CommitVec(chain[k], n), verifier.calls[curve(k)]) = 1
               /\ Len(links(k)) = 1
               /\ IF k = 1 THEN links(k)[1][1] = Root
                  ELSE links(k)[1] = Selected(chain[k - 1], 1 .. n)
          /\ \A k \in 1 .. n :
               /\ Len(leaf(k)) = 1
               /\ IF chain = <<>> THEN leaf(k)[1][1] = Root
                  ELSE leaf(k)[1] = Selected(Last(chain), {k})

Sides == {"prover", "verifier"}
Gadget(side) == IF side = "prover" THEN prover ELSE verifier

(* The variables of shared roots that some point is shown to come from.    *)
VariablesOfRoots(g) ==
  LET links == SelectSeq(g.calls[root_curve], LAMBDA x : IsLink(x) /\ x[2][1] = Root)
  IN  [k \in DOMAIN links |-> links[k][2][2]]

(***************************************************************************)
(* SharedRootsAreSharedOut: of the children that several multi-paths select*)
(* together from their roots, every variable goes to one path, and no path *)
(* takes two of one root or one that was never allocated, though the paths *)
(* may have different numbers of leaves.                                   *)
(***************************************************************************)
SharedRootsAreSharedOut ==
  \A side \in Sides :
    LET g  == Gadget(side)
        ns == IF side = "prover" THEN indices ELSE num_indices
        xs == VariablesOfRoots(g)
    IN  gadget \in Together /\ g.status = "finished" =>
          /\ \A i \in DOMAIN xs : \A x, y \in xs[i] : x[1] = y[1] => x = y
          /\ \A i, j \in DOMAIN xs : i # j => xs[i] \cap xs[j] = {}
          /\ UNION Range(xs) =
               UNION {{<<r, j>> : j \in 1 .. ChildrenOf(ns, r)} : r \in 1 .. MostLeaves(ns)}

(***************************************************************************)
(* DivisorsFit: with divisors, each sum and each leaf is paired with the   *)
(* divisor of its own scalar, by the verifier's index as by the prover's;  *)
(* and on each curve the challenge at which they are all evaluated is      *)
(* drawn once, after everything that it has to bind.                       *)
(***************************************************************************)
DivisorsFit ==
  \A side \in Sides, c \in Curves :
    LET calls == Gadget(side).calls[c]
    IN  /\ side = "prover" \/ paths = HonestPaths =>
             \A i \in DOMAIN calls : gadget \in WithDivisors /\ IsLink(calls[i]) =>
               calls[i][4] = calls[i][3].scalar
        /\ \A i \in DOMAIN calls : calls[i] = DlogChallenge =>
             \A j \in i + 1 .. Len(calls) : IsLink(calls[j])

(***************************************************************************)
(* AnyPathsAreProved: the gadgets for a common root take, as their comment *)
(* says, "multiple paths with a common root", of any numbers of leaves.    *)
(***************************************************************************)
AnyPathsAreProved == prover.status = "panicked" => \E p \in DOMAIN indices : indices[p] = 0
=============================================================================
