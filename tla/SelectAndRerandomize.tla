------------------------ MODULE SelectAndRerandomize ------------------------
(***************************************************************************)
(* The membership gadgets of relations/src: a path from the root of a      *)
(* curve tree to a leaf is proved level by level, the even levels on one   *)
(* curve and the odd ones on the other.  A node is re-randomised; its      *)
(* parent's level shows that it is one of the parent's children, its own   *)
(* level opens it to its children.  The two loops, one per curve, index    *)
(* two lists of nodes and two of scalars, with an offset that depends on   *)
(* the parity of the height, and run in parallel (rayon::join).  The       *)
(* verifier indexes the same lists in code of its own.                     *)
(*                                                                         *)
(* A constraint system is the sequence of calls made on it: module R1CS    *)
(* says what follows when Prover and Verifier are given the same calls.    *)
(***************************************************************************)
EXTENDS GadgetCalls

CONSTANTS
  MaxHeight,      \* bound on the height of the trees
  MaxPaths,       \* bound on the paths proved together
  MaxStray        \* bound on the points too many in a path that arrives damaged

ASSUME BoundsAssumption == MaxHeight \in Nat \ {0} /\ MaxPaths \in Nat /\ MaxStray \in Nat

VARIABLES
  gadget,         \* which of the gadgets is used
  height,         \* height of the tree of each path
  prover,         \* the gadget on the two Provers
  paths,          \* the paths with re-randomised nodes the verifier is given; NoPaths before
  verifier        \* the gadget on the two Verifiers

vars == <<gadget, height, prover, paths, verifier>>

Gadgets == {
  "select_and_rerandomize", "for_common_root",     \* re-randomisation by lookups
  "with_divisors", "with_divisors_same_root"}      \* ... by divisors
WithDivisors == {"with_divisors", "with_divisors_same_root"}
Together == {"for_common_root", "with_divisors_same_root"}

NoPaths == <<>>
num_paths == Len(height)

(* The root's curve, by the parity of the first path's tree.               *)
root_curve == CurveOf(height[1])

-----------------------------------------------------------------------------
(* The witness: a node is named by its path and level, the leaf is level 0.*)

(* The levels of a path that are inner nodes on a curve, from the root.    *)
internal_levels(p, c) == inner_levels(height[p], c)

Node(p, level) == <<p, level>>

(* randomize_nodes: the children of a curve's inner nodes, on the other.   *)
rerandomized_nodes(p, c) ==
  LET parents == internal_levels(p, Other(c))
  IN  [i \in DOMAIN parents |-> Rerandomized(Node(p, parents[i] - 1), Scalar(c, p, i))]

-----------------------------------------------------------------------------
(* Calls on a constraint system that the gadgets, on either side, make.    *)
CommitVec(parent) == <<"commit_vec", parent>>

validate_point_and_re_randomize(child) ==
  <<Allocate, CurveCheck, <<"re_randomize", child>> >>

root_level_select_and_rerandomize(child) ==
  <<Claim(child), Allocate, <<"select_public_set">> >> \o validate_point_and_re_randomize(child)

single_level_select_and_rerandomize(parent, child) ==
  <<Claim(child), Allocate, <<"select", parent>> >> \o validate_point_and_re_randomize(child)

allocate_children_of_root_and_enforce_membership(n) ==
  [k \in 1 .. n |-> Allocate] \o << <<"multi_select_public_set", n>> >>

validate_and_re_randomize_child(child) ==
  <<Claim(child)>> \o validate_point_and_re_randomize(child)

select_root(child) == <<Claim(child), Allocate, Allocate, <<"select_public_set">> >>

select_non_root(parent, child) == <<Claim(child), Allocate, Allocate, <<"select", parent>> >>

(* A re-randomised node and the divisor that is to show its scalar.        *)
Item(child, divisor) == [child |-> child, divisor |-> divisor]

(* One curve's part of constraints_for_dlogs; items are kept by path.      *)
constraints_for_dlogs(items) ==
  LET all == FlattenSeq(items)
  IN  <<DlogChallenge>> \o [k \in DOMAIN all |-> <<"discrete_log_blinding", all[k]>>]

(* The state of a gadget: pos is how far the current path's two loops got. *)
NewGadget(status) ==
  [status |-> status, path |-> 1, pos |-> [c \in Curves |-> 0],
   calls |-> [c \in Curves |-> <<>>], items |-> [c \in Curves |-> [p \in 1 .. num_paths |-> <<>>]],
   witnessed |-> {}, leaf_scalars |-> <<>>]

Called(g, c, calls) == [g EXCEPT !.calls[c] = @ \o calls]
WithItem(g, c, p, item) == [g EXCEPT !.items[c][p] = Append(@, item)]
Stopped(g, status) == [g EXCEPT !.status = status]
AtLevels(g, p) == [g EXCEPT !.status = "levels", !.path = p, !.pos = [c \in Curves |-> 0]]

WithDlogs(g) ==
  [g EXCEPT !.calls = [c \in Curves |-> @[c] \o constraints_for_dlogs(g.items[c])]]

-----------------------------------------------------------------------------
(* The prover.                                                             *)
(* The root and its child on the path; with divisors also the child's.     *)
ProverRoot(g, p) ==
  LET c       == root_curve
      child   == rerandomized_nodes(p, Other(c))[1]
      scalar  == Scalar(Other(c), p, 1)
      claimed == [g EXCEPT !.witnessed = @ \cup {Opening(child, Node(p, height[p] - 1), scalar)}]
  IN  CASE gadget = "select_and_rerandomize" ->
             Called(claimed, c, root_level_select_and_rerandomize(child))
        [] gadget = "for_common_root" ->
             Called(claimed, c, validate_and_re_randomize_child(child))
        [] gadget = "with_divisors" ->
             WithItem(Called(claimed, c, select_root(child) \o <<CommitDivisor(scalar)>>),
                      c, p, Item(child, scalar))
        [] gadget = "with_divisors_same_root" ->
             WithItem(Called(claimed, c, <<Claim(child), Allocate, CommitDivisor(scalar)>>),
                      c, p, Item(child, scalar))

(* The children of the root that all the paths select among.               *)
ProverRootShared(g) ==
  Called(g, root_curve, allocate_children_of_root_and_enforce_membership(num_paths))

ProverStart ==
  /\ prover.status = "root"
  /\ prover' =
       CASE gadget = "for_common_root" /\ height = <<>> -> Stopped(prover, "panicked")
         [] gadget = "with_divisors_same_root" /\ height = <<>> ->
              Stopped(prover, "NeedNonZeroNumberOfPaths")
         [] gadget = "for_common_root" /\ \E p \in DOMAIN height : CurveOf(height[p]) # root_curve ->
              Stopped(prover, "RootTypeMismatch")
         [] gadget = "for_common_root" /\ \E p \in DOMAIN height : height[p] # height[1] ->
              Stopped(prover, "MismatchedXCoordsChildren")
         [] gadget = "for_common_root" -> Stopped(ProverRootShared(prover), "child")
         [] gadget = "with_divisors_same_root" ->
              AtLevels(FoldLeft(ProverRoot, ProverRootShared(prover), [p \in 1 .. num_paths |-> p]), 1)
         [] OTHER -> AtLevels(ProverRoot(prover, 1), 1)
  /\ UNCHANGED <<gadget, height, paths, verifier>>

(* Between the shared children of the root and the levels of a path.       *)
ProverChild ==
  /\ prover.status = "child"
  /\ prover' = IF \E c \in Curves : rerandomized_nodes(prover.path, c) = <<>>
               THEN Stopped(prover, "panicked")
               ELSE AtLevels(ProverRoot(prover, prover.path), prover.path)
  /\ UNCHANGED <<gadget, height, paths, verifier>>

prover_index(p, c, i) == IF c = root_curve THEN i + 1 ELSE i

(* One level: the parent is opened and its child claimed.                  *)
ProvedLevel(g, p, c, i) ==
  LET internal == internal_levels(p, c)
      index    == prover_index(p, c, i)
      parent   == rerandomized_nodes(p, c)[i]
      child    == rerandomized_nodes(p, Other(c))[index]
      scalar   == Scalar(Other(c), p, index)
      opened   == [g EXCEPT !.witnessed = @ \cup
                     {Opening(parent, Node(p, internal[index]), Scalar(c, p, i)),
                      Opening(child, Node(p, internal[index] - 1), scalar)}]
  IN  IF index > Len(internal) THEN g
      ELSE IF gadget \in WithDivisors
      THEN WithItem(Called(opened, c, <<CommitVec(parent)>> \o select_non_root(parent, child)
                                        \o <<CommitDivisor(scalar)>>),
                    c, p, Item(child, scalar))
      ELSE Called(opened, c,
                  <<CommitVec(parent)>> \o single_level_select_and_rerandomize(parent, child))

(* The loops run in parallel, except where all paths share one rng.        *)
Turn(g, c, even_done) == gadget = "with_divisors_same_root" /\ c = "odd" => even_done

ProverLevel(c) ==
  LET p == prover.path
      n == Len(internal_levels(p, c))
  IN  /\ prover.status = "levels" /\ prover.pos[c] < n
      /\ Turn(prover, c, prover.pos["even"] = Len(internal_levels(p, "even")))
      /\ prover' = [ProvedLevel(prover, p, c, prover.pos[c] + 1) EXCEPT !.pos[c] = @ + 1]
      /\ UNCHANGED <<gadget, height, paths, verifier>>

(* Mutant: the scalar of the first even node is returned.                  *)
WithLeafScalar_first(g, p) ==
  [g EXCEPT !.leaf_scalars = Append(@, Head(rerandomized_nodes(p, "even")).scalar)]

WithLeafScalar(g, p) ==
  [g EXCEPT !.leaf_scalars = Append(@, Last(rerandomized_nodes(p, "even")).scalar)]

(* Mutant: the challenges are drawn after each path.                       *)
AfterPath_dlogs(g) ==
  LET next == IF gadget \in WithDivisors THEN WithDlogs(g) ELSE g
  IN  IF g.path < num_paths
      THEN IF gadget = "for_common_root" THEN [next EXCEPT !.status = "child", !.path = @ + 1]
           ELSE AtLevels(next, g.path + 1)
      ELSE Stopped(next, "finished")

(* Both loops are done with a path.                                        *)
AfterPath(g) ==
  IF g.path < num_paths
  THEN IF gadget = "for_common_root" THEN [g EXCEPT !.status = "child", !.path = @ + 1]
       ELSE AtLevels(g, g.path + 1)
  ELSE Stopped(IF gadget \in WithDivisors THEN WithDlogs(g) ELSE g, "finished")

ProverJoin ==
  /\ prover.status = "levels"
  /\ \A c \in Curves : prover.pos[c] = Len(internal_levels(prover.path, c))
  /\ prover' = AfterPath(WithLeafScalar(prover, prover.path))
  /\ UNCHANGED <<gadget, height, paths, verifier>>

-----------------------------------------------------------------------------
(* The paths the prover returns, and those that arrive.                    *)
Path(even, odd, even_divisors, odd_divisors) ==
  [commitments |-> [c \in Curves |-> IF c = "even" THEN even ELSE odd],
   divisors    |-> [c \in Curves |-> IF c = "even" THEN even_divisors ELSE odd_divisors]]

DivisorsOf(p, c) ==
  LET items == prover.items[c][p] IN [k \in DOMAIN items |-> items[k].divisor]

HonestPaths ==
  [p \in 1 .. num_paths |->
     Path(rerandomized_nodes(p, "even"), rerandomized_nodes(p, "odd"),
          DivisorsOf(p, "even"), DivisorsOf(p, "odd"))]

Arrives ==
  /\ prover.status = "finished" /\ paths = NoPaths
  /\ paths' = HonestPaths
  /\ verifier' = NewGadget("root")
  /\ UNCHANGED <<gadget, height, prover>>

(* The first path arrives with lists of other lengths.                     *)
ArrivesDamaged ==
  /\ prover.status = "finished" /\ paths = NoPaths
  /\ \E even, odd, divisors \in 0 .. MaxHeight + MaxStray :
       LET path == HonestPaths[1]
           cut(s) == IF divisors < Len(s) THEN SubSeq(s, 1, divisors) ELSE s
       IN  /\ even <= Len(path.commitments["even"]) + MaxStray
           /\ odd <= Len(path.commitments["odd"]) + MaxStray
           /\ divisors <= Len(path.divisors["even"]) + 1
           /\ paths' = [HonestPaths EXCEPT ![1] =
                Path(Resized(path.commitments["even"], even, "even"), Resized(path.commitments["odd"], odd, "odd"),
                     cut(path.divisors["even"]), path.divisors["odd"])]
  /\ verifier' = NewGadget("root")
  /\ UNCHANGED <<gadget, height, prover>>

-----------------------------------------------------------------------------
(* The verifier.  A missing element is an error, never a panic.            *)
(* Mutant: it is unwrapped.                                                *)
Malformed_unwrapped(g) == Stopped(g, "panicked")

Malformed(g) == Stopped(g, "MalformedProofInput")

VerifierRoot(g, p) ==
  LET c        == root_curve
      children == paths[p].commitments[Other(c)]
      divisors == paths[p].divisors[c]
  IN  CASE gadget = "select_and_rerandomize" ->
             Called(g, c, root_level_select_and_rerandomize(children[1]))
        [] gadget = "for_common_root" ->
             Called(g, c, validate_and_re_randomize_child(children[1]))
        [] gadget = "with_divisors" ->
             WithItem(Called(g, c, select_root(children[1]) \o <<CommitDivisor(divisors[1])>>),
                      c, p, Item(children[1], divisors[1]))
        [] gadget = "with_divisors_same_root" ->
             WithItem(Called(g, c, <<Claim(children[1]), Allocate, CommitDivisor(divisors[1])>>),
                      c, p, Item(children[1], divisors[1]))

VerifierRootShared(g) ==
  Called(g, root_curve, allocate_children_of_root_and_enforce_membership(num_paths))

(* What the root's level needs of a path.                                  *)
HasRootsChild(p) ==
  /\ paths[p].commitments[Other(root_curve)] # <<>>
  /\ gadget \in WithDivisors => paths[p].divisors[root_curve] # <<>>

VerifierStart ==
  /\ verifier.status = "root"
  /\ verifier' =
       CASE gadget = "for_common_root" -> Stopped(VerifierRootShared(verifier), "child")
         [] gadget # "for_common_root" /\ \E p \in DOMAIN paths : ~HasRootsChild(p) ->
              Malformed(verifier)
         [] gadget = "with_divisors_same_root" /\ \A p \in DOMAIN paths : HasRootsChild(p) ->
              AtLevels(FoldLeft(VerifierRoot, VerifierRootShared(verifier),
                                [p \in 1 .. num_paths |-> p]), 1)
         [] OTHER -> AtLevels(VerifierRoot(verifier, 1), 1)
  /\ UNCHANGED <<gadget, height, prover, paths>>

(* select_root_given_poly: the polynomial of the root's children comes     *)
(* ready made, from a root of either curve; else as with_divisors.         *)
VerifierStartGivenPoly ==
  /\ verifier.status = "root" /\ gadget = "with_divisors"
  /\ \E root_poly \in Curves :
       verifier' = CASE root_poly # root_curve -> Stopped(verifier, "OtherRootPoly")
                     [] root_poly = root_curve /\ ~HasRootsChild(1) -> Malformed(verifier)
                     [] OTHER -> AtLevels(VerifierRoot(verifier, 1), 1)
  /\ UNCHANGED <<gadget, height, prover, paths>>

VerifierChild ==
  /\ verifier.status = "child"
  /\ LET p == verifier.path
     IN  verifier' = IF \E c \in Curves : paths[p].commitments[c] = <<>>
                     THEN Malformed(verifier)
                     ELSE AtLevels(VerifierRoot(verifier, p), p)
  /\ UNCHANGED <<gadget, height, prover, paths>>

(* Mutant: the last commitment of each curve is taken for a leaf.          *)
parent_levels_less_one(p, c) == Len(paths[p].commitments[c]) - 1

(* The parents on a curve: the last even commitment is the leaf.  An empty *)
(* even list fails, at -1.                                                 *)
parent_levels(p, c) == Len(paths[p].commitments[c]) - (IF c = "even" THEN 1 ELSE 0)

(* Mutant: the offset is the other curve's.                                *)
child_index_other_root(p, c, parent_index) ==
  IF c # root_curve THEN parent_index + 1 ELSE parent_index

child_index(p, c, parent_index) ==
  IF c = root_curve THEN parent_index + 1 ELSE parent_index

ThreadFailed(g, c) == [g EXCEPT !.pos[c] = Failed]

VerifiedLevel(g, p, c, parent_index) ==
  LET index    == child_index(p, c, parent_index)
      children == paths[p].commitments[Other(c)]
      parent   == paths[p].commitments[c][parent_index]
      divisors == paths[p].divisors[c]
      advanced == [g EXCEPT !.pos[c] = @ + 1]
      selected == Called(advanced, c, <<CommitVec(parent)>> \o select_non_root(parent, children[index]))
  IN  IF parent_levels(p, c) < 0 \/ index > Len(children) THEN ThreadFailed(g, c)
      ELSE IF gadget \notin WithDivisors
      THEN Called(advanced, c, <<CommitVec(parent)>>
                    \o single_level_select_and_rerandomize(parent, children[index]))
      ELSE IF index > Len(divisors) THEN ThreadFailed(selected, c)
      ELSE WithItem(Called(selected, c, <<CommitDivisor(divisors[index])>>),
                    c, p, Item(children[index], divisors[index]))

ThreadDone(c) == verifier.pos[c] = parent_levels(verifier.path, c)

VerifierLevel(c) ==
  /\ verifier.status = "levels"
  /\ verifier.pos[c] # Failed /\ ~ThreadDone(c)
  /\ Turn(verifier, c, verifier.pos["even"] # Failed /\ ThreadDone("even"))
  /\ verifier' = VerifiedLevel(verifier, verifier.path, c, verifier.pos[c] + 1)
  /\ UNCHANGED <<gadget, height, prover, paths>>

VerifierJoin ==
  /\ verifier.status = "levels"
  /\ \/ /\ \A c \in Curves : verifier.pos[c] # Failed /\ ThreadDone(c)
        /\ verifier' = AfterPath(verifier)
     \/ /\ \E c \in Curves : verifier.pos[c] = Failed
        /\ \A c \in Curves : verifier.pos[c] = Failed \/ ThreadDone(c)
                             \/ ~Turn(verifier, c, FALSE)
        /\ verifier' = Malformed(verifier)
  /\ UNCHANGED <<gadget, height, prover, paths>>

-----------------------------------------------------------------------------
PathsOf(g) ==
  IF g = "for_common_root" THEN UNION {[1 .. n -> 1 .. MaxHeight] : n \in 0 .. MaxPaths}
  ELSE IF g = "with_divisors_same_root"
  THEN {[p \in 1 .. n |-> h] : n \in 0 .. MaxPaths, h \in 1 .. MaxHeight}
  ELSE [1 .. 1 -> 1 .. MaxHeight]

Init ==
  /\ gadget \in Gadgets
  /\ height \in PathsOf(gadget)
  /\ prover = NewGadget("root")
  /\ paths = NoPaths
  /\ verifier = NewGadget("waiting")

Next ==
  \/ ProverStart
  \/ ProverChild
  \/ \E c \in Curves : ProverLevel(c)
  \/ ProverJoin
  \/ Arrives
  \/ ArrivesDamaged
  \/ VerifierStart
  \/ VerifierStartGivenPoly
  \/ VerifierChild
  \/ \E c \in Curves : VerifierLevel(c)
  \/ VerifierJoin

Spec == Init /\ [][Next]_vars

-----------------------------------------------------------------------------
(***************************************************************************)
(* TypeOK: how a gadget can end, and how far its loops can be: a prover's  *)
(* and an accepting verifier's as many levels as the path has on the curve.*)
(* Only the lookups for a common root panic, without any path or when the  *)
(* root is right above the leaves; no gadget of the verifier does.         *)
(***************************************************************************)
TypeOK ==
  /\ prover.status \in {"root", "child", "levels", "finished", "panicked", "RootTypeMismatch",
                        "MismatchedXCoordsChildren", "NeedNonZeroNumberOfPaths"}
  /\ prover.status = "panicked" =>
       gadget = "for_common_root" /\ \A p \in DOMAIN height : height[p] = 1
  /\ verifier.status \in {"waiting", "root", "child", "levels", "finished", "MalformedProofInput",
                          "OtherRootPoly"}
  /\ prover.path \in 1 .. MaxPaths /\ verifier.path \in 1 .. MaxPaths
  /\ prover.pos \in [Curves -> 0 .. MaxHeight]
  /\ verifier.pos \in [Curves -> {Failed} \cup 0 .. MaxHeight + MaxStray]
  /\ Len(paths) \in {0, num_paths}

(***************************************************************************)
(* SameCalls: on each of the two curves the verifier makes the calls the   *)
(* prover made, in the same order, however the loops of the two curves     *)
(* interleave on either side; and it makes them all.                       *)
(***************************************************************************)
SameCalls ==
  verifier.status # "waiting" /\ paths = HonestPaths =>
    /\ verifier.status # "MalformedProofInput"
    /\ \A c \in Curves :
         IF verifier.status = "finished" THEN verifier.calls[c] = prover.calls[c]
         ELSE IsPrefix(verifier.calls[c], prover.calls[c])

(***************************************************************************)
(* WitnessFits: wherever the prover opens or claims a re-randomised node,  *)
(* the node and the scalar it gives as the witness are those that point    *)
(* was made of: the four lists are never read at different levels.  What is*)
(* returned with each path is the scalar of its re-randomised leaf, the    *)
(* last even commitment.                                                   *)
(***************************************************************************)
WitnessFits ==
  /\ \A w \in prover.witnessed : w.claimed = Rerandomized(w.node, w.scalar)
  /\ prover.status = "finished" =>
       \A p \in 1 .. num_paths :
         Last(rerandomized_nodes(p, "even")) = Rerandomized(Node(p, 0), prover.leaf_scalars[p])

(* The points of a path from the root's child to the leaf.                 *)
Chain(path) ==
  LET first == path.commitments[Other(root_curve)]
      second == path.commitments[root_curve]
  IN  [k \in 1 .. Len(first) + Len(second) |->
         IF k % 2 = 1 THEN first[(k + 1) \div 2] ELSE second[k \div 2]]

Alternates(path) ==
  Len(path.commitments[Other(root_curve)]) - Len(path.commitments[root_curve]) \in {0, 1}

Occurrences(call, calls) == Len(SelectSeq(calls, LAMBDA x : x = call))

(***************************************************************************)
(* NothingUnlinked: a path the verifier's gadget goes through is one chain *)
(* from the root's child down to a leaf on the even curve, whatever lists  *)
(* arrived: each point is claimed once as a child, right where its parent  *)
(* is opened, and each but the leaf is opened once.                        *)
(***************************************************************************)
NothingUnlinked ==
  verifier.status = "finished" =>
    \A p \in DOMAIN paths :
      LET chain == Chain(paths[p])
          calls == verifier.calls
          curve(k) == IF k % 2 = 1 THEN Other(root_curve) ELSE root_curve
          parents(k) == calls[Other(curve(k))]
      IN  /\ Alternates(paths[p])
          /\ curve(Len(chain)) = "even"
          /\ \A k \in DOMAIN chain :
               /\ Occurrences(Claim(chain[k]), parents(k)) = 1
               /\ Occurrences(CommitVec(chain[k]), calls[curve(k)]) =
                    IF k = Len(chain) THEN 0 ELSE 1
               /\ k > 1 => \E j \in 2 .. Len(parents(k)) :
                             /\ parents(k)[j] = Claim(chain[k])
                             /\ parents(k)[j - 1] = CommitVec(chain[k - 1])

(***************************************************************************)
(* DivisorsFit: with divisors, each child is paired with the divisor of    *)
(* its own scalar, by the verifier's index as by the prover's; and the     *)
(* challenge at which they are all evaluated is drawn once, after          *)
(* everything it has to bind on that curve.                                *)
(***************************************************************************)
DivisorsFit ==
  \A g \in {prover, verifier} :
    \A c \in Curves :
      /\ (g = prover \/ paths = HonestPaths) =>
           \A p \in DOMAIN g.items[c] : \A k \in DOMAIN g.items[c][p] :
             g.items[c][p][k].divisor = g.items[c][p][k].child.scalar
      /\ \A i \in DOMAIN g.calls[c] :
           g.calls[c][i] = DlogChallenge =>
             \A j \in i + 1 .. Len(g.calls[c]) : g.calls[c][j][1] = "discrete_log_blinding"

=============================================================================
