# Curve trees in TLA+

A verification project for this repository: TLA+ modules for the curve trees, the constraint
system underneath them and the select-and-rerandomize protocol between them; TLC runs over small
instances; proofs, checked by TLAPS, for every size.

To check a run or a proof, in this directory:

    tlc -config LeanCurveTree_binary.cfg LeanCurveTree.tla
    tlapm LeanCurveTreeProofs.tla

## 1. The system

A *curve tree* is a Merkle-like tree over a cycle of two elliptic curves. A node is a Pedersen
commitment to the x-coordinates of its children; levels alternate between the even and the odd
curve; the leaves are even. A prover shows that a (rerandomized) commitment is a leaf without
saying which one: at every level it rerandomizes the child, and proves in a Bulletproofs R1CS
circuit over that curve's scalar field that the rerandomized child is one of the committed children.

| Component | State | Operations | What makes it correct |
| --- | --- | --- | --- |
| Lean tree (`lean_curve_tree.rs`) | next leaf index; one node per level, the frontier | `new`, `insert`, `insert_and_return_path`, `path_for_last_added_leaf`, `root_node` | the root commits to all leaves inserted, in order; a returned path opens that root |
| Partial tree (`partial_curve_tree.rs`) | next leaf index; tracked leaves; a map of known nodes per level | `insert_leaf`, `update_on_leaves`, `clear_full_nodes`, `get_path_to_leaf`, `root_node` | it has the chain's root after replaying the chain's leaves; the path of every tracked leaf opens it |
| Full tree (`curve_tree.rs`) | all nodes, for M generator sets | `from_leaves`, `increase_height`, `update_leaf`, `get_leaf`, paths | an updated tree is the tree built from the updated leaves |
| Membership protocol (`curve_tree_prover.rs`, `prover.rs`, `curve_tree_verifier.rs`, `verifier.rs`, `single_level_...rs`) | two constraint systems (one per curve), rerandomized paths, divisor commitments | four prover gadgets and their verifiers | the verifier makes exactly the prover's constraint-system calls; every node of the path is linked to its parent |
| Common-root verifier (`verifier_common_root.rs`) | as above | the verifier of one path, given the root's polynomial | it accepts only for the root's own curve, and makes the same calls |
| Curve forests (`batched_*.rs`) | as above; a path for up to M leaves, one in each of M trees; children of shared roots | four gadgets for one multi-path or several | as above; each shared variable goes to the path it was allocated for; each divisor is paired with its own scalar |
| R1CS (`r1cs/prover.rs`, `r1cs/verifier/mod.rs`) | multipliers, constraints, pending multiplier, deferred callbacks, commitments, transcript | `multiply`, `allocate`, `allocate_multiplier`, `constrain`, `commit`, `commit_vec`, `specify_randomized_constraints`, `challenge_scalar`, `prove`, `verify` | an honest proof verifies; both sides number variables alike; challenges bind what precedes them |
| Batch verification (`r1cs/verifier/batch.rs`) | random weights, one multi-exponentiation or a caller's checker | `batch_verify`, `add_verification_tuples_to_rmc` and their variants | accepted exactly when each proof is valid; a refused call adds nothing |
| Committed points (`ped_comm_group_elems.rs`, the divisor layout of `prover.rs` and `ark-dlog-gadget/src/dlog.rs`) | a message of points, keys and divisor commitments | `prove`, `verify` | same calls on both sides; the message's keys are the indices asked for; the layout follows from the counts |
| Inner-product argument, generators, multi-exponentiation, transcript | none of their own | pure | algebraic identities |
| Gadgets (`select.rs`, `rerandomize.rs`, `lookup.rs`, `curve.rs`, `range_proof.rs`, `fixed_base_tables.rs`, `ped_comm_group_elems_naive.rs`, the rest of `ark-dlog-gadget`) | none of their own | pure constraint generation | the constraints say what the gadget's name says |
| EC divisors (`ark-ec-divisors`) | none | pure polynomial arithmetic | the divisor is the one of the scalar multiplication |
| Coins (`coin.rs`) | commented out of `lib.rs` | | |

**How they interact.** The chain keeps the lean tree and publishes leaves and frontiers; a wallet
feeds both to its partial tree (the nodes returned by `insert_and_return_path` for a leaf it tracks,
plain leaves for the others). A path of a full or a partial tree is the witness of the membership
protocol, which talks to two `R1CS` provers or verifiers, one for each curve and so one for each
transcript, only through the constraint-system trait. With the `parallel` feature the two curves'
loops run in parallel. Callbacks deferred with `specify_randomized_constraints` run inside `prove`
and `verify`. Nothing is persisted, no messages are sent, and no code waits: there is no recovery,
no timeout and no scheduling in the repository beyond the fork and join of the two loops.

**What is hard.** Long call sequences that must keep a partial picture of a tree consistent (the
frontier, the wallet); nodes reset or removed at the right time; indices that depend on the parity
of a level; two programs, prover and verifier, that must stay in step through early returns,
deferred callbacks and padding without ever exchanging more than the proof. `PROJECT.json` lists
each hazard at its line with the properties that guard it.

## 2. The modules

| Module | Models | State to code |
| --- | --- | --- |
| `CurveTreeNodes` | the operators of a node shared by both incremental trees | `update_node`, `get_witness_node`, `get_default_nodes`, `combine_default` |
| `LeanCurveTree` | the chain's tree | `next_leaf_index` and the frontier `nodes` (`even/odd_level_path_nodes` as one sequence); `leaves`, `returned` are history |
| `CommittedLog` | the abstract specification: a log of leaves, a root that commits to them | implemented by `LeanCurveTree` (`ImplementsLog`) and by the wallet (`WalletImplementsLog`) |
| `PartialCurveTree`, `MCPartialCurveTree` | the wallet's tree beside the chain (it EXTENDS `LeanCurveTree`) | `partial_next`, `tracked`, `known` (both maps of levels as one function) |
| `CurveTree` | the full tree for M generator sets | a leaf row and, per level, M commitments and M rows of x-coordinates |
| `R1CS`, `MCR1CS` | one `Prover` and one `Verifier`, and the gadget both run | the fields of the two structs; the transcript is the sequence of labelled messages |
| `GadgetCalls` | what the two membership modules share: curves, re-randomised points, plain calls | |
| `SelectAndRerandomize` | the membership gadgets for single paths, over two constraint systems; `VerifierStartGivenPoly` is the verifier of `verifier_common_root.rs` | `prover` and `verifier`: status, position of each curve's loop, the calls made on each transcript |
| `BatchedSelectAndRerandomize` | the membership gadgets for multi-paths of a forest | as above, with the path in turn; `indices` is the number of leaves of each multi-path |
| `BatchVerification` | the weighted merge of proofs, at once or in a caller's checker | `collected` tuples, the checker `rmc`, the exponents of weights drawn |
| `DivisorChunks`, `PedCommGroupElems` | how the witness of a discrete logarithm is cut into vector commitments, and the proof that re-randomised points are those committed to | the calls of each side; `sent` is the message |
| `NatFacts`, `CurveTreeNodesProofs`, `LeanCurveTreeProofs`, `PedCommGroupElemsProofs` | lemmas and theorems | |

**Abstractions.** A commitment is the symbolic term of what it commits to (a node is the sequence of
its children's x-coordinates with its generator set): two commitments are equal exactly when
everything they commit to is, which is the binding property of Pedersen commitments. Field
arithmetic and curve points are left out; what is kept is which value goes to which slot, in which
order, and which call fails. In `R1CS` an assignment is a value small enough to tell a fulfilled gate
from another; in the membership modules a re-randomised point is the node with the scalar that was
drawn for it, so that a node opened with another's scalar shows; in `BatchVerification` a scalar is
a polynomial in the random weights, zero when all its coefficients are. Panics (`unwrap`, `assert!`,
indexing) are a status `"panicked"` where a caller can reach them, and are otherwise outside the
model. Errors that carry different messages but end a gadget alike are one status. `RECURSIVE`
operators are not used: recursion is written as recursive functions and folds.

## 3. The runs

| Run | Question | Bounds and why they are enough |
| --- | --- | --- |
| `lean_binary` | are the frontier, the root and the returned paths right after every sequence of insertions, and is the tree an append-only log (`ImplementsLog`)? | L = 2, height 3, all 8 leaves, two leaf values that may repeat: each level is dropped and refilled, the root from both halves |
| `lean_overfilled` | *violated*: `AppendOnly` past the capacity | height 2, one leaf more than the 4 that fit |
| `partial_replay` | does the wallet have the chain's root after every replay, and do tracked paths open it (`WalletImplementsLog`)? | height 3; the chain inserts up to 9 leaves, one more than fits; every batch size, every choice of tracked leaves, clearing where it is harmless (`ClearAnytime = FALSE`). The constraint `LeavesDiffer` keeps the leaves distinct and in order: a leaf is then told apart from any other by its value, and which values they are does not matter |
| `partial_clear_loses_path` | *violated*: `clear_full_nodes` at any time | height 2, the smallest tree with a node that is known, not full and on no tracked path |
| `curve_forest` | is an updated tree the tree built from the updated leaves, for each generator set that was told? | L = M = 2, up to 3 leaves (a row with a missing child), height up to 3, more than the leaves need |
| `r1cs_calls` | are prover and verifier in step, and do challenges bind what precedes them? | every program of four calls: enough for a multiplier left half assigned, its completion, a deferred callback and a call inside it; generators for 4, and 2 or 4 on the verifier's side, reach both capacity errors |
| `r1cs_capacity` | *violated*: the documented capacity | vectors of 3 or 5 values and six generators |
| `membership_paths` | same calls, right witnesses, nothing unlinked | heights 1 to 5: both parities of the root and two full rounds of alternation; one and two paths; the first arrives with its lists cut short or with a stray element |
| `forest_paths` | the same for multi-paths, and are the children of shared roots shared out? | two trees, heights 1 to 5, up to three multi-paths with every mix of one and two leaves; damaged lists as above, of divisors and leaves too. Two trees give the first of a path and one that is added to it; three paths give one in between |
| `forest_uneven` | *violated*: paths of any length with a common root | two multi-paths |
| `batch_mixed` | is a batch accepted exactly when its proofs are valid? | proofs of sizes 1, 2 and too large, valid or not, malformed; two in a call, three in a checker, so that a call adds to what an earlier one left; weights up to the fourth power |
| `ped_comm` | do both sides make the same calls, whatever the indices, estimates and damaged message? | scalars of 5 bits and chunks of at least 2, so that the layout takes every chunk length; up to two points, three estimates |

`CHECK_DEADLOCK FALSE` is set wherever the modelled program ends: a finished proof, a
counter at its bound.

**Fairness.** No specification states any: the code has no scheduler, no retry and no waiting, so
every property is a safety property. The one concurrency, the two curves' loops under `parallel`, is
modelled as interleaved steps; that both end is a matter of `join`.

## 4. What is proved

`LeanCurveTreeProofs` proves, for every arity `L >= 1`, height, leaf set and number of insertions:

- `TypeTheorem`: `Spec => []TypeOK`, past the capacity too;
- `FrontierTheorem`: `Spec => []FrontierMatchesTree`, the frontier is the one of the full tree;
- `RootTheorem`, `PathTheorem`, `AppendOnlyTheorem`: the root commits to all leaves, returned
  paths open it, and no earlier leaf changes;
- `LogTheorem`: the lean tree implements `CommittedLog` (whenever the insertions fit).

**The argument.** `RootCommitsToAllLeaves` is not inductive: the root is recomputed from the
frontier, so the invariant has to say what *every* level holds. `IInv` is `TypeOK` and
`FrontierMatchesTree`: while the insertions fit, the node of each level is the node of the full
tree on the path of the last leaf, with its children so far and defaults beyond them. One insertion
is then followed upwards, level by level: `NatFacts` has the arithmetic of division and powers,
`CurveTreeNodesProofs` what `update_node` and `combine_default` do to a node that agrees with
the full tree, and the induction over the levels is a bounded invariant of the recursive function
that walks up. The assumptions are those of the modules: `LAssumption` and `HeightAssumption` (both
positive), `DefaultLeafAssumption` (the point at infinity is not inserted) and
`MaxInsertsAssumption`.

`PedCommGroupElemsProofs` proves, for every scalar size, least chunk length, number of points and
set of estimates:

- `ChunkLenTheorem`: whatever the estimate, the chunk length chosen is one that the verifier accepts
  and that divides the witness of a single point;
- `LayoutTheorem`: `Spec => []LayoutRecovered`, the chunk length follows from the number of
  commitments, though nobody sends it;
- `KeysTheorem`: `Spec => []KeysAreShared`, once `verify` has accepted, the keys of the message are
  exactly the indices it was asked for.

`KeysTheorem` needs `KeysInv`, which adds to `KeysAreShared` that the message does not change after
the verifier has answered; `verify` compares the numbers of keys and looks each index up, and finite
sets of the same size of which one contains the other are equal. The assumptions are
`ScalarBitsAssumption`, `MinChunkLenAssumption` and `EstimatesAssumption`.

Only model-checked: everything of the other modules, and the other properties of
`PedCommGroupElems`. Out of the prover's reach: liveness (there is none here), and what
recursive definitions compute for every input, by induction over data.

## 5. Where code and documentation disagree

Four are runs that TLC refutes; `PROJECT.json` quotes the lines.

1. `lean_overfilled`: `insert` past the capacity overwrites the first subtree.
2. `partial_clear_loses_path`: `clear_full_nodes` also removes nodes that are not full; the next
   batch loses their leaves, and tracked paths with them.
3. `r1cs_capacity`: generators for more than the number of multipliers may not be enough.
4. `forest_uneven`: with lookups, several multi-paths with the same roots of which one is followed by
   a longer one end in a failed assertion, since the variables are dealt by position.

Smaller ones, met while modelling, that have no run of their own:

- `get_leaf` and the paths take the index modulo the capacity: beyond it they answer another leaf.
- Between the `update_leaf` calls for two generator sets a path of the set that was not yet told
  holds a child that is not among its own x-coordinates (`ToldPathsOpenRoot` therefore speaks of the
  sets that were told).
- The lookup gadgets for a common root panic without a path, and over a tree of height 1; those for
  multi-paths also at height 2, and the one for a single multi-path at height 1 (`TypeOK` of both
  modules says exactly when). The gadgets with divisors prove these.
- `get_paths_to_leaves` of a forest panics when it is given no index.
- The assertion of `forest_uneven` is in the verifier as well, which takes the numbers of leaves from
  the paths it was given.
- In `ped_comm_group_elems.rs` `prove` panics for a shared index beyond the points, where `verify`
  answers an error.
- For scalars of 256 bits a witness has 514 = 2 * 257 coefficients, and 257 is prime: the only chunk
  lengths are 257 and 514, whatever the estimate.

## 6. Plan

1. Done: `LeanCurveTree` with its proofs, `PartialCurveTree`, `CurveTree`, `R1CS`,
   `SelectAndRerandomize` with the common-root verifier, `BatchedSelectAndRerandomize`,
   `BatchVerification`, `DivisorChunks` and `PedCommGroupElems` with theirs.
2. Next, in this order: the pure algorithms (baby-step giant-step selection, the windows of the
   re-randomisation, joint sparse form, the scalars of the inner-product argument) checked
   against reference definitions over small fields; `ped_comm_group_elems_naive.rs`; two wallets that
   share a chain.
3. Proofs to come: `SameVariables` of `R1CS`; `RootIsTheChains` and
   `TrackedPathsOpenRoot` of `PartialCurveTree`, on the lemmas of `CurveTreeNodesProofs`;
   `NothingUnlinked` of `SelectAndRerandomize` for every height; `RefusedCallAddsNothing` of
   `BatchVerification`; `SharedRootsAreSharedOut`.

## 7. Not modelled, and why

Elliptic-curve and polynomial arithmetic (`ark-ec-divisors`, most of `ark-dlog-gadget`, the
inner-product argument's folding) works over fields of 255 bits: TLC could only check toy fields
and the prover cannot induct over data. Generators and tables are derived by hashing. `coin.rs` is
not built. Benchmarks, serialisation and error texts carry no state.
