----------------------------- MODULE GadgetCalls -----------------------------
(***************************************************************************)
(* What the membership gadgets for single paths (SelectAndRerandomize) and *)
(* those for multi-paths (BatchedSelectAndRerandomize) share: the two      *)
(* curves, the re-randomised nodes and the plain calls on a constraint     *)
(* system.                                                                 *)
(***************************************************************************)
EXTENDS Integers, Sequences, SequencesExt

Curves == {"even", "odd"}
Other(c) == IF c = "even" THEN "odd" ELSE "even"
CurveOf(level) == IF level % 2 = 0 THEN "even" ELSE "odd"

(* The levels of the inner nodes on a curve, from the root of height h.    *)
inner_levels(h, c) == SelectSeq([k \in 1 .. h |-> h + 1 - k], LAMBDA l : CurveOf(l) = c)

(* The i-th re-randomisation scalar that a path p draws for a curve.       *)
Scalar(c, p, i) == <<c, p, i>>
Rerandomized(node, scalar) == [node |-> node, scalar |-> scalar]

(* A point that is opened or claimed, and what the prover opens it with.   *)
Opening(claimed, node, scalar) == [claimed |-> claimed, node |-> node, scalar |-> scalar]

(* A list that arrives with n elements, stray ones after its own.          *)
Stray(list, k) == Rerandomized(<<list>>, <<k>>)
Resized(s, n, list) == [k \in 1 .. n |-> IF k <= Len(s) THEN s[k] ELSE Stray(list, k)]

-----------------------------------------------------------------------------
(* Calls on a constraint system, on either side.                           *)
Claim(child) == <<"rerandomized_child", child>>
Allocate == <<"allocate">>
CurveCheck == <<"curve_check">>
CommitDivisor(divisor) == <<"commit_divisor", divisor>>
DlogChallenge == <<"discrete_log_challenge">>

(* How far a loop got that ended with an error.                            *)
Failed == -1
=============================================================================
