-------------------------- MODULE MCPartialCurveTree --------------------------
(***************************************************************************)
(* The instance TLC checks.  The trees move leaves and never compare them, *)
(* so one sequence of leaves that all differ shows every misplacement:     *)
(* the chain inserts leaf 1, then leaf 2, and so on.                       *)
(***************************************************************************)
EXTENDS PartialCurveTree

LeavesDiffer == \A k \in DOMAIN leaves : leaves[k] = k
=============================================================================
