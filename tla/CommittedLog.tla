----------------------------- MODULE CommittedLog -----------------------------
(***************************************************************************)
(* What the incremental trees promise: a log of leaves that only grows at  *)
(* its end, and a root that is the commitment to the whole log.  How many  *)
(* leaves a step adds is the implementation's business: the chain's tree   *)
(* adds one at a time, a wallet's tree may skip ahead.                     *)
(***************************************************************************)
EXTENDS Integers, Sequences

CONSTANTS
  Element,     \* what the log holds
  Commit(_)    \* the commitment to a log

VARIABLES
  log,
  root

Init ==
  /\ log = <<>>
  /\ root = Commit(log)

Grow ==
  /\ log' \in Seq(Element)
  /\ Len(log') > Len(log)
  /\ SubSeq(log', 1, Len(log)) = log
  /\ root' = Commit(log')

Spec == Init /\ [][Grow]_<<log, root>>
=============================================================================
