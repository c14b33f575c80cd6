------------------------------- MODULE MCR1CS -------------------------------
(* Callbacks for the runs of R1CS: none of a gadget's calls, a challenge    *)
(* with a half assigned multiplier, a whole one, and one that gives up.     *)
EXTENDS R1CS

SomeCallbacks == {
  <<"challenge_scalar", "constrain">>,
  <<"allocate", "challenge_scalar">>,
  <<"challenge_scalar", "multiply", "allocate", "allocate_multiplier">>,
  <<"allocate", "missing">> }
=============================================================================
