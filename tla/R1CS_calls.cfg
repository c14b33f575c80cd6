SPECIFICATION Spec
CONSTANTS
  Dimensions = {1, 3}
  Callbacks <- SomeCallbacks
  ProverGens = {4}
  VerifierGens = {2, 4}
  MaxCalls = 4
INVARIANTS
  TypeOK
  HonestProofVerifies
  SameVariables
  GatesHold
  ChallengesBind
CHECK_DEADLOCK FALSE
