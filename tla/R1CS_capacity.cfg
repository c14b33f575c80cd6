SPECIFICATION Spec
CONSTANTS
  Dimensions = {3, 5}
  Callbacks <- SomeCallbacks
  ProverGens = {6}
  VerifierGens = {8}
  MaxCalls = 2
INVARIANTS
  CapacityAboveMultipliersSuffices
CHECK_DEADLOCK FALSE
