SPECIFICATION Spec
CONSTANTS
  Sizes = {1, 2}
  GensCapacity = 2
  MaxBatch = 2
  MaxInChecker = 3
  MaxExponent = 4
INVARIANTS
  TypeOK
  BatchAcceptsExactlyValid
  CheckerAcceptsExactlyValid
PROPERTY RefusedCallAddsNothing
