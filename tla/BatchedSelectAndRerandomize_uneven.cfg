SPECIFICATION Spec
CONSTANTS
  M = 2
  Heights = {3, 4}
  MaxPaths = 2
  MaxStray = 0
INVARIANTS
  AnyPathsAreProved
CHECK_DEADLOCK FALSE
