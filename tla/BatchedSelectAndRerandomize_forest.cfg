SPECIFICATION Spec
CONSTANTS
  M = 2
  Heights = {1, 2, 3, 4, 5}
  MaxPaths = 3
  MaxStray = 1
INVARIANTS
  TypeOK
  SameCalls
  WitnessFits
  NothingUnlinked
  SharedRootsAreSharedOut
  DivisorsFit
CHECK_DEADLOCK FALSE
