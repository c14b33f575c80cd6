SPECIFICATION Spec
CONSTANTS
  MaxHeight = 5
  MaxPaths = 2
  MaxStray = 1
INVARIANTS
  TypeOK
  SameCalls
  WitnessFits
  NothingUnlinked
  DivisorsFit
CHECK_DEADLOCK FALSE
