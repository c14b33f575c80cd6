SPECIFICATION Spec
CONSTANTS
  ScalarBits = 5
  MIN_CHUNK_LEN = 2
  MaxPoints = 2
  Estimates = {1, 3, 5}
INVARIANTS
  
  SameCalls
  RolesFit
  NotMalleable
  KeysAreShared
  LayoutRecovered
CHECK_DEADLOCK FALSE
