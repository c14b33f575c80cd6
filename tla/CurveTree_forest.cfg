SPECIFICATION Spec
CONSTANTS
  L = 2
  M = 2
  Leaf = {a, b}
  Zero = zero
  Scrambled = scrambled
  Error = err
  MaxLeaves = 3
  MaxHeight = 3
INVARIANTS
  TypeOK
  UpdatesEqualRebuild
  ToldPathsOpenRoot
