SPECIFICATION Spec
CONSTANTS
  L = 2
  Height = 3
  Leaf = {a, b}
  DefaultLeaf = zero
  Scrambled = scrambled
  NoPath = none
  MaxInserts = 8
INVARIANTS
  TypeOK
  FrontierMatchesTree
  RootCommitsToAllLeaves
  ReturnedPathOpensRoot
PROPERTIES
  AppendOnlyWithinCapacity
  ImplementsLog
