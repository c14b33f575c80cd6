SPECIFICATION PartialSpec
CONSTANTS
  L = 2
  Height = 3
  Leaf = {1, 2, 3, 4, 5, 6, 7, 8, 9}
  DefaultLeaf = zero
  Scrambled = scrambled
  NoPath = none
  MaxInserts = 9
  ClearAnytime = FALSE
CONSTRAINT LeavesDiffer
PROPERTY WalletImplementsLog
INVARIANTS
  PartialTypeOK
  RootIsTheChains
  TrackedPathsOpenRoot
  NoNodeIsStale
CHECK_DEADLOCK FALSE
