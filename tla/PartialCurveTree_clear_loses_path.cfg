SPECIFICATION PartialSpec
CONSTANTS
  L = 2
  Height = 2
  Leaf = {a, b}
  DefaultLeaf = zero
  Scrambled = scrambled
  NoPath = none
  MaxInserts = 4
  ClearAnytime = TRUE
INVARIANT TrackedPathsOpenRoot
