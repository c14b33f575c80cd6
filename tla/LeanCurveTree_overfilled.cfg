SPECIFICATION Spec
CONSTANTS
  L = 2
  Height = 2
  Leaf = {a, b}
  DefaultLeaf = zero
  Scrambled = scrambled
  NoPath = none
  MaxInserts = 5
PROPERTY AppendOnly
