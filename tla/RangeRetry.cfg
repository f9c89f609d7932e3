SPECIFICATION Spec
CONSTANTS
  Tokens = 11
  BlockSize = 3
  Chunks = {1, 3, 4}
  Layouts <- MCLayouts
INVARIANT ConsumedWhole
CHECK_DEADLOCK FALSE
