SPECIFICATION FairSpec
CONSTANTS
  Tokens = 11
  BlockSize = 3
  Chunks = {1, 3, 4}
  Layouts <- MCLayouts
INVARIANT ZeroesOverwritten
PROPERTIES TimingMeansWhole LiveReturnsWhole ConsumeEnds
CHECK_DEADLOCK FALSE
