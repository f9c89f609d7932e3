SPECIFICATION FairSpec
CONSTANTS
  Chunks = 2
  RopeChunks = 2
  Ranges = 2
  Splits = 2
  MaxCalls = 2
INVARIANTS TransfersExact SecondaryReleased GraphOutputWhole
PROPERTY CallEnds
CHECK_DEADLOCK FALSE
