SPECIFICATION Spec
CONSTANTS
  Weights = {"qkv"}
  Memory = 3
  PageSize = 1
  SoftFloor = 2
  HardFloor = 1
  MinimumTrim = 1
  CooldownChecks = 1
  MaxChunks = 2
  Output = 2
  Reserve = 2
  ReuseFloor = 2
  TrimTarget = 2
  SmallTrim = 1
  LargeTrim = 2
  Patcher = {"h3", "optimized", "control", "text"}
  UuidOf <- MCUuid
  InnerOf <- MCUuid
  NestedOf <- MCNested
  Dynamic = {"h3", "optimized", "control", "text"}
  Sampled = {"optimized"}
  Opaque = {"text"}
  H3 = "h3"
  Loads <- MCLoads
INVARIANTS StaleReleased RoomForSampling CompleteWeightsUsed CastsReleased
PROPERTIES NeededKept RetryExhaustsMemory
