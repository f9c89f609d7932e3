SPECIFICATION Spec
CONSTANTS
  Uuids = {"positive", "negative", "ranged"}
  Optional = {"ranged"}
  CallShapes <- MCShapes
  Configs <- MCConfigs
  Transient = 1
  OffGrid = 1
  MaxPasses = 2
INVARIANTS WindowRespected PredictionsFresh OneModelRun NothingRetained GateMatchesEntry CacheWithinLimit
