SPECIFICATION Spec
CONSTANTS
  BlockCount = 4
  Protected <- MCProtected
  Calibration <- MCCalibration
  Steps = 4
  Settings <- MCSettings
  GuardEnd = 70
  Shapes = {"clip", "talk", "short"}
  Qualified <- MCQualified
  AudioHeavy <- MCAudioHeavy
  Measurements <- MCMeasurements
  MeanLimit = 95
  WorstLimit = 102
  CacheEntries = 1
  Reuses = 1
  MaxSamples = 3
  MaxForwards = 2
  None = None
INVARIANTS LossyInsideWindow LossyWellMeasured MeasuredStepExact ReuseOnce BrokenStaysExact CalibrationSettles
CHECK_DEADLOCK FALSE
