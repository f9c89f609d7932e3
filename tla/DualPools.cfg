SPECIFICATION Spec
CONSTANTS
  t1 = t1  t2 = t2  modelA = modelA  modelB = modelB  gpu1 = gpu1  gpu2 = gpu2
  NoThread = NoThread  NoDevice = NoDevice
  Threads = {t1, t2}
  States = {modelA, modelB}
  Owner <- MCSplitOwner
  Secondaries = {gpu1}
  Shapes = {"short"}
  Signature <- MCSignature
  Sol = {}
  Long = {}
  LeaseKey <- MCLeaseKey
  PoolNeed <- MCPoolNeed
  Ranges = 1
  RESOURCE_REPROBES_PER_SAMPLE = 2
  MaxSamples = 1
  MaxBlocks = 1
INVARIANT IdlePoolReleased
CHECK_DEADLOCK FALSE
