SPECIFICATION Spec
CONSTANTS
  t1 = t1  t2 = t2  modelA = modelA  modelB = modelB  gpu1 = gpu1  gpu2 = gpu2
  NoThread = NoThread  NoDevice = NoDevice
  Threads = {t1, t2}
  States = {modelA}
  Owner <- MCSharedOwner
  Secondaries = {gpu1}
  Shapes = {"exact"}
  Signature <- MCSignature
  Sol = {}
  Long = {"exact"}
  LeaseKey <- MCLeaseKey
  PoolNeed <- MCPoolNeed
  Ranges = 1
  RESOURCE_REPROBES_PER_SAMPLE = 2
  MaxSamples = 1
  MaxBlocks = 2
INVARIANT OnlyAllocationPressureRetried
CHECK_DEADLOCK FALSE
