SPECIFICATION FairSpec
CONSTANTS
  t1 = t1  t2 = t2  modelA = modelA  modelB = modelB  gpu1 = gpu1  gpu2 = gpu2
  NoThread = NoThread  NoDevice = NoDevice
  Threads = {t1, t2}
  States = {modelA}
  Owner <- MCSharedOwner
  Secondaries = {gpu1}
  Shapes = {"short"}
  Signature <- MCSignature
  Sol = {}
  Long = {}
  LeaseKey <- MCLeaseKey
  PoolNeed <- MCPoolNeed
  Ranges = 2
  RESOURCE_REPROBES_PER_SAMPLE = 2
  MaxSamples = 1
  MaxBlocks = 1
INVARIANTS LockCoversWork OutputIsWhole IdlePoolReleased
PROPERTIES PoolHeldWhileComputing BlockEnds ImplementsBlockService
CHECK_DEADLOCK FALSE
