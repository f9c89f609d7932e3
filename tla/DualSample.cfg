SPECIFICATION Spec
CONSTANTS
  t1 = t1  t2 = t2  modelA = modelA  modelB = modelB  gpu1 = gpu1  gpu2 = gpu2
  NoThread = NoThread  NoDevice = NoDevice
  Threads = {t1}
  States = {modelA}
  Owner <- MCSharedOwner
  Secondaries = {gpu1, gpu2}
  Shapes = {"exact", "audio", "sol"}
  Signature <- MCSignature
  Sol = {"sol"}
  Long = {"exact", "audio"}
  LeaseKey <- MCLeaseKey
  PoolNeed <- MCPoolNeed
  Ranges = 1
  RESOURCE_REPROBES_PER_SAMPLE = 1
  MaxSamples = 1
  MaxBlocks = 5
SYMMETRY MCSwap
INVARIANTS QuarantineRespected ResourceFailuresBounded
PROPERTY ReadmissionNeedsCompletedBlock
CHECK_DEADLOCK FALSE
