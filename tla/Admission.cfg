SPECIFICATION Spec
CONSTANTS
  Primary = 0
  Secondaries = {1, 2}
  Total <- MCTotal
  Reserve <- MCReserve
  Common = 16
  Heads = 4
  Requests <- MCRequests
  Chunks <- MCChunks
  Levels <- MCLevels
  Inactive = {0, 2}
  Hosts = {2, 5}
  MinReclaimable = 1
  MinHeadGain = 1
  DriverFloor = 3
  CooldownChecks = 1
  None = None
INVARIANTS SplitIsBest TrimRescues AdmittedFits
