SPECIFICATION Spec
CONSTANTS
  n1 = n1
  n2 = n2
  None = None
  TempLimit = 1
  MemLimit = 50
  DiskLimit = 1
  UnreachableRule = TRUE
  StabilityCycles = 2
  Nodes = {n1}
  Gpus <- TwoOnly
  Samples <- TwoGpuSamples
  MaxCycles = 2
INVARIANTS
  TriggeredByDistinctCycles
CHECK_DEADLOCK FALSE
