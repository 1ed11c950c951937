SPECIFICATION Spec
CONSTANTS
  n1 = n1
  n2 = n2
  None = None
  TempLimit = 1
  MemLimit = 50
  DiskLimit = 1
  UnreachableRule = TRUE
  StabilityCycles = 2
  Nodes = {n1}
  Gpus <- TwoOnly
  Samples <- TwoGpuSamples
  MaxCycles = 3
INVARIANTS
  SustainedBreachStands
CHECK_DEADLOCK FALSE
