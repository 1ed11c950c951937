SPECIFICATION Spec
CONSTANTS
  n1 = n1
  n2 = n2
  None = None
  TempLimit = 1
  MemLimit = 50
  DiskLimit = 1
  UnreachableRule = TRUE
  StabilityCycles = 2
  Nodes = {n1, n2}
  Gpus <- OneAndTwo
  Samples <- Samples1And2
  MaxCycles = 3
INVARIANTS
  TypeOK
  RowsConsistent
  StandingIsRecorded
  OneGpuDebounced
  OneGpuBreachStands
  ReportMatchesTable
PROPERTIES
  LifecycleSpec
CHECK_DEADLOCK FALSE
