\* MaxRounds ends the runs.
SPECIFICATION FairSpec
CONSTANTS
  NodeOrder <- TwoNodes
  Commands <- ThreeCommands
  ConnectTimeout = 1
  CommandTimeout = 2
  Interval = 9
  MaxRounds = 2
  MaxFaults = 1
INVARIANTS
  TypeOK
  CollectionBounded
  NodesInOrder
  HistoryMatchesStatus
  HalfBatchesRaised
PROPERTIES
  CollectionEnds
CHECK_DEADLOCK FALSE
