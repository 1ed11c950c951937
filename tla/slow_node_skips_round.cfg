\* The defaults of config.py.
SPECIFICATION Spec
CONSTANTS
  NodeOrder <- OneNode
  Commands <- AllCommands
  ConnectTimeout = 1
  CommandTimeout = 3
  Interval = 30
  MaxRounds = 1
  MaxFaults = 0
INVARIANTS
  EveryRoundCollects
CHECK_DEADLOCK FALSE
