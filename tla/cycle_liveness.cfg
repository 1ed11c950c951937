SPECIFICATION FairSpec
CONSTANTS
  n1 = n1
  n2 = n2
  j1 = j1
  j2 = j2
  NodeOrder <- TwoNodes
  Jobs = {j1, j2}
  Reports = {}
  Versions = {1}
  MaxRetriesOf <- TwoRetries
  UnformattableBy <- AllFormattable
  DequeueLimit = 2
  EnqueueDelay = 1
  RetryInterval = 1
  MaxEvents = 1
  EventsPerCall = 1
  MaxFaults = 1
PROPERTIES
  LockIsReleased
  MonitoringGoesOn
  EveryAlertSettles
