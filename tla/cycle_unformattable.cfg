SPECIFICATION FairSpec
CONSTANTS
  n1 = n1
  n2 = n2
  j1 = j1
  j2 = j2
  NodeOrder <- OneNode
  Jobs = {j1}
  Reports = {}
  Versions = {1, 2}
  MaxRetriesOf <- RetriesOfVersion
  UnformattableBy <- FirstAlertBroken
  DequeueLimit = 2
  EnqueueDelay = 1
  RetryInterval = 1
  MaxEvents = 1
  EventsPerCall = 1
  MaxFaults = 1
PROPERTIES
  EveryAlertSettles
