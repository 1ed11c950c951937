SPECIFICATION FairSpec
CONSTANTS
  a1 = a1
  a2 = a2
  all = all
  one = one
  broken = broken
  NoFile = NoFile
  Alerts <- MCAlerts
  Versions <- MCVersions
  Valid <- MCValid
  Watched <- MCWatched
  MaxRequests = 2
  MaxChanges = 4
  MaxEnds = 2
INVARIANTS
  TypeOK
  StoreServesRequests
  ReceiverAgreesWithTable
PROPERTIES
  AlertsEnd
  ServiceComesBack
CHECK_DEADLOCK FALSE
