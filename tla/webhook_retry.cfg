SPECIFICATION FairSpec
CONSTANTS
  None = None
  Ids = {m1, m2, m3}
  DequeueLimit = 2
  EnqueueDelay = 1
  RetryInterval = 1
  MaxRetries = 2
  MaxFaults = 1
  Instants <- FullSecond
INVARIANTS
  TypeOK
  SnapshotIsCurrent
  OnlyReceivedMessagesLeave
  PushesBounded
  DeadLettersWereRetried
  TextOrderIsTimeOrder
PROPERTIES
  OutboxSpec
  EveryRowSettles
