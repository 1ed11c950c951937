SPECIFICATION Spec
CONSTANTS
  n1 = n1
  n2 = n2
  None = None
  Nodes = {n1, n2}
  NameOf <- MCNameOf
  Raws <- MCRaws
  Requests = {q1}
  Contents <- MCContents
  Notifiers = {"none", "generic", "wps"}
  ExpectedToken = "secret"
  Tokens = {"", "secret", "other"}
  MaxFaults = 2
INVARIANTS
  TypeOK
  AnswersTellTheTruth
  PlainFormsUnderstood
  QueuedCanBeFormatted
  MessageShowsWhatIsJudged
