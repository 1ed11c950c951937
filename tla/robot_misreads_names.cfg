SPECIFICATION Spec
CONSTANTS
  n1 = n1
  n2 = n2
  None = None
  Nodes = {n1, n2}
  NameOf <- MCNameOf
  Raws <- MCRaws
  Requests = {q1}
  Contents <- MCQuestions
  Notifiers = {"wps"}
  ExpectedToken = "secret"
  Tokens = {"", "secret", "other"}
  MaxFaults = 0
INVARIANT DocumentedFormsUnderstood
