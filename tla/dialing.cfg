SPECIFICATION Spec
CONSTANTS
  Nodes = {n1, n2, p}
  n1 = n1
  n2 = n2
  p = p
  Prelinks = {p}
  Addresses = {a1, a2}
  None = None
  MaxTries = 2
  MaxReconnects = 1
  Threshold = 1
  Scenes <- MCScenes
  MaxWants = 1
  MaxCuts = 2
INVARIANTS
  DialingTypeOK
  ReconnectsAreBounded
  DeadAddressIsForgotten
  UserHasRequest
PROPERTIES
  DialEnds
CHECK_DEADLOCK FALSE
