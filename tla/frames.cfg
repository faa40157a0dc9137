SPECIFICATION Spec
CONSTANTS
  Plans <- MCPlans
  Codes = {101, 403}
  HeadSizes = {2, 3, 4}
  PayloadSizes = {0, 1, 2}
  MaxTryAgain = 3
  MaxConnections = 2
INVARIANTS
  FramesTypeOK
  FramesInOrder
PROPERTIES
  NextReadDelivers
CHECK_DEADLOCK FALSE
