SPECIFICATION Spec
CHECK_DEADLOCK FALSE
CONSTANTS
  MaxFrames = 2
  Frame = 2
  Limit = 3
  MaxConnects = 1
  StopBy = "feeder"
  Cancels = FALSE
  Blocks = FALSE
  RecvTimeout = FALSE
  LinkFails <- Nowhere
  ServerFails <- Nowhere
INVARIANTS
  StopIsLast
