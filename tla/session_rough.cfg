SPECIFICATION Spec
CHECK_DEADLOCK FALSE
CONSTANTS
  MaxFrames = 1
  Frame = 2
  Limit = 3
  MaxConnects = 1
  StopBy = "control"
  Cancels = TRUE
  Blocks = TRUE
  RecvTimeout = TRUE
  LinkFails <- Everywhere
  ServerFails <- Always
INVARIANTS
  StopIsSentOnce
PROPERTIES
  ThreadCallbacksInOrder
  BrokenLinkIsReported
