SPECIFICATION Spec
CHECK_DEADLOCK FALSE
CONSTANTS
  MaxFrames = 3
  Frame = 2
  Limit = 3
  MaxConnects = 2
  StopBy = "feeder"
  Cancels = TRUE
  Blocks = FALSE
  RecvTimeout = FALSE
  LinkFails <- WhileConnecting
  ServerFails <- BeforeStarted
INVARIANTS
  TypeOK
PROPERTIES
  CallbacksInOrder
  StoppedSessionCloses
  AudioIsSent
