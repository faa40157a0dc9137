SPECIFICATION Spec
CONSTANTS
  r1 = r1
  r2 = r2
  r3 = r3
  r4 = r4
  Requests <- Four
  NoReq = NoReq
  MaxNumber = 2
  ParamOf <- SameParams
  Asr = FALSE
  CancelRelease = FALSE
  LateRelease = FALSE
  PingFails = FALSE
  TornClear = FALSE
SYMMETRY Symmetry4
CHECK_DEADLOCK FALSE
INVARIANTS
  TypeOK
  PickableIsIdle
  DeletedOnceAndLast
PROPERTIES
  PopFindsIdle
