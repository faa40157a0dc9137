SPECIFICATION Spec
CONSTANTS
  r1 = r1
  r2 = r2
  r3 = r3
  r4 = r4
  Requests <- Three
  NoReq = NoReq
  MaxNumber = 2
  ParamOf <- OtherParams
  Asr = TRUE
  CancelRelease = TRUE
  LateRelease = TRUE
  PingFails = TRUE
  TornClear = TRUE
SYMMETRY SymmetryOther
CHECK_DEADLOCK FALSE
INVARIANTS
  ExclusiveUse
  StoredOnce
