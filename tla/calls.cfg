SPECIFICATION Spec
CONSTANTS
  Requests = {r1, r2}
  Users = {u1, u2}
  r1 = r1
  r2 = r2
  u1 = u1
  Plans <- MCPlans
  MaxCalls <- MCMaxCalls
  MaxInside = 1
INVARIANTS
  CallsTypeOK
  CallsAreAnswered
PROPERTIES
  RoundsDoNotOverlap
  CallsReturn
CHECK_DEADLOCK FALSE
