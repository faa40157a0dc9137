SPECIFICATION Spec
CONSTANTS
  r1 = r1
  r2 = r2
  t1 = t1
  t2 = t2
  None = None
  Requests = {r1, r2}
  Threads = {t1}
  ThreadOf <- OneThread
  Setups <- Usual
  Hasty = FALSE
  MaxResults = 2
  MaxRounds = 2
INVARIANTS
  DeliveryTypeOK
  CallbacksAreMeant
  EventIsOwn
PROPERTIES
  RoundsClose
CHECK_DEADLOCK FALSE
