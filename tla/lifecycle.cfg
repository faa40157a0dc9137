SPECIFICATION LifecycleSpec
CONSTANTS
  Requests = {r1, r2}
  Nodes = {n1, n2}
  Instances = {i1}
  client = i1
  NoNode = NoNode
  Cases = {{}, {"kept"}, {"kept", "hasty", "wakeup"}}
  MaxMade = 2
INVARIANTS
  LifecycleTypeOK
  MapsAgree
  PointersAreAlive
PROPERTIES
  RegistryInUse
  ReleaseFrees
  CallReturns
CHECK_DEADLOCK FALSE
