SPECIFICATION Spec
CONSTANTS
  w1 = w1
  w2 = w2
  w3 = w3
  urgent = urgent
  i2 = i2
  i3 = i3
  Workers = {w1, w2, w3}
  Items = {urgent, i2, i3}
  Priority <- MCPriority
  MinWorkers = 1
  MaxWorkers = 3
  BacklogPerWorker = 1
INVARIANTS
  TypeOK
  ItemsAccounted
  PoolBounds
  StoppedClean
PROPERTIES
  Dispatched
  ItemsFinish
  ScalerStops
CHECK_DEADLOCK FALSE
