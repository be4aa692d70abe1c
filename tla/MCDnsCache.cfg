SPECIFICATION Spec
CONSTANTS
  h1 = h1
  c1 = c1
  c2 = c2
  k1 = k1
  k2 = k2
  Hosts = {h1}
  Callers = {c1, c2}
  Tasks = {k1, k2}
  TTLs = {1, 3}
  NegativeTTL = 2
  Margin = 2
INVARIANTS
  TypeOK
  OneRefresh
  ClosedQuiet
PROPERTIES
  BlockLifts
  StaleFades
  CloseEnds
