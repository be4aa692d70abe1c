SPECIFICATION Spec
CONSTANTS
  m1 = m1
  m2 = m2
  m3 = m3
  o1 = o1
  Members = {m1, m2, m3}
  Others = {o1}
  Concurrency = 2
  MaxAttempts = 2
INVARIANTS
  ClosedStaysClosed
CHECK_DEADLOCK FALSE
