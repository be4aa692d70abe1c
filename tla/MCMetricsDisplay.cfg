SPECIFICATION Spec
CONSTANTS
  d1 = d1
  d2 = d2
  Domains = {d1, d2}
  Outcomes <- MCOutcomes
  Keep = 2
  MaxRecords = 3
INVARIANT DisplayLives
CHECK_DEADLOCK FALSE
