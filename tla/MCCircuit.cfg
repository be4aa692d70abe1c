SPECIFICATION HSpec
CONSTANTS
  c1 = c1
  c2 = c2
  c3 = c3
  Callers = {c1, c2, c3}
  FailureThreshold = 3
  SuccessThreshold = 2
  RecoveryTimeout = 2
INVARIANTS
  HTypeOK
  ProbeSlotHeld
PROPERTIES
  TripsOnConsecutive
  ClosesOnConsecutive
  CooldownRespected
  ProbeResolves
  CooldownEnds
