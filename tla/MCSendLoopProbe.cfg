SPECIFICATION HSpec
CONSTANTS
  r1 = r1
  Requests = {r1, r2}
  Cancellable = {}
  MaxAttempts = 3
  FailureThreshold = 2
  SuccessThreshold = 2
  RecoveryTimeout = 2
  GlobalCost = 1
  DomainCost = 1
  Burst = 1
  RetryAfters = {0, 2}
  Strategy = "jitter"
  Base = 1
  Multiplier = 2
  Step = 1
  MinWait = 1
  MaxWait = 2
  r2 = r2
INVARIANT ProbeExclusive
CHECK_DEADLOCK FALSE
