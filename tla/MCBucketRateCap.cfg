SPECIFICATION HorizonSpec
CONSTANTS
  t1 = t1
  t2 = t2
  t3 = t3
  Tasks = {t1}
  Cost = 2
  Burst = 4
  Pauses = {0, 3}
  Horizon = 7
INVARIANT RateCap
