\* A burst larger than the quota; calls are instantaneous.
CONSTANTS
  Count = 1
  Window = 2
  Burst = 3
  Keys = {k1}
  Threads = {t1}
  Costs = {1}
  MaxPartitions = 1
  MaxStall = 0
  MaxClock = 4
  MaxBirths = 1
SPECIFICATION Spec
INVARIANT IdleIsFull
