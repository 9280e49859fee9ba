\* A quota of no units at all; calls are instantaneous.
CONSTANTS
  Count = 0
  Window = 4
  Burst = 1
  Keys = {k1}
  Threads = {t1}
  Costs = {1}
  MaxPartitions = 1
  MaxStall = 0
  MaxClock = 3
  MaxBirths = 1
SPECIFICATION Spec
PROPERTY PromiseKept
