\* Instantaneous calls, burst within the quota, room for every key.
CONSTANTS
  Count = 3
  Window = 2
  Burst = 2
  Keys = {k1, k2}
  Threads = {t1, t2}
  Costs = {1}
  MaxPartitions = 2
  MaxStall = 0
  MaxClock = 5
  MaxBirths = 3
SPECIFICATION Spec
INVARIANT NoOverAdmission
PROPERTY ImplementsMeter
