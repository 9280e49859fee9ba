\* Two racing threads and one key; the run is shorter than a window, so that
\* neither expiry nor eviction plays any part.
CONSTANTS
  Count = 4
  Window = 4
  Burst = 2
  Keys = {k1}
  Threads = {t1, t2}
  Costs = {1}
  MaxPartitions = 1
  MaxStall = 1
  MaxClock = 3
  MaxBirths = 1
SPECIFICATION Spec
INVARIANT NoOverAdmission
