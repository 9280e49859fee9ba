\* Racing calls with stale instants, and a cache that overflows.
CONSTANTS
  Count = 3
  Window = 3
  Burst = 3
  Keys = {k1}
  Threads = {t1, t2}
  Costs = {1, 2}
  MaxPartitions = 0
  MaxStall = 2
  MaxClock = 6
  MaxBirths = 3
SPECIFICATION Spec
SYMMETRY Symmetry
INVARIANTS TypeOK AdmissionLaw IdleIsFull
PROPERTY PromiseKept
