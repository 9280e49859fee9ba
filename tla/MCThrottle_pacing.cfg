\* Three tasks, one scope, servers that push back.
CONSTANTS
  Count = 1
  Window = 2
  Burst = 2
  Scopes = {s1}
  Tasks = {r1, r2, r3}
  Responses <- MCResponses
  Wait = 3
  LongWait = 40
  HonorSignals = TRUE
  Horizon = 12
  MaxClock = 6
  MaxClaims = 4
SPECIFICATION Spec
SYMMETRY Symmetry
INVARIANTS TypeOK SlotSpacing WithinQuota
PROPERTY BackoffHonoured
CHECK_DEADLOCK FALSE
