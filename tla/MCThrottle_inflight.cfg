\* A request already asleep when a server pushes back.
CONSTANTS
  Count = 1
  Window = 2
  Burst = 2
  Scopes = {s1}
  Tasks = {r1, r2, r3}
  Responses <- MCResponses
  Wait = 3
  LongWait = 40
  HonorSignals = TRUE
  Horizon = 12
  MaxClock = 6
  MaxClaims = 4
SPECIFICATION Spec
PROPERTY NothingSentInBackoff
CHECK_DEADLOCK FALSE
