\* Tasks that are preempted between claiming a slot and starting the timer.
CONSTANTS
  Count = 1
  Window = 2
  Burst = 1
  Scopes = {s1}
  Tasks = {r1, r2, r3}
  Responses <- MCResponses
  Wait = 3
  LongWait = 40
  HonorSignals = FALSE
  Horizon = 12
  MaxClock = 6
  MaxClaims = 4
SPECIFICATION Spec
PROPERTY WakeInClaimOrder
CHECK_DEADLOCK FALSE
