\* One limiter, and a token that takes a fraction of a tick over a second.
CONSTANTS
  Stack <- OddStack
  k1 = k1
  Keys = {k1}
  Callers <- OddCallers
  Conns = {c1}
  Second = 2
  MaxClock = 5
  MaxBirths = 3
SPECIFICATION Spec
PROPERTY RetryNotTooSoon
