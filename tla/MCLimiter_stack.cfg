\* Two connections through three limiters.
CONSTANTS
  Stack <- MixedStack
  k1 = k1
  Keys = {k1}
  Callers <- MixedCallers
  Conns = {c1, c2}
  Second = 3
  MaxClock = 6
  MaxBirths = 2
SPECIFICATION Spec
SYMMETRY Symmetry
INVARIANTS TypeOK ServedWithinQuota ResetKept Announced
PROPERTY RetryKept
