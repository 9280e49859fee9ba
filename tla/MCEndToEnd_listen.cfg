\* Two throttled clients, one limiter that meters them by network.
CONSTANTS
  paced = paced
  hasty = hasty
  t1 = t1
  t2 = t2
  t3 = t3
  Clients = {paced, hasty}
  Profile <- MCProfile
  Server <- MCServer
  Second = 2
  MaxLate = 1
  MaxAhead = 6
SPECIFICATION Spec
INVARIANTS TypeOK PacedNeverRefused
PROPERTIES PeerMetered ListenerNeverRefused GoesOut ServedAgain
