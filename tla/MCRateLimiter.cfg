SPECIFICATION Spec
CONSTANTS
  Requests = {r1, r2, r3}
  Addresses = {a1}
  Trackers = {k1, k2, k3}
  Tokens = 2
  TicksPerToken = 3
  TicksPerSecond = 2
  MaxAge = 6
  MaxClock = 10
  NoTracker = NoTracker
  NoAddress = NoAddress
SYMMETRY Symmetry
CHECK_DEADLOCK FALSE
INVARIANTS TypeOK Conserved AddressBudget
PROPERTY PruneIsFair
