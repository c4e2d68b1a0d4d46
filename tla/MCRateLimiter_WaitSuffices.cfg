SPECIFICATION Spec
CONSTANTS
  Requests = {r1}
  Addresses = {a1}
  Trackers = {k1}
  Tokens = 2
  TicksPerToken = 3
  TicksPerSecond = 2
  MaxAge = 6
  MaxClock = 3
  NoTracker = NoTracker
  NoAddress = NoAddress
SYMMETRY Symmetry
CHECK_DEADLOCK FALSE
PROPERTY WaitSuffices
