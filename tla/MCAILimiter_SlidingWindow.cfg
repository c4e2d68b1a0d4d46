CONSTANTS
  t1 = t1
  t2 = t2
  Tabs = {t1, t2}
  MaxRequests = 2
  Window = 7
  Cooldown = 2
  WriteTimeout = 1
  UpstreamTimeout = 2
  MaxClock = 12
  NoEntry = NoEntry
SYMMETRY Symmetry
SPECIFICATION Spec
INVARIANT SlidingWindow
CHECK_DEADLOCK FALSE
