SPECIFICATION Spec
CONSTANTS
  Browsers = {b1}
  Calls = {c1, c2}
  Users = {u1, u2}
  Emails = {e1}
  Tokens = {k1, k2}
  Lifetime = 1
  MaxClock = 1
  NoBrowser = NoBrowser
  NoUser = NoUser
  NoEmail = NoEmail
  NoToken = NoToken
  NoSession = NoSession
INVARIANTS TypeOK OneAccountPerEmail ShownIsSignedIn
PROPERTIES RevokedForGood ExpiredAreRemoved
CHECK_DEADLOCK FALSE
