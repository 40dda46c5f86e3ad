SPECIFICATION FairSpec
CONSTANTS
  Request = {r1}
  Attempt = {a1, a2}
  Permit = {p1, p2}
  Thread = {t1, t2}
  None = None
  Local = {}
  Replays = TRUE
  TTL = 1
  MaxClock = 1
INVARIANTS
  SingleUse
PROPERTIES
  ExecuteReturns
CHECK_DEADLOCK FALSE
