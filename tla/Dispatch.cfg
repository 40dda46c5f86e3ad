SPECIFICATION Spec
CONSTANTS
  Request = {r1, r2}
  Attempt = {a1, a2, a3}
  Permit = {p1, p2}
  Thread = {t1, t2, t3}
  None = None
  Local = {a3}
  Replays = FALSE
  TTL = 1
  MaxClock = 1
SYMMETRY Symmetry
INVARIANTS
  TypeOK
  RefusalMeansUnsent
  AtMostOneEffect
  ExecutedIsProven
  FreshAfterDial
PROPERTIES
  ImplementsContract
CHECK_DEADLOCK FALSE
