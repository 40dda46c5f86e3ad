SPECIFICATION Spec
CONSTANTS
  Request = {r1, r2}
  Digest = {d1, d2}
  Worker = {w1, w2}
  a1 = a1
  a2 = a2
  a3 = a3
  hr = hr
  finance = finance
  Actor = {a1, a2, a3}
  Role = {hr, finance}
  Directory <- MCDirectory
  None = None
  MaxLease = 2
  MaxTTL = 1
  MaxClock = 3
SYMMETRY Symmetry
INVARIANTS LeaseExclusive HolderIsCurrent ConsumedOnce GrantJustified
PROPERTY DeadEnds
