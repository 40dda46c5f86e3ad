SPECIFICATION GatewaySpec
CONSTANTS
  d1 = d1
  d2 = d2
  p1 = p1
  p2 = p2
  Request = {r1, r2}
  Digest = {d1, d2, d3, d4}
  Call = {c1, c2, c3}
  Principal = {p1, p2, p3}
  Review = {d1, d2, d3}
  Unassigned = {d3}
  Approvers <- MCApprovers
  None = None
  TTL = 1
  MaxClock = 1
SYMMETRY Symmetry
INVARIANTS ApprovalRunsOnce EntryWasApproved ResultIsHonest
PROPERTY ApprovalIsFinal
CHECK_DEADLOCK FALSE
