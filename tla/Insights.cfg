SPECIFICATION Spec
CONSTANTS
  None = None
  a1 = a1
  a2 = a2
  Recorders = {p1, p2}
  Managers = {m1}
  Agents = {a1, a2}
  Reviewers = {u1}
  Workloads <- MCWorkloads
  Fingerprints = {f1, f2}
  Min = 2
  Window = 1
  MaxTime = 2
SYMMETRY MCSymmetry
CHECK_DEADLOCK FALSE
INVARIANTS GuidanceIsPeoples RunsCountedOnce
