SPECIFICATION AgentSpec
CONSTANTS
  Call = {c1, c2}
  Page = {p1, p2}
  Catalog = {p1}
  Kinds = {"observe", "navigate", "type"}
  MaxRestarts = 1
  MaxModelTurns = 3
  MaxToolCalls = 2
  Timeout = 1
  None = None
SYMMETRY Symmetry
INVARIANT RunAccountsForActs
PROPERTY ActsImplementContract
CHECK_DEADLOCK FALSE
