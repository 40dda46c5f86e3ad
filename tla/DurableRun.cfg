SPECIFICATION FairSpec
CONSTANTS
  Worker = {w1, w2}
  MaxModelTurns = 3
  MaxToolCalls = 2
  Timeout = 1
  MaxClock = 2
INVARIANTS TypeOK OneDispatchPerRequest ToolCallBudget TerminalAgreement CompletedMeansExecuted NoLateDispatch
PROPERTIES InFlightIsOwned TerminalIsFinal WorkerEnds ImplementsContract
CHECK_DEADLOCK FALSE
