---------------------------- MODULE ComputerAgent ----------------------------
(***************************************************************************)
(* A FoundationAgent without a run store (AgentRun) whose tools are those  *)
(* of ComputerToolBridge (ComputerUse), beside other users of the session. *)
(* The agent's execute() calls are calls of ComputerUse: they begin        *)
(* together, and what the runtime makes of the gateway's answer is what    *)
(* the loop goes on with.                                                  *)
(***************************************************************************)
EXTENDS ComputerUse

CONSTANTS MaxModelTurns, MaxToolCalls, Timeout

ASSUME AgentConfig ==
    MaxModelTurns \in Nat \ {0} /\ MaxToolCalls \in Nat /\ Timeout \in Nat \ {0}

VARIABLES now, place, step, blocked, made, current, status

run == <<now, place, step, blocked, made, current, status>>

Agent == INSTANCE AgentRun

AgentInit == Init /\ Agent!Init

AgentCalls(c) == \E a \in Act : BridgeTool(c, a) /\ Agent!Dispatch(c)

CallReturns(c, o) ==
    /\ GatewayReturns(c, o)
    /\ IF c = current THEN Agent!ToolReturns(RuntimeResult(c, o).status)
                      ELSE UNCHANGED run

AgentNext ==
    \/ Agent!LoopStep /\ UNCHANGED vars
    \/ WorkerRestarts /\ UNCHANGED run
    \/ \E c \in Call :
          \/ AgentCalls(c)
          \/ \E o \in Contract!Outcome \cup {None} : CallReturns(c, o)
          \/ SessionStep(c) /\ UNCHANGED run
          \/ HandlerStep(c) /\ UNCHANGED run
          \/ ThreadStep(c) /\ UNCHANGED run

AgentSpec == AgentInit /\ [][AgentNext]_<<vars, run>>

-----------------------------------------------------------------------------

\* How a run ended accounts for what its calls did in the worker, then and later
\* (_run_ephemeral).  A run that ended neither REJECTED nor in TOOL_FAILURE had
\* every call carried out, once; of a REJECTED run one call was not; and in either
\* case no thread of the worker is left that could still act for the run.  Only
\* after TOOL_FAILURE may an act be lost or still to come.
RunAccountsForActs ==
    status \notin {None, "TOOL_FAILURE"} =>
        /\ \A c \in made : wire[c] \notin {"request", "engine"}
        /\ Cardinality({c \in made : performed[c] # 1}) =
              IF status = "REJECTED" THEN 1 ELSE 0
=============================================================================
