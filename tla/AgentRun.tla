------------------------------ MODULE AgentRun ------------------------------
(***************************************************************************)
(* FoundationAgent._run_ephemeral: the loop of an agent that has no run    *)
(* store.  A model turn may propose one tool call, which goes through      *)
(* GovernedRuntime.execute; the module that composes this one says what a  *)
(* call is and what execute() returns (Dispatch, ToolReturns).             *)
(*                                                                         *)
(* Texts, messages and their sizes are choices where the code tests them;  *)
(* cancellation may be seen wherever the code looks.                       *)
(***************************************************************************)
EXTENDS Naturals, FiniteSets

CONSTANTS
    Call,           \* execute() calls, each with its own request_id
    MaxModelTurns, MaxToolCalls,    \* of the profile
    Timeout,        \* timeout_seconds
    None

VARIABLES
    now,        \* time since the run started
    place,      \* where the loop stands
    step,
    blocked,    \* knowledge_tools_blocked
    made,       \* the calls the run has made (tool_calls counts them)
    current,    \* the call it is waiting for
    status      \* of the RunResult

run == <<now, place, step, blocked, made, current, status>>

Init ==
    /\ now = 0 /\ place = "idle" /\ step = 1 /\ blocked = FALSE
    /\ made = {} /\ current = None /\ status = None

Goto(p) == place' = p /\ UNCHANGED status
\* _terminal and _failed.
End(s) == place' = "done" /\ status' = s

\* Required knowledge that is missing or fails blocks the tools.
KnowledgeContext == blocked' \in BOOLEAN

\* A task that is too long, and tools missing from the registry, end the run here.
Start ==
    /\ place = "idle"
    /\ Goto("top") \/ End("INVALID_MODEL_RESPONSE") \/ End("MODEL_FAILURE")
    /\ KnowledgeContext
    /\ UNCHANGED <<now, step, made, current>>

Exhausted ==
    /\ place = "top" /\ step > MaxModelTurns
    /\ End("LIMIT_REACHED")
    /\ UNCHANGED <<now, step, blocked, made, current>>

\* Cancelled, late, or too many messages for another turn.
TurnRefused ==
    /\ place = "top" /\ step <= MaxModelTurns
    /\ \/ End("CANCELLED") \/ End("LIMIT_REACHED")
       \/ now > Timeout /\ End("TIMED_OUT")
    /\ UNCHANGED <<now, step, blocked, made, current>>

Complete ==
    /\ place = "top" /\ step <= MaxModelTurns /\ now <= Timeout
    /\ Goto("answer") \/ End("MODEL_FAILURE")
    /\ UNCHANGED <<now, step, blocked, made, current>>

\* The model may answer after the run was cancelled or has expired.
AnsweredLate ==
    /\ place = "answer"
    /\ End("CANCELLED") \/ (now >= Timeout /\ End("TIMED_OUT"))
    /\ UNCHANGED <<now, step, blocked, made, current>>

Answered == place = "answer" /\ now < Timeout

\* A text, which may be too long.
AnsweredText ==
    /\ Answered
    /\ End("COMPLETED") \/ End("INVALID_MODEL_RESPONSE")
    /\ UNCHANGED <<now, step, blocked, made, current>>

\* A tool that is not permitted or not registered; one call too many; no knowledge;
\* arguments or a history that are no valid action.
ToolRefused ==
    /\ Answered
    /\ \/ End("INVALID_MODEL_RESPONSE")
       \/ Cardinality(made) >= MaxToolCalls /\ End("LIMIT_REACHED")
       \/ Cardinality(made) < MaxToolCalls /\ blocked /\ End("TOOL_FAILURE")
    /\ UNCHANGED <<now, step, blocked, made, current>>

Dispatch(c) ==
    /\ Answered
    /\ Cardinality(made) < MaxToolCalls /\ ~blocked
    /\ c \notin made
    /\ made' = made \cup {c} /\ current' = c
    /\ Goto("execute")
    /\ UNCHANGED <<now, step, blocked>>

\* How a run ends whose call was not EXECUTED.
Rejection(s) == IF s \in {"BLOCKED", "REVIEW_REQUIRED"} THEN "REJECTED" ELSE "TOOL_FAILURE"

\* Mutant: the observation of an INDETERMINATE call goes to the model like a result.
ToolReturnsAnyway(s) ==
    /\ place = "execute"
    /\ current' = None
    /\ IF s \in {"EXECUTED", "INDETERMINATE"} THEN Goto("top") /\ step' = step + 1
       ELSE End(Rejection(s)) /\ UNCHANGED step
    /\ UNCHANGED <<now, blocked, made>>
\* execute() returned s.  An observation may be too large.
ToolReturns(s) ==
    /\ place = "execute"
    /\ current' = None
    /\ \/ s = "EXECUTED" /\ Goto("top") /\ step' = step + 1
       \/ s = "EXECUTED" /\ End("LIMIT_REACHED") /\ UNCHANGED step
       \/ s # "EXECUTED" /\ End(Rejection(s)) /\ UNCHANGED step
    /\ UNCHANGED <<now, blocked, made>>

\* Time passes where the loop is about to read the clock (what a call takes passes
\* after it), to one unit past the deadline.
Tick ==
    /\ place \in {"top", "answer"} /\ now <= Timeout
    /\ now' = now + 1
    /\ UNCHANGED <<place, step, blocked, made, current, status>>

LoopStep ==
    \/ Start \/ Exhausted \/ TurnRefused \/ Complete \/ AnsweredLate
    \/ AnsweredText \/ ToolRefused \/ Tick
=============================================================================
