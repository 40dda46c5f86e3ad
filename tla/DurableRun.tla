------------------------------ MODULE DurableRun ------------------------------
(***************************************************************************)
(* FoundationAgent._run_durable: the workers that run, crash and resume    *)
(* one durable run (one run_id) over a shared RunStore.  A worker is one   *)
(* call of run(): it loads or creates the stored record, then loops over   *)
(* model turns and governed tool calls, writing every transition back with *)
(* a compare-and-swap on the record's version.  What GovernedRuntime       *)
(* .execute may do is taken from ExecutionContract, whose implementation   *)
(* is GovernedDispatch.                                                    *)
(*                                                                         *)
(* Task, messages, events and arguments are abstracted away: a limit on    *)
(* their size, a malformed model answer and a cancellation request are     *)
(* nondeterministic choices at the place where the code tests them.  Tasks *)
(* are within max_task_chars, so that every worker reaches the store.      *)
(***************************************************************************)
EXTENDS Naturals, FiniteSets

CONSTANTS
  Worker,          \* calls of FoundationAgent.run for the run_id
  MaxModelTurns,   \* profile.max_model_turns
  MaxToolCalls,    \* profile.max_tool_calls
  Timeout,         \* profile.timeout_seconds, in clock ticks
  MaxClock         \* bound on the clock

ASSUME LimitsArePositive ==
  /\ MaxModelTurns \in Nat \ {0}
  /\ MaxToolCalls \in Nat
  /\ Timeout \in Nat
  /\ MaxClock \in Nat

Step == 1 .. MaxModelTurns

\* A request_id is run_id plus step; 0 stands for None.
NoRequest == 0

\* The execute() call a worker makes in a loop step.
Attempt == Worker \X Step

VARIABLES
  now,        \* the wall clock, and every worker's monotonic clock
  store,      \* the StoredRunRecord of the run_id
  \* --- per worker
  pc,         \* where the loop stands
  ctx,        \* ctx.record, with the counters of DurableRunContext
  began,      \* started_at_utc of the call
  deadline,   \* ctx.deadline_monotonic
  blocked,    \* knowledge_tools_blocked
  result,     \* RunResult.status, or how else the call ended
  \* --- per execute() call, as in ExecutionContract
  carried,    \* the request_id it carries
  outcome,    \* what it returned
  effected    \* whether its external effect has started

workerVars == <<pc, ctx, began, deadline, blocked, result>>
callVars == <<carried, outcome, effected>>
vars == <<now, store, workerVars, callVars>>

Contract == INSTANCE ExecutionContract
              WITH Request <- Step, None <- NoRequest, req <- carried

-----------------------------------------------------------------------------
(* Records *)

RunStatus == {"COMPLETED", "REJECTED", "INVALID_MODEL_RESPONSE", "MODEL_FAILURE",
              "TOOL_FAILURE", "LIMIT_REACHED", "TIMED_OUT", "CANCELLED"}

Terminal == {"COMPLETED", "FAILED", "CANCELLED"}

DurableRunState == {"ABSENT", "RUNNING", "TOOL_PREPARED", "TOOL_IN_FLIGHT",
                    "TOOL_COMPLETED"} \cup Terminal

ExecutionStatus == {"EXECUTED", "BLOCKED", "REVIEW_REQUIRED", "CONTROL_FAILURE",
                    "INDETERMINATE"}

StoredRunRecord ==
  [state : DurableRunState, version : Nat, expires_at : Nat, next_step : Nat \ {0},
   tool_calls : Nat, model_turns : Nat, pending : Step \cup {NoRequest},
   execution : ExecutionStatus \cup {"NONE"}, terminal : RunStatus \cup {"NONE"}]

NoRecord ==
  [state |-> "ABSENT", version |-> 0, expires_at |-> 0, next_step |-> 1,
   tool_calls |-> 0, model_turns |-> 0, pending |-> NoRequest,
   execution |-> "NONE", terminal |-> "NONE"]

\* new_running_record of a call that started at t.
NewRunningRecord(t) ==
  [NoRecord EXCEPT !.state = "RUNNING", !.expires_at = t + Timeout]

\* Mutant: the status names the durable state, with no default of FAILED.
TerminalStateVerbatim(s) == s

\* The durable state _persist_terminal stores for a run status.
TerminalState(s) == IF s \in {"COMPLETED", "CANCELLED"} THEN s ELSE "FAILED"

\* finalize_durable_record: the pending fields are not carried over.
Finalized(r, s) ==
  [r EXCEPT !.state = TerminalState(s), !.terminal = s,
            !.pending = NoRequest, !.execution = "NONE"]

-----------------------------------------------------------------------------
(* How a call ends, and the store's compare-and-swap *)

Goto(w, l) ==
  /\ pc' = [pc EXCEPT ![w] = l]
  /\ UNCHANGED result

\* run() returns a RunResult of status s, or raises (s = "RAISED").
End(w, s) ==
  /\ pc' = [pc EXCEPT ![w] = "done"]
  /\ result' = [result EXCEPT ![w] = s]

\* Mutant: save() without the version in its WHERE clause.
CurrentAlways(w) == TRUE

\* save()'s WHERE version = expected_version.
Current(w) == store.version = ctx[w].version

\* persist_record: r, one version on, goes to the store and into ctx.record;
\* a version conflict raises RunStoreError out of run().
Persist(w, r, l) ==
  LET saved == [r EXCEPT !.version = ctx[w].version + 1] IN
  \/ /\ Current(w)
     /\ store' = saved
     /\ ctx' = [ctx EXCEPT ![w] = saved]
     /\ Goto(w, l)
  \/ /\ ~Current(w)
     /\ End(w, "RAISED")
     /\ UNCHANGED <<store, ctx>>

\* _persist_terminal with run status s.
Finish(w, s) ==
  /\ IF Current(w)
     THEN /\ store' = [Finalized(ctx[w], s) EXCEPT !.version = ctx[w].version + 1]
          /\ End(w, s)
     ELSE /\ End(w, "RAISED")
          /\ UNCHANGED store
  /\ UNCHANGED <<now, ctx, began, deadline, blocked, callVars>>

-----------------------------------------------------------------------------
(* initialize_durable_run and resume_durable_run *)

\* The loop is entered with record r: a worker's deadline is what the
\* record's absolute expiry leaves of its own monotonic clock.
Enter(w, r) ==
  /\ ctx' = [ctx EXCEPT ![w] = r]
  /\ deadline' = [deadline EXCEPT ![w] = IF r.expires_at > now THEN r.expires_at ELSE now]
  /\ \E b \in BOOLEAN : blocked' = [blocked EXCEPT ![w] = b]
  /\ Goto(w, "top")

\* Mutant: a call that finds TOOL_IN_FLIGHT takes the tool over.
LoadTakesOver(w) ==
  /\ pc[w] = "idle"
  /\ began' = [began EXCEPT ![w] = now]
  /\ IF store.state = "ABSENT"
     THEN Goto(w, "create") /\ UNCHANGED <<ctx, deadline, blocked>>
     ELSE IF store.state = "TOOL_IN_FLIGHT"
          THEN Enter(w, [store EXCEPT !.state = "TOOL_PREPARED"])
          ELSE /\ store.state \notin Terminal
               /\ Enter(w, store)
  /\ UNCHANGED <<now, store, callVars>>

Load(w) ==
  /\ pc[w] = "idle"
  /\ began' = [began EXCEPT ![w] = now]
  /\ \/ /\ store.state = "ABSENT"
        /\ Goto(w, "create")
        /\ UNCHANGED <<ctx, deadline, blocked>>
     \/ /\ store.state # "ABSENT"           \* another profile or another task
        /\ End(w, "RAISED")
        /\ UNCHANGED <<ctx, deadline, blocked>>
     \/ /\ store.state \in Terminal
        /\ End(w, store.terminal)
        /\ UNCHANGED <<ctx, deadline, blocked>>
     \/ /\ store.state = "TOOL_IN_FLIGHT"
        /\ End(w, "EXECUTION_IN_FLIGHT")
        /\ UNCHANGED <<ctx, deadline, blocked>>
     \/ /\ store.state \in {"RUNNING", "TOOL_PREPARED", "TOOL_COMPLETED"}
        /\ Enter(w, store)
  /\ UNCHANGED <<now, store, callVars>>

Create(w) ==
  /\ pc[w] = "create"
  /\ IF store.state = "ABSENT"
     THEN /\ store' = NewRunningRecord(began[w])
          /\ Enter(w, NewRunningRecord(began[w]))
     ELSE /\ End(w, "RAISED")
          /\ UNCHANGED <<store, ctx, deadline, blocked>>
  /\ UNCHANGED <<now, began, callVars>>

-----------------------------------------------------------------------------
(* The loop of _run_durable *)

\* The top of an iteration: range exhausted, cancelled, late, too many
\* messages; and, before the first one, a tool missing from the registry.
LoopEnds(w) ==
  /\ pc[w] = "top"
  /\ \/ ctx[w].next_step > MaxModelTurns /\ Finish(w, "LIMIT_REACHED")
     \/ /\ ctx[w].next_step <= MaxModelTurns
        /\ \/ Finish(w, "CANCELLED")
           \/ now > deadline[w] /\ Finish(w, "TIMED_OUT")
           \/ now <= deadline[w] /\ Finish(w, "LIMIT_REACHED")
     \/ Finish(w, "MODEL_FAILURE")

InLoop(w, state) ==
  /\ pc[w] = "top"
  /\ ctx[w].next_step <= MaxModelTurns
  /\ ctx[w].state = state
  /\ now <= deadline[w]

ModelFails(w) ==
  /\ InLoop(w, "RUNNING")
  /\ Finish(w, "MODEL_FAILURE")

\* The model answers with text, a tool call or neither, and the turn is
\* persisted before the answer is looked at.
ModelTurn(w) ==
  /\ InLoop(w, "RUNNING")
  /\ \E answer \in {"text", "tool", "invalid"} :
       Persist(w, [ctx[w] EXCEPT !.model_turns = @ + 1], answer)
  /\ UNCHANGED <<now, began, deadline, blocked, callVars>>

\* An answer that ends the run: cancelled or late by now; text; text too long,
\* no known output type, a tool not permitted or not registered, a history or
\* an action that cannot be captured.
Answered(w) ==
  /\ pc[w] \in {"text", "tool", "invalid"}
  /\ \/ Finish(w, "CANCELLED")
     \/ now >= deadline[w] /\ Finish(w, "TIMED_OUT")
     \/ now < deadline[w] /\ Finish(w, "INVALID_MODEL_RESPONSE")
     \/ now < deadline[w] /\ pc[w] = "text" /\ Finish(w, "COMPLETED")

-----------------------------------------------------------------------------
(* _execute_durable_tool *)

\* The controls at the dispatch boundary, for a new or a prepared tool call.
ToolRefused(w) ==
  \/ /\ pc[w] = "tool"
     /\ ctx[w].tool_calls >= MaxToolCalls
     /\ Finish(w, "LIMIT_REACHED")
  \/ /\ pc[w] = "tool" \/ InLoop(w, "TOOL_PREPARED")
     /\ \/ blocked[w] /\ Finish(w, "TOOL_FAILURE")
        \/ now >= deadline[w] /\ Finish(w, "TIMED_OUT")

\* Mutant: the limit on tool calls is off by one.
PrepareOneMore(w) ==
  /\ pc[w] = "tool"
  /\ ctx[w].tool_calls <= MaxToolCalls
  /\ ~blocked[w]
  /\ now < deadline[w]
  /\ Persist(w, [ctx[w] EXCEPT !.state = "TOOL_PREPARED", !.pending = ctx[w].next_step],
             "claim")
  /\ UNCHANGED <<now, began, deadline, blocked, callVars>>

Prepare(w) ==
  /\ pc[w] = "tool"
  /\ ctx[w].tool_calls < MaxToolCalls
  /\ ~blocked[w]
  /\ now < deadline[w]
  /\ Persist(w, [ctx[w] EXCEPT !.state = "TOOL_PREPARED", !.pending = ctx[w].next_step],
             "claim")
  /\ UNCHANGED <<now, began, deadline, blocked, callVars>>

\* Mutant: a prepared action is dispatched without looking at the deadline.
ResumePreparedLate(w) ==
  /\ InLoop(w, "TOOL_PREPARED")
  /\ ~blocked[w]
  /\ Goto(w, "claim")
  /\ UNCHANGED <<now, store, ctx, began, deadline, blocked, callVars>>

\* A worker that found TOOL_PREPARED passes the same controls.
ResumePrepared(w) ==
  /\ InLoop(w, "TOOL_PREPARED")
  /\ ~blocked[w]
  /\ now < deadline[w]
  /\ Goto(w, "claim")
  /\ UNCHANGED <<now, store, ctx, began, deadline, blocked, callVars>>

\* claim_tool_dispatch's test under its lock.
Claimable(w) == store.state = "TOOL_PREPARED" /\ store.version = ctx[w].version

\* claim_tool_dispatch, and execute() is entered with the pending request_id.
Claim(w) ==
  LET claimed == [store EXCEPT !.state = "TOOL_IN_FLIGHT", !.version = @ + 1] IN
  /\ pc[w] = "claim"
  /\ \/ /\ Claimable(w)
        /\ store' = claimed
        /\ ctx' = [ctx EXCEPT ![w] = claimed]
        /\ carried' = [carried EXCEPT ![<<w, ctx[w].next_step>>] = ctx[w].pending]
        /\ Goto(w, "execute")
     \/ /\ ~Claimable(w)
        /\ Goto(w, "conflict")
        /\ UNCHANGED <<store, ctx, carried>>
  /\ UNCHANGED <<now, began, deadline, blocked, outcome, effected>>

\* Mutant: the observer waits for the end of the run.
ResolveClaimConflictWaits(w) ==
  /\ pc[w] = "conflict"
  /\ store.state \in Terminal
  /\ End(w, store.terminal)
  /\ UNCHANGED <<now, store, ctx, began, deadline, blocked, callVars>>

\* resolve_claim_conflict reads the store again.
ResolveClaimConflict(w) ==
  /\ pc[w] = "conflict"
  /\ End(w, IF store.state \in Terminal THEN store.terminal ELSE "EXECUTION_IN_FLIGHT")
  /\ UNCHANGED <<now, store, ctx, began, deadline, blocked, callVars>>

\* The external effect of a call, possibly after its worker is gone.
Effect(a) ==
  /\ Contract!Effect(a)
  /\ UNCHANGED <<now, store, workerVars>>

\* execute() returns o.
Execute(w, o) ==
  LET a == <<w, ctx[w].next_step>> IN
  /\ pc[w] = "execute"
  /\ Contract!Return(a, o)
  /\ ctx' = [ctx EXCEPT ![w].tool_calls = @ + 1, ![w].execution = o.status]
  /\ Goto(w, "record")
  /\ UNCHANGED <<now, store, began, deadline, blocked>>

Complete(w) ==
  /\ pc[w] = "record"
  /\ Persist(w, [ctx[w] EXCEPT !.state = "TOOL_COMPLETED"], "fold")
  /\ UNCHANGED <<now, began, deadline, blocked, callVars>>

\* A worker that found TOOL_COMPLETED does not call execute() again.
ResumeCompleted(w) ==
  /\ InLoop(w, "TOOL_COMPLETED")
  /\ Goto(w, "fold")
  /\ UNCHANGED <<now, store, ctx, began, deadline, blocked, callVars>>

\* Mutant: a result other than EXECUTED is folded as an observation too.
FoldAny(w) ==
  /\ pc[w] = "fold"
  /\ Persist(w, [ctx[w] EXCEPT !.state = "RUNNING", !.next_step = @ + 1,
                               !.pending = NoRequest, !.execution = "NONE"], "top")
  /\ UNCHANGED <<now, began, deadline, blocked, callVars>>

\* Mutant: the step is not advanced once its tool has run.
FoldSameStep(w) ==
  /\ pc[w] = "fold"
  /\ ctx[w].execution = "EXECUTED"
  /\ Persist(w, [ctx[w] EXCEPT !.state = "RUNNING",
                               !.pending = NoRequest, !.execution = "NONE"], "top")
  /\ UNCHANGED <<now, began, deadline, blocked, callVars>>

\* The observation joins the messages, the step advances, pending is cleared.
Fold(w) ==
  /\ pc[w] = "fold"
  /\ ctx[w].execution = "EXECUTED"
  /\ Persist(w, [ctx[w] EXCEPT !.state = "RUNNING", !.next_step = @ + 1,
                               !.pending = NoRequest, !.execution = "NONE"], "top")
  /\ UNCHANGED <<now, began, deadline, blocked, callVars>>

\* An observation too large, or a tool that did not execute, ends the run.
ToolEndsRun(w) ==
  /\ pc[w] = "fold"
  /\ \/ ctx[w].execution = "EXECUTED" /\ Finish(w, "LIMIT_REACHED")
     \/ ctx[w].execution \in {"BLOCKED", "REVIEW_REQUIRED"} /\ Finish(w, "REJECTED")
     \/ ctx[w].execution \in {"INDETERMINATE", "CONTROL_FAILURE"} /\ Finish(w, "TOOL_FAILURE")

-----------------------------------------------------------------------------

\* The worker's process dies, or an exception that run() does not catch ends
\* it (a store that fails, an output to_json cannot encode).  Only the store
\* survives; an execute() call that was entered may still have its effect.
Crash(w) ==
  /\ pc[w] \notin {"idle", "done"}
  /\ End(w, "CRASHED")
  /\ UNCHANGED <<now, store, ctx, began, deadline, blocked, callVars>>

Tick ==
  /\ now < MaxClock
  /\ now' = now + 1
  /\ UNCHANGED <<store, workerVars, callVars>>

Init ==
  /\ now = 0
  /\ store = NoRecord
  /\ pc = [w \in Worker |-> "idle"]
  /\ ctx = [w \in Worker |-> NoRecord]
  /\ began = [w \in Worker |-> 0]
  /\ deadline = [w \in Worker |-> 0]
  /\ blocked = [w \in Worker |-> FALSE]
  /\ result = [w \in Worker |-> "NONE"]
  /\ Contract!Init

\* One step of the call's own control flow.
WorkerStep(w) ==
  \/ Load(w) \/ Create(w) \/ LoopEnds(w) \/ ModelFails(w) \/ ModelTurn(w)
  \/ Answered(w) \/ ToolRefused(w) \/ Prepare(w) \/ ResumePrepared(w) \/ Claim(w)
  \/ ResolveClaimConflict(w) \/ Complete(w) \/ ResumeCompleted(w) \/ Fold(w)
  \/ ToolEndsRun(w)
  \/ \E o \in Contract!Outcome : Execute(w, o)

Next ==
  \/ \E w \in Worker : WorkerStep(w) \/ Crash(w)
  \/ \E a \in Attempt : Effect(a)
  \/ Tick

Spec == Init /\ [][Next]_vars

\* A worker that started keeps running; nobody is obliged to start one.
Fairness == \A w \in Worker : WF_vars(pc[w] # "idle" /\ WorkerStep(w))

FairSpec == Spec /\ Fairness

-----------------------------------------------------------------------------
(* Properties *)

Ends == {"RAISED", "CRASHED", "EXECUTION_IN_FLIGHT"} \cup RunStatus

\* Every variable keeps its type: versions, counters and steps stay in range
\* and a request_id is one of the run's steps.
TypeOK ==
  /\ now \in Nat
  /\ store \in StoredRunRecord
  /\ pc \in [Worker -> {"idle", "create", "top", "text", "tool", "invalid", "claim",
                        "conflict", "execute", "record", "fold", "done"}]
  /\ ctx \in [Worker -> StoredRunRecord]
  /\ began \in [Worker -> Nat]
  /\ deadline \in [Worker -> Nat]
  /\ blocked \in [Worker -> BOOLEAN]
  /\ result \in [Worker -> Ends \cup {"NONE"}]
  /\ Contract!TypeOK

\* However many workers resume the run and wherever they crash, execute() is
\* entered at most once for a request_id: not even a retryable outcome, and
\* not even a worker lost in mid-call, leads to a second call.
OneDispatchPerRequest ==
  \A a, b \in Attempt : carried[a] # NoRequest /\ carried[a] = carried[b] => a = b

\* The run never makes more tool calls than the profile allows, and the
\* stored count is exact: every call but the one in flight is counted, across
\* crashes and resumes.
ToolCallBudget ==
  LET calls == Cardinality({a \in Attempt : carried[a] # NoRequest}) IN
  /\ calls <= MaxToolCalls
  /\ calls = store.tool_calls + (IF store.state = "TOOL_IN_FLIGHT" THEN 1 ELSE 0)

\* All callers that are given a terminal RunResult are given the same one,
\* and it is the one in the store.
TerminalAgreement ==
  \A w \in Worker : result[w] \in RunStatus => store.terminal = result[w]

\* A run is COMPLETED only when every tool call it ever made is known to have
\* executed: an unknown, refused or lost call ends it otherwise.
CompletedMeansExecuted ==
  store.terminal = "COMPLETED" =>
    \A a \in Attempt : carried[a] # NoRequest => outcome[a].status = "EXECUTED"

\* A worker that starts once the stored deadline has passed dispatches no
\* tool, whatever state it finds the run in.
NoLateDispatch ==
  \A w \in Worker :
    (\E s \in Step : carried[<<w, s>>] # NoRequest) => began[w] < store.expires_at

\* A call in flight belongs to the worker that claimed it: no other worker
\* changes the record, and what is recorded is what execute() returned.
InFlightIsOwned ==
  [][store.state = "TOOL_IN_FLIGHT" /\ store' # store =>
       /\ store'.state = "TOOL_COMPLETED"
       /\ \E w \in Worker :
            /\ pc[w] = "record"
            /\ carried[<<w, store.next_step>>] = store.pending
            /\ outcome[<<w, store.next_step>>].status = store'.execution]_vars

\* A terminal record is never written again.
TerminalIsFinal == [][store.state \in Terminal => store' = store]_vars

\* The loop terminates: a worker that has started ends.
WorkerEnds == \A w \in Worker : pc[w] # "idle" ~> pc[w] = "done"

\* The durable loop is a caller ExecutionContract allows.
ImplementsContract == Contract!Spec
=============================================================================
