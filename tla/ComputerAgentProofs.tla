------------------------- MODULE ComputerAgentProofs -------------------------
(***************************************************************************)
(* Theorems about ComputerUse and about the agent that uses it             *)
(* (ComputerAgent), for any calls, pages, catalog, restarts and limits.    *)
(* What is known of one call is CallOK: where its request stands at the    *)
(* worker tells how often its act was carried out, a call the handler was  *)
(* not entered for has nothing at the worker, and what it returned agrees  *)
(* with both.  The effect of ExecutionContract is the engine's, so every   *)
(* step of a session, a client or a worker's thread is one of the          *)
(* contract's, or none of its business.                                    *)
(***************************************************************************)
EXTENDS ComputerAgent, FiniteSetTheorems, TLAPS

UseTypeOK ==
    /\ backend \in {"remote", "dev_only"}
    /\ open \subseteq Catalog
    /\ pc \in [Call -> {"idle", "gateway", "handler", "waiting", "done"}]
    /\ ask \in [Call -> Act \cup {None}]
    /\ carried \in [Call -> Call \cup {None}]
    /\ entries \in [Call -> Nat]
    /\ returned \in [Call -> BOOLEAN]
    /\ outcome \in [Call -> Contract!Outcome \cup {Contract!NoOutcome}]
    /\ wire \in [Call -> {"none", "request", "engine", "observe", "result", "error",
                          "read", "lost"}]
    /\ performed \in [Call -> Nat]

\* How far a call has come, in the runtime, at the worker and in its outcome.
CallOK(c) ==
    /\ carried[c] \in {None, c}
    /\ pc[c] = "idle" => carried[c] = None
    /\ pc[c] = "gateway" => carried[c] = c
    /\ pc[c] \in {"idle", "handler"} => wire[c] = "none" /\ performed[c] = 0
    /\ pc[c] \in {"gateway", "handler", "waiting"} => ask[c] \in Act
    /\ wire[c] # "none" => ask[c] \in Act /\ ask[c].page \in Catalog
    /\ wire[c] \in {"request", "engine", "error"} => performed[c] = 0
    /\ wire[c] \in {"observe", "result"} => performed[c] = 1
    /\ performed[c] \in {0, 1}
    /\ carried[c] = None => entries[c] = 0
    /\ carried[c] = c /\ entries[c] = 0 =>
          wire[c] = "none" /\ performed[c] = 0 /\ pc[c] \in {"gateway", "done"}
    /\ returned[c] => performed[c] = 1
    /\ outcome[c] # Contract!NoOutcome => pc[c] = "done" /\ carried[c] = c
    /\ outcome[c].status = "EXECUTED" => performed[c] = 1
    /\ Contract!ToolExecutedFalse(outcome[c]) => entries[c] = 0

UseInv == UseTypeOK /\ \A c \in Call : CallOK(c)

-----------------------------------------------------------------------------
(* One call's steps *)

\* A step of one call leaves every other call as it was.
OthersKept(c) ==
    \A d \in Call \ {c} :
        /\ pc'[d] = pc[d] /\ ask'[d] = ask[d] /\ carried'[d] = carried[d]
        /\ entries'[d] = entries[d] /\ returned'[d] = returned[d]
        /\ outcome'[d] = outcome[d] /\ wire'[d] = wire[d] /\ performed'[d] = performed[d]

\* So only the call itself has to be looked at.
LEMMA OneCall ==
    ASSUME UseInv, UseTypeOK', NEW c \in Call, OthersKept(c), CallOK(c)'
    PROVE  UseInv'
<1>1. ASSUME NEW d \in Call, d # c PROVE CallOK(d)'
  <2>1. CallOK(d)
    BY DEF UseInv
  <2>2. QED
    BY <1>1, <2>1 DEF OthersKept, CallOK
<1>2. QED
  BY <1>1 DEF UseInv

\* The outcomes of the contract.
LEMMA Outcomes ==
    /\ Contract!NoOutcome.status = "NONE"
    /\ Contract!NoOutcome \notin Contract!Outcome
    /\ \A o \in Contract!Outcome :
          /\ o.status \in {"EXECUTED", "BLOCKED", "REVIEW_REQUIRED", "CONTROL_FAILURE",
                           "INDETERMINATE"}
          /\ o.status = "EXECUTED" => o = NotRetryable("EXECUTED")
    /\ NotRetryable("INDETERMINATE") \in Contract!Outcome
    /\ NotRetryable("CONTROL_FAILURE") \in Contract!Outcome
    /\ NotRetryable("INDETERMINATE").status = "INDETERMINATE"
    /\ NotRetryable("CONTROL_FAILURE").status = "CONTROL_FAILURE"
BY DEF Contract!NoOutcome, Contract!Outcome, NotRetryable

\* The runtime's result: EXECUTED only for one entry, a refusal only for none.
LEMMA ResultIsEarned ==
    ASSUME NEW c \in Call, NEW o \in Contract!Outcome \cup {None}, entries[c] \in Nat
    PROVE  LET result == RuntimeResult(c, o) IN
           /\ result \in Contract!Outcome
           /\ result.status = "EXECUTED" => o = NotRetryable("EXECUTED") /\ entries[c] = 1
           /\ Contract!ToolExecutedFalse(result) => entries[c] = 0
<1> DEFINE result == RuntimeResult(c, o)
<1>1. CASE o = None
  <2>1. result = ContractFailure(c)
    BY <1>1 DEF RuntimeResult
  <2>2. QED
    BY <2>1, Outcomes DEF ContractFailure, Contract!ToolExecutedFalse
<1>2. CASE o # None
  <2>1. o \in Contract!Outcome
    BY <1>2
  <2>2. CASE o.status = "EXECUTED"
    <3>1. entries[c] # 1 => result = ContractFailure(c)
      BY <1>2, <2>2 DEF RuntimeResult
    <3>2. entries[c] = 1 => result = o
      BY <1>2, <2>2 DEF RuntimeResult
    <3> HIDE DEF result
    <3>3. QED
      BY <2>1, <2>2, <3>1, <3>2, Outcomes DEF ContractFailure, Contract!ToolExecutedFalse, result
  <2>3. CASE o.status # "EXECUTED"
    <3>1. entries[c] # 0 => result = ContractFailure(c)
      BY <1>2, <2>3 DEF RuntimeResult
    <3>2. entries[c] = 0 => result = o
      BY <1>2, <2>3 DEF RuntimeResult
    <3> HIDE DEF result
    <3>3. QED
      BY <2>1, <2>3, <3>1, <3>2, Outcomes DEF ContractFailure, Contract!ToolExecutedFalse, result
  <2>4. QED
    BY <2>2, <2>3
<1>3. QED
  BY <1>1, <1>2

\* The entry points.
LEMMA BeginStep ==
    ASSUME UseInv, NEW c \in Call, NEW a \in Act,
           BeginGoverned(c, a) \/ SessionObserve(c, a) \/ UnknownAlias(c, a)
    PROVE  UseInv'
<1>0. UseTypeOK /\ CallOK(c) /\ pc[c] = "idle"
  BY DEF UseInv, BeginGoverned, SessionObserve, UnknownAlias
<1>1. UseTypeOK'
  BY <1>0 DEF UseTypeOK, BeginGoverned, SessionObserve, UnknownAlias, Goto
<1>2. OthersKept(c)
  BY <1>0 DEF UseTypeOK, BeginGoverned, SessionObserve, UnknownAlias, Goto, OthersKept
<1>3. CallOK(c)'
  <2>1. outcome[c] = Contract!NoOutcome /\ c # None
    BY <1>0, ComputerConfig DEF CallOK
  <2>2. ~Contract!ToolExecutedFalse(Contract!NoOutcome)
    BY Outcomes DEF Contract!ToolExecutedFalse
  <2>3. CASE BeginGoverned(c, a)
    BY <1>0, <2>1, <2>2, <2>3, Outcomes DEF UseTypeOK, BeginGoverned, Goto, CallOK
  <2>4. CASE SessionObserve(c, a)
    BY <1>0, <2>1, <2>2, <2>4, Outcomes DEF UseTypeOK, SessionObserve, Goto, CallOK
  <2>5. CASE UnknownAlias(c, a)
    BY <1>0, <2>1, <2>2, <2>5, Outcomes DEF UseTypeOK, UnknownAlias, Goto, CallOK
  <2>6. QED
    BY <2>3, <2>4, <2>5
<1>4. QED
  BY <1>1, <1>2, <1>3, OneCall

\* The gateway calls the handler, or returns.
LEMMA GatewayStep ==
    ASSUME UseInv, NEW c \in Call, NEW o \in Contract!Outcome \cup {None},
           GatewayInvokes(c) \/ GatewayReturns(c, o)
    PROVE  UseInv'
<1>0. /\ UseTypeOK /\ CallOK(c) /\ pc[c] = "gateway" /\ carried[c] = c /\ entries[c] \in Nat
      /\ c # None
  BY ComputerConfig DEF UseInv, UseTypeOK, CallOK, GatewayInvokes, GatewayReturns
<1>1. CASE GatewayInvokes(c)
  <2>1. outcome[c] = Contract!NoOutcome /\ ask[c] \in Act
    BY <1>0 DEF CallOK
  <2>2. entries' = [entries EXCEPT ![c] = entries[c] + 1] /\ entries[c] + 1 \in Nat
    BY <1>0, <1>1 DEF GatewayInvokes, InvokeOnce
  <2>3. UNCHANGED <<backend, open, ask, carried, outcome, wire, performed>>
    BY <1>1 DEF GatewayInvokes
  <2>4. ~Contract!ToolExecutedFalse(Contract!NoOutcome)
    BY Outcomes DEF Contract!ToolExecutedFalse
  <2>5. CASE entries[c] = 0
    <3>1. pc' = [pc EXCEPT ![c] = "handler"] /\ UNCHANGED returned
      BY <1>1, <2>5 DEF GatewayInvokes, InvokeOnce, Goto
    <3>2. UseTypeOK'
      BY <1>0, <2>2, <2>3, <3>1 DEF UseTypeOK
    <3>3. OthersKept(c)
      BY <1>0, <2>2, <2>3, <3>1 DEF UseTypeOK, OthersKept
    <3>4. CallOK(c)'
      BY <1>0, <2>1, <2>2, <2>3, <2>4, <2>5, <3>1, Outcomes DEF UseTypeOK, CallOK
    <3>5. QED
      BY <3>2, <3>3, <3>4, OneCall
  <2>6. CASE entries[c] # 0
    <3>1. returned' = [returned EXCEPT ![c] = FALSE] /\ UNCHANGED pc
      BY <1>1, <2>6 DEF GatewayInvokes, InvokeOnce
    <3>2. UseTypeOK'
      BY <1>0, <2>2, <2>3, <3>1 DEF UseTypeOK
    <3>3. OthersKept(c)
      BY <1>0, <2>2, <2>3, <3>1 DEF UseTypeOK, OthersKept
    <3>4. CallOK(c)'
      BY <1>0, <2>1, <2>2, <2>3, <2>4, <2>6, <3>1, Outcomes DEF UseTypeOK, CallOK
    <3>5. QED
      BY <3>2, <3>3, <3>4, OneCall
  <2>7. QED
    BY <2>5, <2>6
<1>2. CASE GatewayReturns(c, o)
  <2> DEFINE x == RuntimeResult(c, o)
  <2>1. /\ x \in Contract!Outcome
        /\ x.status = "EXECUTED" => o = NotRetryable("EXECUTED") /\ entries[c] = 1
        /\ Contract!ToolExecutedFalse(x) => entries[c] = 0
    BY <1>0, ResultIsEarned
  <2>2. /\ outcome' = [outcome EXCEPT ![c] = x] /\ pc' = [pc EXCEPT ![c] = "done"]
        /\ UNCHANGED <<backend, open, ask, carried, entries, returned, wire, performed>>
        /\ o = NotRetryable("EXECUTED") /\ entries[c] = 1 => returned[c]
    BY <1>2 DEF GatewayReturns, Goto
  <2> HIDE DEF x
  <2>3. UseTypeOK'
    BY <1>0, <2>1, <2>2 DEF UseTypeOK
  <2>4. OthersKept(c)
    BY <1>0, <2>2 DEF UseTypeOK, OthersKept
  <2>5. CallOK(c)'
    BY <1>0, <2>1, <2>2 DEF UseTypeOK, CallOK, Contract!ToolExecutedFalse
  <2>6. QED
    BY <2>3, <2>4, <2>5, OneCall
<1>3. QED
  BY <1>1, <1>2

\* How a handler ends, whatever it left at the worker (w) and in the browser (n, pages).
LEMMA HandlerEnded ==
    ASSUME UseInv, NEW c \in Call, pc[c] \in {"handler", "waiting"},
           NEW ok \in BOOLEAN, HandlerEnds(c, ok),
           NEW w \in {"none", "request", "engine", "observe", "result", "error", "read", "lost"},
           NEW n \in {0, 1},
           wire' = [wire EXCEPT ![c] = w], performed' = [performed EXCEPT ![c] = n],
           open' \subseteq Catalog,
           w \in {"request", "engine", "error"} => n = 0,
           w \in {"observe", "result"} => n = 1,
           w # "none" => ask[c].page \in Catalog,
           ok => n = 1
    PROVE  UseInv'
<1>0. /\ UseTypeOK /\ CallOK(c) /\ outcome[c] = Contract!NoOutcome /\ c # None
      /\ ~Contract!ToolExecutedFalse(Contract!NoOutcome)
  BY Outcomes, ComputerConfig DEF UseInv, CallOK, Contract!ToolExecutedFalse
<1>1. /\ returned' = [returned EXCEPT ![c] = ok]
      /\ pc' = [pc EXCEPT ![c] = IF carried[c] = None THEN "done" ELSE "gateway"]
      /\ UNCHANGED <<backend, ask, carried, entries, outcome>>
  BY DEF HandlerEnds, Goto
<1>2. UseTypeOK'
  BY <1>0, <1>1 DEF UseTypeOK
<1>3. OthersKept(c)
  BY <1>0, <1>1 DEF UseTypeOK, OthersKept
<1>4. CallOK(c)'
  BY <1>0, <1>1, Outcomes DEF UseTypeOK, CallOK
<1>5. QED
  BY <1>2, <1>3, <1>4, OneCall

\* The pages of an engine stay in the catalog when it carries out an act for one.
LEMMA EngineStays ==
    ASSUME NEW a, a.page \in Catalog, open \subseteq Catalog, EngineOpens(a)
    PROVE  open' \subseteq Catalog
BY DEF EngineOpens

\* The handler, its backend and the client of the worker.
LEMMA HandlerStepKept ==
    ASSUME UseInv, NEW c \in Call,
           \/ HandlerFails(c) \/ HandlerLocal(c) \/ HandlerSends(c)
           \/ ClientReceives(c) \/ ClientGivesUp(c)
    PROVE  UseInv'
<1>0. UseTypeOK /\ CallOK(c)
  BY DEF UseInv
<1>1. CASE HandlerFails(c)
  <2>1. /\ pc[c] = "handler" /\ HandlerEnds(c, FALSE)
        /\ wire[c] = "none" /\ performed[c] = 0 /\ UNCHANGED <<open, wire, performed>>
    BY <1>0, <1>1 DEF HandlerFails, CallOK
  <2>2. wire' = [wire EXCEPT ![c] = "none"] /\ performed' = [performed EXCEPT ![c] = 0]
    BY <1>0, <2>1 DEF UseTypeOK
  <2>3. QED
    BY <1>0, <2>1, <2>2, HandlerEnded DEF UseTypeOK
<1>2. CASE HandlerLocal(c)
  <2>1. /\ pc[c] = "handler" /\ wire[c] = "none" /\ performed[c] = 0 /\ UNCHANGED wire
        /\ ask[c].page \in Catalog
    BY <1>0, <1>2 DEF HandlerLocal, CallOK
  <2>2. wire' = [wire EXCEPT ![c] = "none"]
    BY <1>0, <2>1 DEF UseTypeOK
  <2>3. CASE EngineRefuses(ask[c])
    <3>1. HandlerEnds(c, FALSE) /\ UNCHANGED <<open, performed>>
      BY <1>2, <2>3 DEF HandlerLocal
    <3>2. performed' = [performed EXCEPT ![c] = 0]
      BY <1>0, <2>1, <3>1 DEF UseTypeOK
    <3>3. QED
      BY <1>0, <2>1, <2>2, <3>1, <3>2, HandlerEnded DEF UseTypeOK
  <2>4. CASE ~EngineRefuses(ask[c])
    <3>1. HandlerEnds(c, TRUE) /\ EngineOpens(ask[c])
      BY <1>2, <2>4 DEF HandlerLocal
    <3>2. performed' = [performed EXCEPT ![c] = performed[c] + 1]
      BY <1>2, <2>4 DEF HandlerLocal
    <3>3. performed' = [performed EXCEPT ![c] = 1] /\ open' \subseteq Catalog
      BY <1>0, <2>1, <3>1, <3>2, EngineStays DEF UseTypeOK
    <3>4. QED
      BY <2>1, <2>2, <3>1, <3>3, HandlerEnded
  <2>5. QED
    BY <2>3, <2>4
<1>3. CASE HandlerSends(c)
  <2>1. /\ pc[c] = "handler" /\ ask[c].page \in Catalog /\ ask[c] \in Act
        /\ wire' = [wire EXCEPT ![c] = "request"] /\ pc' = [pc EXCEPT ![c] = "waiting"]
        /\ UNCHANGED <<backend, open, ask, carried, entries, returned, outcome, performed>>
    BY <1>0, <1>3 DEF HandlerSends, Goto, CallOK
  <2>2. UseTypeOK'
    BY <1>0, <2>1 DEF UseTypeOK
  <2>3. OthersKept(c)
    BY <1>0, <2>1 DEF UseTypeOK, OthersKept
  <2>4. outcome[c] = Contract!NoOutcome /\ ~Contract!ToolExecutedFalse(Contract!NoOutcome)
    BY <1>0, <2>1, Outcomes DEF CallOK, Contract!ToolExecutedFalse
  <2>5. CallOK(c)'
    BY <1>0, <2>1, <2>4, Outcomes DEF UseTypeOK, CallOK
  <2>6. QED
    BY <2>2, <2>3, <2>5, OneCall
<1>4. CASE ClientReceives(c)
  <2>1. PICK ok \in {TRUE, FALSE} : (ok => wire[c] = "result") /\ HandlerEnds(c, ok)
    BY <1>4 DEF ClientReceives
  <2>2. /\ pc[c] = "waiting" /\ wire[c] # "none" /\ UNCHANGED <<open, performed>>
        /\ wire' = [wire EXCEPT ![c] = "read"]
    BY <1>4 DEF ClientReceives
  <2>3. /\ performed' = [performed EXCEPT ![c] = performed[c]] /\ performed[c] \in {0, 1}
        /\ ask[c].page \in Catalog /\ (wire[c] = "result" => performed[c] = 1)
    BY <1>0, <2>2 DEF UseTypeOK, CallOK
  <2>4. ok \in BOOLEAN /\ (ok => performed[c] = 1) /\ open' \subseteq Catalog
    BY <1>0, <2>1, <2>2, <2>3 DEF UseTypeOK
  <2>5. QED
    BY <2>1, <2>2, <2>3, <2>4, HandlerEnded
<1>5. CASE ClientGivesUp(c)
  <2>1. pc[c] = "waiting" /\ HandlerEnds(c, FALSE) /\ UNCHANGED <<open, wire, performed>>
    BY <1>5 DEF ClientGivesUp
  <2>2. /\ wire' = [wire EXCEPT ![c] = wire[c]] /\ performed' = [performed EXCEPT ![c] = performed[c]]
        /\ wire[c] \in {"none", "request", "engine", "observe", "result", "error", "read", "lost"}
        /\ performed[c] \in {0, 1} /\ open' \subseteq Catalog
    BY <1>0, <2>1 DEF UseTypeOK, CallOK
  <2>3. /\ wire[c] \in {"request", "engine", "error"} => performed[c] = 0
        /\ wire[c] \in {"observe", "result"} => performed[c] = 1
        /\ wire[c] # "none" => ask[c].page \in Catalog
    BY <1>0 DEF CallOK
  <2>4. QED
    BY <2>1, <2>2, <2>3, HandlerEnded
<1>6. QED
  BY <1>1, <1>2, <1>3, <1>4, <1>5

\* A thread of the worker takes its request one step further (w), and the engine may
\* have carried the act out on the way (n).
LEMMA Threaded ==
    ASSUME UseInv, NEW c \in Call, wire[c] # "none",
           NEW w \in {"engine", "observe", "result", "error", "lost"}, NEW n \in {0, 1},
           wire' = [wire EXCEPT ![c] = w], performed' = [performed EXCEPT ![c] = n],
           UNCHANGED <<backend, calls>>, open' \subseteq Catalog,
           w \in {"engine", "error"} => n = 0, w \in {"observe", "result"} => n = 1,
           performed[c] <= n
    PROVE  UseInv'
<1>0. UseTypeOK /\ CallOK(c) /\ UNCHANGED <<pc, ask, carried, entries, returned, outcome>>
  BY DEF UseInv, calls
<1>1. UseTypeOK'
  BY <1>0 DEF UseTypeOK
<1>2. OthersKept(c)
  BY <1>0 DEF UseTypeOK, OthersKept
<1>3. CallOK(c)'
  <2>1. performed[c] = 1 => n = 1
    BY <1>0 DEF CallOK
  <2>2. QED
    BY <1>0, <2>1 DEF UseTypeOK, CallOK
<1>4. QED
  BY <1>1, <1>2, <1>3, OneCall

\* The worker's threads.
LEMMA ThreadStepKept ==
    ASSUME UseInv, NEW c \in Call, ThreadStep(c)
    PROVE  UseInv'
<1>0. /\ UseTypeOK /\ CallOK(c) /\ performed[c] \in {0, 1} /\ performed[c] <= performed[c]
      /\ open \subseteq Catalog /\ performed = [performed EXCEPT ![c] = performed[c]]
  BY DEF UseInv, UseTypeOK, CallOK
<1>1. CASE WorkerRefuses(c)
  <2>1. /\ wire[c] = "request" /\ performed[c] = 0 /\ wire' = [wire EXCEPT ![c] = "error"]
        /\ UNCHANGED <<backend, calls, open, performed>>
    BY <1>0, <1>1 DEF WorkerRefuses, Worker, CallOK
  <2>2. QED
    BY <1>0, <2>1, Threaded
<1>2. CASE WorkerAccepts(c)
  <2>1. /\ wire[c] = "request" /\ performed[c] = 0 /\ wire' = [wire EXCEPT ![c] = "engine"]
        /\ UNCHANGED <<backend, calls, open, performed>>
    BY <1>0, <1>2 DEF WorkerAccepts, Worker, CallOK
  <2>2. QED
    BY <1>0, <2>1, Threaded
<1>3. CASE EnginePerforms(c)
  <2>1. /\ wire[c] = "engine" /\ performed[c] = 0 /\ ask[c].page \in Catalog
        /\ wire' = [wire EXCEPT ![c] = "observe"] /\ EngineOpens(ask[c])
        /\ UNCHANGED <<backend, calls>>
        /\ performed' = [performed EXCEPT ![c] = performed[c] + 1]
    BY <1>0, <1>3 DEF EnginePerforms, Worker, CallOK
  <2>2. performed' = [performed EXCEPT ![c] = 1] /\ open' \subseteq Catalog /\ 0 <= 1
    BY <1>0, <2>1, EngineStays
  <2>3. QED
    BY <2>1, <2>2, Threaded
<1>4. CASE WorkerReplies(c)
  <2>1. /\ wire[c] = "observe" /\ performed[c] = 1 /\ wire' = [wire EXCEPT ![c] = "result"]
        /\ UNCHANGED <<backend, calls, open, performed>>
    BY <1>0, <1>4 DEF WorkerReplies, Worker, CallOK
  <2>2. QED
    BY <1>0, <2>1, Threaded
<1>5. CASE WorkerLoses(c)
  <2>1. /\ wire[c] # "none" /\ wire' = [wire EXCEPT ![c] = "lost"]
        /\ UNCHANGED <<backend, calls, open, performed>>
    BY <1>0, <1>5 DEF WorkerLoses, Worker
  <2>2. QED
    BY <1>0, <2>1, Threaded
<1>6. QED
  BY <1>1, <1>2, <1>3, <1>4, <1>5 DEF ThreadStep

\* The worker restarts: its threads and its pages are gone, what they did is not.
LEMMA RestartKept ==
    ASSUME UseInv, WorkerRestarts PROVE UseInv'
<1>0. /\ UseTypeOK /\ open' = {}
      /\ wire' = [c \in Call |-> IF wire[c] \in {"engine", "observe"} THEN "lost" ELSE wire[c]]
      /\ UNCHANGED <<backend, pc, ask, carried, entries, returned, outcome, performed>>
  BY DEF UseInv, WorkerRestarts, calls
<1>1. UseTypeOK'
  BY <1>0 DEF UseTypeOK
<1>2. ASSUME NEW c \in Call PROVE CallOK(c)'
  BY <1>0 DEF UseInv, UseTypeOK, CallOK
<1>3. QED
  BY <1>1, <1>2 DEF UseInv

\* What is known of every call is kept by every step.
LEMMA UseStep ==
    ASSUME UseInv, [Next]_vars PROVE UseInv'
<1>1. CASE WorkerRestarts
  BY <1>1, RestartKept
<1>2. ASSUME NEW c \in Call, SessionStep(c) PROVE UseInv'
  BY <1>2, BeginStep DEF SessionStep, SessionAct
<1>3. ASSUME NEW c \in Call, HandlerStep(c) PROVE UseInv'
  <2>1. CASE GatewayInvokes(c)
    BY <2>1, GatewayStep
  <2>2. CASE ~GatewayInvokes(c)
    BY <1>3, <2>2, HandlerStepKept DEF HandlerStep
  <2>3. QED
    BY <2>1, <2>2
<1>4. ASSUME NEW c \in Call, ThreadStep(c) PROVE UseInv'
  BY <1>4, ThreadStepKept
<1>5. ASSUME NEW c \in Call, NEW a \in Act, BridgeTool(c, a) PROVE UseInv'
  BY <1>5, BeginStep DEF BridgeTool
<1>6. ASSUME NEW c \in Call, NEW o \in Contract!Outcome \cup {None}, GatewayReturns(c, o)
      PROVE  UseInv'
  BY <1>6, GatewayStep
<1>7. CASE UNCHANGED vars
  BY <1>7 DEF vars, calls, UseInv, UseTypeOK, CallOK
<1>8. QED
  BY <1>1, <1>2, <1>3, <1>4, <1>5, <1>6, <1>7 DEF Next

\* It holds before the first call.
LEMMA UseInit == Init => UseInv
BY Outcomes, ComputerConfig
   DEF Init, UseInv, UseTypeOK, CallOK, Contract!ToolExecutedFalse

\* It is an invariant.
LEMMA UseInvariance == Spec => []UseInv
BY UseInit, UseStep, PTL DEF Spec

-----------------------------------------------------------------------------
(* Refinement of ExecutionContract *)

\* The effects of the contract, as the session sees them.
Effected == [c \in Call |-> carried[c] # None /\ performed[c] > 0]

\* A step that carries no act out, submits nothing and returns nothing.
LEMMA Unseen ==
    ASSUME UNCHANGED <<carried, outcome, performed>>
    PROVE  UNCHANGED Contract!vars
BY DEF Contract!vars

\* A governed call begins.
LEMMA BeginRefines ==
    ASSUME UseInv, NEW c \in Call, NEW a \in Act, BeginGoverned(c, a)
    PROVE  Contract!Next
<1>1. /\ UseTypeOK /\ CallOK(c) /\ pc[c] = "idle" /\ c # None
      /\ carried' = [carried EXCEPT ![c] = c] /\ UNCHANGED <<outcome, performed>>
  BY ComputerConfig DEF UseInv, BeginGoverned
<1>2. carried[c] = None /\ performed[c] = 0
  BY <1>1 DEF CallOK
<1>3. \A b \in Call : carried[b] # c
  BY <1>1, <1>2 DEF UseInv, CallOK
<1>4. Effected' = Effected
  <2>1. \A d \in Call : (carried'[d] # None /\ performed'[d] > 0) =
                        (carried[d] # None /\ performed[d] > 0)
    BY <1>1, <1>2 DEF UseTypeOK
  <2>2. QED
    BY <2>1 DEF Effected
<1>5. Contract!Begin(c, c)
  BY <1>1, <1>2, <1>3, <1>4 DEF Contract!Begin, Effected
<1>6. QED
  BY <1>5 DEF Contract!Next

\* The engine carries an act out.
LEMMA EffectRefines ==
    ASSUME UseInv, NEW c \in Call, performed[c] = 0, pc[c] = "handler" \/ wire[c] = "engine",
           performed' = [performed EXCEPT ![c] = 1], UNCHANGED <<carried, outcome>>
    PROVE  Contract!Next \/ UNCHANGED Contract!vars
<1>0. UseTypeOK /\ CallOK(c)
  BY DEF UseInv
<1>1. CASE carried[c] = None
  <2>1. \A d \in Call : (carried'[d] # None /\ performed'[d] > 0) =
                        (carried[d] # None /\ performed[d] > 0)
    BY <1>0, <1>1 DEF UseTypeOK
  <2>2. Effected' = Effected
    BY <2>1 DEF Effected
  <2>3. QED
    BY <2>2 DEF Effected, Contract!vars
<1>2. CASE carried[c] # None
  <2>1. entries[c] # 0
    BY <1>0, <1>2 DEF CallOK
  <2>2. Contract!MayStillHappen(outcome[c])
    <3>1. outcome[c] \in Contract!Outcome \cup {Contract!NoOutcome}
      BY <1>0 DEF UseTypeOK
    <3>2. outcome[c].status # "EXECUTED" /\ ~Contract!ToolExecutedFalse(outcome[c])
      BY <1>0, <2>1 DEF CallOK
    <3>3. QED
      BY <3>1, <3>2, Outcomes DEF Contract!MayStillHappen, Contract!ToolExecutedFalse
  <2>3. Effected' = [Effected EXCEPT ![c] = TRUE] /\ Effected[c] = FALSE
    <3>1. /\ performed'[c] = 1
          /\ \A d \in Call \ {c} : performed'[d] = performed[d]
      BY <1>0 DEF UseTypeOK
    <3>2. (carried[c] # None /\ performed[c] > 0) = FALSE
      OBVIOUS
    <3>3. \A d \in Call : (carried'[d] # None /\ performed'[d] > 0) =
             (d = c \/ (carried[d] # None /\ performed[d] > 0))
      BY <1>2, <3>1
    <3>4. [Effected EXCEPT ![c] = TRUE] =
             [d \in Call |-> d = c \/ (carried[d] # None /\ performed[d] > 0)]
      BY Zenon DEF Effected
    <3>5. QED
      BY <3>2, <3>3, <3>4 DEF Effected
  <2>4. Contract!Effect(c)
    BY <1>2, <2>2, <2>3 DEF Contract!Effect, Effected
  <2>5. QED
    BY <2>4 DEF Contract!Next
<1>3. QED
  BY <1>1, <1>2

\* The runtime returns.
LEMMA ReturnRefines ==
    ASSUME UseInv, NEW c \in Call, NEW o \in Contract!Outcome \cup {None}, GatewayReturns(c, o)
    PROVE  Contract!Next
<1> DEFINE x == RuntimeResult(c, o)
<1>1. /\ UseTypeOK /\ CallOK(c) /\ pc[c] = "gateway" /\ entries[c] \in Nat
      /\ outcome' = [outcome EXCEPT ![c] = x] /\ UNCHANGED <<carried, performed>>
      /\ o = NotRetryable("EXECUTED") /\ entries[c] = 1 => returned[c]
  BY DEF UseInv, UseTypeOK, GatewayReturns
<1>2. /\ x \in Contract!Outcome
      /\ x.status = "EXECUTED" => o = NotRetryable("EXECUTED") /\ entries[c] = 1
      /\ Contract!ToolExecutedFalse(x) => entries[c] = 0
  BY <1>1, ResultIsEarned
<1> HIDE DEF x
<1>3. carried[c] = c /\ c # None /\ outcome[c] = Contract!NoOutcome
  BY <1>1, ComputerConfig DEF CallOK
<1>4. /\ x.status = "EXECUTED" => performed[c] = 1
      /\ Contract!ToolExecutedFalse(x) => performed[c] = 0
  BY <1>1, <1>2, <1>3 DEF CallOK
<1>5. /\ x.status = "EXECUTED" => Effected[c]
      /\ Contract!ToolExecutedFalse(x) => ~Effected[c]
      /\ Effected' = Effected
  <2>1. Effected[c] = (carried[c] # None /\ performed[c] > 0)
    BY DEF Effected
  <2>2. performed[c] = 1 => (carried[c] # None /\ performed[c] > 0)
    BY <1>3
  <2>3. performed[c] = 0 => ~(carried[c] # None /\ performed[c] > 0)
    OBVIOUS
  <2>4. Effected' = Effected
    BY <1>1 DEF Effected
  <2>5. QED
    BY <1>4, <2>1, <2>2, <2>3, <2>4, Zenon
<1>6. Contract!Return(c, x)
  BY <1>1, <1>3, <1>5 DEF Contract!Return, Effected
<1>7. QED
  BY <1>2, <1>6 DEF Contract!Next

\* Every step is one of the contract's, or none of its business.
LEMMA UseRefines ==
    ASSUME UseInv, [Next]_vars
    PROVE  [Contract!Next]_(Contract!vars)
<1>1. CASE WorkerRestarts \/ UNCHANGED vars
  BY <1>1, Unseen DEF WorkerRestarts, vars, calls
<1>2. ASSUME NEW c \in Call, NEW a \in Act, BeginGoverned(c, a) PROVE Contract!Next
  BY <1>2, BeginRefines
<1>3. ASSUME NEW c \in Call, NEW a \in Act, SessionObserve(c, a) \/ UnknownAlias(c, a)
      PROVE  UNCHANGED Contract!vars
  BY <1>3, Unseen DEF SessionObserve, UnknownAlias
<1>4. ASSUME NEW c \in Call, GatewayInvokes(c) \/ HandlerFails(c) \/ HandlerSends(c) \/
                             ClientReceives(c) \/ ClientGivesUp(c)
      PROVE  UNCHANGED Contract!vars
  BY <1>4, Unseen DEF GatewayInvokes, HandlerFails, HandlerSends, ClientReceives,
                      ClientGivesUp, HandlerEnds
<1>5. ASSUME NEW c \in Call, HandlerLocal(c) PROVE Contract!Next \/ UNCHANGED Contract!vars
  <2>1. pc[c] = "handler" /\ performed[c] = 0 /\ performed \in [Call -> Nat]
    BY <1>5 DEF HandlerLocal, UseInv, UseTypeOK, CallOK
  <2>2. UNCHANGED <<carried, outcome>>
    BY <1>5 DEF HandlerLocal, HandlerEnds
  <2>3. performed' = performed \/ performed' = [performed EXCEPT ![c] = performed[c] + 1]
    BY <1>5 DEF HandlerLocal
  <2>4. CASE performed' = performed
    BY <2>2, <2>4, Unseen
  <2>5. CASE performed' = [performed EXCEPT ![c] = performed[c] + 1]
    <3>1. performed' = [performed EXCEPT ![c] = 1]
      BY <2>1, <2>5
    <3>2. QED
      BY <2>1, <2>2, <3>1, EffectRefines
  <2>6. QED
    BY <2>3, <2>4, <2>5
<1>6. ASSUME NEW c \in Call, EnginePerforms(c)
      PROVE  Contract!Next \/ UNCHANGED Contract!vars
  <2>1. wire[c] = "engine" /\ performed[c] = 0 /\ UNCHANGED <<carried, outcome>>
    BY <1>6 DEF EnginePerforms, Worker, UseInv, CallOK, calls
  <2>2. performed' = [performed EXCEPT ![c] = performed[c] + 1]
    BY <1>6 DEF EnginePerforms
  <2>3. performed' = [performed EXCEPT ![c] = 1]
    BY <2>1, <2>2
  <2>4. QED
    BY <2>1, <2>3, EffectRefines
<1>7. ASSUME NEW c \in Call, WorkerRefuses(c) \/ WorkerAccepts(c) \/ WorkerReplies(c) \/
                             WorkerLoses(c)
      PROVE  UNCHANGED Contract!vars
  BY <1>7, Unseen DEF WorkerRefuses, WorkerAccepts, WorkerReplies, WorkerLoses, Worker, calls
<1>8. ASSUME NEW c \in Call, NEW o \in Contract!Outcome \cup {None}, GatewayReturns(c, o)
      PROVE  Contract!Next
  BY <1>8, ReturnRefines
<1>9. QED
  BY <1>1, <1>2, <1>3, <1>4, <1>5, <1>6, <1>7, <1>8
     DEF Next, SessionStep, SessionAct, BridgeTool, HandlerStep, ThreadStep

\* The browser side of the promise: only pages of the catalog, and no act twice.
LEMMA CatalogAndOnce ==
    ASSUME UseInv
    PROVE  open \subseteq Catalog /\ \A c \in Call : performed[c] <= 1
BY DEF UseInv, UseTypeOK, CallOK

\* Before the first call the contract's variables have their initial values.
LEMMA InitRefines == Init => Contract!Init
BY DEF Init, Contract!Init

\* GovernedComputerSession and ComputerToolBridge keep the promise of
\* GovernedRuntime.execute although the effect is in another process.
THEOREM SessionImplementsContract == Spec => ActsImplementContract
<1>1. Spec => Contract!Spec
  BY UseInvariance, InitRefines, UseRefines, PTL DEF Spec, Contract!Spec
<1>2. Spec => [](open \subseteq Catalog /\ \A c \in Call : performed[c] <= 1)
  BY UseInvariance, CatalogAndOnce, PTL
<1>3. QED
  BY <1>1, <1>2 DEF ActsImplementContract

-----------------------------------------------------------------------------
(* The agent *)

Executed(c) == outcome[c].status = "EXECUTED"
Refused(c) == outcome[c].status \in {"BLOCKED", "REVIEW_REQUIRED"}

\* Where the loop stands, and what its calls have returned: while it goes on, all but
\* the one it waits for were EXECUTED; when it has ended, its status says which were.
AgentInv ==
    /\ place \in {"idle", "top", "answer", "execute", "done"}
    /\ made \subseteq Call
    /\ current # None => place = "execute" /\ current \in made
    /\ place # "done" => status = None /\ \A c \in made \ {current} : Executed(c)
    /\ place = "done" =>
          /\ status = "REJECTED" =>
                \E b \in made : Refused(b) /\ \A c \in made \ {b} : Executed(c)
          /\ status \notin {"REJECTED", "TOOL_FAILURE"} => \A c \in made : Executed(c)

\* The agent's steps are steps of the session, or leave it alone.
LEMMA AgentUses ==
    ASSUME [AgentNext]_<<vars, run>> PROVE [Next]_vars
BY DEF AgentNext, AgentCalls, CallReturns, Next

\* So what is known of every call holds beside an agent too.
LEMMA AgentUseInvariance == AgentSpec => []UseInv
BY UseInit, UseStep, AgentUses, PTL DEF AgentSpec, AgentInit

\* The agent knows nothing at first.
LEMMA AgentStarts == AgentInit => AgentInv
BY DEF AgentInit, Agent!Init, AgentInv

\* The loop's own steps: a run ends otherwise than by a call only when every call it
\* made was EXECUTED, or in TOOL_FAILURE.
LEMMA LoopKeeps ==
    ASSUME AgentInv, Agent!LoopStep, UNCHANGED outcome PROVE AgentInv'
<1>1. /\ UNCHANGED <<made, current, outcome>> /\ place # "execute" /\ place # "done"
      /\ \/ place' \in {"idle", "top", "answer"} /\ UNCHANGED status
         \/ place' = "done" /\ status' # "REJECTED"
  BY DEF Agent!LoopStep, Agent!Start, Agent!Exhausted, Agent!TurnRefused, Agent!Complete,
         Agent!AnsweredLate, Agent!AnsweredText, Agent!ToolRefused, Agent!Tick,
         Agent!Answered, Agent!End, Agent!Goto, AgentInv
<1>2. current = None /\ status = None /\ \A c \in made \ {current} : Executed(c)
  BY <1>1 DEF AgentInv
<1>3. \A c \in Call : Executed(c)' = Executed(c)
  BY <1>1 DEF Executed
<1>4. None \notin Call /\ made \subseteq Call
  BY ComputerConfig DEF AgentInv
<1>5. QED
  BY <1>1, <1>2, <1>3, <1>4 DEF AgentInv

\* What other callers and the worker do changes no outcome the run has.
LEMMA OthersKeep ==
    ASSUME AgentInv, UNCHANGED <<run, outcome>> PROVE AgentInv'
BY DEF AgentInv, run, Executed, Refused

\* The agent makes a call.
LEMMA CallKeeps ==
    ASSUME UseInv, AgentInv, NEW c \in Call, AgentCalls(c) PROVE AgentInv'
<1>1. /\ place = "answer" /\ place' = "execute" /\ made' = made \cup {c} /\ current' = c
      /\ UNCHANGED <<status, outcome>>
  BY DEF AgentCalls, BridgeTool, BeginGoverned, Agent!Dispatch, Agent!Answered, Agent!Goto
<1>2. current = None /\ made \subseteq Call /\ None \notin Call
  BY <1>1, ComputerConfig DEF AgentInv
<1>3. \A d \in made : Executed(d)'
  BY <1>1, <1>2 DEF AgentInv, Executed
<1>4. QED
  BY <1>1, <1>2, <1>3 DEF AgentInv

\* A call returns: to the agent, or to another user of the session.
LEMMA ReturnKeeps ==
    ASSUME UseInv, AgentInv, NEW c \in Call, NEW o \in Contract!Outcome \cup {None},
           CallReturns(c, o)
    PROVE  AgentInv'
<1> DEFINE x == RuntimeResult(c, o)
<1>1. /\ UseTypeOK /\ pc[c] = "gateway" /\ outcome' = [outcome EXCEPT ![c] = x]
      /\ IF c = current THEN Agent!ToolReturns(x.status) ELSE UNCHANGED run
  BY DEF UseInv, CallReturns, GatewayReturns
<1> HIDE DEF x
<1>2. ~Executed(c) /\ ~Refused(c) /\ c # None
  <2>1. CallOK(c)
    BY DEF UseInv
  <2>2. outcome[c] = Contract!NoOutcome
    BY <1>1, <2>1 DEF CallOK
  <2>3. QED
    BY <2>2, Outcomes, ComputerConfig DEF Executed, Refused
<1>3. /\ \A d \in Call \ {c} : Executed(d)' = Executed(d) /\ Refused(d)' = Refused(d)
      /\ Executed(c)' = (x.status = "EXECUTED")
      /\ Refused(c)' = (x.status \in {"BLOCKED", "REVIEW_REQUIRED"})
  BY <1>1 DEF UseTypeOK, Executed, Refused
<1>4. made \subseteq Call
  BY DEF AgentInv
<1>5. CASE c # current
  <2>1. UNCHANGED <<place, made, current, status>>
    BY <1>1, <1>5 DEF run
  <2>2. place # "done" => c \notin made
    BY <1>2, <1>5 DEF AgentInv
  <2>3. CASE place # "done"
    BY <1>3, <1>4, <2>1, <2>2, <2>3 DEF AgentInv
  <2>4. CASE place = "done"
    BY <1>2, <1>3, <1>4, <2>1, <2>4 DEF AgentInv
  <2>5. QED
    BY <2>3, <2>4
<1>6. CASE c = current
  <2>1. /\ place = "execute" /\ current' = None /\ UNCHANGED made
        /\ \/ x.status = "EXECUTED" /\ place' = "top" /\ UNCHANGED status
           \/ x.status = "EXECUTED" /\ place' = "done" /\ status' = "LIMIT_REACHED"
           \/ x.status # "EXECUTED" /\ place' = "done" /\ status' = Agent!Rejection(x.status)
    BY <1>1, <1>6 DEF Agent!ToolReturns, Agent!Goto, Agent!End
  <2>2. c \in made /\ status = None /\ \A d \in made \ {c} : Executed(d)
    BY <1>2, <1>6, <2>1 DEF AgentInv
  <2>3. \A d \in made \ {c} : Executed(d)'
    BY <1>3, <1>4, <2>2
  <2>4. CASE x.status = "EXECUTED"
    <3>1. \A d \in made' : Executed(d)'
      BY <1>3, <2>1, <2>3, <2>4
    <3>2. QED
      BY <1>4, <2>1, <2>2, <2>4, <3>1 DEF AgentInv
  <2>5. CASE x.status # "EXECUTED"
    <3>1. /\ place' = "done"
          /\ status' \in {"REJECTED", "TOOL_FAILURE"}
          /\ status' = "REJECTED" => Refused(c)'
      BY <1>3, <2>1, <2>5 DEF Agent!Rejection
    <3>2. QED
      BY <1>4, <2>1, <2>2, <2>3, <3>1 DEF AgentInv
  <2>6. QED
    BY <2>4, <2>5
<1>7. QED
  BY <1>5, <1>6

\* What is known of the run is kept by every step.
LEMMA AgentStep ==
    ASSUME UseInv, AgentInv, [AgentNext]_<<vars, run>> PROVE AgentInv'
<1>1. CASE Agent!LoopStep /\ UNCHANGED vars
  BY <1>1, LoopKeeps DEF vars, calls
<1>2. CASE WorkerRestarts /\ UNCHANGED run
  BY <1>2, OthersKeep DEF WorkerRestarts, calls
<1>3. ASSUME NEW c \in Call, AgentCalls(c) PROVE AgentInv'
  BY <1>3, CallKeeps
<1>4. ASSUME NEW c \in Call, NEW o \in Contract!Outcome \cup {None}, CallReturns(c, o)
      PROVE  AgentInv'
  BY <1>4, ReturnKeeps
<1>5. ASSUME NEW c \in Call, SessionStep(c), UNCHANGED run PROVE AgentInv'
  BY <1>5, OthersKeep
     DEF SessionStep, SessionAct, BeginGoverned, SessionObserve, UnknownAlias
<1>6. ASSUME NEW c \in Call, HandlerStep(c), UNCHANGED run PROVE AgentInv'
  BY <1>6, OthersKeep
     DEF HandlerStep, GatewayInvokes, HandlerFails, HandlerLocal, HandlerSends,
         ClientReceives, ClientGivesUp, HandlerEnds
<1>7. ASSUME NEW c \in Call, ThreadStep(c), UNCHANGED run PROVE AgentInv'
  BY <1>7, OthersKeep
     DEF ThreadStep, WorkerRefuses, WorkerAccepts, EnginePerforms, WorkerReplies,
         WorkerLoses, Worker, calls
<1>8. CASE UNCHANGED <<vars, run>>
  BY <1>8, OthersKeep DEF vars, calls
<1>9. QED
  BY <1>1, <1>2, <1>3, <1>4, <1>5, <1>6, <1>7, <1>8 DEF AgentNext

\* What a call's outcome says of its act, in the worker and later.
LEMMA OutcomeTellsAct ==
    ASSUME UseInv, NEW c \in Call
    PROVE  /\ Executed(c) => performed[c] = 1 /\ wire[c] \notin {"request", "engine"}
           /\ Refused(c) => performed[c] = 0 /\ wire[c] \notin {"request", "engine"}
<1>1. CallOK(c)
  BY DEF UseInv
<1>2. CASE Executed(c)
  BY <1>1, <1>2 DEF CallOK, Executed, Refused
<1>3. CASE Refused(c)
  <2>1. entries[c] = 0
    BY <1>1, <1>3 DEF CallOK, Refused, Contract!ToolExecutedFalse
  <2>2. carried[c] = c
    BY <1>1, <1>3, Outcomes DEF CallOK, Refused
  <2>3. QED
    BY <1>1, <1>3, <2>1, <2>2 DEF CallOK, Executed, Refused
<1>4. QED
  BY <1>2, <1>3

\* The status of the run follows from what its calls returned.
LEMMA StatusAccounts ==
    ASSUME UseInv, AgentInv PROVE RunAccountsForActs
<1> SUFFICES ASSUME status \notin {None, "TOOL_FAILURE"}
             PROVE  /\ \A c \in made : wire[c] \notin {"request", "engine"}
                    /\ Cardinality({c \in made : performed[c] # 1}) =
                          IF status = "REJECTED" THEN 1 ELSE 0
  BY DEF RunAccountsForActs
<1>1. place = "done" /\ made \subseteq Call
  BY DEF AgentInv
<1>2. CASE status = "REJECTED"
  <2>1. PICK b \in made : Refused(b) /\ \A c \in made \ {b} : Executed(c)
    BY <1>1, <1>2 DEF AgentInv
  <2>2. performed[b] = 0 /\ \A c \in made \ {b} : performed[c] = 1
    BY <1>1, <2>1, OutcomeTellsAct
  <2>3. {c \in made : performed[c] # 1} = {b}
    BY <2>2
  <2>4. Cardinality({b}) = 1
    BY FS_Singleton
  <2>5. \A c \in made : wire[c] \notin {"request", "engine"}
    BY <1>1, <2>1, OutcomeTellsAct
  <2>6. QED
    BY <1>2, <2>3, <2>4, <2>5
<1>3. CASE status # "REJECTED"
  <2>1. \A c \in made : Executed(c)
    BY <1>1, <1>3 DEF AgentInv
  <2>2. \A c \in made : performed[c] = 1 /\ wire[c] \notin {"request", "engine"}
    BY <1>1, <2>1, OutcomeTellsAct
  <2>3. {c \in made : performed[c] # 1} = {}
    BY <2>2
  <2>4. Cardinality({}) = 0
    BY FS_EmptySet
  <2>5. QED
    BY <1>3, <2>2, <2>3, <2>4
<1>4. QED
  BY <1>2, <1>3

\* The promise is kept while an agent and other users of the session interleave.
THEOREM AgentActsImplementContract == AgentSpec => ActsImplementContract
<1>1. AgentSpec => Spec
  BY AgentUses, PTL DEF AgentSpec, AgentInit, Spec
<1>2. QED
  BY <1>1, SessionImplementsContract

\* How a run of _run_ephemeral ended accounts for what the worker did, and can still
\* do, for its calls.
THEOREM RunsAccountForActs == AgentSpec => []RunAccountsForActs
<1>1. AgentSpec => []AgentInv
  BY AgentUseInvariance, AgentStarts, AgentStep, PTL DEF AgentSpec
<1>2. QED
  BY <1>1, AgentUseInvariance, StatusAccounts, PTL
=============================================================================
