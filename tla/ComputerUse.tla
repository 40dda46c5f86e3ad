------------------------------ MODULE ComputerUse ------------------------------
(***************************************************************************)
(* Governed computer use: calls of GovernedComputerSession.act and observe *)
(* and of the tools of ComputerToolBridge, the RemoteComputerBackend that  *)
(* sends one request to the worker and waits for its answer, and the       *)
(* worker's threads on the browser engine.  A client may give up while the *)
(* thread goes on, an engine may fail half way, and the worker may restart *)
(* and lose its pages.                                                     *)
(*                                                                         *)
(* The gateway behind GovernedRuntime.execute is external: it may refuse,  *)
(* fail, or call the handler, even twice, and claim any outcome except an  *)
(* execution whose handler raised.  What a page shows is left out; of a    *)
(* page only its being open matters.                                       *)
(***************************************************************************)
EXTENDS Naturals, FiniteSets

CONSTANTS
    Call,           \* calls, each with its own request id
    Page, Catalog,  \* aliases a model may name; those of the operator's catalog
    Kinds,          \* the kinds of act that are tried
    MaxRestarts,    \* bound of the model on worker restarts
    None

Kind == {"observe", "navigate", "click", "type", "submit"}
Act == {a \in [kind : Kinds, page : Page, secret : BOOLEAN] : a.secret => a.kind = "type"}

ASSUME ComputerConfig ==
    Catalog \subseteq Page /\ Kinds \subseteq Kind /\ None \notin Call /\ MaxRestarts \in Nat

VARIABLES
    backend,    \* "remote" in production, else "dev_only"
    open,       \* the engine's pages
    restarts,
    pc,         \* of the calls
    ask,        \* the act a call is about
    carried,    \* the request a call submitted to the runtime
    entries,    \* handler_entries of the runtime
    returned,   \* whether the last handler call returned, and did not raise
    outcome,
    wire,       \* the request at the worker, and its thread
    performed   \* how often the engine has carried the act out

calls == <<pc, ask, carried, entries, returned, outcome>>
vars == <<backend, open, restarts, calls, wire, performed>>

Contract == INSTANCE ExecutionContract
    WITH Request <- Call, Attempt <- Call, req <- carried,
         effected <- [c \in Call |-> carried[c] # None /\ performed[c] > 0]

Goto(c, place) == pc' = [pc EXCEPT ![c] = place]

-----------------------------------------------------------------------------
(* Entry points.                                                           *)

\* GovernedComputerSession.act resolves the alias before it asks the runtime; a
\* tool of the bridge is governed by FoundationAgent first.
BeginGoverned(c, a) ==
    /\ pc[c] = "idle"
    /\ ask' = [ask EXCEPT ![c] = a]
    /\ carried' = [carried EXCEPT ![c] = c]
    /\ Goto(c, "gateway")
    /\ UNCHANGED <<backend, open, restarts, entries, returned, outcome, wire, performed>>
SessionAct(c, a) == a.kind # "observe" /\ a.page \in Catalog /\ BeginGoverned(c, a)
BridgeTool(c, a) == BeginGoverned(c, a)

\* GovernedComputerSession.observe asks nobody.
SessionObserve(c, a) ==
    /\ pc[c] = "idle" /\ a.kind = "observe" /\ a.page \in Catalog
    /\ ask' = [ask EXCEPT ![c] = a]
    /\ Goto(c, "handler")
    /\ UNCHANGED <<backend, open, restarts, carried, entries, returned, outcome,
                   wire, performed>>

\* PageCatalogError, from either, before anything was asked or read.
UnknownAlias(c, a) ==
    /\ pc[c] = "idle" /\ a.page \notin Catalog
    /\ Goto(c, "done")
    /\ UNCHANGED <<backend, open, restarts, ask, carried, entries, returned, outcome,
                   wire, performed>>

-----------------------------------------------------------------------------
(* GovernedRuntime.execute around the gateway.                             *)

\* Mutant: the runtime hands the bare handler to the gateway.
InvokeAlways(c) ==
    /\ entries' = [entries EXCEPT ![c] = @ + 1]
    /\ Goto(c, "handler") /\ UNCHANGED returned
\* invoke_once: a second call of the handler raises.
InvokeOnce(c) ==
    /\ entries' = [entries EXCEPT ![c] = @ + 1]
    /\ IF entries[c] = 0 THEN Goto(c, "handler") /\ UNCHANGED returned
                         ELSE returned' = [returned EXCEPT ![c] = FALSE] /\ UNCHANGED pc

GatewayInvokes(c) ==
    /\ pc[c] = "gateway" /\ entries[c] < 2
    /\ InvokeOnce(c)
    /\ UNCHANGED <<backend, open, restarts, ask, carried, outcome, wire, performed>>

NotRetryable(status) == [status |-> status, retryable |-> FALSE]
ContractFailure(c) ==
    NotRetryable(IF entries[c] > 0 THEN "INDETERMINATE" ELSE "CONTROL_FAILURE")

\* The gateway returns o, or raises (None).
RuntimeResult(c, o) ==
    CASE o = None -> ContractFailure(c)
      [] o.status = "EXECUTED" /\ entries[c] # 1 -> ContractFailure(c)
      [] o.status # "EXECUTED" /\ entries[c] # 0 -> ContractFailure(c)
      [] OTHER -> o

GatewayReturns(c, o) ==
    /\ pc[c] = "gateway"
    /\ o = NotRetryable("EXECUTED") /\ entries[c] = 1 => returned[c]
    /\ outcome' = [outcome EXCEPT ![c] = RuntimeResult(c, o)]
    /\ Goto(c, "done")
    /\ UNCHANGED <<backend, open, restarts, ask, carried, entries, returned, wire,
                   performed>>

-----------------------------------------------------------------------------
(* The handler: catalog, backend, client.                                  *)

\* The handler ends: back into the gateway, or to the caller of observe.
HandlerEnds(c, ok) ==
    /\ returned' = [returned EXCEPT ![c] = ok]
    /\ Goto(c, IF carried[c] = None THEN "done" ELSE "gateway")
    /\ UNCHANGED <<backend, restarts, ask, carried, entries, outcome>>

\* What an engine refuses with a ComputerBackendError.
EngineRefuses(a) ==
    \/ a.kind = "type" /\ a.secret
    \/ a.kind # "navigate" /\ a.page \notin open

EngineOpens(a) == open' = IF a.kind = "navigate" THEN open \cup {a.page} ELSE open

\* The bridge resolves the alias only here.
HandlerFails(c) ==
    /\ pc[c] = "handler" /\ ask[c].page \notin Catalog
    /\ HandlerEnds(c, FALSE)
    /\ UNCHANGED <<open, wire, performed>>

\* DevOnlyBrowserBackend, in the process of the agent.
HandlerLocal(c) ==
    /\ pc[c] = "handler" /\ ask[c].page \in Catalog /\ backend = "dev_only"
    /\ IF EngineRefuses(ask[c])
       THEN HandlerEnds(c, FALSE) /\ UNCHANGED <<open, performed>>
       ELSE /\ HandlerEnds(c, TRUE) /\ EngineOpens(ask[c])
            /\ performed' = [performed EXCEPT ![c] = @ + 1]
    /\ UNCHANGED wire

\* RemoteComputerBackend._call: one POST, never repeated.
HandlerSends(c) ==
    /\ pc[c] = "handler" /\ ask[c].page \in Catalog /\ backend = "remote"
    /\ wire' = [wire EXCEPT ![c] = "request"]
    /\ Goto(c, "waiting")
    /\ UNCHANGED <<backend, open, restarts, ask, carried, entries, returned, outcome,
                   performed>>

\* The answer arrives: a result, or ok=false, or what the client cannot accept
\* (too large, not the schema).
ClientReceives(c) ==
    /\ pc[c] = "waiting" /\ wire[c] \in {"result", "error"}
    /\ \E ok \in {TRUE, FALSE} : (ok => wire[c] = "result") /\ HandlerEnds(c, ok)
    /\ wire' = [wire EXCEPT ![c] = "read"]
    /\ UNCHANGED <<open, performed>>

\* Mutant: a request that failed counts as an act with ok=False.
ClientShrugs(c) ==
    /\ pc[c] = "waiting" /\ HandlerEnds(c, TRUE) /\ UNCHANGED <<open, wire, performed>>
\* The timeout, or a connection that broke; the worker is not told.
ClientGivesUp(c) ==
    /\ pc[c] = "waiting" /\ HandlerEnds(c, FALSE) /\ UNCHANGED <<open, wire, performed>>

-----------------------------------------------------------------------------
(* The worker: one thread per request.                                     *)

Worker(c, from, to) ==
    /\ wire[c] = from
    /\ wire' = [wire EXCEPT ![c] = to]
    /\ UNCHANGED <<backend, restarts, calls>>

\* 401, 404 and 400 of do_POST, and the engine's own refusals.
WorkerRefuses(c) ==
    Worker(c, "request", "error") /\ UNCHANGED <<open, performed>>
WorkerAccepts(c) ==
    /\ Worker(c, "request", "engine") /\ UNCHANGED <<open, performed>>
    /\ ~EngineRefuses(ask[c])

\* The act, and then the observation that goes back with it.
EnginePerforms(c) ==
    /\ Worker(c, "engine", "observe")
    /\ EngineOpens(ask[c])
    /\ performed' = [performed EXCEPT ![c] = @ + 1]
WorkerReplies(c) ==
    Worker(c, "observe", "result") /\ UNCHANGED <<open, performed>>

\* An exception of the browser that is no ComputerBackendError, before or after the
\* act; or a request or an answer lost on the way.
WorkerLoses(c) ==
    \E place \in {"request", "engine", "observe", "result", "error"} :
        Worker(c, place, "lost") /\ UNCHANGED <<open, performed>>

WorkerRestarts ==
    /\ backend = "remote" /\ restarts < MaxRestarts
    /\ restarts' = restarts + 1
    /\ open' = {}
    /\ wire' = [c \in Call |-> IF wire[c] \in {"engine", "observe"} THEN "lost"
                                                                    ELSE wire[c]]
    /\ UNCHANGED <<backend, calls, performed>>

-----------------------------------------------------------------------------

Init ==
    /\ backend \in {"remote", "dev_only"}
    /\ open = {} /\ restarts = 0
    /\ pc = [c \in Call |-> "idle"] /\ ask = [c \in Call |-> None]
    /\ carried = [c \in Call |-> None] /\ entries = [c \in Call |-> 0]
    /\ returned = [c \in Call |-> FALSE]
    /\ outcome = [c \in Call |-> Contract!NoOutcome]
    /\ wire = [c \in Call |-> "none"] /\ performed = [c \in Call |-> 0]

SessionStep(c) ==
    \E a \in Act : SessionAct(c, a) \/ SessionObserve(c, a) \/ UnknownAlias(c, a)
HandlerStep(c) ==
    \/ GatewayInvokes(c)
    \/ HandlerFails(c) \/ HandlerLocal(c) \/ HandlerSends(c)
    \/ ClientReceives(c) \/ ClientGivesUp(c)
ThreadStep(c) ==
    \/ WorkerRefuses(c) \/ WorkerAccepts(c) \/ EnginePerforms(c)
    \/ WorkerReplies(c) \/ WorkerLoses(c)

Next ==
    \/ WorkerRestarts
    \/ \E c \in Call :
          \/ SessionStep(c) \/ HandlerStep(c) \/ ThreadStep(c)
          \/ \E a \in Act : BridgeTool(c, a)
          \/ \E o \in Contract!Outcome \cup {None} : GatewayReturns(c, o)

Spec == Init /\ [][Next]_vars

-----------------------------------------------------------------------------

\* Computer use keeps the promise of GovernedRuntime.execute although the effect is
\* in another process: an outcome that says the tool did not run is never followed
\* by the act, EXECUTED means the engine carried it out, and only an INDETERMINATE
\* call may still be carried out later, by a thread its client gave up on.  No call
\* is carried out twice, and no page outside the operator's catalog is opened.
ActsImplementContract ==
    /\ Contract!Spec
    /\ [](open \subseteq Catalog /\ \A c \in Call : performed[c] <= 1)
=============================================================================
