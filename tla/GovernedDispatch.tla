--------------------------- MODULE GovernedDispatch ---------------------------
(***************************************************************************)
(* The governed execution path: GovernedRuntime.execute calls              *)
(* PrivateVaultExecutionGateway.decide_and_execute, which plans, asks      *)
(* PrivateVault for a decision, has a single-use permit issued, and        *)
(* dispatches.  With an independent transport the permit travels to the    *)
(* sidecar, whose handler threads dial the target, verify and consume the  *)
(* permit, send the bytes, witness and seal.  With the in-process          *)
(* transport (attempts in Local) the gateway itself consumes the permit    *)
(* and runs the handler.                                                   *)
(*                                                                         *)
(* An attempt is one call of execute(); a thread is one run of             *)
(* verify_and_claim and of what follows it: a sidecar handler thread, or   *)
(* (in process) the gateway's own.  Documents, digests and signatures are  *)
(* abstracted to the identity of the permit; every verification step that  *)
(* can raise is a nondeterministic choice between passing and failing.     *)
(***************************************************************************)
EXTENDS Naturals

CONSTANTS
  Request,      \* request_ids
  Attempt,      \* calls of GovernedRuntime.execute
  Permit,       \* execution authorizations PrivateVault can mint
  Thread,       \* threads that run verify_and_claim
  None,
  Local,        \* attempts whose gateway has the in-process transport
  Replays,      \* may a posted envelope reach the sidecar a second time?
  TTL,          \* lifetime of a permit, in clock ticks
  MaxClock      \* bound on the clock

ASSUME NoneIsNoId == None \notin Request \cup Attempt \cup Permit \cup Thread
ASSUME ModesAreTyped == Local \subseteq Attempt /\ Replays \in BOOLEAN
ASSUME ClockBounds == TTL \in Nat /\ MaxClock \in Nat

VARIABLES
  now,        \* the trusted clock both processes sample
  \* --- the agent process, per attempt
  pc,         \* where decide_and_execute stands
  req,        \* the action's request_id
  permit,     \* the issued authorization
  conn,       \* the thread answering this attempt's claim or RPC
  entries,    \* handler_entries
  result,     \* the GovernedExecution returned by execute()
  \* --- PrivateVault and the consumption ledger, per permit
  owner,      \* request_id a permit was minted for
  expires,    \* its expiry
  consumed,   \* rows of the authorization-use table
  \* --- the threads
  tpc,        \* where the thread stands
  env,        \* the attempt whose envelope it carries
  dialedAt,   \* when its TLS channel was open
  claimedAt,  \* its sample of the clock: claimed_at of the claim
  seen,       \* its answer of is_consumed
  sent        \* whether the bytes (or the handler call) have started

agentVars  == <<pc, req, permit, conn, entries, result>>
vaultVars  == <<owner, expires>>
threadVars == <<tpc, env, dialedAt, claimedAt, seen, sent>>
vars == <<now, agentVars, vaultVars, consumed, threadVars>>

-----------------------------------------------------------------------------
(* Outcomes *)

\* gateway.independent_execution = transport.identity.independent.
Independent(a) == a \notin Local

NoResult       == [status |-> "NONE",            retryable |-> FALSE]
Executed       == [status |-> "EXECUTED",        retryable |-> FALSE]
Blocked        == [status |-> "BLOCKED",         retryable |-> FALSE]
ReviewRequired == [status |-> "REVIEW_REQUIRED", retryable |-> FALSE]
Indeterminate  == [status |-> "INDETERMINATE",   retryable |-> FALSE]
ControlFailure == [status |-> "CONTROL_FAILURE", retryable |-> TRUE]
ContractBroken == [status |-> "CONTROL_FAILURE", retryable |-> FALSE]

Results == {Executed, Blocked, ReviewRequired, Indeterminate, ControlFailure,
            ContractBroken}

\* _contract_failure, and the handler of a gateway exception in execute().
ContractFailure(a) ==
  IF entries[a] > 0 \/ Independent(a) THEN Indeterminate ELSE ContractBroken

\* Mutant: an uncertain dispatch is marked retryable.
GatewayIndeterminateRetryable(a) == [status |-> "INDETERMINATE", retryable |-> TRUE]

\* gateway._indeterminate.
GatewayIndeterminate(a) ==
  IF entries[a] > 0 \/ Independent(a) THEN Indeterminate ELSE ControlFailure

\* What execute() makes of the gateway's result g.
RuntimeResult(a, g) ==
  IF g = Executed
  THEN IF entries[a] = (IF Independent(a) THEN 0 ELSE 1)
       THEN g ELSE ContractFailure(a)
  ELSE IF entries[a] # 0 THEN ContractFailure(a) ELSE g

\* The gateway returns g and execute() returns its verdict on it.
Return(a, g) ==
  /\ pc' = [pc EXCEPT ![a] = "done"]
  /\ result' = [result EXCEPT ![a] = RuntimeResult(a, g)]

\* The gateway raises.
Raise(a) ==
  /\ pc' = [pc EXCEPT ![a] = "done"]
  /\ result' = [result EXCEPT ![a] = ContractFailure(a)]

Goto(a, l) ==
  /\ pc' = [pc EXCEPT ![a] = l]
  /\ UNCHANGED result

-----------------------------------------------------------------------------
(* The gateway before dispatch *)

\* A caller calls execute().  It calls again for a request only when every
\* earlier call for it returned a retryable result.
Begin(a, r) ==
  /\ pc[a] = "idle"
  /\ \A b \in Attempt : req[b] = r => result[b].retryable
  /\ req' = [req EXCEPT ![a] = r]
  /\ Goto(a, "plan")
  /\ UNCHANGED <<now, permit, conn, entries, vaultVars, consumed, threadVars>>

\* planner.plan and DecisionBinding.capture.
Plan(a) ==
  /\ pc[a] = "plan"
  /\ Goto(a, "decide") \/ Return(a, ControlFailure)
  /\ UNCHANGED <<now, req, permit, conn, entries, vaultVars, consumed, threadVars>>

\* decision_client.decide: unavailable or unknown, BLOCK, REQUIRE_APPROVAL, ALLOW.
Decide(a) ==
  /\ pc[a] = "decide"
  /\ \/ Goto(a, "issue")
     \/ \E g \in {ControlFailure, Blocked, ReviewRequired} : Return(a, g)
  /\ UNCHANGED <<now, req, permit, conn, entries, vaultVars, consumed, threadVars>>

\* PrivateVault mints a fresh permit for r.
Mint(p, r) ==
  /\ owner[p] = None
  /\ owner' = [owner EXCEPT ![p] = r]
  /\ expires' = [expires EXCEPT ![p] = now + TTL]

\* issuer.issue and _bind.  PrivateVault answers with a fresh permit, or again
\* with one it minted for the same request; _verify_binding accepts no other.
Issue(a) ==
  /\ pc[a] = "issue"
  /\ \/ /\ Return(a, ControlFailure)
        /\ UNCHANGED <<permit, vaultVars>>
     \/ \E p \in Permit :
          /\ Mint(p, req[a]) \/ (owner[p] = req[a] /\ UNCHANGED vaultVars)
          /\ permit' = [permit EXCEPT ![a] = p]
          /\ Goto(a, "authorize")
  /\ UNCHANGED <<now, req, conn, entries, consumed, threadVars>>

\* A free thread t starts on the envelope of attempt a at label l.
Start(t, a, l) ==
  /\ tpc[t] = "free"
  /\ tpc' = [tpc EXCEPT ![t] = l]
  /\ env' = [env EXCEPT ![t] = a]
  /\ UNCHANGED <<dialedAt, claimedAt, seen, sent>>

\* Independent: verify_authorization with already_consumed=False, no claim.
VerifyOnly(a) ==
  /\ Independent(a)
  /\ pc[a] = "authorize"
  /\ Goto(a, "dispatch") \/ Return(a, ControlFailure)
  /\ UNCHANGED <<now, req, permit, conn, entries, vaultVars, consumed, threadVars>>

\* In process: the gateway enters claim_coordinator.verify_and_claim itself.
ClaimLocally(a) ==
  /\ ~Independent(a)
  /\ pc[a] = "authorize"
  /\ \E t \in Thread :
       /\ Start(t, a, "connected")
       /\ conn' = [conn EXCEPT ![a] = t]
  /\ Goto(a, "claiming")
  /\ UNCHANGED <<now, req, permit, entries, vaultVars, consumed>>

\* In process: verify_and_claim returned, or raised.
ClaimAnswered(a) ==
  /\ pc[a] = "claiming"
  /\ \/ tpc[conn[a]] = "claimed" /\ Goto(a, "dispatch")
     \/ tpc[conn[a]] = "refused" /\ Return(a, ControlFailure)
  /\ UNCHANGED <<now, req, permit, conn, entries, vaultVars, consumed, threadVars>>

-----------------------------------------------------------------------------
(* verify_and_claim: sidecar handler threads, and the gateway in process *)

\* The thread moves to label l.
Move(t, l) == tpc' = [tpc EXCEPT ![t] = l]

\* Mutant: the claim is verified at the time the permit was bound.
SampleAtBinding(t) ==
  /\ tpc[t] = "connected"
  /\ Move(t, "sampled")
  /\ claimedAt' = [claimedAt EXCEPT ![t] = expires[permit[env[t]]] - TTL]
  /\ UNCHANGED <<now, agentVars, vaultVars, consumed, env, dialedAt, seen, sent>>

\* The trusted clock sampled immediately before the claim.
Sample(t) ==
  /\ tpc[t] = "connected"
  /\ Move(t, "sampled")
  /\ claimedAt' = [claimedAt EXCEPT ![t] = now]
  /\ UNCHANGED <<now, agentVars, vaultVars, consumed, env, dialedAt, seen, sent>>

\* consumption_store.is_consumed: the row is there, is not, or the lookup fails.
Lookup(t) ==
  /\ tpc[t] = "sampled"
  /\ \/ /\ Move(t, "looked_up")
        /\ seen' = [seen EXCEPT ![t] = permit[env[t]] \in consumed]
     \/ Move(t, "refused") /\ UNCHANGED seen
  /\ UNCHANGED <<now, agentVars, vaultVars, consumed, env, dialedAt, claimedAt, sent>>

\* AgentDNA accepts a permit that is unexpired at the claim time and was not
\* reported as consumed.
Acceptable(t) == ~seen[t] /\ claimedAt[t] < expires[permit[env[t]]]

\* verify_authorization at the claim time; it may also reject for its own reasons.
Verify(t) ==
  /\ tpc[t] = "looked_up"
  /\ \/ Acceptable(t) /\ Move(t, "verified")
     \/ Move(t, "refused")
  /\ UNCHANGED <<now, agentVars, vaultVars, consumed, env, dialedAt, claimedAt, seen, sent>>

\* Mutant: the insert's conflict is not noticed.
ClaimOnceUpsert(t) ==
  /\ tpc[t] = "verified"
  /\ consumed' = consumed \cup {permit[env[t]]}
  /\ Move(t, "claimed")
  /\ UNCHANGED <<now, agentVars, vaultVars, env, dialedAt, claimedAt, seen, sent>>

\* claim_once: INSERT ... ON CONFLICT DO NOTHING and COMMIT, atomic in the
\* database.  On an error the commit may or may not have taken effect.
ClaimOnce(t) ==
  /\ tpc[t] = "verified"
  /\ LET p == permit[env[t]] IN
     \/ p \notin consumed /\ consumed' = consumed \cup {p} /\ Move(t, "claimed")
     \/ p \in consumed /\ UNCHANGED consumed /\ Move(t, "refused")
     \/ consumed' \in {consumed, consumed \cup {p}} /\ Move(t, "refused")
  /\ UNCHANGED <<now, agentVars, vaultVars, env, dialedAt, claimedAt, seen, sent>>

-----------------------------------------------------------------------------
(* In-process dispatch *)

\* _prepare_transport raises; HandlerNotInvoked; or the handler is entered.
InvokeHandler(a) ==
  /\ ~Independent(a)
  /\ pc[a] = "dispatch"
  /\ \/ (Raise(a) \/ Return(a, ControlFailure)) /\ UNCHANGED <<entries, sent>>
     \/ /\ entries' = [entries EXCEPT ![a] = @ + 1]
        /\ sent' = [sent EXCEPT ![conn[a]] = TRUE]
        /\ Goto(a, "handled")
  /\ UNCHANGED <<now, req, permit, conn, vaultVars, consumed,
                 tpc, env, dialedAt, claimedAt, seen>>

\* Mutant: the gateway vouches for the in-process dispatch itself.
FinishLocallyExecuted(a) ==
  /\ pc[a] = "handled"
  /\ Return(a, Executed)
  /\ UNCHANGED <<now, req, permit, conn, entries, vaultVars, consumed, threadVars>>

\* Handler, encoder or witness failed, or all worked: without a closure the
\* gateway reports _indeterminate in every case.
FinishLocally(a) ==
  /\ pc[a] = "handled"
  /\ Return(a, GatewayIndeterminate(a))
  /\ UNCHANGED <<now, req, permit, conn, entries, vaultVars, consumed, threadVars>>

-----------------------------------------------------------------------------
(* Independent dispatch: the agent side *)

\* SidecarDispatchTransport.dispatch up to the POST: the binding check may
\* raise HandlerNotInvoked; encoding or connecting may fail before the sidecar
\* sees anything; or a handler thread takes the envelope.
Post(a) ==
  /\ Independent(a)
  /\ pc[a] = "dispatch"
  /\ \/ /\ \E g \in {ControlFailure, GatewayIndeterminate(a)} : Return(a, g)
        /\ UNCHANGED <<conn, threadVars>>
     \/ \E t \in Thread :
          /\ Start(t, a, "received")
          /\ conn' = [conn EXCEPT ![a] = t]
          /\ Goto(a, "await")
  /\ UNCHANGED <<now, req, permit, entries, vaultVars, consumed>>

\* The same envelope reaches the sidecar again on a connection of its own.
Replay(a) ==
  /\ Replays
  /\ Independent(a) /\ conn[a] # None
  /\ \E t \in Thread : Start(t, a, "received")
  /\ UNCHANGED <<now, agentVars, vaultVars, consumed>>

\* Mutant: every answer but a closure counts as a refusal.
AnsweredRefused(a) ==
  /\ pc[a] = "await"
  /\ \/ tpc[conn[a]] \in {"refused", "indeterminate"} /\ Return(a, ControlFailure)
     \/ tpc[conn[a]] = "closed" /\ Goto(a, "verify")
  /\ UNCHANGED <<now, req, permit, conn, entries, vaultVars, consumed, threadVars>>

\* HTTPSidecarRPC.call returns the thread's answer; _decode_response.
Answered(a) ==
  /\ pc[a] = "await"
  /\ \/ tpc[conn[a]] = "refused" /\ Return(a, ControlFailure)
     \/ tpc[conn[a]] = "indeterminate" /\ Return(a, GatewayIndeterminate(a))
     \/ tpc[conn[a]] = "closed" /\ Goto(a, "verify")
  /\ UNCHANGED <<now, req, permit, conn, entries, vaultVars, consumed, threadVars>>

\* Mutant: a timeout is taken for a refusal before dispatch.
RpcFailedRetryable(a) ==
  /\ pc[a] = "await"
  /\ Return(a, ControlFailure)
  /\ UNCHANGED <<now, req, permit, conn, entries, vaultVars, consumed, threadVars>>

\* Mutant: the RPC has no timeout.
RpcNeverFails(a) == FALSE /\ UNCHANGED vars

\* The RPC times out, the connection drops, or the answer is no valid one.
RpcFailed(a) ==
  /\ pc[a] = "await"
  /\ Return(a, GatewayIndeterminate(a))
  /\ UNCHANGED <<now, req, permit, conn, entries, vaultVars, consumed, threadVars>>

\* verify_dispatch, the closure check and verify_closure.
VerifyClosure(a) ==
  /\ pc[a] = "verify"
  /\ \E g \in {Executed, GatewayIndeterminate(a)} : Return(a, g)
  /\ UNCHANGED <<now, req, permit, conn, entries, vaultVars, consumed, threadVars>>

\* The agent process dies: nobody waits for this attempt any more.  A sidecar
\* thread works on; the gateway's own claim dies with it.
AgentCrash(a) ==
  /\ pc[a] \notin {"idle", "done", "crashed"}
  /\ Goto(a, "crashed")
  /\ tpc' = [t \in Thread |->
               IF ~Independent(a) /\ t = conn[a] THEN "gone" ELSE tpc[t]]
  /\ UNCHANGED <<now, req, permit, conn, entries, vaultVars, consumed,
                 env, dialedAt, claimedAt, seen, sent>>

-----------------------------------------------------------------------------
(* Independent dispatch: the sidecar *)

\* do_POST rejects at HTTP level (403, 404, 411, 413, 400: to the caller no
\* answer), or handle() decodes the envelope, checks the pinned trust bundle
\* and the headers and resolves the credential.
Admit(t) ==
  /\ tpc[t] = "received"
  /\ \E l \in {"gone", "refused", "admitted"} : Move(t, l)
  /\ UNCHANGED <<now, agentVars, vaultVars, consumed, env, dialedAt, claimedAt, seen, sent>>

\* connector.open and the comparison of the peer identity with the permit.
Connect(t) ==
  /\ tpc[t] = "admitted"
  /\ dialedAt' = [dialedAt EXCEPT ![t] = now]
  /\ Move(t, "connected") \/ Move(t, "refused")
  /\ UNCHANGED <<now, agentVars, vaultVars, consumed, env, claimedAt, seen, sent>>

\* Mutant: an exception of send_exact is reported as a refusal.
SendRefused(t) ==
  /\ tpc[t] = "claimed" /\ Independent(env[t])
  /\ sent' = [sent EXCEPT ![t] = TRUE]
  /\ Move(t, "answered") \/ Move(t, "refused")
  /\ UNCHANGED <<now, agentVars, vaultVars, consumed, env, dialedAt, claimedAt, seen>>

\* channel.send_exact.  The bytes may have left whether it returns or raises.
Send(t) ==
  /\ tpc[t] = "claimed" /\ Independent(env[t])
  /\ sent' = [sent EXCEPT ![t] = TRUE]
  /\ Move(t, "answered") \/ Move(t, "indeterminate")
  /\ UNCHANGED <<now, agentVars, vaultVars, consumed, env, dialedAt, claimedAt, seen>>

\* The response check, the witness, the closure, and encoding the answer.
Seal(t) ==
  /\ tpc[t] = "answered"
  /\ Move(t, "closed") \/ Move(t, "indeterminate")
  /\ UNCHANGED <<now, agentVars, vaultVars, consumed, env, dialedAt, claimedAt, seen, sent>>

\* The sidecar process dies and restarts: its threads are gone, the ledger stays.
SidecarCrash ==
  LET serving == {t \in Thread : tpc[t] # "free" /\ Independent(env[t])} IN
  /\ \E t \in serving : tpc[t] # "gone"
  /\ tpc' = [t \in Thread |-> IF t \in serving THEN "gone" ELSE tpc[t]]
  /\ UNCHANGED <<now, agentVars, vaultVars, consumed, env, dialedAt, claimedAt, seen, sent>>

Tick ==
  /\ now < MaxClock
  /\ now' = now + 1
  /\ UNCHANGED <<agentVars, vaultVars, consumed, threadVars>>

-----------------------------------------------------------------------------

Init ==
  /\ now = 0
  /\ pc = [a \in Attempt |-> "idle"]
  /\ req = [a \in Attempt |-> None]
  /\ permit = [a \in Attempt |-> None]
  /\ conn = [a \in Attempt |-> None]
  /\ entries = [a \in Attempt |-> 0]
  /\ result = [a \in Attempt |-> NoResult]
  /\ owner = [p \in Permit |-> None]
  /\ expires = [p \in Permit |-> 0]
  /\ consumed = {}
  /\ tpc = [t \in Thread |-> "free"]
  /\ env = [t \in Thread |-> None]
  /\ dialedAt = [t \in Thread |-> 0]
  /\ claimedAt = [t \in Thread |-> 0]
  /\ seen = [t \in Thread |-> FALSE]
  /\ sent = [t \in Thread |-> FALSE]

\* The steps decide_and_execute takes by itself once execute() was called.
AttemptStep(a) ==
  \/ Plan(a) \/ Decide(a) \/ Issue(a) \/ VerifyOnly(a)
  \/ ClaimLocally(a) \/ ClaimAnswered(a) \/ InvokeHandler(a) \/ FinishLocally(a)
  \/ Post(a) \/ Answered(a) \/ RpcFailed(a) \/ VerifyClosure(a)

ThreadStep(t) ==
  \/ Admit(t) \/ Connect(t) \/ Sample(t) \/ Lookup(t) \/ Verify(t)
  \/ ClaimOnce(t) \/ Send(t) \/ Seal(t)

Next ==
  \/ \E a \in Attempt :
       \/ \E r \in Request : Begin(a, r)
       \/ AttemptStep(a)
       \/ Replay(a)
       \/ AgentCrash(a)
  \/ \E t \in Thread : ThreadStep(t)
  \/ SidecarCrash
  \/ Tick

Spec == Init /\ [][Next]_vars

\* A running process keeps running; the RPC has a socket timeout.
Fairness ==
  /\ \A a \in Attempt : WF_vars(AttemptStep(a))
  /\ \A t \in Thread : WF_vars(ThreadStep(t))

FairSpec == Spec /\ Fairness

-----------------------------------------------------------------------------
(* Properties *)

AttemptLabels == {"idle", "plan", "decide", "issue", "authorize", "claiming",
                  "dispatch", "handled", "await", "verify", "done", "crashed"}

ThreadLabels == {"free", "received", "admitted", "connected", "sampled",
                 "looked_up", "verified", "claimed", "answered",
                 "refused", "indeterminate", "closed", "gone"}

\* Types of the state of runtime, gateway, sidecar and ledger.
TypeOK ==
  /\ now \in Nat
  /\ pc \in [Attempt -> AttemptLabels]
  /\ req \in [Attempt -> Request \cup {None}]
  /\ permit \in [Attempt -> Permit \cup {None}]
  /\ conn \in [Attempt -> Thread \cup {None}]
  /\ entries \in [Attempt -> Nat]
  /\ result \in [Attempt -> Results \cup {NoResult}]
  /\ owner \in [Permit -> Request \cup {None}]
  /\ expires \in [Permit -> Nat]
  /\ consumed \in SUBSET Permit
  /\ tpc \in [Thread -> ThreadLabels]
  /\ env \in [Thread -> Attempt \cup {None}]
  /\ dialedAt \in [Thread -> Nat]
  /\ claimedAt \in [Thread -> Nat]
  /\ seen \in [Thread -> BOOLEAN]
  /\ sent \in [Thread -> BOOLEAN]

\* The threads that started the effect of attempt a.
Senders(a) == {t \in Thread : sent[t] /\ env[t] = a}

\* A permit is spent on at most one transmission, whatever is replayed,
\* re-issued or raced between is_consumed and claim_once.
SingleUse ==
  \A t, u \in Thread :
    sent[t] /\ sent[u] /\ permit[env[t]] = permit[env[u]] => t = u

\* A result that says tool_executed=False is the truth for ever: no thread of
\* that attempt has started its effect, a late sidecar thread included.
RefusalMeansUnsent ==
  \A a \in Attempt :
    result[a].status \in {"BLOCKED", "REVIEW_REQUIRED", "CONTROL_FAILURE"}
      => Senders(a) = {}

\* Across all retries of a request, the effect starts at most once.
AtMostOneEffect ==
  \A t, u \in Thread :
    sent[t] /\ sent[u] /\ req[env[t]] = req[env[u]] => t = u

\* EXECUTED is only ever reported for bytes that left the sidecar, with the
\* local handler untouched; the in-process transport can never reach it.
ExecutedIsProven ==
  \A a \in Attempt :
    result[a] = Executed => Independent(a) /\ Senders(a) # {} /\ entries[a] = 0

\* Bytes leave only on a permit that was unexpired when the channel was already
\* open, so a slow TLS handshake cannot outlast it unnoticed.
FreshAfterDial ==
  \A t \in Thread : sent[t] =>
    /\ dialedAt[t] <= claimedAt[t]
    /\ claimedAt[t] < expires[permit[env[t]]]

\* Every call of execute() returns, although sidecars crash and never answer.
ExecuteReturns ==
  \A a \in Attempt :
    pc[a] = "plan" ~> pc[a] \in {"done", "crashed"}

\* The path implements the contract execute() offers its callers.
Contract == INSTANCE ExecutionContract WITH
  outcome  <- result,
  effected <- [a \in Attempt |-> Senders(a) # {}]

ImplementsContract == Contract!Spec
=============================================================================
