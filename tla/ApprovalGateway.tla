--------------------------- MODULE ApprovalGateway ---------------------------
(***************************************************************************)
(* Human approval of REVIEW tools: ApprovalInbox, the gateway in front of  *)
(* it (ApprovalBoundedGateway over CompanyRiskGateway) and the             *)
(* GovernedRuntime.execute calls that go through it.  Calls run on threads *)
(* of their own; the inbox methods are atomic (its lock), the gateway's    *)
(* sequence of them is not.                                                *)
(*                                                                         *)
(* An action is abstracted to its request_id and its intent digest.  The   *)
(* digest fixes the tool, so the tool's risk level and its approval role   *)
(* are facts about the digest; validation may block any action.            *)
(***************************************************************************)
EXTENDS Naturals, Approvals

CONSTANTS
  Call,           \* calls of GovernedRuntime.execute
  Principal,      \* authenticated principals
  Review,         \* digests of actions whose tool has risk level REVIEW; others ALLOW
  Unassigned,     \* REVIEW actions whose tool has no approval role
  Approvers,      \* principals of an action's role that _allowed_approvers lists
  TTL             \* ttl_seconds of an approval, in clock ticks

ASSUME ApprovalSets ==
  /\ Review \subseteq Digest /\ Unassigned \subseteq Review
  /\ Approvers \in [Digest -> SUBSET Principal]
  /\ None \notin Request \cup Digest \cup Principal
  /\ TTL \in Nat /\ MaxClock \in Nat

VARIABLES
  \* --- ApprovalInbox
  pending,      \* _pending: the parked digest of a request
  approvals,    \* _approvals: at most one record per request
  frozen,       \* _frozen_reason is not None
  \* --- per call
  pc,           \* where decide_and_execute stands
  req, digest,  \* the action
  entered,      \* handler_entries = 1
  result        \* ExecutionStatus returned by execute()

inboxVars == <<pending, approvals, frozen>>
callVars == <<pc, req, digest, entered, result>>
gatewayVars == <<now, inboxVars, callVars>>

Record == [digest : Digest, actor : Principal, expires : Nat, consumed : BOOLEAN]

NoRecord == [digest |-> None, actor |-> None, expires |-> 0, consumed |-> FALSE]

Labels == {"idle", "start", "decide", "consume", "look", "park", "invoke", "running", "done"}

Statuses == {"EXECUTED", "BLOCKED", "REVIEW_REQUIRED", "CONTROL_FAILURE", "INDETERMINATE"}

Refused == {"BLOCKED", "REVIEW_REQUIRED", "CONTROL_FAILURE"}

-----------------------------------------------------------------------------

Goto(c, l) ==
  /\ pc' = [pc EXCEPT ![c] = l]
  /\ UNCHANGED result

Return(c, s) ==
  /\ pc' = [pc EXCEPT ![c] = "done"]
  /\ result' = [result EXCEPT ![c] = s]

\* Mutant: execute() reports any exception of the gateway as a control failure.
RaiseRefused(c) == Return(c, "CONTROL_FAILURE")

\* The gateway raises: execute() tells from handler_entries what is known.
Raise(c) == Return(c, IF entered[c] THEN "INDETERMINATE" ELSE "CONTROL_FAILURE")

Begin(c, r, d) ==
  /\ pc[c] = "idle"
  /\ req' = [req EXCEPT ![c] = r]
  /\ digest' = [digest EXCEPT ![c] = d]
  /\ Goto(c, "start")
  /\ UNCHANGED <<now, inboxVars, entered>>

CheckFrozen(c) ==
  /\ pc[c] = "start"
  /\ IF frozen THEN Return(c, "CONTROL_FAILURE") ELSE Goto(c, "decide")
  /\ UNCHANGED <<now, inboxVars, req, digest, entered>>

\* CompanyRiskGateway.decide_and_execute, up to the handler of an ALLOW tool.
Decide(c) ==
  /\ pc[c] = "decide"
  /\ \/ Return(c, "BLOCKED")
     \/ digest[c] \notin Review /\ Goto(c, "invoke")
     \/ digest[c] \in Unassigned /\ Return(c, "CONTROL_FAILURE")
     \/ digest[c] \in Review \ Unassigned /\ Goto(c, "consume")
  /\ UNCHANGED <<now, inboxVars, req, digest, entered>>

\* Mutant: the digest approved is not compared with the digest presented.
ConsumableAnyDigest(c) ==
  LET r == req[c] IN
  /\ ~frozen
  /\ pending[r] # None /\ approvals[r] # NoRecord /\ ~approvals[r].consumed
  /\ now < approvals[r].expires

\* Mutant: a consumed approval may be consumed again.
ConsumableAgain(c) ==
  LET r == req[c] IN
  /\ ~frozen
  /\ pending[r] = digest[c] /\ approvals[r].digest = digest[c]
  /\ now < approvals[r].expires

\* consume_if_approved returns True.
Consumable(c) ==
  LET r == req[c] IN
  /\ ~frozen
  /\ pending[r] # None /\ approvals[r] # NoRecord /\ ~approvals[r].consumed
  /\ pending[r] = digest[c] /\ approvals[r].digest = digest[c]
  /\ now < approvals[r].expires

Consume(c) ==
  /\ pc[c] = "consume"
  /\ IF Consumable(c)
     THEN /\ approvals' = [approvals EXCEPT ![req[c]].consumed = TRUE]
          /\ Goto(c, "invoke")
     ELSE /\ Goto(c, "look")
          /\ UNCHANGED approvals
  /\ UNCHANGED <<now, pending, frozen, req, digest, entered>>

\* Not consumed: record_for says why.
Look(c) ==
  /\ pc[c] = "look"
  /\ IF approvals[req[c]] = NoRecord
     THEN Goto(c, "park")
     ELSE Return(c, IF approvals[req[c]].consumed THEN "BLOCKED" ELSE "CONTROL_FAILURE")
  /\ UNCHANGED <<now, inboxVars, req, digest, entered>>

\* Mutant: a parked request is parked again for another action.
ParkOver(c) ==
  /\ pc[c] = "park"
  /\ pending' = [pending EXCEPT ![req[c]] = digest[c]]
  /\ Return(c, "REVIEW_REQUIRED")
  /\ UNCHANGED <<now, approvals, frozen, req, digest, entered>>

ParkCall(c) ==
  /\ pc[c] = "park"
  /\ IF ~frozen /\ pending[req[c]] \in {None, digest[c]}
     THEN /\ pending' = [pending EXCEPT ![req[c]] = digest[c]]
          /\ Return(c, "REVIEW_REQUIRED")
     ELSE /\ Raise(c)
          /\ UNCHANGED pending
  /\ UNCHANGED <<now, approvals, frozen, req, digest, entered>>

\* The handler is entered ...
Invoke(c) ==
  /\ pc[c] = "invoke"
  /\ entered' = [entered EXCEPT ![c] = TRUE]
  /\ Goto(c, "running")
  /\ UNCHANGED <<now, inboxVars, req, digest>>

\* ... and returns or raises.
HandlerEnds(c) ==
  /\ pc[c] = "running"
  /\ Return(c, "EXECUTED") \/ Raise(c)
  /\ UNCHANGED <<now, inboxVars, req, digest, entered>>

\* approve(): something is parked, and the principal has the role it requires
\* and is in the directory of that role.
MayApprove(r, p) == pending[r] # None /\ p \in Approvers[pending[r]]

ApproveParked(r, p) ==
  /\ ~frozen
  /\ MayApprove(r, p)
  /\ approvals[r] = NoRecord
  /\ approvals' = [approvals EXCEPT ![r] =
       [digest |-> pending[r], actor |-> p, expires |-> now + TTL, consumed |-> FALSE]]
  /\ UNCHANGED <<now, pending, frozen, callVars>>

FreezeInbox ==
  /\ ~frozen
  /\ frozen' = TRUE
  /\ UNCHANGED <<now, pending, approvals, callVars>>

GatewayTick ==
  /\ now < MaxClock
  /\ now' = now + 1
  /\ UNCHANGED <<inboxVars, callVars>>

GatewayInit ==
  /\ now = 0
  /\ pending = [r \in Request |-> None]
  /\ approvals = [r \in Request |-> NoRecord]
  /\ frozen = FALSE
  /\ pc = [c \in Call |-> "idle"]
  /\ req = [c \in Call |-> None]
  /\ digest = [c \in Call |-> None]
  /\ entered = [c \in Call |-> FALSE]
  /\ result = [c \in Call |-> "NONE"]

CallStep(c) ==
  CheckFrozen(c) \/ Decide(c) \/ Consume(c) \/ Look(c) \/ ParkCall(c) \/ Invoke(c) \/ HandlerEnds(c)

GatewayNext ==
  \/ \E c \in Call : CallStep(c) \/ \E r \in Request, d \in Digest : Begin(c, r, d)
  \/ \E r \in Request, p \in Principal : ApproveParked(r, p)
  \/ FreezeInbox
  \/ GatewayTick

GatewaySpec == GatewayInit /\ [][GatewayNext]_gatewayVars

-----------------------------------------------------------------------------

\* Every variable keeps its type: an approval record names a parked digest
\* and an authenticated principal.
GatewayTypeOK ==
  /\ now \in Nat
  /\ pending \in [Request -> Digest \cup {None}]
  /\ approvals \in [Request -> Record \cup {NoRecord}]
  /\ frozen \in BOOLEAN
  /\ pc \in [Call -> Labels]
  /\ req \in [Call -> Request \cup {None}]
  /\ digest \in [Call -> Digest \cup {None}]
  /\ entered \in [Call -> BOOLEAN]
  /\ result \in [Call -> Statuses \cup {"NONE"}]

\* One approval runs the handler of a request's REVIEW action once, however many
\* threads present the approved action.
ApprovalRunsOnce ==
  \A c, d \in Call :
    entered[c] /\ entered[d] /\ req[c] = req[d] /\ {digest[c], digest[d]} \subseteq Review
      => c = d

\* The handler of a REVIEW action runs only for the very action a person of
\* the required role, listed in the directory, approved.
EntryWasApproved ==
  \A c \in Call : entered[c] /\ digest[c] \in Review =>
    /\ approvals[req[c]].consumed
    /\ approvals[req[c]].digest = digest[c]
    /\ approvals[req[c]].actor \in Approvers[digest[c]]

\* A result that says tool_executed=False is true: the call's handler was not
\* entered; EXECUTED is never claimed without it.
ResultIsHonest ==
  \A c \in Call :
    /\ result[c] \in Refused => ~entered[c]
    /\ result[c] = "EXECUTED" => entered[c]

\* What is parked or approved is never replaced: a request keeps its digest,
\* its approver and its consumption.
ApprovalIsFinal ==
  [][\A r \in Request :
       /\ pending[r] # None => pending'[r] = pending[r]
       /\ approvals[r] # NoRecord =>
            /\ approvals'[r].digest = approvals[r].digest
            /\ approvals'[r].actor = approvals[r].actor
            /\ approvals[r].consumed => approvals'[r].consumed]_gatewayVars
=============================================================================
