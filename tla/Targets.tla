------------------------------- MODULE Targets -------------------------------
(***************************************************************************)
(* The target systems a governed dispatch reaches (cbrain.simulators) and  *)
(* the purchase client that reconciles an uncertain create                 *)
(* (cbrain.procurement.reconcile), over a network that delays and loses    *)
(* requests and responses.                                                 *)
(*                                                                         *)
(* Each target runs execute() under its lock, so one delivery is one step. *)
(* An operation is a refusal and a new state, both functions of the        *)
(* target's state and the request's arguments.  Amounts are integers (the  *)
(* code's two-place decimals in cents); a business object is numbered in   *)
(* the order of creation, as the code's identifiers are.                   *)
(***************************************************************************)
EXTENDS Integers, Sequences, FiniteSets, FiniteSetsExt

CONSTANTS
    Callers,            \* each makes one request and may retry it
    Workloads,          \* sets of requests [op, arg, rid, key], one per behaviour
    Accounts, Currency, Opening, OpeningLimit, \* the ledger's opening state
    Beneficiaries,      \* beneficiaries known at the start
    Contacts,           \* CRM contacts, active at the start
    Vendors, Moq, Validity, \* known vendors; minimum order; hours a quote is valid
    MaxHour,            \* bound of the model on the quoting clock
    MaxRetries,         \* bound of the model on resubmissions, of all callers
    Shipments,          \* the shipment statuses the carrier reports
    MaxWaiting,         \* bound of the model on callers waiting at the same time
    MaxShipmentUpdates, \* bound of the model on set_shipment_status
    Open, Expired, None

LedgerOps == {"balance", "limit", "modify_limit", "add_beneficiary", "transfer"}
OrderOps == {"create", "read", "amend", "cancel", "read_shipment"}
CrmOps == {"read_contact", "merge", "send_email", "export"}
MailOps == {"send"}
QuoteOps == {"list_vendors", "reliability", "request_quote", "read_quote"}
Ops == LedgerOps \cup OrderOps \cup CrmOps \cup MailOps \cup QuoteOps

\* The second component of what _apply returns.
Mutating == {"modify_limit", "add_beneficiary", "transfer", "create", "amend",
             "cancel", "merge", "send_email", "export", "send", "request_quote"}

\* SIMULATOR_OPERATIONS: the quoting target has no HTTP route.
Routed == Ops \ QuoteOps

Target(op) ==
    CASE op \in LedgerOps -> "ledger"
      [] op \in OrderOps  -> "orders"
      [] op \in CrmOps    -> "crm"
      [] op \in MailOps   -> "mail"
      [] op \in QuoteOps  -> "quotes"
Targets == {"ledger", "orders", "crm", "mail", "quotes"}

ASSUME TargetsConfig ==
    /\ Opening \in [Accounts -> Nat] /\ OpeningLimit \in [Accounts -> Nat \ {0}]
    /\ MaxRetries \in Nat /\ MaxWaiting \in Nat /\ MaxShipmentUpdates \in Nat
    /\ Moq \in Nat /\ Validity \in Nat /\ MaxHour \in Nat
    /\ \A w \in Workloads : \A r \in w :
          /\ r.op \in Ops
          /\ r.op = "transfer" => r.arg.amount \in Nat \ {0}     \* _positive_money

\* None is no request and no outcome of a purchase.
ASSUME NoneIsNoAnswer ==
    /\ None \notin {"PENDING_ACCEPTANCE", "CONFIRMED"}
    /\ \A w \in Workloads : None \notin w

VARIABLES
    requests,   \* the workload of this behaviour
    state,      \* state[t]: the business objects of target t
    effects,    \* effects[t]: the stored effects of target t
    version,    \* version[t]: _state_version
    hour,       \* the quoting target's clock
    updates,    \* calls of set_shipment_status so far
    wire,       \* requests on the network: <<caller, attempt, request>>; one that
                \* is lost is one that never arrives
    replies,    \* responses on the network: <<caller, attempt, status, receipt>>
    pc, req, attempt, outcome, result   \* the callers

target == <<state, effects, version, hour, updates>>
network == <<wire, replies>>
caller == <<pc, req, attempt, outcome, result>>
vars == <<requests, target, network, caller>>

-----------------------------------------------------------------------------
(* The operations: why one is refused ("ok" when it is not), and its effect. *)

Ledger == state["ledger"]
ModifyLimitRefusal(a) ==
    IF a.account \notin Accounts THEN "not_found"
    ELSE IF a.currency # Currency THEN "business"
    ELSE "ok"
ModifyLimit(a) == [Ledger EXCEPT !.limit[a.account] = a.amount]

AddBeneficiaryRefusal(a) ==
    IF a.beneficiary \in Ledger.beneficiaries THEN "conflict" ELSE "ok"
AddBeneficiary(a) == [Ledger EXCEPT !.beneficiaries = @ \cup {a.beneficiary}]

TransferRefusal(a) ==
    IF a.account \notin Accounts THEN "not_found"
    ELSE IF a.currency # Currency THEN "business"
    ELSE IF a.beneficiary \notin Ledger.beneficiaries THEN "not_found"
    ELSE IF a.amount > Ledger.limit[a.account] THEN "business"
    ELSE IF a.amount > Ledger.balance[a.account] THEN "business"
    ELSE "ok"
Transfer(a) ==
    [Ledger EXCEPT !.balance[a.account] = @ - a.amount,
                   !.transfers = Append(@, a)]

Orders == state["orders"]
Create(a) == Append(Orders, [terms |-> a, status |-> "OPEN", shipment |-> "PENDING"])

RequiredOrder(a) == IF a.po \in DOMAIN Orders THEN "ok" ELSE "not_found"

AmendRefusal(a) ==
    IF a.po \notin DOMAIN Orders THEN "not_found"
    ELSE IF Orders[a.po].status = "CANCELLED" THEN "business"
    ELSE "ok"
Amend(a) == [Orders EXCEPT ![a.po].terms = a.terms, ![a.po].status = "AMENDED"]

CancelRefusal(a) ==
    IF a.po \notin DOMAIN Orders THEN "not_found"
    ELSE IF Orders[a.po].status = "CANCELLED" THEN "business"
    ELSE IF Orders[a.po].shipment = "DELIVERED" THEN "business"
    ELSE "ok"
Cancel(a) == [Orders EXCEPT ![a.po].status = "CANCELLED"]

Crm == state["crm"]
ActiveContact(c) ==
    IF c \notin Contacts THEN "not_found"
    ELSE IF Crm.merged[c] # None THEN "conflict"
    ELSE "ok"
MergeRefusal(a) ==
    IF a.source = a.target THEN "business"
    ELSE IF ActiveContact(a.source) # "ok" THEN ActiveContact(a.source)
    ELSE ActiveContact(a.target)
Merge(a) == [Crm EXCEPT !.merged[a.source] = a.target]
SendEmail(a) == [Crm EXCEPT !.emails = Append(@, a)]
Export(a) == [Crm EXCEPT !.exports = Append(@, a)]

Mail == state["mail"]
Send(a) == Append(Mail, a)

Quotes == state["quotes"]
RequiredVendor(a) == IF a.vendor \in Vendors THEN "ok" ELSE "not_found"
RequestQuoteRefusal(a) ==
    IF a.vendor \in Vendors /\ a.tonnes < Moq THEN "business" ELSE RequiredVendor(a)
RequestQuote(a) == Append(Quotes, [terms |-> a, until |-> hour + Validity])
ReadQuoteRefusal(a) == IF a.quote \in DOMAIN Quotes THEN "ok" ELSE "not_found"
\* to_payload: the status a quote is reported with is taken at the read.
ReadQuote(a) == IF hour > Quotes[a.quote].until THEN Expired ELSE Open

Refusal(op, a) ==
    CASE op = "modify_limit"    -> ModifyLimitRefusal(a)
      [] op = "add_beneficiary" -> AddBeneficiaryRefusal(a)
      [] op = "transfer"        -> TransferRefusal(a)
      [] op \in {"balance", "limit"} ->
            IF a.account \in Accounts THEN "ok" ELSE "not_found"
      [] op \in {"read", "read_shipment"} -> RequiredOrder(a)
      [] op = "amend"           -> AmendRefusal(a)
      [] op = "cancel"          -> CancelRefusal(a)
      [] op \in {"read_contact", "send_email"} -> ActiveContact(a.contact)
      [] op = "merge"           -> MergeRefusal(a)
      [] op = "reliability"     -> RequiredVendor(a)
      [] op = "request_quote"   -> RequestQuoteRefusal(a)
      [] op = "read_quote"      -> ReadQuoteRefusal(a)
      [] OTHER -> "ok"

Apply(op, a) ==
    CASE op = "modify_limit"    -> ModifyLimit(a)
      [] op = "add_beneficiary" -> AddBeneficiary(a)
      [] op = "transfer"        -> Transfer(a)
      [] op = "create"          -> Create(a)
      [] op = "amend"           -> Amend(a)
      [] op = "cancel"          -> Cancel(a)
      [] op = "merge"           -> Merge(a)
      [] op = "send_email"      -> SendEmail(a)
      [] op = "export"          -> Export(a)
      [] op = "send"            -> Send(a)
      [] op = "request_quote"   -> RequestQuote(a)
      [] OTHER -> state[Target(op)]

\* What a receipt reports: the number of the object created or concerned, the
\* value read, or nothing of interest to the properties.
Result(op, a) ==
    CASE op = "transfer"      -> Len(Ledger.transfers) + 1
      [] op = "create"        -> Len(Orders) + 1
      [] op = "send_email"    -> Len(Crm.emails) + 1
      [] op = "export"        -> Len(Crm.exports) + 1
      [] op = "send"          -> Len(Mail) + 1
      [] op = "request_quote" -> Len(Quotes) + 1
      [] op \in {"read", "amend", "cancel", "read_shipment"} -> a.po
      [] op = "balance"       -> Ledger.balance[a.account]
      [] op = "limit"         -> Ledger.limit[a.account]
      [] op = "read_quote"    -> ReadQuote(a)
      [] OTHER -> None

-----------------------------------------------------------------------------
(* execute(): the same for every target.                                   *)

Stored(r) == {e \in effects[Target(r.op)] : e.request.key = r.key}

\* Mutant: any request under a stored key gets the stored receipt.
AnyDigest(e, r) == TRUE
\* The digest covers capability, request id, key and arguments.
SameRequest(e, r) == e.request = r

\* What execute() answers: a receipt or the kind of the exception it raises.
Status(r) ==
    IF \E e \in Stored(r) : ~SameRequest(e, r) THEN "conflict"
    ELSE IF Stored(r) # {} THEN "ok"
    ELSE Refusal(r.op, r.arg)

NewVersion(r) ==
    version[Target(r.op)] + (IF r.op \in Mutating THEN 1 ELSE 0)
NewReceipt(r) ==
    [request |-> r, version |-> NewVersion(r), result |-> Result(r.op, r.arg)]

Receipt(r) ==
    IF Status(r) # "ok" THEN None
    ELSE IF Stored(r) # {} THEN CHOOSE e \in Stored(r) : TRUE
    ELSE NewReceipt(r)

\* Mutant: a replayed request is applied again before its receipt is found.
ExecuteEagerly(r) ==
    /\ UNCHANGED <<hour, updates>>
    /\ IF Status(r) = "ok" /\ Refusal(r.op, r.arg) = "ok"
       THEN LET t == Target(r.op) IN
            /\ state' = [state EXCEPT ![t] = Apply(r.op, r.arg)]
            /\ version' = [version EXCEPT ![t] = NewVersion(r)]
            /\ effects' = [effects EXCEPT ![t] = @ \cup {Receipt(r)}]
       ELSE UNCHANGED <<state, version, effects>>

Execute(r) ==
    /\ UNCHANGED <<hour, updates>>
    /\ IF Stored(r) = {} /\ Status(r) = "ok"
       THEN LET t == Target(r.op) IN
            /\ state' = [state EXCEPT ![t] = Apply(r.op, r.arg)]
            /\ version' = [version EXCEPT ![t] = NewVersion(r)]
            /\ effects' = [effects EXCEPT ![t] = @ \cup {NewReceipt(r)}]
       ELSE UNCHANGED <<state, version, effects>>

\* set_shipment_status: the carrier's side of an order.
SetShipmentStatus(n, s) ==
    /\ updates < MaxShipmentUpdates
    /\ n \in DOMAIN Orders
    /\ state' = [state EXCEPT !["orders"][n].shipment = s]
    /\ version' = [version EXCEPT !["orders"] = @ + 1]
    /\ updates' = updates + 1
    /\ UNCHANGED <<effects, hour, network, caller>>

\* Only the age of a quote matters, so the clock starts with the first one.
HourPasses ==
    /\ hour < MaxHour /\ Quotes # <<>>
    /\ hour' = hour + 1
    /\ UNCHANGED <<state, effects, version, updates, network, caller>>

-----------------------------------------------------------------------------
(* The HTTP front of a target.                                             *)

HttpStatus(s) ==
    CASE s = "ok"        -> 200
      [] s = "not_found" -> 404
      [] s = "conflict"  -> 409
      [] s = "business"  -> 422

\* A create may be answered 202 with no receipt although its effect is stored.
Answers(r) ==
    {<<HttpStatus(Status(r)), Receipt(r)>>} \cup
    (IF r.op = "create" /\ Status(r) = "ok" THEN {<<202, None>>} ELSE {})

\* Nobody reads the answer to an attempt that was given up.
Awaited(m) == pc[m[1]] = "waiting" /\ attempt[m[1]] = m[2]

Handle(m) ==
    /\ m \in wire
    /\ Execute(m[3])
    /\ wire' = wire \ {m}
    /\ IF Awaited(m)
       THEN \E a \in Answers(m[3]) : replies' = replies \cup {<<m[1], m[2], a[1], a[2]>>}
       ELSE UNCHANGED replies
    /\ UNCHANGED caller

\* A credential, route, content type or body that is refused: no execute().  The
\* code answers 401, 404, 415, 413 or 400, which its callers do not tell apart.
Refuse(m) ==
    /\ m \in wire /\ Awaited(m)
    /\ wire' = wire \ {m}
    /\ replies' = replies \cup {<<m[1], m[2], 400, None>>}
    /\ UNCHANGED <<target, caller>>

-----------------------------------------------------------------------------
(* The callers.                                                            *)

\* plan() and encode_simulator_request: a routed operation, as exact bytes.
Submit(c, r) ==
    /\ pc[c] = "idle" /\ r.op \in Routed
    /\ Cardinality({d \in Callers : pc[d] = "waiting"}) < MaxWaiting
    /\ pc' = [pc EXCEPT ![c] = "waiting"]
    /\ req' = [req EXCEPT ![c] = r]
    /\ attempt' = [attempt EXCEPT ![c] = 1]
    /\ wire' = wire \cup {<<c, 1, r>>}
    /\ UNCHANGED <<target, replies, outcome, result>>

\* The quoting target is called in the process that owns it.
CallDirectly(c, r) ==
    /\ pc[c] = "idle" /\ r.op \notin Routed
    /\ Execute(r)
    /\ pc' = [pc EXCEPT ![c] = IF Status(r) = "ok" THEN "done" ELSE "failed"]
    /\ req' = [req EXCEPT ![c] = r]
    /\ result' = [result EXCEPT ![c] = IF Status(r) = "ok" THEN Receipt(r).result ELSE None]
    /\ UNCHANGED <<network, attempt, outcome>>

InterpretCreateResponse(status, receipt) ==
    CASE status = 202 -> "PENDING_ACCEPTANCE"
      [] status = 200 /\ receipt # None -> "CONFIRMED"
      [] status = 409 -> "CONFLICT"
      [] OTHER -> "INDETERMINATE"

Receive(c, m) ==
    /\ pc[c] = "waiting" /\ m \in replies
    /\ m[1] = c /\ m[2] = attempt[c]
    /\ replies' = replies \ {m}
    /\ outcome' = [outcome EXCEPT ![c] =
          IF req[c].op = "create" THEN InterpretCreateResponse(m[3], m[4]) ELSE @]
    /\ result' = [result EXCEPT ![c] = IF m[3] = 200 THEN m[4].result ELSE None]
    /\ pc' = [pc EXCEPT ![c] = IF m[3] = 200 THEN "done" ELSE "answered"]
    /\ UNCHANGED <<target, wire, req, attempt>>

\* A transport error: the request or its answer may still be on the way.
TransportError(c) ==
    /\ pc[c] = "waiting"
    /\ outcome' = [outcome EXCEPT ![c] =
          IF req[c].op = "create" THEN "INDETERMINATE" ELSE @]
    /\ pc' = [pc EXCEPT ![c] = "answered"]
    /\ replies' = {m \in replies : m[1] # c}
    /\ UNCHANGED <<target, wire, req, attempt, result>>

\* Mutant: a new key is allowed to stand for the same purchase.
AnyKey(previous, new) == TRUE
RefuseBlindResubmit(previous, new) == previous = new

\* A caller asks again for what it asked first; a changed key is refused.  That it
\* calls refuse_blind_resubmit is a convention: in the repository only a test does.
Resubmit(c, r) ==
    /\ pc[c] = "answered"
    /\ MapThenSumSet(LAMBDA d : attempt[d] - 1, {d \in Callers : attempt[d] > 0}) < MaxRetries
    /\ r.op = req[c].op /\ r.arg = req[c].arg
    /\ RefuseBlindResubmit(req[c].key, r.key)
    /\ attempt' = [attempt EXCEPT ![c] = @ + 1]
    /\ wire' = wire \cup {<<c, attempt[c] + 1, r>>}
    /\ pc' = [pc EXCEPT ![c] = "waiting"]
    /\ UNCHANGED <<target, replies, req, outcome, result>>

\* reconcile_purchase: what is stored under the key, whoever stored it.
Reconcile(c) ==
    /\ pc[c] = "answered" /\ req[c].op = "create"
    /\ IF Stored(req[c]) = {}
       THEN /\ outcome' = [outcome EXCEPT ![c] = "NOT_FOUND"]
            /\ UNCHANGED <<pc, result>>
       ELSE LET e == CHOOSE e \in Stored(req[c]) : TRUE IN
            /\ outcome' = [outcome EXCEPT ![c] = "CONFIRMED"]
            /\ result' = [result EXCEPT ![c] = e.result]
            /\ pc' = [pc EXCEPT ![c] = "reconciled"]
    /\ UNCHANGED <<target, network, req, attempt>>

Init ==
    /\ requests \in Workloads
    /\ state = [t \in Targets |->
          CASE t = "ledger" -> [balance |-> Opening, limit |-> OpeningLimit,
                                beneficiaries |-> Beneficiaries, transfers |-> <<>>]
            [] t = "crm" -> [merged |-> [c \in Contacts |-> None],
                             emails |-> <<>>, exports |-> <<>>]
            [] OTHER -> <<>>]
    /\ effects = [t \in Targets |-> {}]
    /\ version = [t \in Targets |-> 0]
    /\ hour = 0 /\ updates = 0
    /\ wire = {} /\ replies = {}
    /\ pc = [c \in Callers |-> "idle"]
    /\ req = [c \in Callers |-> None]
    /\ attempt = [c \in Callers |-> 0]
    /\ outcome = [c \in Callers |-> None]
    /\ result = [c \in Callers |-> None]

CallerStep(c) ==
    \/ \E r \in requests : Submit(c, r) \/ CallDirectly(c, r) \/ Resubmit(c, r)
    \/ \E m \in replies : Receive(c, m)
    \/ TransportError(c) \/ Reconcile(c)

Next ==
    /\ UNCHANGED requests
    /\ \/ \E c \in Callers : CallerStep(c)
       \/ \E m \in wire : Handle(m) \/ Refuse(m)
       \/ \E n \in DOMAIN Orders, s \in Shipments :
             SetShipmentStatus(n, s)
       \/ HourPasses

Spec == Init /\ [][Next]_vars

-----------------------------------------------------------------------------
(* Properties.                                                             *)

Done(t, op) == {e \in effects[t] : e.request.op = op}

\* The receipts of one operation number the objects it created, each once.
Numbered(es, objects) ==
    /\ {e.result : e \in es} = DOMAIN objects
    /\ Cardinality(es) = Len(objects)

Amount(e) == e.request.arg.amount

\* Whatever was lost, late or repeated, the books of each target agree with
\* its receipts: every stored create, transfer, e-mail, export, message and
\* quote is one object and every object one receipt, the money that left an
\* account is what its transfer receipts say, and _state_version counts the
\* stored mutations and the carrier's updates.
BooksMatchReceipts ==
    /\ Numbered(Done("ledger", "transfer"), Ledger.transfers)
    /\ Numbered(Done("orders", "create"), Orders)
    /\ Numbered(Done("crm", "send_email"), Crm.emails)
    /\ Numbered(Done("crm", "export"), Crm.exports)
    /\ Numbered(Done("mail", "send"), Mail)
    /\ Numbered(Done("quotes", "request_quote"), Quotes)
    /\ \A a \in Accounts :
          Opening[a] - Ledger.balance[a] =
              MapThenSumSet(Amount, {e \in Done("ledger", "transfer") :
                                         e.request.arg.account = a})
    /\ \A t \in Targets :
          version[t] = Cardinality({e \in effects[t] : e.request.op \in Mutating})
                       + (IF t = "orders" THEN updates ELSE 0)

\* A purchase retried, resubmitted or answered late is at most one order: the
\* orders of a caller's terms are no more than the callers that asked for them
\* under different keys.  It speaks of callers that call refuse_blind_resubmit.
OneOrderPerPurchase ==
    \A a \in {r.arg : r \in {q \in requests : q.op = "create"}} :
        Cardinality({e \in Done("orders", "create") : e.request.arg = a}) <=
            Cardinality({req[c].key : c \in {d \in Callers :
                /\ req[d] # None /\ req[d].op = "create" /\ req[d].arg = a}})

\* What a caller is told is so.  A result comes from the effect of what the
\* caller itself asked for under its key; a purchase is reported as accepted
\* only when its order is stored; a reconciled purchase is the effect stored
\* under the caller's key (reconcile_purchase does not compare its arguments).
VerdictIsTrue ==
    \A c \in Callers :
        LET r == req[c]
            Mine(e) == e.request.op = r.op /\ e.request.key = r.key
                       /\ e.request.arg = r.arg
        IN
        /\ pc[c] = "done" => \E e \in effects[Target(r.op)] :
                                  Mine(e) /\ e.result = result[c]
        /\ outcome[c] = "PENDING_ACCEPTANCE" => \E e \in effects["orders"] : Mine(e)
        /\ outcome[c] = "CONFIRMED" => \E e \in effects["orders"] :
                                  e.request.key = r.key /\ e.result = result[c]
=============================================================================
