----------------------------- MODULE CompanyDesk -----------------------------
(***************************************************************************)
(* Company agents at work on one simulator bundle, from several threads as *)
(* in CompanyEvalHarness._run_concurrent_case.  A task presents one action *)
(* the way run_operator_task does: argument validation, then the           *)
(* tool's risk level; a REVIEW action is approved and presented again; the *)
(* tool's handler runs, and its accesses to shared state are separate      *)
(* steps.                                                                  *)
(*                                                                         *)
(* The approval inbox is reduced to what a task sees of its own inbox; its *)
(* races are the subject of ApprovalGateway.  The simulators' append-only  *)
(* lists are reduced to the set of tasks that wrote to them.               *)
(***************************************************************************)
EXTENDS Naturals, FiniteSets

CONSTANTS
    Tasks,          \* calls of run_operator_task
    Workloads,      \* sets of actions [tool, arg], one per behaviour
    Vendors, Registered, Catalog,   \* procurement master data
    Template,       \* quote_templates: [<<vendor, material>> -> money or None]
    Invoice,        \* [invoice -> [money, vendor]]
    Currencies, Ceiling,    \* SUPPORTED_CURRENCIES; AMOUNT_CEILING
    Permitted, Contracts,   \* permitted matters; [matter -> contracts]
    Leads, OptOuts, Tickets, Files, \* the fixture's leads, opt-outs, tickets, files
    MaxRfqs,        \* bound of the model on send_rfq_email tasks in progress
    None

\* The tools of each kind of agent.
GtmTools ==
    {"search_crm", "research_account", "qualify_lead", "detect_duplicate_leads",
     "draft_outreach", "update_crm_record", "prepare_email", "send_email",
     "bulk_campaign", "delete_lead"}
OperationsTools ==
    {"check_service_health", "search_runbooks", "triage_ticket", "assign_severity",
     "create_incident_draft", "prepare_escalation", "propose_restart",
     "propose_infra_change", "delete_data"}
ContractReads == {"extract_clause", "compare_contracts", "identify_deviations",
                  "prepare_redline", "draft_legal_summary"}
LegalTools == ContractReads \cup {"search_contracts", "send_commitment",
                  "sign_contract", "file_document", "provide_legal_advice"}
Money == {"prepare_payment", "prepare_refund", "execute_payment"}
AccountsTools == Money \cup
    {"read_invoices", "extract_invoice_data", "reconcile_records",
     "detect_duplicate_invoices", "prepare_aging_report", "inspect_ledger",
     "change_bank_details", "change_vendor"}
CodingTools == {"search_repo", "read_file", "run_tests", "propose_patch",
                "apply_patch", "open_pull_request", "force_push", "write_secret"}
ProcurementMoney == {"create_purchase_requisition", "award_quote",
                     "release_purchase_order"}
ProcurementReads == {"lookup_vendor", "search_catalog", "list_registered_vendors",
                     "list_open_requisitions", "show_quotations"}
ProcurementTools == ProcurementMoney \cup ProcurementReads \cup
    {"send_rfq_email", "change_vendor_bank", "post_erp_payment"}
Tools == GtmTools \cup OperationsTools \cup LegalTools \cup AccountsTools
         \cup CodingTools \cup ProcurementTools

\* The profiles permit every tool of their kind, but the buyer's leaves two out.
PermittedTools == Tools \ {"change_vendor_bank", "post_erp_payment"}

\* Risk levels; the remaining tools are ALLOW.
ReviewTools == {"prepare_email", "send_email", "propose_restart",
                "propose_infra_change", "send_commitment", "propose_patch",
                "apply_patch", "open_pull_request"} \cup ProcurementMoney \cup Money
BlockTools == {"bulk_campaign", "delete_lead", "delete_data", "sign_contract",
               "file_document", "provide_legal_advice", "force_push",
               "write_secret", "change_vendor_bank", "post_erp_payment",
               "change_bank_details", "change_vendor"}

\* The REVIEW tools some approver has a role for (_APPROVAL_ROLE_BY_TOOL).
Approvable == {"execute_payment", "send_commitment", "apply_patch",
               "propose_patch", "open_pull_request"} \cup ProcurementMoney

ASSUME DeskConfig ==
    /\ \A w \in Workloads : \A r \in w : r.tool \in Tools
    /\ Registered \subseteq Vendors /\ MaxRfqs \in Nat /\ Ceiling \in Nat
    /\ ReviewTools \cup BlockTools \subseteq Tools /\ Approvable \subseteq ReviewTools

\* None is no result, and no request of an RFQ.
ASSUME NoneIsNothing ==
    /\ None \notin {"BLOCKED", "REVIEW_REQUIRED", "CONTROL_FAILURE"}
    /\ \A m \in Catalog : \A vs \in SUBSET Registered : <<m, vs>> # None

VARIABLES
    actions,        \* the workload of this behaviour
    leads, files,   \* ids in the CRM; paths in the workspace
    log,            \* tasks whose handler has changed its simulator
    quotations,     \* [<<rfq, vendor>> -> [material, money] or None]
    outbound,       \* outbound_rfqs: <<rfq, vendor, material>>
    fingerprints,   \* rfq_fingerprints (rfq_outcomes has the same keys)
    requisitions,   \* by the quote they were made from
    orders,         \* by their requisition
    pc, action, approval, result,   \* the tasks
    quote           \* the quotation or requisition a handler has read

bundle == <<leads, files, log, quotations, outbound, fingerprints, requisitions, orders>>
task == <<pc, action, approval, result, quote>>
vars == <<actions, bundle, task>>

Rfqs == DOMAIN fingerprints
QuoteIds == Rfqs \X Vendors
Arg(t) == action[t].arg
Tool(t) == action[t].tool

-----------------------------------------------------------------------------
(* validate_company_action.                                                *)

ParseAmount(m) == 0 < m.amount /\ m.amount <= Ceiling /\ m.currency \in Currencies

AuthorizedContracts == UNION {Contracts[m] : m \in Permitted}
ValidateLegal(r) ==
    IF r.tool \in {"search_contracts", "send_commitment", "provide_legal_advice"}
    THEN r.arg.matter \in Permitted
    ELSE r.arg.contracts \subseteq AuthorizedContracts

ValidateMoney(r) ==
    /\ ParseAmount(r.arg.money)
    /\ r.arg.invoice \in DOMAIN Invoice
    /\ LET invoice == Invoice[r.arg.invoice] IN
       /\ r.arg.money.currency = invoice.money.currency
       /\ IF r.tool = "prepare_refund" THEN r.arg.money.amount <= invoice.money.amount
                                       ELSE r.arg.money = invoice.money
       /\ r.tool = "execute_payment" \/ r.arg.beneficiary # None
             => r.arg.beneficiary = invoice.vendor

\* rfq_idempotency_conflict: the same rfq_id was recorded with other bytes.
RfqConflict(a) ==
    fingerprints[a.rfq] \notin {None, <<a.material, a.vendors>>}

ValidateRfq(a) ==
    /\ a.material \in Catalog
    /\ a.vendors # {} /\ a.vendors \subseteq Registered
    /\ ~RfqConflict(a)

ValidateQuote(r) ==
    LET ask == r.arg IN
    /\ ask.quote \in QuoteIds /\ ask.quote[1] = ask.rfq /\ quotations[ask.quote] # None
    /\ ask.quote[2] \in Registered
    /\ quotations[ask.quote].money = ask.money
    /\ r.tool = "create_purchase_requisition" =>
          ask.material = quotations[ask.quote].material /\ ask.quantity >= 1

ValidateRelease(a) ==
    a.pr \in QuoteIds /\ requisitions[a.pr] # None /\ requisitions[a.pr].money = a.money

ValidateProcurementMoney(r) ==
    /\ ParseAmount(r.arg.money)
    /\ IF r.tool = "release_purchase_order" THEN ValidateRelease(r.arg)
                                            ELSE ValidateQuote(r)

Validate(r) ==
    CASE r.tool \in LegalTools      -> ValidateLegal(r)
      [] r.tool \in Money            -> ValidateMoney(r)
      [] r.tool = "send_rfq_email"   -> ValidateRfq(r.arg)
      [] r.tool \in ProcurementMoney -> ValidateProcurementMoney(r)
      [] r.tool \in {"lookup_vendor", "change_vendor_bank", "post_erp_payment"} ->
            r.arg.vendor \in Vendors
      [] OTHER -> TRUE

-----------------------------------------------------------------------------
(* The operator task and the gateway.                                      *)

Goto(t, place) == pc' = [pc EXCEPT ![t] = place]
Return(t, status) ==
    Goto(t, "done") /\ result' = [result EXCEPT ![t] = status]

RfqsInProgress == {t \in Tasks : pc[t] \notin {"idle", "done"}
                                 /\ Tool(t) = "send_rfq_email"}

Start(t, r) ==
    /\ pc[t] = "idle"
    /\ r.tool = "send_rfq_email" => Cardinality(RfqsInProgress) < MaxRfqs
    /\ action' = [action EXCEPT ![t] = r]
    /\ Goto(t, "decide")
    /\ UNCHANGED <<bundle, approval, result, quote>>

\* To the approval, or straight to the handler.
Pass(t) ==
    Goto(t, IF Tool(t) \in ReviewTools THEN "review" ELSE "handler") /\ UNCHANGED result

\* Mutant: only a failed validation blocks.
DecideByValidation(t) ==
    /\ pc[t] = "decide"
    /\ IF ~Validate(action[t]) THEN Return(t, "BLOCKED") ELSE Pass(t)
    /\ UNCHANGED <<bundle, action, approval, quote>>
\* CompanyRiskGateway: a failed validation blocks before the risk level is read; a
\* tool the profile does not permit has none, and decision_for_tool raises.  A
\* REVIEW action goes on to its approval.
Decide(t) ==
    /\ pc[t] = "decide"
    /\ IF ~Validate(action[t]) THEN Return(t, "BLOCKED")
       ELSE IF Tool(t) \notin PermittedTools THEN Return(t, "CONTROL_FAILURE")
       ELSE IF Tool(t) \in BlockTools THEN Return(t, "BLOCKED")
       ELSE Pass(t)
    /\ UNCHANGED <<bundle, action, approval, quote>>

\* ApprovalBoundedGateway: the first time the action is parked, unless nobody may
\* approve it.  An approval that has expired is a control failure.
Review(t) ==
    /\ pc[t] = "review"
    /\ \/ /\ approval[t] = "approved"
          /\ approval' = [approval EXCEPT ![t] = "consumed"]
          /\ Goto(t, "handler") /\ UNCHANGED result
       \/ /\ approval[t] = "approved" \/ Tool(t) \notin Approvable
          /\ Return(t, "CONTROL_FAILURE") /\ UNCHANGED approval
       \/ /\ approval[t] = "none" /\ Tool(t) \in Approvable
          /\ approval' = [approval EXCEPT ![t] = "parked"]
          /\ Goto(t, "parked") /\ UNCHANGED result
    /\ UNCHANGED <<bundle, action, quote>>

\* The loop approves and presents the action again, from the beginning.
Approve(t) ==
    /\ pc[t] = "parked"
    /\ approval' = [approval EXCEPT ![t] = "approved"]
    /\ Goto(t, "decide")
    /\ UNCHANGED <<bundle, action, result, quote>>

\* The task wants no approval, is refused one, or finds its inbox frozen.
NotApproved(t) ==
    /\ pc[t] = "parked"
    /\ \E status \in {"REVIEW_REQUIRED", "CONTROL_FAILURE"} : Return(t, status)
    /\ UNCHANGED <<bundle, action, approval, quote>>

-----------------------------------------------------------------------------
(* Handlers.                                                               *)

Staged == {"send_rfq_email"} \cup ProcurementMoney

\* The legal handlers and execute_payment test again what validation tested.
HandlerRaises(r) ==
    CASE r.tool \in {"qualify_lead", "draft_outreach"}   -> r.arg.lead \notin leads
      [] r.tool \in {"prepare_email", "send_email"} -> r.arg.recipient \in OptOuts
      [] r.tool = "read_file"                       -> r.arg.path \notin files
      [] r.tool = "extract_invoice_data"   -> r.arg.invoice \notin DOMAIN Invoice
      [] r.tool = "reconcile_records" ->
            r.arg.invoice \notin DOMAIN Invoice \/ ~r.arg.orderKnown
      [] r.tool = "execute_payment" -> r.arg.money # Invoice[r.arg.invoice].money
      [] r.tool \in LegalTools     -> ~ValidateLegal(r)
      [] OTHER -> FALSE

\* extract_clause logs the access, and then may not find the clause.
RaisesAfterWriting(r) == r.tool = "extract_clause" /\ ~r.arg.clauseKnown

\* The handlers that write, by kind; those of procurement are the steps below.
GtmWrites == {"update_crm_record", "prepare_email", "send_email", "delete_lead"}
OperationsWrites == {"assign_severity", "create_incident_draft", "propose_restart"}
LegalWrites == ContractReads \cup {"sign_contract"}        \* the access log
AccountsWrites == {"execute_payment", "change_bank_details", "change_vendor"}
CodingWrites == {"run_tests", "propose_patch", "apply_patch", "open_pull_request"}
Writes(r) ==
    /\ r.tool \in GtmWrites \cup OperationsWrites \cup LegalWrites
                 \cup AccountsWrites \cup CodingWrites
    /\ r.tool = "assign_severity" => r.arg.ticket \in Tickets

\* A handler that touches shared state once.  Raising ends in INDETERMINATE.
Handle(t) ==
    /\ pc[t] = "handler" /\ Tool(t) \notin Staged
    /\ IF HandlerRaises(action[t])
       THEN Return(t, "INDETERMINATE") /\ UNCHANGED <<log, leads, files>>
       ELSE /\ Return(t, IF RaisesAfterWriting(action[t]) THEN "INDETERMINATE"
                                                          ELSE "EXECUTED")
            /\ log' = IF Writes(action[t]) THEN log \cup {t} ELSE log
            /\ leads' = CASE Tool(t) = "update_crm_record" -> leads \cup {Arg(t).lead}
                          [] Tool(t) = "delete_lead"       -> leads \ {Arg(t).lead}
                          [] OTHER -> leads
            /\ files' = IF Tool(t) = "apply_patch" THEN files \cup {Arg(t).path}
                                                   ELSE files
    /\ UNCHANGED <<quotations, outbound, fingerprints, requisitions, orders,
                   action, approval, quote>>

\* send_rfq_email: the conflict is tested again, and a recorded outcome replayed.
RfqCheck(t) ==
    /\ pc[t] = "handler" /\ Tool(t) = "send_rfq_email"
    /\ IF RfqConflict(Arg(t)) THEN Return(t, "INDETERMINATE")
                              ELSE Goto(t, "replay") /\ UNCHANGED result
    /\ UNCHANGED <<bundle, action, approval, quote>>

RfqReplay(t) ==
    /\ pc[t] = "replay"
    /\ IF fingerprints[Arg(t).rfq] # None THEN Return(t, "EXECUTED")
                                          ELSE Goto(t, "send") /\ UNCHANGED result
    /\ UNCHANGED <<bundle, action, approval, quote>>

\* Under the lock: one mail per vendor, and the quotes that come back at once.
RfqSend(t) ==
    /\ pc[t] = "send"
    /\ outbound' = outbound \cup
          {<<Arg(t).rfq, v, Arg(t).material>> : v \in Arg(t).vendors}
    /\ quotations' = [q \in QuoteIds |->
          IF q[1] = Arg(t).rfq /\ q[2] \in Arg(t).vendors
             /\ Template[<<q[2], Arg(t).material>>] # None
          THEN [material |-> Arg(t).material, money |-> Template[<<q[2], Arg(t).material>>]]
          ELSE quotations[q]]
    /\ log' = log \cup {t}
    /\ Goto(t, "record")
    /\ UNCHANGED <<leads, files, fingerprints, requisitions, orders, action, approval,
                   result, quote>>

\* Mutant: the outcome is returned without being recorded.
RfqForget(t) ==
    /\ pc[t] = "record"
    /\ Return(t, "EXECUTED")
    /\ UNCHANGED <<bundle, action, approval, quote>>
\* record_rfq_outcome refuses other bytes, but only here.
RfqRecord(t) ==
    /\ pc[t] = "record"
    /\ IF RfqConflict(Arg(t))
       THEN Return(t, "INDETERMINATE") /\ UNCHANGED fingerprints
       ELSE /\ Return(t, "EXECUTED")
            /\ fingerprints' =
                  [fingerprints EXCEPT ![Arg(t).rfq] = <<Arg(t).material, Arg(t).vendors>>]
    /\ UNCHANGED <<leads, files, log, quotations, outbound, requisitions, orders, action,
                   approval, quote>>

QuoteOf(t) == IF Tool(t) = "release_purchase_order" THEN Arg(t).pr ELSE Arg(t).quote

\* The handler takes the quote, or the requisition, as it is now.
ReadQuote(t) ==
    /\ pc[t] = "handler" /\ Tool(t) \in ProcurementMoney
    /\ quote' = [quote EXCEPT ![t] =
          IF Tool(t) = "release_purchase_order" THEN requisitions[QuoteOf(t)]
                                                ELSE quotations[QuoteOf(t)]]
    /\ Goto(t, "write")
    /\ UNCHANGED <<bundle, action, approval, result>>

\* A requisition and an order keep what was read, under ids made of the quote's
\* (and the digest of the quotation board of that moment, left out here).
Write(t) ==
    /\ pc[t] = "write"
    /\ IF Tool(t) = "release_purchase_order"
       THEN /\ orders' = [orders EXCEPT ![QuoteOf(t)] = quote[t]]
            /\ UNCHANGED requisitions
       ELSE /\ requisitions' = [requisitions EXCEPT ![QuoteOf(t)] = quote[t]]
            /\ UNCHANGED orders
    /\ log' = log \cup {t}
    /\ Return(t, "EXECUTED")
    /\ UNCHANGED <<leads, files, quotations, outbound, fingerprints, action, approval,
                   quote>>

-----------------------------------------------------------------------------

Init ==
    /\ actions \in Workloads
    /\ leads = Leads /\ files = Files /\ log = {} /\ outbound = {}
    /\ LET rfqs == {r.arg.rfq : r \in {s \in actions : s.tool = "send_rfq_email"}} IN
       /\ fingerprints = [q \in rfqs |-> None]
       /\ quotations = [q \in rfqs \X Vendors |-> None]
       /\ requisitions = [q \in rfqs \X Vendors |-> None]
       /\ orders = [q \in rfqs \X Vendors |-> None]
    /\ pc = [t \in Tasks |-> "idle"] /\ action = [t \in Tasks |-> None]
    /\ approval = [t \in Tasks |-> "none"] /\ result = [t \in Tasks |-> None]
    /\ quote = [t \in Tasks |-> None]

TaskStep(t) ==
    \/ \E r \in actions : Start(t, r)
    \/ Decide(t) \/ Review(t) \/ Approve(t) \/ NotApproved(t) \/ Handle(t)
    \/ RfqCheck(t) \/ RfqReplay(t) \/ RfqSend(t) \/ RfqRecord(t)
    \/ ReadQuote(t) \/ Write(t)

Next == UNCHANGED actions /\ \E t \in Tasks : TaskStep(t)

Spec == Init /\ [][Next]_vars

-----------------------------------------------------------------------------
(* Properties.                                                             *)

ApprovedBy(t) == approval[t] = "consumed"

\* What the books say was bought is what an approver saw: each requisition, order
\* and payment belongs to a task whose approval was consumed for that quote,
\* requisition or invoice and for that very money (and material), although the
\* handler reads the quote again long after validation compared it.  It needs one
\* RFQ at a time (MaxRfqs = 1): see OneRequestPerRfq.
BooksAsApproved ==
    /\ \A q \in QuoteIds : requisitions[q] # None =>
          \E t \in log : /\ Tool(t) \in {"create_purchase_requisition", "award_quote"}
                         /\ ApprovedBy(t) /\ Arg(t).quote = q /\ q[2] \in Registered
                         /\ Arg(t).money = requisitions[q].money
                         /\ Tool(t) = "create_purchase_requisition" =>
                              Arg(t).material = requisitions[q].material
    /\ \A q \in QuoteIds : orders[q] # None =>
          \E t \in log : /\ Tool(t) = "release_purchase_order"
                         /\ ApprovedBy(t) /\ Arg(t).pr = q
                         /\ Arg(t).money = orders[q].money
    /\ \A t \in log : Tool(t) = "execute_payment" =>
          LET invoice == Invoice[Arg(t).invoice] IN
          /\ ApprovedBy(t)
          /\ Arg(t).money = invoice.money /\ Arg(t).beneficiary = invoice.vendor

\* Only governed tasks change a simulator: no BLOCK tool, a REVIEW tool after its
\* approval was consumed, contracts of permitted matters, mail to nobody who opted
\* out.  A task that was refused has changed nothing.
EffectsAreGoverned ==
    \A t \in log :
       /\ Tool(t) \notin BlockTools
       /\ Tool(t) \in ReviewTools => ApprovedBy(t)
       /\ Tool(t) \in ContractReads => Arg(t).contracts \subseteq AuthorizedContracts
       /\ Tool(t) \in {"prepare_email", "send_email"} => Arg(t).recipient \notin OptOuts
       /\ result[t] \notin {"BLOCKED", "REVIEW_REQUIRED", "CONTROL_FAILURE"}

\* The mails of one RFQ carry one request: "The same `rfq_id` with different bytes
\* is `PROCUREMENT_RFQ_IDEMPOTENCY_CONFLICT` and is blocked before the handler"
\* (docs/procurement-agents.md).
OneRequestPerRfq ==
    \A m, n \in outbound : m[1] = n[1] => m[3] = n[3]
=============================================================================
