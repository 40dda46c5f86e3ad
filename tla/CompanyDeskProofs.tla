-------------------------- MODULE CompanyDeskProofs --------------------------
(***************************************************************************)
(* Theorems about CompanyDesk, for any tasks, workloads, master data and   *)
(* limits.  What a task has been through is StageOK: it reaches a handler  *)
(* only past its decision, and the simulators' log names it only once its  *)
(* handler has written.                                                    *)
(***************************************************************************)
EXTENDS CompanyDesk, FiniteSetTheorems, TLAPS

Places == {"idle", "decide", "review", "parked", "handler", "replay", "send", "record",
           "write", "done"}
Acting == {"handler", "replay", "send", "record", "write"}

DeskTypeOK ==
    /\ pc \in [Tasks -> Places]
    /\ approval \in [Tasks -> {"none", "parked", "approved", "consumed"}]
    /\ action \in [Tasks -> actions \cup {None}]
    /\ result \in [Tasks -> {"BLOCKED", "REVIEW_REQUIRED", "CONTROL_FAILURE",
                             "INDETERMINATE", "EXECUTED", None}]
    /\ log \subseteq Tasks

\* What is said of a task in the log.
Governed(t) ==
    /\ Tool(t) \notin BlockTools
    /\ Tool(t) \in ReviewTools => ApprovedBy(t)
    /\ Tool(t) \in ContractReads => Arg(t).contracts \subseteq AuthorizedContracts
    /\ Tool(t) \in {"prepare_email", "send_email"} => Arg(t).recipient \notin OptOuts
    /\ result[t] \notin {"BLOCKED", "REVIEW_REQUIRED", "CONTROL_FAILURE"}

\* How far a task has come, and under which decision.
StageOK(t) ==
    /\ pc[t] # "idle" => action[t] \in actions
    /\ pc[t] # "done" => result[t] = None
    /\ pc[t] \in {"review", "parked"} => Tool(t) \in ReviewTools /\ Tool(t) \notin BlockTools
    /\ pc[t] \in Acting =>
          Tool(t) \notin BlockTools /\ (Tool(t) \in ReviewTools => ApprovedBy(t))
    /\ pc[t] \in {"replay", "send", "record"} => Tool(t) = "send_rfq_email"
    /\ pc[t] = "write" => Tool(t) \in ProcurementMoney
    /\ t \in log => pc[t] \in {"record", "done"} /\ Governed(t)

DeskInv == DeskTypeOK /\ \A t \in Tasks : StageOK(t)

-----------------------------------------------------------------------------
(* One task's steps *)

\* A step of one task leaves every other task as it was.
OthersKept(t) ==
    \A d \in Tasks \ {t} :
        /\ pc'[d] = pc[d] /\ action'[d] = action[d] /\ approval'[d] = approval[d]
        /\ result'[d] = result[d] /\ (d \in log' <=> d \in log)

\* So only the task itself has to be looked at.
LEMMA OneTask ==
    ASSUME DeskInv, DeskTypeOK', UNCHANGED actions, NEW t \in Tasks, OthersKept(t), StageOK(t)'
    PROVE  DeskInv'
<1>1. ASSUME NEW d \in Tasks, d # t PROVE StageOK(d)'
  <2>1. StageOK(d)
    BY DEF DeskInv
  <2>2. QED
    BY <1>1, <2>1 DEF OthersKept, StageOK, Governed, ApprovedBy, Tool, Arg
<1>2. QED
  BY <1>1 DEF DeskInv

\* A task takes an action of its workload.
LEMMA StartKeeps ==
    ASSUME DeskInv, UNCHANGED actions, NEW t \in Tasks, NEW r \in actions, Start(t, r)
    PROVE  DeskInv'
<1>0. DeskTypeOK /\ StageOK(t)
  BY DEF DeskInv
<1>1. /\ pc[t] = "idle" /\ pc' = [pc EXCEPT ![t] = "decide"]
      /\ action' = [action EXCEPT ![t] = r] /\ UNCHANGED <<approval, result, log>>
  BY DEF Start, Goto, bundle
<1>2. DeskTypeOK'
  BY <1>0, <1>1 DEF DeskTypeOK, Places
<1>3. OthersKept(t)
  BY <1>0, <1>1 DEF DeskTypeOK, OthersKept
<1>4. t \notin log
  BY <1>0, <1>1 DEF StageOK
<1>5. StageOK(t)'
  BY <1>0, <1>1, <1>4 DEF DeskTypeOK, StageOK, Acting
<1>6. QED
  BY <1>2, <1>3, <1>5, OneTask

\* The risk gateway sends a task on, or refuses it.
LEMMA DecideKeeps ==
    ASSUME DeskInv, UNCHANGED actions, NEW t \in Tasks, Decide(t)
    PROVE  DeskInv'
<1>0. DeskTypeOK /\ StageOK(t) /\ pc[t] = "decide" /\ UNCHANGED <<action, approval, log>>
  BY DEF DeskInv, Decide, bundle
<1>1. \/ \E s \in {"BLOCKED", "CONTROL_FAILURE"} :
            pc' = [pc EXCEPT ![t] = "done"] /\ result' = [result EXCEPT ![t] = s]
      \/ /\ Tool(t) \in ReviewTools /\ Tool(t) \notin BlockTools
         /\ pc' = [pc EXCEPT ![t] = "review"] /\ UNCHANGED result
      \/ /\ Tool(t) \notin ReviewTools /\ Tool(t) \notin BlockTools
         /\ pc' = [pc EXCEPT ![t] = "handler"] /\ UNCHANGED result
  BY DEF Decide, Return, Pass, Goto
<1>2. DeskTypeOK'
  BY <1>0, <1>1 DEF DeskTypeOK, Places
<1>3. OthersKept(t)
  BY <1>0, <1>1 DEF DeskTypeOK, OthersKept
<1>4. t \notin log
  BY <1>0 DEF StageOK
<1>5. StageOK(t)'
  BY <1>0, <1>1, <1>4 DEF DeskTypeOK, StageOK, Acting, Tool
<1>6. QED
  BY <1>2, <1>3, <1>5, OneTask

\* The approval is asked for, given, refused, or consumed.
LEMMA ReviewKeeps ==
    ASSUME DeskInv, UNCHANGED actions, NEW t \in Tasks,
           Review(t) \/ Approve(t) \/ NotApproved(t)
    PROVE  DeskInv'
<1>0. /\ DeskTypeOK /\ StageOK(t) /\ pc[t] \in {"review", "parked"}
      /\ UNCHANGED <<action, log>>
  BY DEF DeskInv, Review, Approve, NotApproved, bundle
<1>1. \/ \E s \in {"REVIEW_REQUIRED", "CONTROL_FAILURE"} :
            /\ pc' = [pc EXCEPT ![t] = "done"] /\ result' = [result EXCEPT ![t] = s]
            /\ UNCHANGED approval
      \/ \E a \in {"parked", "approved", "consumed"} :
            /\ approval' = [approval EXCEPT ![t] = a] /\ UNCHANGED result
            /\ \/ a = "consumed" /\ pc' = [pc EXCEPT ![t] = "handler"]
               \/ pc' = [pc EXCEPT ![t] = "parked"]
               \/ pc' = [pc EXCEPT ![t] = "decide"]
  BY DEF Review, Approve, NotApproved, Return, Goto
<1>2. DeskTypeOK'
  BY <1>0, <1>1 DEF DeskTypeOK, Places
<1>3. OthersKept(t)
  BY <1>0, <1>1 DEF DeskTypeOK, OthersKept
<1>4. t \notin log
  BY <1>0 DEF StageOK
<1>5. StageOK(t)'
  BY <1>0, <1>1, <1>4 DEF DeskTypeOK, StageOK, Acting, Tool, ApprovedBy
<1>6. QED
  BY <1>2, <1>3, <1>5, OneTask

\* What the handlers test again before they write.
LEMMA HandlersTest ==
    ASSUME NEW r, ~HandlerRaises(r)
    PROVE  /\ r.tool \in ContractReads => r.arg.contracts \subseteq AuthorizedContracts
           /\ r.tool \in {"prepare_email", "send_email"} => r.arg.recipient \notin OptOuts
<1>1. CASE r.tool \in ContractReads
  <2>1. ValidateLegal(r)
    BY <1>1 DEF HandlerRaises, ContractReads, LegalTools
  <2>2. QED
    BY <1>1, <2>1 DEF ValidateLegal, ContractReads
<1>2. CASE r.tool \in {"prepare_email", "send_email"}
  BY <1>2 DEF HandlerRaises, ContractReads, LegalTools
<1>3. QED
  BY <1>1, <1>2

\* A handler that touches shared state once.
LEMMA HandleKeeps ==
    ASSUME DeskInv, UNCHANGED actions, NEW t \in Tasks, Handle(t)
    PROVE  DeskInv'
<1>0. /\ DeskTypeOK /\ StageOK(t) /\ pc[t] = "handler" /\ t \notin log
      /\ UNCHANGED <<action, approval>>
  BY DEF DeskInv, Handle, StageOK
<1>1. \E s \in {"INDETERMINATE", "EXECUTED"} :
         pc' = [pc EXCEPT ![t] = "done"] /\ result' = [result EXCEPT ![t] = s]
  BY DEF Handle, Return, Goto
<1>2. log' = log \/ (log' = log \cup {t} /\ ~HandlerRaises(action[t]))
  BY DEF Handle
<1>3. DeskTypeOK'
  BY <1>0, <1>1, <1>2 DEF DeskTypeOK, Places
<1>4. OthersKept(t)
  BY <1>0, <1>1, <1>2 DEF DeskTypeOK, OthersKept
<1>5. t \in log' => Governed(t)'
  <2>1. t \in log' =>
           /\ Tool(t) \in ContractReads => Arg(t).contracts \subseteq AuthorizedContracts
           /\ Tool(t) \in {"prepare_email", "send_email"} => Arg(t).recipient \notin OptOuts
    BY <1>0, <1>2, HandlersTest DEF Tool, Arg
  <2>2. Tool(t) \notin BlockTools /\ (Tool(t) \in ReviewTools => ApprovedBy(t))
    BY <1>0 DEF StageOK, Acting
  <2>3. result'[t] \notin {"BLOCKED", "REVIEW_REQUIRED", "CONTROL_FAILURE"}
    BY <1>0, <1>1 DEF DeskTypeOK
  <2>4. QED
    BY <1>0, <2>1, <2>2, <2>3 DEF Governed, Tool, Arg, ApprovedBy
<1>6. pc'[t] = "done" /\ action'[t] \in actions'
  BY <1>0, <1>1 DEF DeskTypeOK, StageOK
<1>7. StageOK(t)'
  BY <1>5, <1>6 DEF StageOK, Acting
<1>8. QED
  BY <1>3, <1>4, <1>7, OneTask

\* The handlers of several steps: RFQs, requisitions and orders.
LEMMA StagedKeeps ==
    ASSUME DeskInv, UNCHANGED actions, NEW t \in Tasks,
           \/ RfqCheck(t) \/ RfqReplay(t) \/ RfqSend(t) \/ RfqRecord(t)
           \/ ReadQuote(t) \/ Write(t)
    PROVE  DeskInv'
<1>0. /\ DeskTypeOK /\ StageOK(t) /\ pc[t] \in Acting /\ UNCHANGED <<action, approval>>
      /\ pc[t] = "handler" => Tool(t) \in {"send_rfq_email"} \cup ProcurementMoney
  BY DEF DeskInv, RfqCheck, RfqReplay, RfqSend, RfqRecord, ReadQuote, Write, Acting
<1>1. \/ /\ pc' = [pc EXCEPT ![t] = "done"] /\ log' \in {log, log \cup {t}}
         /\ \E s \in {"INDETERMINATE", "EXECUTED"} : result' = [result EXCEPT ![t] = s]
      \/ /\ UNCHANGED <<result, log>>
         /\ \/ /\ pc[t] = "handler" /\ Tool(t) = "send_rfq_email"
               /\ pc' = [pc EXCEPT ![t] = "replay"]
            \/ pc[t] = "replay" /\ pc' = [pc EXCEPT ![t] = "send"]
            \/ /\ pc[t] = "handler" /\ Tool(t) \in ProcurementMoney
               /\ pc' = [pc EXCEPT ![t] = "write"]
      \/ /\ pc[t] = "send" /\ pc' = [pc EXCEPT ![t] = "record"]
         /\ log' = log \cup {t} /\ UNCHANGED result
  BY DEF RfqCheck, RfqReplay, RfqSend, RfqRecord, ReadQuote, Write, Return, Goto, bundle
<1>2. pc[t] \in {"handler", "replay", "send"} => t \notin log
  BY <1>0 DEF StageOK
<1>3. DeskTypeOK'
  BY <1>0, <1>1 DEF DeskTypeOK, Places
<1>4. OthersKept(t)
  BY <1>0, <1>1 DEF DeskTypeOK, OthersKept
<1>5. /\ Tool(t) \notin ContractReads /\ Tool(t) \notin {"prepare_email", "send_email"}
      /\ Tool(t) \notin BlockTools /\ (Tool(t) \in ReviewTools => ApprovedBy(t))
  BY <1>0 DEF StageOK, Acting, ProcurementMoney, ContractReads
<1>6. result'[t] \notin {"BLOCKED", "REVIEW_REQUIRED", "CONTROL_FAILURE"}
  BY <1>0, <1>1, NoneIsNothing DEF DeskTypeOK, StageOK, Acting
<1>7. Governed(t)'
  BY <1>0, <1>5, <1>6 DEF Governed, Tool, Arg, ApprovedBy
<1>8. StageOK(t)'
  <2>1. t \in log => pc[t] = "record"
    BY <1>0 DEF StageOK, Acting
  <2>2. t \in log' => pc'[t] \in {"record", "done"}
    BY <1>0, <1>1, <2>1 DEF DeskTypeOK, Acting
  <2>3. QED
    BY <1>0, <1>1, <1>5, <1>7, <2>2 DEF DeskTypeOK, StageOK, Acting, Tool, ApprovedBy
<1>9. QED
  BY <1>3, <1>4, <1>8, OneTask

\* Every step keeps what is known of the tasks.
LEMMA DeskStep ==
    ASSUME DeskInv, [Next]_vars PROVE DeskInv'
<1>1. CASE UNCHANGED vars
  BY <1>1 DEF vars, bundle, task, DeskInv, DeskTypeOK, StageOK, Governed, ApprovedBy, Tool, Arg
<1>2. ASSUME NEW t \in Tasks, TaskStep(t), UNCHANGED actions PROVE DeskInv'
  BY <1>2, StartKeeps, DecideKeeps, ReviewKeeps, HandleKeeps, StagedKeeps DEF TaskStep
<1>3. QED
  BY <1>1, <1>2 DEF Next

\* It holds when no task has begun.
LEMMA DeskInit == Init => DeskInv
BY DEF Init, DeskInv, DeskTypeOK, StageOK, Places, Acting

\* It is an invariant.
LEMMA DeskInvariance == Spec => []DeskInv
BY DeskInit, DeskStep, PTL DEF Spec

\* Only governed tasks change a simulator, whatever the tasks, the workload and the
\* interleaving (validate_company_action, CompanyRiskGateway, ApprovalBoundedGateway).
THEOREM EffectsGoverned == Spec => []EffectsAreGoverned
<1>1. DeskInv => EffectsAreGoverned
  BY DEF DeskInv, DeskTypeOK, StageOK, Governed, EffectsAreGoverned
<1>2. QED
  BY <1>1, DeskInvariance, PTL

-----------------------------------------------------------------------------
(* What was bought.  With one RFQ at a time a quotation never changes once   *)
(* it is there: the RFQ that would replace it finds a recorded outcome.  So  *)
(* what validation compared is what the handler reads, and requisitions and  *)
(* orders copy it.                                                           *)

Requisitioning == {"create_purchase_requisition", "award_quote"}

BookTypeOK ==
    /\ fingerprints = [x \in Rfqs |-> fingerprints[x]]
    /\ quotations = [q \in QuoteIds |-> quotations[q]]
    /\ requisitions = [q \in QuoteIds |-> requisitions[q]]
    /\ orders = [q \in QuoteIds |-> orders[q]]
    /\ quote = [t \in Tasks |-> quote[t]]
    /\ \A r \in actions : r.tool = "send_rfq_email" => r.arg.rfq \in Rfqs

\* What validation found, for a task past it.
QuoteSeen(t) ==
    /\ Arg(t).quote \in QuoteIds /\ quotations[Arg(t).quote] # None
    /\ Arg(t).quote[2] \in Registered
    /\ quotations[Arg(t).quote].money = Arg(t).money
    /\ Tool(t) = "create_purchase_requisition" =>
          Arg(t).material = quotations[Arg(t).quote].material
RequisitionSeen(t) ==
    /\ Arg(t).pr \in QuoteIds /\ requisitions[Arg(t).pr] # None
    /\ requisitions[Arg(t).pr].money = Arg(t).money

BuyOK(t) ==
    /\ pc[t] \in {"review", "parked", "handler", "write"} /\ Tool(t) \in Requisitioning =>
          QuoteSeen(t)
    /\ pc[t] \in {"review", "parked", "handler", "write"} /\ Tool(t) = "release_purchase_order" =>
          RequisitionSeen(t)
    /\ pc[t] = "write" /\ Tool(t) \in Requisitioning => quote[t] = quotations[Arg(t).quote]
    /\ pc[t] = "write" /\ Tool(t) = "release_purchase_order" =>
          quote[t] = requisitions[Arg(t).pr]
    /\ pc[t] \in {"review", "parked", "handler"} /\ Tool(t) = "execute_payment" =>
          ValidateMoney(action[t])
    /\ pc[t] \in {"handler", "replay", "send", "record"} /\ Tool(t) = "send_rfq_email" =>
          Arg(t).material \in Catalog /\ Arg(t).vendors \subseteq Registered
    /\ pc[t] = "send" => fingerprints[Arg(t).rfq] = None

OneRfq == \A s, t \in RfqsInProgress : s = t

\* A quotation is there because its RFQ was recorded, or is about to be.
Recorded ==
    \A q \in QuoteIds : quotations[q] # None =>
        fingerprints[q[1]] # None \/ \E t \in Tasks : pc[t] = "record" /\ Arg(t).rfq = q[1]

\* Requisitions copy quotations, and orders copy requisitions.
Copies ==
    \A q \in QuoteIds :
        /\ requisitions[q] # None => requisitions[q] = quotations[q]
        /\ orders[q] # None => orders[q] = requisitions[q]

BookInv ==
    /\ DeskInv /\ BookTypeOK /\ OneRfq /\ Recorded /\ Copies
    /\ \A t \in Tasks : BuyOK(t)
    /\ BooksAsApproved

\* What a step of t must leave alone for the others: what they have read and compared.
Grows(t) ==
    /\ Rfqs' = Rfqs
    /\ \A q \in QuoteIds : /\ quotations[q] # None => quotations'[q] = quotations[q]
                           /\ requisitions[q] # None => requisitions'[q] = requisitions[q]
    /\ fingerprints' = fingerprints \/ pc[t] = "record"
    /\ \A d \in Tasks \ {t} : quote'[d] = quote[d]

\* The other tasks' quotations and requisitions are still what they compared.
LEMMA OthersStill ==
    ASSUME BookInv, NEW t \in Tasks, OthersKept(t), Grows(t), NEW d \in Tasks, d # t
    PROVE  BuyOK(d)'
<1>1. /\ pc'[d] = pc[d] /\ action'[d] = action[d] /\ quote'[d] = quote[d]
      /\ BuyOK(d) /\ StageOK(d) /\ StageOK(t) /\ QuoteIds' = QuoteIds
  BY DEF OthersKept, Grows, BookInv, DeskInv, QuoteIds
<1>2. Tool(d)' = Tool(d) /\ Arg(d)' = Arg(d)
  BY <1>1 DEF Tool, Arg
<1>3. QuoteSeen(d) => QuoteSeen(d)' /\ quotations'[Arg(d).quote] = quotations[Arg(d).quote]
  BY <1>1, <1>2 DEF QuoteSeen, Grows
<1>4. RequisitionSeen(d) =>
         RequisitionSeen(d)' /\ requisitions'[Arg(d).pr] = requisitions[Arg(d).pr]
  BY <1>1, <1>2 DEF RequisitionSeen, Grows
<1>5. ValidateMoney(action[d])' = ValidateMoney(action[d])
  BY <1>1 DEF ValidateMoney, ParseAmount
<1>6. pc[d] = "send" => fingerprints' = fingerprints
  <2>1. pc[d] = "send" /\ pc[t] = "record" => d \in RfqsInProgress /\ t \in RfqsInProgress
    BY <1>1 DEF RfqsInProgress, StageOK
  <2>2. QED
    BY <1>1, <2>1 DEF BookInv, OneRfq, Grows
<1> HIDE DEF QuoteSeen, RequisitionSeen, ValidateMoney
<1>7. QED
  BY <1>1, <1>2, <1>3, <1>4, <1>5, <1>6 DEF BuyOK

\* No step but Start adds an RFQ in progress.
LEMMA SameRfqs ==
    ASSUME BookInv, NEW t \in Tasks, OthersKept(t), action'[t] = action[t],
           pc[t] \notin {"idle", "done"}
    PROVE  OneRfq'
<1>1. RfqsInProgress' \subseteq RfqsInProgress
  BY DEF OthersKept, RfqsInProgress, Tool
<1>2. QED
  BY <1>1 DEF BookInv, OneRfq

\* Who a requisition, an order or a payment belongs to.
Requisitioned(q) ==
    \E t \in log : /\ Tool(t) \in {"create_purchase_requisition", "award_quote"}
                   /\ ApprovedBy(t) /\ Arg(t).quote = q /\ q[2] \in Registered
                   /\ Arg(t).money = requisitions[q].money
                   /\ Tool(t) = "create_purchase_requisition" =>
                        Arg(t).material = requisitions[q].material
Ordered(q) ==
    \E t \in log : /\ Tool(t) = "release_purchase_order"
                   /\ ApprovedBy(t) /\ Arg(t).pr = q
                   /\ Arg(t).money = orders[q].money
Paid(t) ==
    /\ ApprovedBy(t)
    /\ Arg(t).money = Invoice[Arg(t).invoice].money
    /\ Arg(t).beneficiary = Invoice[Arg(t).invoice].vendor

\* BooksAsApproved in these words.
LEMMA Books ==
    BooksAsApproved <=>
        /\ \A q \in QuoteIds : requisitions[q] # None => Requisitioned(q)
        /\ \A q \in QuoteIds : orders[q] # None => Ordered(q)
        /\ \A t \in log : Tool(t) = "execute_payment" => Paid(t)
BY DEF BooksAsApproved, Requisitioned, Ordered, Paid

\* A task in the log stays there, with its action and its approval.
LogLasts ==
    \A s \in log : s \in log' /\ action'[s] = action[s] /\ approval'[s] = approval[s]

\* So an entry of the books that does not change keeps its approval.
LEMMA EntriesStand ==
    ASSUME LogLasts
    PROVE  /\ \A q : Requisitioned(q) /\ requisitions'[q] = requisitions[q] => Requisitioned(q)'
           /\ \A q : Ordered(q) /\ orders'[q] = orders[q] => Ordered(q)'
           /\ \A s \in log : Tool(s)' = Tool(s) /\ (Paid(s) => Paid(s)')
<1>1. \A s \in log : /\ s \in log' /\ Tool(s)' = Tool(s) /\ Arg(s)' = Arg(s)
                     /\ ApprovedBy(s)' = ApprovedBy(s)
  BY DEF LogLasts, Tool, Arg, ApprovedBy
<1>2. ASSUME NEW q, Requisitioned(q), requisitions'[q] = requisitions[q] PROVE Requisitioned(q)'
  BY <1>1, <1>2 DEF Requisitioned
<1>3. ASSUME NEW q, Ordered(q), orders'[q] = orders[q] PROVE Ordered(q)'
  BY <1>1, <1>3 DEF Ordered
<1>4. \A s \in log : Paid(s) => Paid(s)'
  BY <1>1 DEF Paid
<1>5. QED
  BY <1>1, <1>2, <1>3, <1>4

\* A step that books no requisition and no order.
LEMMA BooksStand ==
    ASSUME BookInv, Rfqs' = Rfqs, UNCHANGED <<requisitions, orders>>, LogLasts,
           \A s \in log' \ log : Tool(s)' = "execute_payment" => Paid(s)'
    PROVE  BooksAsApproved'
<1>1. QuoteIds' = QuoteIds
  BY DEF QuoteIds
<1>2. /\ \A q \in QuoteIds : requisitions[q] # None => Requisitioned(q)
      /\ \A q \in QuoteIds : orders[q] # None => Ordered(q)
      /\ \A s \in log : Tool(s) = "execute_payment" => Paid(s)
  BY Books DEF BookInv
<1>3. /\ \A q \in QuoteIds' : requisitions'[q] # None => Requisitioned(q)'
      /\ \A q \in QuoteIds' : orders'[q] # None => Ordered(q)'
  BY <1>1, <1>2, EntriesStand
<1>4. \A s \in log' : Tool(s)' = "execute_payment" => Paid(s)'
  BY <1>2, EntriesStand
<1>5. BooksAsApproved' <=>
        /\ \A q \in QuoteIds' : requisitions'[q] # None => Requisitioned(q)'
        /\ \A q \in QuoteIds' : orders'[q] # None => Ordered(q)'
        /\ \A s \in log' : Tool(s)' = "execute_payment" => Paid(s)'
  BY DEF BooksAsApproved, Requisitioned, Ordered, Paid
<1>6. QED
  BY <1>3, <1>4, <1>5

\* A step that changes nothing on the procurement desk keeps all of this.
LEMMA QuietStep ==
    ASSUME BookInv, DeskInv', UNCHANGED <<actions, quotations, fingerprints, requisitions, orders>>,
           NEW t \in Tasks, OthersKept(t), OneRfq', LogLasts, BuyOK(t)',
           pc[t] # "record", quote' = [d \in Tasks |-> quote'[d]],
           \A d \in Tasks \ {t} : quote'[d] = quote[d],
           \A s \in log' \ log : Tool(s)' = "execute_payment" => Paid(s)'
    PROVE  BookInv'
<1>1. Rfqs' = Rfqs /\ QuoteIds' = QuoteIds
  BY DEF Rfqs, QuoteIds
<1>2. BookTypeOK'
  BY <1>1 DEF BookInv, BookTypeOK
<1>3. Recorded'
  <2>1. \A d \in Tasks : pc[d] = "record" => pc'[d] = "record" /\ Arg(d)' = Arg(d)
    BY DEF OthersKept, Arg
  <2>2. QED
    BY <1>1, <2>1 DEF BookInv, Recorded
<1>4. Copies'
  BY <1>1 DEF BookInv, Copies
<1>5. Grows(t)
  BY <1>1 DEF Grows
<1>6. \A d \in Tasks : BuyOK(d)'
  BY <1>5, OthersStill
<1>7. BooksAsApproved'
  BY <1>1, BooksStand
<1>8. QED
  BY <1>2, <1>3, <1>4, <1>6, <1>7 DEF BookInv

\* Which variables of the tasks a step may change, and where.
LEMMA StepShape ==
    ASSUME NEW t \in Tasks, TaskStep(t)
    PROVE  /\ \E x \in Places : pc' = [pc EXCEPT ![t] = x]
           /\ action' = action \/ (pc[t] = "idle" /\ \E r \in actions : action' = [action EXCEPT ![t] = r])
           /\ approval' = approval \/
                (pc[t] \in {"review", "parked"} /\ \E a : approval' = [approval EXCEPT ![t] = a])
           /\ result' = result \/ \E x : result' = [result EXCEPT ![t] = x]
           /\ log' = log \/ log' = log \cup {t}
           /\ quote' = quote \/ \E x : quote' = [quote EXCEPT ![t] = x]
<1>1. ASSUME NEW r \in actions, Start(t, r)
      PROVE  /\ pc' = [pc EXCEPT ![t] = "decide"] /\ pc[t] = "idle"
             /\ action' = [action EXCEPT ![t] = r]
             /\ UNCHANGED <<approval, result, log, quote>>
  BY <1>1 DEF Start, Goto, bundle
<1>2. CASE Decide(t)
  BY <1>2 DEF Decide, Pass, Return, Goto, bundle, Places
<1>3. CASE Review(t) \/ Approve(t) \/ NotApproved(t)
  BY <1>3 DEF Review, Approve, NotApproved, Return, Goto, bundle, Places
<1>4. CASE Handle(t)
  BY <1>4 DEF Handle, Return, Goto, Places
<1>5. CASE RfqCheck(t) \/ RfqReplay(t)
  BY <1>5 DEF RfqCheck, RfqReplay, Return, Goto, bundle, Places
<1>6. CASE RfqSend(t) \/ RfqRecord(t)
  BY <1>6 DEF RfqSend, RfqRecord, Return, Goto, Places
<1>7. CASE ReadQuote(t) \/ Write(t)
  BY <1>7 DEF ReadQuote, Write, Return, Goto, bundle, Places
<1>8. QED
  BY <1>1, <1>2, <1>3, <1>4, <1>5, <1>6, <1>7 DEF TaskStep, Places

\* A step touches its own task, and no task that is in the log.
LEMMA StepIsLocal ==
    ASSUME BookInv, NEW t \in Tasks, TaskStep(t)
    PROVE  /\ OthersKept(t) /\ LogLasts
           /\ quote' = [d \in Tasks |-> quote'[d]]
           /\ \A d \in Tasks \ {t} : quote'[d] = quote[d]
<1>0. /\ DeskTypeOK /\ StageOK(t) /\ quote = [d \in Tasks |-> quote[d]]
  BY DEF BookInv, DeskInv, BookTypeOK
<1>1. OthersKept(t)
  BY <1>0, StepShape DEF DeskTypeOK, OthersKept
<1>2. t \in log => pc[t] \in {"record", "done"}
  BY <1>0 DEF StageOK
<1>3. \A s \in log \ {t} : action'[s] = action[s] /\ approval'[s] = approval[s]
  BY <1>0, <1>1 DEF OthersKept, DeskTypeOK
<1>4. t \in log => action' = action /\ approval' = approval
  BY <1>2, StepShape
<1>5. LogLasts
  BY <1>3, <1>4, StepShape DEF LogLasts
<1>6. quote' = [d \in Tasks |-> quote'[d]] /\ \A d \in Tasks \ {t} : quote'[d] = quote[d]
  BY <1>0, StepShape
<1>7. QED
  BY <1>1, <1>5, <1>6

\* What validation has established when it lets a task pass.
LEMMA Validated ==
    ASSUME NEW t, Validate(action[t])
    PROVE  /\ Tool(t) \in Requisitioning => QuoteSeen(t)
           /\ Tool(t) = "release_purchase_order" => RequisitionSeen(t)
           /\ Tool(t) = "execute_payment" => ValidateMoney(action[t])
           /\ Tool(t) = "send_rfq_email" =>
                 Arg(t).material \in Catalog /\ Arg(t).vendors \subseteq Registered
<1> USE DEF Tool, Arg
<1>1. Tool(t) \in Requisitioning => ValidateQuote(action[t])
  BY DEF Validate, LegalTools, ContractReads, Money, ProcurementMoney, Requisitioning,
         ValidateProcurementMoney
<1>2. Tool(t) = "release_purchase_order" => ValidateRelease(Arg(t))
  BY DEF Validate, LegalTools, ContractReads, Money, ProcurementMoney, ValidateProcurementMoney
<1>3. Tool(t) = "execute_payment" => ValidateMoney(action[t])
  BY DEF Validate, LegalTools, ContractReads, Money, ProcurementMoney
<1>4. Tool(t) = "send_rfq_email" => ValidateRfq(Arg(t))
  BY DEF Validate, LegalTools, ContractReads, Money, ProcurementMoney
<1>5. ValidateQuote(action[t]) => QuoteSeen(t)
  BY DEF ValidateQuote, QuoteSeen
<1>6. ValidateRelease(Arg(t)) => RequisitionSeen(t)
  BY DEF ValidateRelease, RequisitionSeen
<1>7. QED
  BY <1>1, <1>2, <1>3, <1>4, <1>5, <1>6 DEF ValidateRfq

\* A task may begin an RFQ only when no other is in progress.
LEMMA StartBooks ==
    ASSUME MaxRfqs <= 1, BookInv, DeskInv', UNCHANGED actions, NEW t \in Tasks,
           NEW r \in actions, Start(t, r), TaskStep(t)
    PROVE  BookInv'
<1>0. DeskTypeOK /\ StageOK(t)
  BY DEF BookInv, DeskInv
<1>1. /\ pc[t] = "idle" /\ pc' = [pc EXCEPT ![t] = "decide"]
      /\ action' = [action EXCEPT ![t] = r]
      /\ r.tool = "send_rfq_email" => Cardinality(RfqsInProgress) < MaxRfqs
      /\ UNCHANGED <<quotations, fingerprints, requisitions, orders, log>>
  BY DEF Start, Goto, bundle
<1>2. OthersKept(t) /\ LogLasts /\ pc'[t] = "decide" /\ action'[t] = r
  BY <1>0, <1>1, StepIsLocal DEF DeskTypeOK
<1>3. RfqsInProgress' \subseteq RfqsInProgress \cup {t}
  BY <1>2 DEF OthersKept, RfqsInProgress, Tool
<1>4. OneRfq'
  <2>1. CASE r.tool # "send_rfq_email"
    <3>1. t \notin RfqsInProgress'
      BY <1>2, <2>1 DEF RfqsInProgress, Tool
    <3>2. QED
      BY <1>3, <3>1 DEF BookInv, OneRfq
  <2>2. CASE r.tool = "send_rfq_email"
    <3>1. ASSUME NEW s \in RfqsInProgress PROVE FALSE
      <4>1. RfqsInProgress = {s}
        BY DEF BookInv, OneRfq
      <4>2. Cardinality(RfqsInProgress) = 1
        BY <4>1, FS_Singleton
      <4>3. QED
        BY <1>1, <2>2, <4>2, DeskConfig
    <3>2. QED
      BY <1>3, <3>1 DEF OneRfq
  <2>3. QED
    BY <2>1, <2>2
<1>5. BuyOK(t)'
  BY <1>2 DEF BuyOK
<1>6. QED
  BY <1>1, <1>2, <1>4, <1>5, StepIsLocal, QuietStep

\* Validation and the risk level.
LEMMA DecideBooks ==
    ASSUME BookInv, DeskInv', UNCHANGED actions, NEW t \in Tasks, Decide(t), TaskStep(t)
    PROVE  BookInv'
<1>0. DeskTypeOK
  BY DEF BookInv, DeskInv
<1>1. /\ pc[t] = "decide"
      /\ UNCHANGED <<quotations, fingerprints, requisitions, orders, log, action, quote>>
  BY DEF Decide, bundle
<1>2. pc'[t] = "done" \/ (pc'[t] \in {"review", "handler"} /\ Validate(action[t]))
  BY <1>0 DEF Decide, Pass, Return, Goto, DeskTypeOK
<1>3. OthersKept(t) /\ LogLasts /\ OneRfq'
  BY <1>1, StepIsLocal, SameRfqs
<1>4. /\ Tool(t)' = Tool(t) /\ Arg(t)' = Arg(t) /\ QuoteSeen(t)' = QuoteSeen(t)
      /\ RequisitionSeen(t)' = RequisitionSeen(t)
      /\ ValidateMoney(action[t])' = ValidateMoney(action[t])
  BY <1>1 DEF Tool, Arg, QuoteSeen, RequisitionSeen, ValidateMoney, ParseAmount, QuoteIds, Rfqs
<1>5. BuyOK(t)'
  BY <1>2, <1>4, Validated DEF BuyOK
<1>6. QED
  BY <1>1, <1>3, <1>5, StepIsLocal, QuietStep

\* Review: what validation found still holds when the approval is consumed.
LEMMA ReviewBooks ==
    ASSUME BookInv, DeskInv', UNCHANGED actions, NEW t \in Tasks,
           Review(t) \/ Approve(t) \/ NotApproved(t), TaskStep(t)
    PROVE  BookInv'
<1>0. DeskTypeOK /\ BuyOK(t) /\ StageOK(t)
  BY DEF BookInv, DeskInv
<1>1. /\ pc[t] \in {"review", "parked"}
      /\ UNCHANGED <<quotations, fingerprints, requisitions, orders, log, action, quote>>
  BY DEF Review, Approve, NotApproved, bundle
<1>2. pc'[t] \in {"done", "decide", "parked", "handler"}
  BY <1>0 DEF Review, Approve, NotApproved, Return, Goto, DeskTypeOK
<1>3. OthersKept(t) /\ LogLasts /\ OneRfq'
  BY <1>1, StepIsLocal, SameRfqs
<1>4. /\ Tool(t)' = Tool(t) /\ Arg(t)' = Arg(t) /\ QuoteSeen(t)' = QuoteSeen(t)
      /\ RequisitionSeen(t)' = RequisitionSeen(t)
      /\ ValidateMoney(action[t])' = ValidateMoney(action[t])
  BY <1>1 DEF Tool, Arg, QuoteSeen, RequisitionSeen, ValidateMoney, ParseAmount, QuoteIds, Rfqs
<1>5. Tool(t) # "send_rfq_email"
  BY <1>0, <1>1 DEF StageOK, ReviewTools, ProcurementMoney, Money
<1>6. BuyOK(t)'
  BY <1>0, <1>1, <1>2, <1>4, <1>5 DEF BuyOK
<1>7. QED
  BY <1>1, <1>3, <1>6, StepIsLocal, QuietStep

\* A payment is made to the vendor of its invoice, for its money, once approved.
LEMMA HandleBooks ==
    ASSUME BookInv, DeskInv', UNCHANGED actions, NEW t \in Tasks, Handle(t), TaskStep(t)
    PROVE  BookInv'
<1>0. DeskTypeOK /\ BuyOK(t) /\ StageOK(t)
  BY DEF BookInv, DeskInv
<1>1. /\ pc[t] = "handler"
      /\ UNCHANGED <<quotations, fingerprints, requisitions, orders, action, approval, quote>>
  BY DEF Handle
<1>2. pc'[t] = "done" /\ log' \subseteq log \cup {t}
  BY <1>0 DEF Handle, Return, Goto, DeskTypeOK
<1>3. OthersKept(t) /\ LogLasts /\ OneRfq'
  BY <1>1, StepIsLocal, SameRfqs
<1>4. Tool(t)' = "execute_payment" => Paid(t)'
  <2>1. Tool(t) = "execute_payment" => ApprovedBy(t) /\ ValidateMoney(action[t])
    BY <1>0, <1>1 DEF StageOK, Acting, BuyOK, ReviewTools, Money
  <2>2. Tool(t) = "execute_payment" => Paid(t)
    BY <2>1 DEF ValidateMoney, Paid, Tool, Arg
  <2>3. QED
    BY <1>1, <2>2 DEF Tool, Arg, Paid, ApprovedBy
<1>5. \A s \in log' \ log : Tool(s)' = "execute_payment" => Paid(s)'
  BY <1>2, <1>4
<1>6. BuyOK(t)'
  BY <1>2 DEF BuyOK
<1>7. QED
  BY <1>1, <1>3, <1>5, <1>6, StepIsLocal, QuietStep

\* An RFQ tests for a conflict and for a recorded outcome.
LEMMA CheckBooks ==
    ASSUME BookInv, DeskInv', UNCHANGED actions, NEW t \in Tasks,
           RfqCheck(t) \/ RfqReplay(t), TaskStep(t)
    PROVE  BookInv'
<1>0. DeskTypeOK /\ BuyOK(t) /\ StageOK(t)
  BY DEF BookInv, DeskInv
<1>1. /\ pc[t] \in {"handler", "replay"} /\ Tool(t) = "send_rfq_email"
      /\ UNCHANGED <<quotations, fingerprints, requisitions, orders, log, action, quote>>
  BY <1>0 DEF RfqCheck, RfqReplay, bundle, StageOK
<1>2. pc'[t] \in {"done", "replay"} \/ (pc'[t] = "send" /\ fingerprints[Arg(t).rfq] = None)
  BY <1>0 DEF RfqCheck, RfqReplay, Return, Goto, DeskTypeOK
<1>3. OthersKept(t) /\ LogLasts /\ OneRfq'
  BY <1>1, StepIsLocal, SameRfqs
<1>4. /\ Tool(t)' = Tool(t) /\ Arg(t)' = Arg(t) /\ Tool(t) \notin Requisitioning
      /\ Arg(t).material \in Catalog /\ Arg(t).vendors \subseteq Registered
  BY <1>0, <1>1 DEF Tool, Arg, BuyOK, Requisitioning
<1>5. BuyOK(t)'
  BY <1>1, <1>2, <1>4 DEF BuyOK
<1>6. QED
  BY <1>1, <1>3, <1>5, StepIsLocal, QuietStep

\* The handler takes the quotation, or the requisition, that validation compared.
LEMMA ReadBooks ==
    ASSUME BookInv, DeskInv', UNCHANGED actions, NEW t \in Tasks, ReadQuote(t), TaskStep(t)
    PROVE  BookInv'
<1>0. DeskTypeOK /\ BuyOK(t) /\ quote = [d \in Tasks |-> quote[d]]
  BY DEF BookInv, DeskInv, BookTypeOK
<1>1. /\ pc[t] = "handler" /\ Tool(t) \in ProcurementMoney
      /\ UNCHANGED <<quotations, fingerprints, requisitions, orders, log, action>>
  BY DEF ReadQuote, bundle
<1>2. /\ pc'[t] = "write"
      /\ quote'[t] = IF Tool(t) = "release_purchase_order" THEN requisitions[Arg(t).pr]
                                                           ELSE quotations[Arg(t).quote]
  BY <1>0 DEF ReadQuote, QuoteOf, Goto, DeskTypeOK
<1>3. OthersKept(t) /\ LogLasts /\ OneRfq'
  BY <1>1, StepIsLocal, SameRfqs
<1>4. /\ Tool(t)' = Tool(t) /\ Arg(t)' = Arg(t) /\ QuoteSeen(t)' = QuoteSeen(t)
      /\ RequisitionSeen(t)' = RequisitionSeen(t)
  BY <1>1 DEF Tool, Arg, QuoteSeen, RequisitionSeen, QuoteIds, Rfqs
<1>5. BuyOK(t)'
  BY <1>0, <1>1, <1>2, <1>4 DEF BuyOK, Requisitioning
<1>6. QED
  BY <1>1, <1>3, <1>5, StepIsLocal, QuietStep

\* The quotes of an RFQ come in: none of them replaces one that was there.
LEMMA SendBooks ==
    ASSUME BookInv, DeskInv', UNCHANGED actions, NEW t \in Tasks, RfqSend(t), TaskStep(t)
    PROVE  BookInv'
<1> DEFINE rfq == Arg(t).rfq
<1>0. DeskTypeOK /\ BuyOK(t) /\ StageOK(t) /\ BookTypeOK
  BY DEF BookInv, DeskInv
<1>1. /\ pc[t] = "send" /\ Tool(t) = "send_rfq_email" /\ fingerprints[rfq] = None
      /\ UNCHANGED <<fingerprints, requisitions, orders, action, quote>>
      /\ pc'[t] = "record" /\ log' = log \cup {t}
  BY <1>0 DEF RfqSend, StageOK, BuyOK, Goto, DeskTypeOK
<1>2. Rfqs' = Rfqs /\ QuoteIds' = QuoteIds
  BY <1>1 DEF Rfqs, QuoteIds
<1>3. /\ quotations' = [q \in QuoteIds |-> quotations'[q]]
      /\ \A q \in QuoteIds : q[1] # rfq => quotations'[q] = quotations[q]
  BY <1>2 DEF RfqSend
<1>4. OthersKept(t) /\ LogLasts /\ OneRfq'
  BY <1>1, StepIsLocal, SameRfqs
<1>5. \A q \in QuoteIds : q[1] = rfq => quotations[q] = None
  <2>1. ASSUME NEW d \in Tasks, pc[d] = "record" PROVE FALSE
    <3>1. StageOK(d)
      BY DEF BookInv, DeskInv
    <3>2. d \in RfqsInProgress /\ t \in RfqsInProgress
      BY <1>1, <2>1, <3>1 DEF StageOK, RfqsInProgress
    <3>3. d = t
      BY <3>2 DEF BookInv, OneRfq
    <3>4. QED
      BY <1>1, <2>1, <3>3
  <2>2. QED
    BY <1>1, <2>1 DEF BookInv, Recorded
<1>6. Grows(t)
  BY <1>1, <1>2, <1>3, <1>5 DEF Grows
<1>7. BookTypeOK'
  BY <1>0, <1>1, <1>2, <1>3 DEF BookTypeOK
<1>8. Recorded'
  <2>1. \A d \in Tasks : pc[d] = "record" => pc'[d] = "record" /\ Arg(d)' = Arg(d)
    BY <1>1, <1>4 DEF OthersKept, Arg
  <2>2. Arg(t)' = Arg(t)
    BY <1>1 DEF Arg
  <2>3. ASSUME NEW q \in QuoteIds, quotations'[q] # None
        PROVE  fingerprints'[q[1]] # None \/ \E d \in Tasks : pc'[d] = "record" /\ Arg(d)'.rfq = q[1]
    <3>1. CASE q[1] = rfq
      BY <1>1, <2>2, <3>1
    <3>2. CASE q[1] # rfq
      BY <1>1, <1>3, <2>1, <2>3, <3>2 DEF BookInv, Recorded
    <3>3. QED
      BY <3>1, <3>2
  <2>4. QED
    BY <1>2, <2>3 DEF Recorded
<1>9. Copies'
  BY <1>1, <1>2, <1>6 DEF BookInv, Copies, Grows
<1>10. BuyOK(t)'
  BY <1>0, <1>1 DEF BuyOK, Tool, Arg
<1>11. \A d \in Tasks : BuyOK(d)'
  BY <1>4, <1>6, <1>10, OthersStill
<1>12. BooksAsApproved'
  <2>1. \A s \in log' \ log : Tool(s)' # "execute_payment"
    BY <1>1 DEF Tool
  <2>2. QED
    BY <1>1, <1>2, <1>4, <2>1, BooksStand
<1>13. QED
  BY <1>4, <1>7, <1>8, <1>9, <1>11, <1>12 DEF BookInv

\* The outcome of an RFQ is recorded, for good.
LEMMA RecordBooks ==
    ASSUME BookInv, DeskInv', UNCHANGED actions, NEW t \in Tasks, RfqRecord(t), TaskStep(t)
    PROVE  BookInv'
<1> DEFINE rfq == Arg(t).rfq
<1>0. DeskTypeOK /\ BuyOK(t) /\ StageOK(t) /\ BookTypeOK
  BY DEF BookInv, DeskInv
<1>1. /\ pc[t] = "record" /\ Tool(t) = "send_rfq_email"
      /\ Arg(t).material \in Catalog /\ Arg(t).vendors \subseteq Registered /\ rfq \in Rfqs
      /\ UNCHANGED <<quotations, requisitions, orders, log, action, quote>>
      /\ pc'[t] = "done"
  BY <1>0 DEF RfqRecord, StageOK, BuyOK, BookTypeOK, Return, Goto, DeskTypeOK, Tool, Arg
<1>2. /\ fingerprints'[rfq] # None
      /\ \A x \in Rfqs : x # rfq => fingerprints'[x] = fingerprints[x]
      /\ fingerprints' = [x \in Rfqs |-> fingerprints'[x]]
  <2>1. CASE RfqConflict(Arg(t))
    <3>1. fingerprints' = fingerprints
      BY <2>1 DEF RfqRecord
    <3>2. QED
      BY <1>0, <2>1, <3>1 DEF RfqConflict, BookTypeOK
  <2>2. CASE ~RfqConflict(Arg(t))
    <3>1. fingerprints' = [fingerprints EXCEPT ![rfq] = <<Arg(t).material, Arg(t).vendors>>]
      BY <2>2 DEF RfqRecord
    <3>2. <<Arg(t).material, Arg(t).vendors>> # None
      BY <1>1, NoneIsNothing
    <3>3. fingerprints = [x \in Rfqs |-> fingerprints[x]]
      BY <1>0 DEF BookTypeOK
    <3> HIDE DEF rfq
    <3>4. QED
      BY <1>1, <3>1, <3>2, <3>3
  <2>3. QED
    BY <2>1, <2>2
<1>3. Rfqs' = Rfqs /\ QuoteIds' = QuoteIds
  <2>1. DOMAIN fingerprints' = Rfqs
    BY <1>2
  <2>2. QED
    BY <2>1 DEF Rfqs, QuoteIds
<1>4. OthersKept(t) /\ LogLasts /\ OneRfq'
  BY <1>1, StepIsLocal, SameRfqs
<1>5. Grows(t)
  BY <1>1, <1>3 DEF Grows
<1>6. BookTypeOK'
  BY <1>0, <1>1, <1>2, <1>3 DEF BookTypeOK
<1>7. Recorded'
  <2>1. \A d \in Tasks \ {t} : pc'[d] = pc[d] /\ Arg(d)' = Arg(d)
    BY <1>4 DEF OthersKept, Arg
  <2>2. ASSUME NEW q \in QuoteIds, quotations'[q] # None
        PROVE  fingerprints'[q[1]] # None \/ \E d \in Tasks : pc'[d] = "record" /\ Arg(d)'.rfq = q[1]
    <3>1. CASE q[1] = rfq
      BY <1>2, <3>1
    <3>2. CASE q[1] # rfq
      <4>1. q[1] \in Rfqs
        BY DEF QuoteIds
      <4>2. fingerprints[q[1]] # None \/ \E d \in Tasks : pc[d] = "record" /\ Arg(d).rfq = q[1]
        BY <1>1, <2>2 DEF BookInv, Recorded
      <4>3. QED
        BY <1>2, <2>1, <3>2, <4>1, <4>2
    <3>3. QED
      BY <3>1, <3>2
  <2>3. QED
    BY <1>3, <2>2 DEF Recorded
<1>8. Copies'
  BY <1>1, <1>3 DEF BookInv, Copies
<1>9. BuyOK(t)'
  BY <1>1 DEF BuyOK
<1>10. \A d \in Tasks : BuyOK(d)'
  BY <1>4, <1>5, <1>9, OthersStill
<1>11. BooksAsApproved'
  BY <1>1, <1>3, <1>4, BooksStand
<1>12. QED
  BY <1>4, <1>6, <1>7, <1>8, <1>10, <1>11 DEF BookInv

\* A requisition or an order is written: what an approver saw.
LEMMA WriteBooks ==
    ASSUME BookInv, DeskInv', UNCHANGED actions, NEW t \in Tasks, Write(t), TaskStep(t)
    PROVE  BookInv'
<1>0. DeskTypeOK /\ BuyOK(t) /\ StageOK(t) /\ BookTypeOK
  BY DEF BookInv, DeskInv
<1>1. /\ pc[t] = "write" /\ Tool(t) \in ProcurementMoney /\ ApprovedBy(t)
      /\ UNCHANGED <<quotations, fingerprints, action, approval, quote>>
      /\ pc'[t] = "done" /\ log' = log \cup {t}
  BY <1>0 DEF Write, StageOK, Acting, ReviewTools, Return, Goto, DeskTypeOK
<1>2. Rfqs' = Rfqs /\ QuoteIds' = QuoteIds /\ Tool(t)' = Tool(t) /\ Arg(t)' = Arg(t)
      /\ ApprovedBy(t)' /\ t \in log'
  BY <1>1 DEF Rfqs, QuoteIds, Tool, Arg, ApprovedBy
<1>3. OthersKept(t) /\ LogLasts /\ OneRfq'
  BY <1>1, StepIsLocal, SameRfqs
<1>4. Recorded'
  <2>1. \A d \in Tasks : pc[d] = "record" => pc'[d] = "record" /\ Arg(d)' = Arg(d)
    BY <1>1, <1>3 DEF OthersKept, Arg
  <2>2. QED
    BY <1>1, <1>2, <2>1 DEF BookInv, Recorded
<1>5. /\ \A q \in QuoteIds : requisitions[q] # None => Requisitioned(q)
      /\ \A q \in QuoteIds : orders[q] # None => Ordered(q)
      /\ \A s \in log : Tool(s) = "execute_payment" => Paid(s)
  BY Books DEF BookInv
<1>6. \A s \in log' : Tool(s)' = "execute_payment" => Paid(s)'
  <2>1. Tool(t)' # "execute_payment"
    BY <1>1, <1>2 DEF ProcurementMoney
  <2>2. QED
    BY <1>1, <1>3, <1>5, <2>1, EntriesStand
<1>7. BuyOK(t)'
  BY <1>1 DEF BuyOK
<1>8. CASE Tool(t) \in Requisitioning
  <2> DEFINE p == Arg(t).quote
  <2>1. /\ requisitions' = [requisitions EXCEPT ![p] = quote[t]] /\ UNCHANGED orders
        /\ quote[t] = quotations[p] /\ p \in QuoteIds /\ quotations[p] # None
        /\ p[2] \in Registered /\ quotations[p].money = Arg(t).money
        /\ Tool(t) = "create_purchase_requisition" => Arg(t).material = quotations[p].material
    BY <1>0, <1>1, <1>8 DEF Write, QuoteOf, BuyOK, QuoteSeen, Requisitioning
  <2>2. requisitions = [q \in QuoteIds |-> requisitions[q]]
    BY <1>0 DEF BookTypeOK
  <2>3. /\ requisitions' = [q \in QuoteIds |-> requisitions'[q]]
        /\ requisitions'[p] = quotations[p]
        /\ \A q \in QuoteIds : q # p => requisitions'[q] = requisitions[q]
    BY <2>1, <2>2
  <2>4. \A q \in QuoteIds : requisitions[q] # None => requisitions'[q] = requisitions[q]
    BY <2>3 DEF BookInv, Copies
  <2>5. Grows(t)
    BY <1>1, <1>2, <2>4 DEF Grows
  <2>6. BookTypeOK'
    BY <1>0, <1>1, <1>2, <2>1, <2>3 DEF BookTypeOK
  <2>7. Copies'
    BY <1>1, <1>2, <2>1, <2>3, <2>4 DEF BookInv, Copies
  <2>8. \A q \in QuoteIds' : requisitions'[q] # None => Requisitioned(q)'
    <3>1. Requisitioned(p)'
      BY <1>2, <1>8, <2>1, <2>3 DEF Requisitioned, Requisitioning
    <3>2. QED
      BY <1>2, <1>3, <1>5, <2>3, <3>1, EntriesStand
  <2>9. \A q \in QuoteIds' : orders'[q] # None => Ordered(q)'
    BY <1>2, <1>3, <1>5, <2>1, EntriesStand
  <2>10. BooksAsApproved'
    BY <1>6, <2>8, <2>9 DEF BooksAsApproved, Requisitioned, Ordered, Paid
  <2>11. \A d \in Tasks : BuyOK(d)'
    BY <1>3, <1>7, <2>5, OthersStill
  <2>12. QED
    BY <1>3, <1>4, <2>6, <2>7, <2>10, <2>11 DEF BookInv
<1>9. CASE Tool(t) = "release_purchase_order"
  <2> DEFINE p == Arg(t).pr
  <2>1. /\ orders' = [orders EXCEPT ![p] = quote[t]] /\ UNCHANGED requisitions
        /\ quote[t] = requisitions[p] /\ p \in QuoteIds /\ requisitions[p] # None
        /\ requisitions[p].money = Arg(t).money
    BY <1>0, <1>1, <1>9 DEF Write, QuoteOf, BuyOK, RequisitionSeen
  <2>2. orders = [q \in QuoteIds |-> orders[q]]
    BY <1>0 DEF BookTypeOK
  <2>3. /\ orders' = [q \in QuoteIds |-> orders'[q]]
        /\ orders'[p] = requisitions[p]
        /\ \A q \in QuoteIds : q # p => orders'[q] = orders[q]
    BY <2>1, <2>2
  <2>4. Grows(t)
    BY <1>1, <1>2, <2>1 DEF Grows
  <2>5. BookTypeOK'
    BY <1>0, <1>1, <1>2, <2>1, <2>3 DEF BookTypeOK
  <2>6. Copies'
    BY <1>1, <1>2, <2>1, <2>3 DEF BookInv, Copies
  <2>7. \A q \in QuoteIds' : requisitions'[q] # None => Requisitioned(q)'
    BY <1>2, <1>3, <1>5, <2>1, EntriesStand
  <2>8. \A q \in QuoteIds' : orders'[q] # None => Ordered(q)'
    <3>1. Ordered(p)'
      BY <1>2, <1>9, <2>1, <2>3 DEF Ordered
    <3>2. QED
      BY <1>2, <1>3, <1>5, <2>3, <3>1, EntriesStand
  <2>9. BooksAsApproved'
    BY <1>6, <2>7, <2>8 DEF BooksAsApproved, Requisitioned, Ordered, Paid
  <2>10. \A d \in Tasks : BuyOK(d)'
    BY <1>3, <1>7, <2>4, OthersStill
  <2>11. QED
    BY <1>3, <1>4, <2>5, <2>6, <2>9, <2>10 DEF BookInv
<1>10. QED
  BY <1>1, <1>8, <1>9 DEF ProcurementMoney, Requisitioning

\* Every step keeps the books in order, one RFQ at a time.
LEMMA BookStep ==
    ASSUME MaxRfqs <= 1, BookInv, [Next]_vars PROVE BookInv'
<1>0. DeskInv'
  BY DeskStep DEF BookInv
<1>1. CASE UNCHANGED vars
  <2>1. /\ UNCHANGED <<actions, log, quotations, fingerprints, requisitions, orders, pc, action,
                       approval, result, quote>>
    BY <1>1 DEF vars, bundle, task
  <2>2. Rfqs' = Rfqs /\ QuoteIds' = QuoteIds /\ LogLasts
    BY <2>1 DEF Rfqs, QuoteIds, LogLasts
  <2>3. \A d : Tool(d)' = Tool(d) /\ Arg(d)' = Arg(d)
    BY <2>1 DEF Tool, Arg
  <2>4. BookTypeOK'
    BY <2>1, <2>2 DEF BookInv, BookTypeOK
  <2>5. OneRfq'
    BY <2>1, <2>3 DEF BookInv, OneRfq, RfqsInProgress
  <2>6. Recorded' /\ Copies'
    BY <2>1, <2>2, <2>3 DEF BookInv, Recorded, Copies
  <2>7. \A d \in Tasks : BuyOK(d)'
    BY <2>1, <2>2, <2>3
       DEF BookInv, BuyOK, QuoteSeen, RequisitionSeen, ValidateMoney, ParseAmount
  <2>8. BooksAsApproved'
    BY <2>1, <2>2, BooksStand
  <2>9. QED
    BY <1>0, <2>4, <2>5, <2>6, <2>7, <2>8 DEF BookInv
<1>2. ASSUME NEW t \in Tasks, TaskStep(t), UNCHANGED actions PROVE BookInv'
  <2>1. ASSUME NEW r \in actions, Start(t, r) PROVE BookInv'
    BY <1>0, <1>2, <2>1, StartBooks
  <2>2. QED
    BY <1>0, <1>2, <2>1, DecideBooks, ReviewBooks, HandleBooks, CheckBooks, SendBooks,
       RecordBooks, ReadBooks, WriteBooks DEF TaskStep
<1>3. QED
  BY <1>1, <1>2 DEF Next

\* The books are empty at first.
LEMMA BookInit == Init => BookInv
<1> SUFFICES ASSUME Init PROVE BookInv
  OBVIOUS
<1>1. DeskInv
  BY DeskInit
<1>2. BookTypeOK
  BY DEF Init, BookTypeOK, Rfqs, QuoteIds
<1>3. QED
  BY <1>1, <1>2
     DEF Init, BookInv, OneRfq, RfqsInProgress, Recorded, Copies, BuyOK, BooksAsApproved,
         Rfqs, QuoteIds

\* What the books say was bought is what an approver saw, for any tasks, quotes and
\* invoices, as long as one RFQ is in progress at a time (_simulate_send_rfq_email
\* tests for a conflict, sends and records in separate steps).
THEOREM BoughtAsApproved ==
    ASSUME MaxRfqs <= 1 PROVE Spec => []BooksAsApproved
<1>1. BookInv /\ [Next]_vars => BookInv'
  BY BookStep
<1>2. BookInv => BooksAsApproved
  BY DEF BookInv
<1>3. QED
  BY <1>1, <1>2, BookInit, PTL DEF Spec
=============================================================================
