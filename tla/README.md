# CBrain: TLA+ models, checks and proofs

CBrain runs language-model agents whose tool calls have consequences outside
the process. Its core promise is about certainty: a tool call is authorised,
happens at most once, and the caller is never told "it did not run" when it may
have. The modules here model the code that keeps that promise: the governed
execution path and its sidecar, the agent loops that call it, the two stores
that hold actions for human approval, and, at the two ends, what agents act on
(company tools, target systems, a browser worker) and what they are told
(the knowledge runtime, the guidance learnt from people's feedback).

## 1. Inventory

| Component (under `src/cbrain`) | State | Operations | Why it is hard |
| --- | --- | --- | --- |
| Governed runtime (`runtime.py`, `contracts.py`) | none; counts handler entries of one call | `execute` | must classify every failure of a gateway it does not trust |
| Execution gateway (`execution/gateway.py`) | none | `decide_and_execute`: plan, decide, issue, verify, dispatch, close | any step may fail before or after the effect |
| Sidecar (`execution/sidecar.py`) | one thread per POST | admit, dial, claim, send, witness, seal | crashes, timeouts while it works on, replayed envelopes |
| Consumption ledger (`consumption.py`, `adapters/privatevault_claim.py`) | authorization-use table | `is_consumed`, `claim_once` | lookup and claim are separate; a commit may be uncertain |
| PrivateVault adapters, planner, authorize client | permits (held by PrivateVault, external) | `decide`, `issue`, `verify_*` | expiry against a clock; permits issued again on retry |
| Durable agent loop (`agent/foundation.py`, `agent/durable_loop.py`, `agent/store_*.py`) | one versioned record per `run_id` | create, load, save (compare-and-swap), claim, finalise | several workers, crashes between any two writes, stale copies, deadlines |
| Approval inbox and gateway (`company/approval.py`, `evaluation/company_gateway.py`) | pending actions, approvals, frozen flag | park, approve, consume, freeze | the inbox methods are atomic, the gateway's sequence of them is not |
| Durable review store (`company/durable_approval.py`) | SQLite rows with leases | park, claim and release lease, approve, consume, freeze, get | lazy expiry, competing and restarting workers |
| Ephemeral agent loop (`agent/foundation.py`) | the locals of one `run()` | model turns, tool calls, limits, deadline | how the run ends must account for what its calls did |
| Knowledge runtime (`knowledge/`) | document rows, chunks, graph, revisions, retrieval cache | ingest, tombstone, retrieve | read-compute-publish races, stale cache, access control over reads made at different moments |
| Insights (`agent/insights*.py`) | append-only learning signals and approvals | feedback, record_run, approve, compile_profile, migrate | several appends per call, retries, evidence that leaves the window, reviewers that lose authority |
| Company tools (`company/`), operator loop (`evaluation/operator_loop.py`) | a bundle of simulators per desk | validate, decide, approve, handle: about 60 tools of six kinds of agent | data validated long before the handler reads it again |
| Simulated targets (`simulators/`) | business objects, effects by idempotency key, versions | 19 operations of five targets, HTTP front | lost and late messages, retries under old and new keys |
| Procurement (`procurement/`) | none; mail and profiles | create, interpret, reconcile, mailbox | a purchase whose answer was lost |
| Computer use (`computer_use/`) | pages of the engine; threads of the worker | observe, act, the tools of the bridge | a client that gives up while the worker goes on, restarts |
| Models, framework/Hermes adapters, evaluation, deployment | wire formats, drivers, configuration | | little control state of their own |

How they interact: the agent loops, the company gateway and the computer session call
`GovernedRuntime.execute`; it calls a gateway; the gateway calls PrivateVault
and posts the permit and the prepared bytes to the sidecar; sidecar and
in-process gateway share the ledger table; workers share the run store and the
review store, and nothing else. The company tools are handlers behind the
approval gateway; threads that share a bundle share its simulators. Agents read
knowledge and compiled guidance before their first turn. What makes each part correct is the list of
properties in section 4; `PROJECT.json` lists every component and every hazard
with the line where it bites.

## 2. Modules

    ExecutionContract                   what execute() promises
       ^ implemented by     ^                  ^
    GovernedDispatch     DurableRun       ComputerUse      AgentRun
                                               ^ composed in ^
                                              ComputerAgent

    ApprovalGateway     ReviewStore     CompanyDesk   Targets   Knowledge   Insights
       both extend Approvals

A module `MCx` is the instance of `x` for TLC, where `x` needs one, and a module
`xProofs` has the theorems about `x`. `ComputerAgentProofs` is about ComputerUse
and AgentRun too; `ApprovalProofs` is about both ApprovalGateway and ReviewStore,
which share their requests, digests and clock (Approvals) and otherwise have
names of their own (`GatewaySpec`, `ParkCall`, ...). Where the code
makes its tests in an order, the models use a chain of IF: in a CASE whose
guards overlap TLA+ leaves open which arm is taken.

**ExecutionContract** is the abstract specification. An attempt carries a
request; its effect starts at most once, possibly after INDETERMINATE was
returned, never after an outcome that says `tool_executed=False`; a request is
attempted again only after a retryable outcome. The detailed modules meet
here: `GovernedDispatch` implements it from below, `DurableRun` takes the
effect and the return of `execute()` from it and is itself shown to be a caller
that respects it, and `ComputerUse` implements it over a browser worker.

**GovernedDispatch** is one state machine for agent process, PrivateVault,
ledger and sidecar. `pc[a]` is the place in `decide_and_execute` of attempt
`a`; `tpc[t]` the place in the handler of thread `t`. In the in-process mode
(attempts in `Local`) the thread stands for the gateway's own run of
`verify_and_claim`. Documents, digests and signatures are reduced to the
identity of a permit. A verification that can raise is a choice between passing
and failing; what is not a choice is what the code compares: the row in the
ledger and the expiry against the sampled clock. An uncertain `commit()` is a
third outcome of `ClaimOnce`. `AgentCrash`, `SidecarCrash`, `RpcFailed` and
`Replay` are the failures. `Replays` says whether an envelope may reach the
sidecar twice. The guard of `Begin` is the caller's obligation (a request is
tried again only after a retryable result); `DurableRun` discharges it.

**DurableRun** models `_run_durable` for one `run_id`. A worker is one call of
`run()`; it keeps a copy `ctx[w]` of the record, and every write is a
compare-and-swap on the version. Text and sizes are choices at the place where
the code tests them. Cancellation may be seen wherever the code looks. `Crash`
covers a dead process and an exception that leaves `run()`. `RECOVERY_REQUIRED`
is not a state here because no code stores it. The wall clock and the workers'
monotonic clocks are one clock `now`.

**ApprovalGateway** models calls of `execute()` through
`ApprovalBoundedGateway` over `CompanyRiskGateway`, each on its own thread.
Inbox methods are single steps (the inbox lock); the gateway's steps between
them interleave. A digest fixes tool, risk level and role, so `Review`,
`Unassigned` and `Approvers` are functions of it.

**ReviewStore** models each method of `DurableReviewStore` as one action (one
`BEGIN IMMEDIATE` transaction). A method that raises rolls back and is no step.
Versions are left out: transactions are serial, so `_replace`'s check never
fails. `held` and `granted` are what workers were told; they are not in the
table.

**Knowledge** models the collections of one tenant over the PostgreSQL or the
in-memory store. Rows, chunks, revision and embedding profile belong to a
collection; the graph is the tenant's, as in the code: `nodes_for_chunks` and
`traverse` do not filter by collection, and a node published again takes the
provenance of the last publisher, of whatever collection (`Upsert`). Node ids
come from the deployment's extractor, so two collections may name one node; that
tenants do not is assumed (the table's key is `node_id` alone). A store method is
one step; `ingest()` reads the row, embeds and publishes; `retrieve()` reads the
revision for the cache key, looks in the cache, searches twice, filters by
collection and ACL, seeds and walks the graph, loads and filters again, and stores
in the cache, each a step of its own. The PostgreSQL `traverse` commits three
reads (nodes, edges, the chunks to cite) and is three steps; the in-memory one is
given the same three, which allows more than it does. Where `graph_max_nodes` cuts a
walk is a choice: `BoundedWalk` is the sets of nodes it may visit. `window`
collects the live sets of the collection a call overlapped. Ranking is a choice of
which hits are kept.

**Targets** models the five simulated targets and `procurement/reconcile.py`.
`wire` and `replies` are sets, so messages are delayed, reordered and never
delivered; a delivery is one step because `execute()` holds the target's lock.
A caller may retry with its key, reconcile by key, or try to resubmit a
purchase under another key, which `RefuseBlindResubmit` stands against. That
guard is the caller's convention: `refuse_blind_resubmit`
(`procurement/reconcile.py:184`) is exported, and in this repository only
`tests/test_governed_po_idempotency.py` calls it.

**Insights** models the learning store with `append_*` and `load_*` as steps.
`record_run` may fail after any append and be called again; `approve` and
`compile_profile` read, then check, then write, while the clock moves and the
verifier drops reviewers. A behaviour may begin with a v1 store: it is
verified, copied into a temporary file, compared and renamed, or all of it is
dropped. Nobody else opens the destination meanwhile: the code tests only at
the start that it does not exist, and a store created there during the
migration would be replaced, or removed with a failed one.

**CompanyDesk** models `run_operator_task` and every handler over one bundle.
`run_operator_task` loads a bundle of its own; the setting with several tasks
over one bundle is that of `company_harness._run_concurrent_case`, and the
simulators' locks are there for it. Tools are sorted by what they test and
write; handlers with several accesses to shared state (RFQ, quotes) are several
steps. Each task sees only its own approval; the inbox's races are in
`ApprovalGateway`. `_board` iterates the quotations without the lock
(`company/handlers.py:581`) and may raise while an RFQ is being recorded; that
exception, a handler failure before any write, is left out.

**ComputerUse** models calls of the session and of the tool bridge, client,
worker threads and engine. The gateway between them is external and not
trusted: it may call the handler twice or claim an outcome the runtime must
correct. A Playwright `navigate` whose `goto` fails leaves its alias open on a blank
page (`computer_use/engines.py:155`); `WorkerLoses` leaves `open` as it is, and no
property depends on which pages are open after a lost act. **AgentRun** is `_run_ephemeral`; `Dispatch` and `ToolReturns` are
left for a composing module to join with a call. **ComputerAgent** joins the
two: the agent's calls are calls of `ComputerUse`, beside those of another user
of the session, and what the runtime returns is what the loop goes on with.

`PROJECT.json` maps every definition to the lines it stands for.

## 3. Runs and bounds

| Run | Instance | Shows |
| --- | --- | --- |
| `dispatch` | 2 requests, 3 attempts (1 in process), 2 permits, 3 threads, clock 0..1, TTL 1, no replay | refusals are final, one effect per request, EXECUTED is proven, permits are fresh, refinement of the contract |
| `dispatch_replay` | 1 request, 2 attempts, 2 permits, 2 threads, replay, fairness | single use under replay, every call returns |
| `durable_run` | 2 workers, 3 steps, 2 tool calls, timeout 1, clock 0..2, fairness | the durable loop's safety, termination and contract |
| `approval` | 3 calls, 2 requests, 4 digests, 3 principals | approval safety |
| `review_store` | 2 requests, 2 workers, 2 digests, 2 roles, lease up to 2, TTL 1, clock 0..3 | leases, grants, dead ends |
| `knowledge` | 2 collections that share an entity, 2 writers, 1 reader of one of them, 3 sources, 2 contents, 2 embedding profiles, 2 entities, both stores, revision of a collection up to 2, 2 chunks per answer, depth 1 | answers are live and authorised, the cache agrees with the searches, publishes are not stale |
| `knowledge_stored` | the same, PostgreSQL, documents that change only their ACL | finding: published is not stored |
| `targets` | 3 callers, 6 workloads that between them submit every operation, 1 retry, 1 caller waiting at a time, hour 0..1 | books, receipts and verdicts agree |
| `insights` | 2 recorders, 1 manager, 2 agents, 5 workloads (two with a v1 store), window 1, clock 0..2 | guidance is people's, runs count once |
| `company` | 4 tasks, the workloads of `MCCompanyDesk`, one RFQ in progress | books as approved, effects governed |
| `company_rfq` | 2 tasks with one `rfq_id` | finding: both are mailed |
| `computer` | 2 calls, 2 pages (1 in the catalog), 1 restart, 3 turns, 2 tool calls, timeout 1 | the run's ending accounts for the worker; refinement of the contract |

Why the bounds suffice for the cases of interest. Dispatch: two attempts of one
request meet a re-issued permit and a late thread of the first attempt, a third
is on the other request or in process; two instants separate before from after
expiry. Durable run: one worker can crash in every state while another resumes,
observes or races it; three steps with two tool calls reach the tool limit
before the step limit; the clock passes the deadline during and before a
resume. Review store: a lease of two ticks leaves one instant inside and one at
the boundary, and the row can be leased again within the clock. Knowledge: in
two revisions a collection gets two sources that compete for the answer, or one
that is replaced, withdrawn or raced for by two writers, while a retrieval is
under way; the source of the other collection shares an entity with them, so that
its publish takes a node away, or gives it a provenance the walk may not cite,
before, between and after the reads of a walk. Longer histories (a source
published again after its tombstone, beside a writer that read it before) are the
theorems' part, where `MaxRevision` is any number.
Targets: one retry with three callers makes an old request arrive after a newer
one, and two callers under one key with different arguments. Insights: two
occurrences make a candidate, and with a window of 1 in a clock of 0..2
evidence can leave it. Company: four tasks take a quote from RFQ to order, or
put a validation before another task's write and its handler after. Computer:
the agent's call and a foreign one share worker and pages; a restart falls
between any two steps. In the `computer` run `Kinds` leaves out click and
submit, which the code treats like a type without a secret. Named bounds:
`MaxClock`, `MaxTime` and `MaxHour` (clocks), `MaxRevision`, `MaxRetries`,
`MaxWaiting`, `MaxShipmentUpdates`, `MaxRestarts`, `MaxRfqs` (1 in `company`:
with two RFQ tasks `BooksAsApproved` fails for the reason of finding 2), and
the sizes of the sets; `Limit`, `MaxDepth`, `Timeout`, `MaxModelTurns`,
`MaxToolCalls`, `MaxLease` and `MaxTTL` are the code's own limits. Symmetry is used only in runs
without liveness properties, over sets whose members the model does not tell
apart. `CHECK_DEADLOCK FALSE` stands where the system may stop for good: every
call has returned and no time is left. `ReviewStore` never stops and is
checked for deadlock.

Fairness. `GovernedDispatch`: weak fairness of each attempt's own steps (a
running process runs, and `urlopen` has a timeout, so `RpcFailed` is enabled
while an answer is awaited) and of each thread's steps; none for `Begin`,
crashes, replays or the clock. `DurableRun`: weak fairness of each worker that
has started; none for starting one. No property assumes that anyone recovers.
The other modules state safety only and no fairness.

## 4. Properties

Dispatch: `RefusalMeansUnsent` (a late sidecar thread never contradicts
`tool_executed=False`), `AtMostOneEffect` (over all retries of a request),
`ExecutedIsProven`, `FreshAfterDial` (the clock of the claim is sampled after
the TLS channel is open), `SingleUse` (per permit, under replay),
`ExecuteReturns`, `ImplementsContract`. With replays the first two do not hold
of an attempt as a whole: the duplicate may win the claim while the original is
refused. `SingleUse` is what remains, and is what the ledger promises.

Durable run: `OneDispatchPerRequest`, `ToolCallBudget`, `TerminalAgreement`,
`CompletedMeansExecuted`, `NoLateDispatch`, `InFlightIsOwned`,
`TerminalIsFinal`, `WorkerEnds`, `ImplementsContract`.

Approval: `ApprovalRunsOnce`, `EntryWasApproved`, `ResultIsHonest`,
`ApprovalIsFinal`. Review store: `LeaseExclusive`, `HolderIsCurrent`,
`ConsumedOnce`, `GrantJustified`, `DeadEnds`. The type invariants of these two
modules and of Knowledge are stated for their proofs and are no property of a
run; those of the modules without a `TypeOK` are in their proof modules.

Knowledge: `HitsWereLive` (an answer was live all together in the collection asked
for at one moment of the call, and open to who asked), `CacheMatchesSearches` (an
entry under the current revision of its collection holds only live and authorised
chunks of it, and leaves out what the searches would find now only when it is
full; the chunks the graph contributed may be others than it would contribute
now, see section 5), `EmbeddingsAgree`,
`NoStalePublish` (no ingest overwrites or revives what it has not read). The
in-memory store does overwrite, so the last one speaks of the durable store.

Targets: `BooksMatchReceipts`, `OneOrderPerPurchase`, `VerdictIsTrue` (what a
caller is told comes from the effect of what it asked for). `reconcile_purchase`
looks up a key and does not compare arguments, so a reconciled purchase is only
known to be the effect under the caller's key.

Insights: `GuidanceIsPeoples`, `RunsCountedOnce`. Company: `BooksAsApproved`,
`EffectsAreGoverned`. Computer: `RunAccountsForActs` (only after TOOL_FAILURE
may an act of the run be lost or still to come), `ActsImplementContract`.

Every property of a passing run has a mutant beside the definition it changes
(comments beginning "Mutant:"): a plausible mistake in the code that the
property finds.

## 5. Findings

1. `docs/knowledge-runtime.md` says "A changed source creates a new revision";
   on PostgreSQL an ingest that changes only the ACL is reported as published
   while the store returns early on the equal content digest
   (`knowledge/stores/postgres.py:935`): the old ACL stays in force. Run
   `knowledge_stored`.
2. `docs/procurement-agents.md` says that one `rfq_id` with different bytes "is
   blocked before the handler"; the fingerprint is tested before the mails go
   out and recorded after (`company/handlers.py:648`), so two concurrent calls
   both mail. Run `company_rfq`.
Four more disagreements between text and code, which the models contain and no
run is about:

* `docs/knowledge-runtime.md` says that one transaction publishes "graph
  nodes/edges, collection revision" and that "Cache keys include the collection
  revision, so previous results miss". The graph is the tenant's and the revision
  the collection's: a publish into one collection replaces the provenance of a
  node (`knowledge/stores/postgres.py:1063`) over which an answer of another was
  expanded, and that answer is still hit until its time to live passes, although
  `retrieve()` would not find it any more. What is hit is loaded and filtered
  again, so nothing withdrawn or unauthorised is returned (`HitsWereLive`).
* `docs/sidecar-isolation.md` says consume, "only then dial", and the sidecar
  dials first (`execution/sidecar.py:272`; bytes still leave only after the
  claim).
* `docs/foundation-agent.md` speaks of "Bounded model turns", and a resumed run
  repeats a step whose turn was already counted (`agent/foundation.py:636`).
* `company/approval.py` says that frozen inboxes never dispatch, and a freeze
  after the last test of `frozen` does not stop the handler
  (`company/approval.py:280`).

## 6. Proofs

Proved with TLAPS, for every value of the constants that satisfies the named
assumptions: any number of workers, calls, permits, rows, documents and tasks,
and any limits. Every inductive invariant was first checked by TLC on the
instance of the module's run. `PROJECT.json` lists the theorems with the
property each states.

The assumptions say that `None` is no member of the sets it stands beside
(`NoneIsNoId`, `NoneIsNoRow`, `NoneIsNothing`, `NoneIsNoAnswer`, parts of
`ApprovalSets`, `StoreParameters`, `ComputerConfig`), that limits and clocks are numbers, and
that subsets and directories are what their names say (`ModesAreTyped`,
`ClockBounds`, `LimitsArePositive`, `AgentConfig`, `KnowledgeConfig`,
`DeskConfig`, `InsightsConfig`, `TargetsConfig`; the last has positive amounts
of transfers, which `_positive_money` enforces before it touches the balance). `LegacyKeys` is the one about data from
outside: the outcomes of a v1 learning store are under the key `record_run`
gives them. The migration copies keys as they are, so the code that wrote the
old rows must have kept it; that release is not in this repository.

**GovernedDispatchProofs.** `IInv` joins the types with `ThreadsBound` and
`AttemptsBound` (where an attempt or a thread stands determines what it has)
and `HoldersExclusive`: every thread past a claim has its permit in the ledger,
and no two such threads have the same. `SingleUse` alone is not inductive: it
says nothing of a thread that has claimed and not yet sent. From `IInv`:
`TypeCorrect` and `PermitSpentOnce`, replays included. With `~Replays`, `JInv`
adds `OneThread` (an attempt has one thread), `SentStates` and `ResultStates`
(which places are compatible with bytes sent, and which results with which
places of the thread) and `RetryDiscipline` (an attempt of a request begins
only when the others ended retryable). It gives `RefusalIsFinal`,
`OneEffectPerRequest`, `ExecutedOnlyWhenProven` and the refinement
`GovernedPathImplementsContract`. `FreshInv` carries the clock sample along the
thread and gives `SentOnFreshPermit`.

**DurableRunProofs.** The argument rests on the version. `CopyBehind` and
`CopyCurrent`: a worker's copy is never ahead of the store, and one with the
current version equals it. `InFlightHeld`: the worker in `execute()` is alone
and current. `Behind`, `PendingIsStep`: the steps whose tool was dispatched lie
behind the stored step, so a claim is always for a step never dispatched.
`Unmade`, `Recorded`, `TerminalStored`: what the store says of calls and
results is true. Lemmas about writing (`WriteStep`, `PersistStep`,
`FinishStep`) are used by one lemma per action. Theorems: `DurableTypeCorrect`,
`DispatchedOnce`, `OneTerminalResult`, `CompletedOnlyIfExecuted`,
`TerminalRecordIsFinal`, `InFlightUntouched`, `DurableRunObeysContract`.
Two more need invariants of their own. `NeverDispatchedLate`: every copy has the
stored expiry, and a worker's deadline is that expiry or already past
(`ExpiryKept`), so who comes to the claim began before it. `WithinToolBudget`:
the calls made are exactly the stored count plus the one in flight
(`BudgetInv`); that the count never exceeds the limit does not follow from the
limit being tested, since the test is made on a copy.

**ApprovalProofs, the inbox.** A call between the consumption of the approval and
the end of its handler (`Spends`) finds it consumed for its own digest
(`SpentIsConsumed`), and no second call of the request is there (`SpentOnce`).
`ApprovalRunsOnce` speaks only of handlers already entered, so a step from two
calls about to enter would break it. `ApprovalsBound` ties the approval to what
is parked and to the directory. Theorems: `InboxTypeCorrect`,
`ApprovedRunsOnce`, `EntriesWereApproved`, `ResultsAreHonest` and, over single
steps, `ApprovalsAreFinal`.

**ApprovalProofs, the store.** The table is the authority: a worker within its time is
the owner in the row with the expiry it was told, or the row has left the lease
cycle (`HolderIsCurrent`); from that follows `LeaseExclusive`, which alone does
not survive a lazy expiry. `ApproverListed` carries the directory test from
`approve` to the grant. Lemmas say what each transaction makes of a row.
Theorems: `StoreTypeCorrect`, `LeasesExclude`, `HoldersAreCurrent`,
`GrantedOnce`, `GrantsAreJustified`, `DeadEndsHold`.

**KnowledgeProofs.** Three facts carry them. The rows of a source in the durable
store are numbered without a gap (`Numbered`), so a revision that is still free
follows the row its writer read: `PublishFollowsRead`. Every moment of a
`retrieve()` is in its window (`Watched`): `HitsAreLive`. Every change of the
live chunks of a collection advances its revision and no other collection's
(`OneSource`, `WriterChanges`), so a reader whose key is still current has seen one
state of its collection only, and holds at every place what the searches of that
state give it (`OnCourse`): `CacheFollowsSearches`. Also `KnowledgeTypeCorrect` and
`OneEmbeddingProfile`. The graph is outside that argument, because other collections
change it without a revision: from the walk only its type is used, and the last
load is an answer whatever the walk added (`LoadedIsAnswer`).

**ComputerAgentProofs.** `CallOK` relates, for one call, its place in the
runtime, its request at the worker, how often the act was carried out and the
outcome; nothing is shared between calls but the pages, so one lemma lifts a
step of a call to all of them. It gives the refinement
`SessionImplementsContract`: a step of a session, client or worker's thread is
one of ExecutionContract, or a stutter. Every step of the composition is a step
of the session or leaves it alone, hence `AgentActsImplementContract`.
`AgentInv` adds that while the loop goes on, every call but the one it waits for
was EXECUTED, and what its status says of them when it has ended:
`RunsAccountForActs`.

**CompanyDeskProofs.** `StageOK`: a task reaches a handler only past its
decision, and the log names it only once its handler has written; it gives
`EffectsGoverned`. `BookInv` carries what validation compared to the handler
that reads it again (`BuyOK`), which holds because quotations and requisitions
are never changed once there (`Grows`), and that is so because a quotation's RFQ
was recorded or is about to be (`Recorded`) and is alone (`OneRfq`).
`BoughtAsApproved` therefore has the hypothesis `MaxRfqs <= 1`. It is needed:
two RFQs in progress is finding 2, and then a quotation can change between
approval and order.

**InsightsProofs.** The store is append-only (`Grows`), so what was found in it
stays true; `Sound` says that a key names one signal and that a run's outcome
has the run's key. `RecorderOK`: a recorder has written what it has passed, as
reported, through failures and retries. `ApprovalOK` and `ManagerOK`: stored
approvals rest on people's signals in their window, and a manager in the middle
of a compilation has only approvals of the store, verified since it began.
Theorems: `GuidanceIsOfPeople`, and `EachRunCountsOnce`, whose last part needs
that distinct outcomes of an agent are of distinct runs (`OutcomesAreRuns`, by a
bijection).

**TargetsProofs.** `IInv` has two halves. `StoreInv`: the objects of a target
number its receipts (`ListBooks`, `LedgerBooks`, `CrmBooks`), `_state_version`
counts its mutations (`Versioned`), and its receipts are of requests made to it,
one per key (`ReceiptsOK`). `ClientInv`: every message on the wire, every answer
and every effect is of what some caller asked, and a caller was told of an effect
only when it is stored (`MessageOK`, `ReplyOK`, `EffectOK`, `Verdict`); neither
`VerdictIsTrue` nor `OneOrderPerPurchase` speaks of what is still on the way, so
neither is inductive. The money needs what a fold computes for any set: the cents
moved (`Units`) are counted by a function with the fold's equation (`UnitsFold`),
and two such functions agree, since the subsets on which they differ would have a
smallest one (`FoldIsOne`, by the well-foundedness of strict inclusion). So one
more transfer adds its amount (`SumAdd`). `PurchasedOnce` maps each order to its
key, an injection into the keys asked under, which are finitely many because only
finitely many callers have ever asked. Theorems: `BooksAgree`, `VerdictsAreTrue`,
`PurchasedOnce`, and beyond the runs' properties `NeverOverdrawn` and
`EffectsAreFinal`.

Only model-checked:

* The liveness properties `ExecuteReturns` and `WorkerEnds`: liveness under
  fairness (and ENABLED) is outside what the provers do.
* The two runs that expect a violation; their counterexamples are the result.

Every safety property of a passing run has its theorem.

## 7. Not modelled, and why

Contents of messages, documents, signatures, certificates, pages and prompts;
canonical encodings; size limits (choices). Scores and the rendering of
knowledge; quote comparison, ERP extracts and proof bundles, which are functions
of their input files. Model providers, framework adapters, evaluation drivers
and their suites (`evaluation/`), configuration and command-line tools hold
little control state of their own. PrivateVault is external: it is modelled by
what the code accepts from it.

## 8. Plan

What is left: for the tables of CompanyDesk's other tools a theorem beyond
`EffectsGoverned`; the evaluation drivers, should they come to hold state of
their own. No module reaches a RECURSIVE operator, so all of them can be proved
about.
