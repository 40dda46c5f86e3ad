--------------------------- MODULE DurableRunProofs ---------------------------
(***************************************************************************)
(* Theorems about DurableRun, for any number of workers, any limits and    *)
(* any clock.  The argument rests on the version: a worker whose copy is   *)
(* current agrees with the store on everything (CopyCurrent), the worker   *)
(* inside execute() is alone and current (InFlightHeld), and the steps     *)
(* whose tool was dispatched are those the store has behind it (Behind).   *)
(***************************************************************************)
EXTENDS DurableRun, FiniteSetTheorems, TLAPS

\* Where a call of run() may stand.
Place == {"idle", "create", "top", "text", "tool", "invalid", "claim", "conflict", "execute",
          "record", "fold", "done"}

\* The worker holds a record it may still write.
Active == {"top", "text", "tool", "invalid", "claim", "execute", "record", "fold"}

\* Where the loop may stand, by the state of the record the worker holds.
PhaseOf(state) ==
  CASE state = "RUNNING"        -> {"top", "text", "tool", "invalid"}
    [] state = "TOOL_PREPARED"  -> {"top", "claim"}
    [] state = "TOOL_IN_FLIGHT" -> {"execute", "record"}
    [] state = "TOOL_COMPLETED" -> {"top", "fold"}
    [] OTHER                    -> {}

CopyBehind ==
  \A w \in Worker : pc[w] \in Active =>
    /\ store.state # "ABSENT"
    /\ ctx[w].version <= store.version
    /\ pc[w] \in PhaseOf(ctx[w].state)
    /\ pc[w] \in {"text", "tool", "invalid"} => ctx[w].next_step \in Step

CopyCurrent ==
  \A w \in Worker :
    /\ pc[w] \in Active \ {"record"} /\ ctx[w].version = store.version => ctx[w] = store
    /\ pc[w] = "record" =>
         /\ ctx[w].next_step = store.next_step
         /\ ctx[w].pending = store.pending
         /\ ctx[w].terminal = store.terminal
         /\ outcome[<<w, store.next_step>>].status = ctx[w].execution

InFlightHeld ==
  /\ \A w \in Worker : pc[w] \in {"execute", "record"} =>
       /\ store.state = "TOOL_IN_FLIGHT"
       /\ ctx[w].version = store.version
       /\ carried[<<w, store.next_step>>] = store.next_step
  /\ \A v, w \in Worker :
       pc[v] \in {"execute", "record"} /\ pc[w] \in {"execute", "record"} => v = w

PendingIsStep ==
  store.state \in {"TOOL_PREPARED", "TOOL_IN_FLIGHT", "TOOL_COMPLETED"} =>
    store.pending = store.next_step

\* A dispatched step lies behind the store's next_step, or is that step once
\* its tool was claimed.
Behind ==
  \A a \in Attempt : carried[a] # NoRequest =>
    /\ carried[a] = a[2]
    /\ store.state # "ABSENT"
    /\ \/ a[2] < store.next_step
       \/ /\ a[2] = store.next_step
          /\ store.state \in {"TOOL_IN_FLIGHT", "TOOL_COMPLETED"} \cup Terminal

\* Nothing is known of a call that was not made.
Unmade ==
  \A a \in Attempt : carried[a] = NoRequest =>
    outcome[a] = Contract!NoOutcome /\ ~effected[a]

\* What the store says of the calls that returned.
Recorded ==
  \A a \in Attempt : carried[a] # NoRequest =>
    /\ a[2] < store.next_step => outcome[a].status = "EXECUTED"
    /\ a[2] = store.next_step /\ store.state = "TOOL_COMPLETED" =>
         outcome[a].status = store.execution

TerminalStored ==
  /\ store.state \in Terminal <=> store.terminal \in RunStatus
  /\ \A w \in Worker : result[w] \in RunStatus => store.terminal = result[w]

IInv ==
  /\ TypeOK
  /\ CopyBehind
  /\ CopyCurrent
  /\ InFlightHeld
  /\ PendingIsStep
  /\ Behind
  /\ Unmade
  /\ Recorded
  /\ TerminalStored
  /\ OneDispatchPerRequest
  /\ CompletedMeansExecuted

-----------------------------------------------------------------------------
(* Facts about a worker and its copy *)

\* The outcomes of the contract are the execution statuses a record can hold.
LEMMA ContractNames ==
  /\ Contract!NoOutcome = [status |-> "NONE", retryable |-> FALSE]
  /\ \A o \in Contract!Outcome : o.status \in ExecutionStatus
BY DEF Contract!NoOutcome, Contract!Outcome, ExecutionStatus

\* No step is taken for the absent request_id.
LEMMA RequestsAreSteps == NoRequest \notin Step /\ Step \subseteq Nat \ {0}
BY LimitsArePositive DEF NoRequest, Step

\* A current worker outside execute() holds the store's own record, and
\* nobody is inside execute().
LEMMA CurrentHolder ==
  ASSUME IInv, NEW w \in Worker, pc[w] \in Active \ {"execute", "record"}, Current(w)
  PROVE  /\ ctx[w] = store
         /\ pc[w] \in PhaseOf(store.state)
         /\ store.state \in {"RUNNING", "TOOL_PREPARED", "TOOL_COMPLETED"}
         /\ \A v \in Worker : pc[v] \notin {"execute", "record"}
<1>1. ctx[w] = store
  BY DEF IInv, CopyCurrent, Current
<1>2. pc[w] \in PhaseOf(store.state)
  BY <1>1 DEF IInv, CopyBehind
<1>3. store.state \in {"RUNNING", "TOOL_PREPARED", "TOOL_COMPLETED"}
  BY <1>2 DEF PhaseOf
<1>4. QED
  BY <1>1, <1>2, <1>3 DEF IInv, InFlightHeld

\* A write makes every other copy stale.
LEMMA WriteMakesStale ==
  ASSUME IInv, NEW w \in Worker, Current(w), store'.version = ctx[w].version + 1,
         NEW v \in Worker, v # w, pc[v] \in Active
  PROVE  ctx[v].version < store'.version
<1>1. ctx[v].version \in Nat /\ store.version \in Nat
  BY DEF IInv, TypeOK, StoredRunRecord
<1>2. ctx[v].version <= store.version
  BY DEF IInv, CopyBehind
<1>3. QED
  BY <1>1, <1>2 DEF Current

\* The parts of TypeOK a call's end or a jump touches.
LEMMA EndTyped ==
  ASSUME TypeOK, NEW w \in Worker, NEW s \in Ends, End(w, s)
  PROVE  /\ pc' \in [Worker -> {"idle", "create", "top", "text", "tool", "invalid", "claim",
                        "conflict", "execute", "record", "fold", "done"}]
         /\ result' \in [Worker -> Ends \cup {"NONE"}]
BY DEF TypeOK, End

\* Writing a record changes its version only.
LEMMA NewVersion ==
  ASSUME NEW r \in StoredRunRecord, NEW n \in Nat
  PROVE  LET u == [r EXCEPT !.version = n + 1] IN
         /\ u \in StoredRunRecord
         /\ u.version = n + 1
         /\ u.state = r.state
         /\ u.next_step = r.next_step
         /\ u.pending = r.pending
         /\ u.execution = r.execution
         /\ u.terminal = r.terminal
         /\ u.expires_at = r.expires_at
BY DEF StoredRunRecord

\* finalize_durable_record yields a typed terminal record.
LEMMA FinalizedTyped ==
  ASSUME NEW r \in StoredRunRecord, NEW s \in RunStatus
  PROVE  /\ Finalized(r, s) \in StoredRunRecord
         /\ Finalized(r, s).state = TerminalState(s)
         /\ Finalized(r, s).terminal = s
         /\ Finalized(r, s).version = r.version
         /\ Finalized(r, s).next_step = r.next_step
<1>1. TerminalState(s) \in DurableRunState
  BY DEF TerminalState, DurableRunState, Terminal
<1>2. QED
  BY <1>1 DEF Finalized, StoredRunRecord

-----------------------------------------------------------------------------
(* One lemma per kind of step *)

\* A call ends without writing.
LEMMA StopStep ==
  ASSUME IInv, NEW w \in Worker, NEW s \in Ends, End(w, s),
         s \in RunStatus => store.terminal = s,
         UNCHANGED <<now, store, ctx, deadline, blocked, callVars>>,
         began' \in [Worker -> Nat]
  PROVE  IInv'
<1> USE DEF callVars
<1>1. TypeOK'
  BY EndTyped DEF IInv, TypeOK, Contract!TypeOK
<1>2. CopyBehind' /\ CopyCurrent'
  BY DEF IInv, TypeOK, End, CopyBehind, CopyCurrent, Active
<1>3. InFlightHeld'
  BY DEF IInv, TypeOK, End, InFlightHeld
<1>4. TerminalStored'
  BY DEF IInv, TypeOK, End, TerminalStored
<1>5. (PendingIsStep /\ Behind /\ Unmade /\ Recorded)'
  BY DEF IInv, PendingIsStep, Behind, Unmade, Recorded
<1>6. (OneDispatchPerRequest /\ CompletedMeansExecuted)'
  BY DEF IInv, OneDispatchPerRequest, CompletedMeansExecuted
<1>7. QED
  BY <1>1, <1>2, <1>3, <1>4, <1>5, <1>6 DEF IInv

\* A call ends by writing the terminal record of status s.
LEMMA FinishStep ==
  ASSUME IInv, NEW w \in Worker, NEW s \in RunStatus, Finish(w, s),
         pc[w] \in Active \ {"execute", "record"},
         s = "COMPLETED" => pc[w] = "text"
  PROVE  IInv'
<1> USE DEF callVars
<1>1. CASE ~Current(w)
  <2>1. End(w, "RAISED") /\ UNCHANGED <<now, store, ctx, deadline, blocked, callVars>>
    BY <1>1 DEF Finish
  <2>2. began' \in [Worker -> Nat]
    BY DEF Finish, IInv, TypeOK
  <2>3. QED
    BY <2>1, <2>2, StopStep DEF Ends, RunStatus
<1>2. CASE Current(w)
  <2>1. /\ ctx[w] = store
        /\ pc[w] \in PhaseOf(store.state)
        /\ store.state \in {"RUNNING", "TOOL_PREPARED", "TOOL_COMPLETED"}
        /\ \A v \in Worker : pc[v] \notin {"execute", "record"}
    BY <1>2, CurrentHolder
  <2>2. /\ store' = [Finalized(store, s) EXCEPT !.version = store.version + 1]
        /\ End(w, s)
        /\ UNCHANGED <<now, ctx, began, deadline, blocked, callVars>>
    BY <1>2, <2>1 DEF Finish
  <2>3. /\ store' \in StoredRunRecord
        /\ store'.state = TerminalState(s)
        /\ store'.terminal = s
        /\ store'.version = store.version + 1
        /\ store'.next_step = store.next_step
    <3>1. store \in StoredRunRecord /\ store.version \in Nat
      BY DEF IInv, TypeOK, StoredRunRecord
    <3>2. QED
      BY <2>2, <3>1, FinalizedTyped, NewVersion
  <2>4. store'.state \in Terminal
    BY <2>3 DEF TerminalState, Terminal
  <2>5. TypeOK'
    BY <2>2, <2>3, EndTyped DEF IInv, TypeOK, Ends, Contract!TypeOK
  <2>6. CopyBehind' /\ CopyCurrent'
    <3> SUFFICES ASSUME NEW v \in Worker, pc'[v] \in Active
                 PROVE  /\ v # w
                        /\ ctx[v].version < store'.version
                        /\ pc'[v] = pc[v]
                        /\ store'.state # "ABSENT"
      BY <2>1, <2>2, <2>5 DEF IInv, CopyBehind, CopyCurrent, TypeOK, StoredRunRecord, Active
    <3>1. v # w /\ pc'[v] = pc[v]
      BY <2>2 DEF End, IInv, TypeOK, Active
    <3>2. QED
      BY <2>1, <2>3, <2>4, <3>1, <1>2, WriteMakesStale DEF Terminal
  <2>7. InFlightHeld'
    BY <2>1, <2>2 DEF InFlightHeld, End, IInv, TypeOK
  <2>8. TerminalStored'
    BY <2>1, <2>2, <2>3, <2>4 DEF TerminalStored, End, IInv, TypeOK, Terminal, RunStatus
  <2>9. PendingIsStep' /\ Behind' /\ Unmade'
    BY <2>1, <2>2, <2>3, <2>4 DEF PendingIsStep, Behind, Unmade, IInv, Terminal
  <2>10. Recorded' /\ OneDispatchPerRequest'
    BY <2>2, <2>3, <2>4 DEF Recorded, OneDispatchPerRequest, IInv, Terminal
  <2>11. CompletedMeansExecuted'
    <3> SUFFICES ASSUME s = "COMPLETED", NEW a \in Attempt, carried[a] # NoRequest
                 PROVE  outcome[a].status = "EXECUTED"
      BY <2>2, <2>3 DEF CompletedMeansExecuted
    <3>1. store.state = "RUNNING"
      BY <2>1 DEF PhaseOf
    <3>2. a[2] < store.next_step
      BY <3>1 DEF IInv, Behind, Terminal
    <3>3. QED
      BY <3>2 DEF IInv, Recorded
  <2>12. QED
    BY <2>5, <2>6, <2>7, <2>8, <2>9, <2>10, <2>11 DEF IInv
<1>3. QED
  BY <1>1, <1>2

\* A current worker writes r and goes on at l: what holds whatever r is.
LEMMA WriteStep ==
  ASSUME IInv, NEW w \in Worker, Current(w), pc[w] \in Active,
         \A v \in Worker : v # w => pc[v] \notin {"execute", "record"},
         NEW r \in StoredRunRecord, NEW l \in Active \ {"record"},
         l \in PhaseOf(r.state),
         l \in {"text", "tool", "invalid"} => r.next_step \in Step,
         store' = [r EXCEPT !.version = ctx[w].version + 1],
         ctx' = [ctx EXCEPT ![w] = store'],
         Goto(w, l),
         UNCHANGED <<now, began, deadline, blocked, outcome, effected>>
  PROVE  /\ store' \in StoredRunRecord
         /\ store'.state = r.state /\ store'.next_step = r.next_step
         /\ store'.pending = r.pending /\ store'.execution = r.execution
         /\ store'.terminal = r.terminal
         /\ carried' \in [Attempt -> Step \cup {NoRequest}] => TypeOK'
         /\ CopyBehind'
         /\ CopyCurrent'
         /\ TerminalStored' <=> (r.state \in Terminal <=> r.terminal \in RunStatus)
<1>1. ctx[w].version \in Nat
  BY DEF IInv, TypeOK, StoredRunRecord
<1>2. /\ store' \in StoredRunRecord
      /\ store'.version = ctx[w].version + 1
      /\ store'.state = r.state /\ store'.next_step = r.next_step
      /\ store'.pending = r.pending /\ store'.execution = r.execution
      /\ store'.terminal = r.terminal
  BY <1>1, NewVersion
<1>3. /\ pc' = [pc EXCEPT ![w] = l]
      /\ pc'[w] = l /\ ctx'[w] = store'
      /\ \A v \in Worker : v # w => pc'[v] = pc[v] /\ ctx'[v] = ctx[v]
      /\ result' = result
  BY DEF Goto, IInv, TypeOK
<1>4. carried' \in [Attempt -> Step \cup {NoRequest}] => TypeOK'
  <2>1. pc' \in [Worker -> {"idle", "create", "top", "text", "tool", "invalid", "claim",
                        "conflict", "execute", "record", "fold", "done"}]
    BY <1>3 DEF IInv, TypeOK, Active
  <2>2. ctx' \in [Worker -> StoredRunRecord]
    BY <1>2 DEF IInv, TypeOK
  <2>3. QED
    BY <1>2, <1>3, <2>1, <2>2 DEF IInv, TypeOK, Contract!TypeOK
<1>5. CopyBehind'
  <2> SUFFICES ASSUME NEW v \in Worker, pc'[v] \in Active
               PROVE  /\ store'.state # "ABSENT"
                      /\ ctx'[v].version <= store'.version
                      /\ pc'[v] \in PhaseOf(ctx'[v].state)
                      /\ pc'[v] \in {"text", "tool", "invalid"} => ctx'[v].next_step \in Step
    BY DEF CopyBehind
  <2>0. store'.state # "ABSENT"
    BY <1>2 DEF PhaseOf
  <2>1. CASE v = w
    <3>1. ctx'[v] = store' /\ pc'[v] = l /\ store'.version <= store'.version
      BY <2>1, <1>1, <1>2, <1>3
    <3>2. l \in PhaseOf(store'.state)
      BY <1>2
    <3>3. l \in {"text", "tool", "invalid"} => store'.next_step \in Step
      BY <1>2
    <3>4. QED
      BY <2>0, <3>1, <3>2, <3>3
  <2>2. CASE v # w
    <3>1. ctx[v].version < store'.version
      BY <2>2, <1>2, <1>3, WriteMakesStale
    <3>2. ctx[v].version \in Nat /\ store'.version \in Nat
      BY <1>1, <1>2 DEF IInv, TypeOK, StoredRunRecord
    <3>3. QED
      BY <2>0, <2>2, <1>3, <3>1, <3>2 DEF IInv, CopyBehind
  <2>3. QED
    BY <2>1, <2>2
<1>6. CopyCurrent'
  <2> SUFFICES ASSUME NEW v \in Worker
               PROVE  /\ pc'[v] # "record"
                      /\ pc'[v] \in Active /\ ctx'[v].version = store'.version =>
                           ctx'[v] = store'
    BY DEF CopyCurrent
  <2>1. CASE v = w
    BY <2>1, <1>3
  <2>2. CASE v # w
    <3>1. pc[v] \in Active => ctx[v].version < store'.version
      BY <2>2, <1>2, WriteMakesStale
    <3>2. ctx[v].version \in Nat /\ store'.version \in Nat
      BY <1>1, <1>2 DEF IInv, TypeOK, StoredRunRecord
    <3>3. QED
      BY <2>2, <1>3, <3>1, <3>2
  <2>3. QED
    BY <2>1, <2>2
<1>7. store.terminal \notin RunStatus
  <2>1. store.state \notin Terminal
    <3>1. pc[w] # "record" => ctx[w] = store
      BY DEF IInv, CopyCurrent, Current
    <3>2. pc[w] \in PhaseOf(ctx[w].state)
      BY DEF IInv, CopyBehind
    <3>3. pc[w] = "record" => store.state = "TOOL_IN_FLIGHT"
      BY DEF IInv, InFlightHeld
    <3>4. QED
      BY <3>1, <3>2, <3>3 DEF PhaseOf, Terminal
  <2>2. QED
    BY <2>1 DEF IInv, TerminalStored
<1>8. \A v \in Worker : result[v] \notin RunStatus
  BY <1>7 DEF IInv, TerminalStored
<1>9. TerminalStored' <=> (r.state \in Terminal <=> r.terminal \in RunStatus)
  BY <1>2, <1>3, <1>8 DEF TerminalStored
<1>10. QED
  BY <1>2, <1>4, <1>5, <1>6, <1>9

\* A current worker outside execute() writes r, and no call is made.
LEMMA PersistStep ==
  ASSUME IInv, NEW w \in Worker, pc[w] \in Active,
         NEW r \in StoredRunRecord, NEW l \in Active \ {"execute", "record"},
         l \in PhaseOf(r.state),
         l \in {"text", "tool", "invalid"} => r.next_step \in Step,
         Current(w) =>
           /\ r.terminal \notin RunStatus
           /\ r.state \in {"TOOL_PREPARED", "TOOL_COMPLETED"} => r.pending = r.next_step
           /\ \A v \in Worker : v # w => pc[v] \notin {"execute", "record"}
           /\ \A a \in Attempt : carried[a] # NoRequest =>
                \/ /\ a[2] < r.next_step
                   /\ outcome[a].status = "EXECUTED"
                \/ /\ a[2] = r.next_step
                   /\ r.state = "TOOL_COMPLETED"
                   /\ outcome[a].status = r.execution,
         Persist(w, r, l),
         UNCHANGED <<now, began, deadline, blocked, callVars>>
  PROVE  IInv'
<1> USE DEF callVars
<1>1. CASE ~Current(w)
  <2>1. End(w, "RAISED") /\ UNCHANGED <<store, ctx>>
    BY <1>1 DEF Persist
  <2>2. began' \in [Worker -> Nat]
    BY DEF IInv, TypeOK
  <2>3. QED
    BY <2>1, <2>2, StopStep DEF Ends, RunStatus
<1>2. CASE Current(w)
  <2>1. /\ store' = [r EXCEPT !.version = ctx[w].version + 1]
        /\ ctx' = [ctx EXCEPT ![w] = store']
        /\ Goto(w, l)
    BY <1>2 DEF Persist
  <2>2. /\ store' \in StoredRunRecord
        /\ store'.state = r.state /\ store'.next_step = r.next_step
        /\ store'.pending = r.pending /\ store'.execution = r.execution
        /\ store'.terminal = r.terminal
        /\ carried' \in [Attempt -> Step \cup {NoRequest}] => TypeOK'
        /\ CopyBehind'
        /\ CopyCurrent'
        /\ TerminalStored' <=> (r.state \in Terminal <=> r.terminal \in RunStatus)
    BY <1>2, <2>1, WriteStep
  <2>3. TypeOK'
    BY <2>2 DEF IInv, TypeOK, Contract!TypeOK
  <2>4. InFlightHeld'
    BY <1>2, <2>1 DEF InFlightHeld, Goto, IInv, TypeOK
  <2>5. PendingIsStep'
    <3>1. r.state # "TOOL_IN_FLIGHT"
      BY DEF PhaseOf
    <3>2. QED
      BY <1>2, <2>2, <3>1 DEF PendingIsStep
  <2>6. Unmade' /\ OneDispatchPerRequest'
    BY DEF Unmade, OneDispatchPerRequest, IInv
  <2>7. Behind'
    <3>1. r.state # "ABSENT"
      BY DEF PhaseOf
    <3>2. QED
      BY <1>2, <2>2, <3>1 DEF Behind, IInv
  <2>8. Recorded'
    <3>1. ASSUME NEW a \in Attempt PROVE a[2] \in Nat /\ r.next_step \in Nat
      BY RequestsAreSteps DEF Attempt, StoredRunRecord
    <3>2. QED
      BY <1>2, <2>2, <3>1 DEF Recorded
  <2>9. CompletedMeansExecuted'
    BY <1>2, <2>2 DEF CompletedMeansExecuted, RunStatus
  <2>10. TerminalStored'
    <3>1. r.state \notin Terminal
      BY DEF PhaseOf, Terminal
    <3>2. QED
      BY <1>2, <2>2, <3>1
  <2>11. QED
    BY <2>2, <2>3, <2>4, <2>5, <2>6, <2>7, <2>8, <2>9, <2>10 DEF IInv
<1>3. QED
  BY <1>1, <1>2

\* What CopyBehind says of the record a worker holds.
LEMMA HeldRecord ==
  ASSUME IInv, NEW w \in Worker, pc[w] \in Active
  PROVE  /\ ctx[w] \in StoredRunRecord
         /\ pc[w] \in PhaseOf(ctx[w].state)
         /\ pc[w] \in {"text", "tool", "invalid"} => ctx[w].next_step \in Step
BY DEF IInv, TypeOK, CopyBehind

\* Persisting a model turn keeps the invariant.
LEMMA TurnStep ==
  ASSUME IInv, NEW w \in Worker, ModelTurn(w) PROVE IInv'
<1>1. PICK l \in {"text", "tool", "invalid"} :
        Persist(w, [ctx[w] EXCEPT !.model_turns = @ + 1], l)
  BY DEF ModelTurn
<1> DEFINE r == [ctx[w] EXCEPT !.model_turns = @ + 1]
<1>2. /\ pc[w] \in Active
      /\ ctx[w].state = "RUNNING"
      /\ ctx[w].next_step <= MaxModelTurns
  BY DEF ModelTurn, InLoop, Active
<1>3. /\ r \in StoredRunRecord
      /\ r.state = "RUNNING" /\ r.next_step = ctx[w].next_step
      /\ r.terminal = ctx[w].terminal
      /\ r.next_step \in Step
  BY <1>2, HeldRecord, LimitsArePositive DEF StoredRunRecord, Step
<1>4. ASSUME Current(w)
      PROVE  /\ ctx[w] = store
             /\ store.terminal \notin RunStatus
             /\ \A v \in Worker : v # w => pc[v] \notin {"execute", "record"}
             /\ \A a \in Attempt : carried[a] # NoRequest =>
                  a[2] < r.next_step /\ outcome[a].status = "EXECUTED"
  <2>1. pc[w] \in Active \ {"execute", "record"}
    BY <1>2 DEF ModelTurn, InLoop
  <2>2. /\ ctx[w] = store
        /\ \A v \in Worker : v # w => pc[v] \notin {"execute", "record"}
    BY <1>4, <2>1, CurrentHolder
  <2>3. store.terminal \notin RunStatus
    BY <2>2, <1>2 DEF IInv, TerminalStored, Terminal
  <2>4. \A a \in Attempt : carried[a] # NoRequest =>
                  a[2] < r.next_step /\ outcome[a].status = "EXECUTED"
    BY <2>2, <1>2, <1>3 DEF IInv, Behind, Recorded, Terminal
  <2>5. QED
    BY <2>2, <2>3, <2>4
<1>5. l \in Active \ {"execute", "record"} /\ l \in PhaseOf(r.state)
  BY <1>3 DEF PhaseOf, Active
<1>6. Persist(w, r, l) /\ UNCHANGED <<now, began, deadline, blocked, callVars>>
  BY <1>1 DEF ModelTurn
<1> HIDE DEF r
<1>7. QED
  BY <1>2, <1>3, <1>4, <1>5, <1>6, PersistStep

\* The step of a prepared, claimed or completed tool is a step of the loop.
LEMMA PendingStep ==
  ASSUME IInv, store.state \in {"TOOL_PREPARED", "TOOL_IN_FLIGHT", "TOOL_COMPLETED"}
  PROVE  store.pending = store.next_step /\ store.next_step \in Step
BY DEF IInv, TypeOK, StoredRunRecord, PendingIsStep, NoRequest

\* Persisting TOOL_PREPARED keeps the invariant.
LEMMA PrepareStep ==
  ASSUME IInv, NEW w \in Worker, Prepare(w) PROVE IInv'
<1> DEFINE r == [ctx[w] EXCEPT !.state = "TOOL_PREPARED", !.pending = ctx[w].next_step]
<1>1. pc[w] = "tool" /\ pc[w] \in Active
  BY DEF Prepare, Active
<1>2. ctx[w] \in StoredRunRecord /\ ctx[w].state = "RUNNING" /\ ctx[w].next_step \in Step
  BY <1>1, HeldRecord DEF PhaseOf
<1>3. /\ r \in StoredRunRecord
      /\ r.state = "TOOL_PREPARED" /\ r.next_step = ctx[w].next_step
      /\ r.pending = r.next_step /\ r.terminal = ctx[w].terminal
  BY <1>2 DEF StoredRunRecord, DurableRunState
<1>4. ASSUME Current(w)
      PROVE  /\ r.terminal \notin RunStatus
             /\ \A v \in Worker : v # w => pc[v] \notin {"execute", "record"}
             /\ \A a \in Attempt : carried[a] # NoRequest =>
                  a[2] < r.next_step /\ outcome[a].status = "EXECUTED"
  <2>1. /\ ctx[w] = store
        /\ \A v \in Worker : v # w => pc[v] \notin {"execute", "record"}
    BY <1>1, <1>4, CurrentHolder
  <2>2. r.terminal \notin RunStatus
    BY <2>1, <1>2, <1>3 DEF IInv, TerminalStored, Terminal
  <2>3. \A a \in Attempt : carried[a] # NoRequest =>
                  a[2] < r.next_step /\ outcome[a].status = "EXECUTED"
    BY <2>1, <1>2, <1>3 DEF IInv, Behind, Recorded, Terminal
  <2>4. QED
    BY <2>1, <2>2, <2>3
<1>5. "claim" \in Active \ {"execute", "record"} /\ "claim" \in PhaseOf(r.state)
  BY <1>3 DEF PhaseOf, Active
<1>6. Persist(w, r, "claim") /\ UNCHANGED <<now, began, deadline, blocked, callVars>>
  BY DEF Prepare
<1> HIDE DEF r
<1>7. QED
  BY <1>1, <1>3, <1>4, <1>5, <1>6, PersistStep

\* Folding an observation and advancing the step keeps the invariant.
LEMMA FoldStep ==
  ASSUME IInv, NEW w \in Worker, Fold(w) PROVE IInv'
<1> DEFINE r == [ctx[w] EXCEPT !.state = "RUNNING", !.next_step = @ + 1,
                               !.pending = NoRequest, !.execution = "NONE"]
<1>1. pc[w] = "fold" /\ pc[w] \in Active /\ ctx[w].execution = "EXECUTED"
  BY DEF Fold, Active
<1>2. ctx[w] \in StoredRunRecord /\ ctx[w].state = "TOOL_COMPLETED"
  BY <1>1, HeldRecord DEF PhaseOf
<1>3. /\ r \in StoredRunRecord
      /\ r.state = "RUNNING" /\ r.next_step = ctx[w].next_step + 1
      /\ r.terminal = ctx[w].terminal
  <2>1. ctx[w].next_step \in Nat \ {0}
    BY <1>2 DEF StoredRunRecord
  <2>2. ctx[w].next_step + 1 \in Nat \ {0} /\ "RUNNING" \in DurableRunState
    BY <2>1 DEF DurableRunState
  <2>3. QED
    BY <1>2, <2>2 DEF StoredRunRecord
<1>4. ASSUME Current(w)
      PROVE  /\ r.terminal \notin RunStatus
             /\ \A v \in Worker : v # w => pc[v] \notin {"execute", "record"}
             /\ \A a \in Attempt : carried[a] # NoRequest =>
                  a[2] < r.next_step /\ outcome[a].status = "EXECUTED"
  <2>1. /\ ctx[w] = store
        /\ \A v \in Worker : v # w => pc[v] \notin {"execute", "record"}
    BY <1>1, <1>4, CurrentHolder
  <2>2. r.terminal \notin RunStatus
    BY <2>1, <1>2, <1>3 DEF IInv, TerminalStored, Terminal
  <2>3. \A a \in Attempt : carried[a] # NoRequest =>
                  a[2] < r.next_step /\ outcome[a].status = "EXECUTED"
    <3> SUFFICES ASSUME NEW a \in Attempt, carried[a] # NoRequest
                 PROVE  a[2] < r.next_step /\ outcome[a].status = "EXECUTED"
      OBVIOUS
    <3>1. a[2] \in Nat /\ store.next_step \in Nat
      BY RequestsAreSteps DEF Attempt, IInv, TypeOK, StoredRunRecord
    <3>2. a[2] < store.next_step \/ a[2] = store.next_step
      BY DEF IInv, Behind
    <3>3. outcome[a].status = "EXECUTED"
      BY <3>2, <2>1, <1>1, <1>2 DEF IInv, Recorded
    <3>4. r.next_step = store.next_step + 1
      BY <1>3, <2>1
    <3> HIDE DEF r
    <3>5. QED
      BY <3>1, <3>2, <3>3, <3>4
  <2>4. QED
    BY <2>1, <2>2, <2>3
<1>5. "top" \in Active \ {"execute", "record"} /\ "top" \in PhaseOf(r.state)
  BY <1>3 DEF PhaseOf, Active
<1>6. Persist(w, r, "top") /\ UNCHANGED <<now, began, deadline, blocked, callVars>>
  BY DEF Fold
<1> HIDE DEF r
<1>7. r.state \notin {"TOOL_PREPARED", "TOOL_COMPLETED"}
  BY <1>3
<1>8. QED
  BY <1>1, <1>3, <1>4, <1>5, <1>6, <1>7, PersistStep

\* Recording what execute() returned keeps the invariant.
LEMMA CompleteStep ==
  ASSUME IInv, NEW w \in Worker, Complete(w) PROVE IInv'
<1> DEFINE r == [ctx[w] EXCEPT !.state = "TOOL_COMPLETED"]
<1>1. pc[w] = "record" /\ pc[w] \in Active
  BY DEF Complete, Active
<1>2. /\ store.state = "TOOL_IN_FLIGHT"
      /\ carried[<<w, store.next_step>>] = store.next_step
      /\ \A v \in Worker : v # w => pc[v] \notin {"execute", "record"}
  BY <1>1 DEF IInv, InFlightHeld
<1>3. /\ ctx[w] \in StoredRunRecord
      /\ ctx[w].next_step = store.next_step
      /\ ctx[w].pending = store.pending
      /\ ctx[w].terminal = store.terminal
      /\ outcome[<<w, store.next_step>>].status = ctx[w].execution
  BY <1>1, HeldRecord DEF IInv, CopyCurrent
<1>4. store.pending = store.next_step /\ store.next_step \in Step
  BY <1>2, PendingStep
<1>5. /\ r \in StoredRunRecord
      /\ r.state = "TOOL_COMPLETED" /\ r.next_step = store.next_step
      /\ r.pending = r.next_step /\ r.terminal = store.terminal
      /\ r.execution = ctx[w].execution
  BY <1>3, <1>4 DEF StoredRunRecord, DurableRunState
<1>6. r.terminal \notin RunStatus
  BY <1>2, <1>5 DEF IInv, TerminalStored, Terminal
<1> HIDE DEF r
<1>7. \A a \in Attempt : carried[a] # NoRequest =>
        \/ a[2] < r.next_step /\ outcome[a].status = "EXECUTED"
        \/ /\ a[2] = r.next_step
           /\ r.state = "TOOL_COMPLETED"
           /\ outcome[a].status = r.execution
  <2> SUFFICES ASSUME NEW a \in Attempt, carried[a] # NoRequest,
                      a[2] = store.next_step
               PROVE  outcome[a].status = r.execution
    BY <1>5 DEF IInv, Behind, Recorded
  <2>1. <<w, store.next_step>> \in Attempt
    BY <1>4 DEF Attempt
  <2>2. carried[a] = carried[<<w, store.next_step>>]
    BY <1>2 DEF IInv, Behind
  <2>3. a = <<w, store.next_step>>
    BY <2>1, <2>2 DEF IInv, OneDispatchPerRequest
  <2>4. QED
    BY <2>3, <1>3, <1>5
<1>8. "fold" \in Active \ {"execute", "record"} /\ "fold" \in PhaseOf(r.state)
  BY <1>5 DEF PhaseOf, Active
<1>9. Persist(w, r, "fold") /\ UNCHANGED <<now, began, deadline, blocked, callVars>>
  BY DEF Complete, r
<1>10. QED
  BY <1>1, <1>2, <1>5, <1>6, <1>7, <1>8, <1>9, PersistStep

\* A worker moves on without touching the store or its copy.
LEMMA AdvanceStep ==
  ASSUME IInv, NEW w \in Worker, pc[w] \in Active \ {"execute", "record"},
         NEW l \in {"claim", "fold", "conflict"},
         l \in Active => l \in PhaseOf(ctx[w].state),
         Goto(w, l), UNCHANGED <<now, store, ctx, began, deadline, blocked, callVars>>
  PROVE  IInv'
<1> USE DEF callVars
<1>1. TypeOK'
  BY DEF IInv, TypeOK, Goto, Contract!TypeOK
<1>2. CopyBehind' /\ CopyCurrent'
  BY DEF IInv, TypeOK, Goto, CopyBehind, CopyCurrent, Active
<1>3. InFlightHeld' /\ TerminalStored'
  BY DEF IInv, TypeOK, Goto, InFlightHeld, TerminalStored
<1>4. (PendingIsStep /\ Behind /\ Unmade /\ Recorded)'
  BY DEF IInv, PendingIsStep, Behind, Unmade, Recorded
<1>5. (OneDispatchPerRequest /\ CompletedMeansExecuted)'
  BY DEF IInv, OneDispatchPerRequest, CompletedMeansExecuted
<1>6. QED
  BY <1>1, <1>2, <1>3, <1>4, <1>5 DEF IInv

\* claim_tool_dispatch: the next step was dispatched by nobody yet.
LEMMA ClaimStep ==
  ASSUME IInv, NEW w \in Worker, Claim(w) PROVE IInv'
<1> USE DEF callVars
<1>1. pc[w] = "claim" /\ pc[w] \in Active \ {"execute", "record"}
  BY DEF Claim, Active
<1>2. CASE ~Claimable(w)
  BY <1>1, <1>2, AdvanceStep DEF Claim, Active
<1>3. CASE Claimable(w)
  <2> DEFINE r == [store EXCEPT !.state = "TOOL_IN_FLIGHT"]
             c == <<w, store.next_step>>
  <2>1. Current(w) /\ store.state = "TOOL_PREPARED"
    BY <1>3 DEF Claimable, Current
  <2>2. /\ ctx[w] = store
        /\ \A v \in Worker : pc[v] \notin {"execute", "record"}
    BY <1>1, <2>1, CurrentHolder
  <2>3. store.pending = store.next_step /\ store.next_step \in Step /\ c \in Attempt
    BY <2>1, PendingStep DEF Attempt
  <2>4. store \in StoredRunRecord
    BY DEF IInv, TypeOK
  <2>5. /\ r \in StoredRunRecord
        /\ r.state = "TOOL_IN_FLIGHT" /\ r.next_step = store.next_step
        /\ r.pending = store.pending /\ r.terminal = store.terminal
        /\ [r EXCEPT !.version = store.version + 1]
             = [store EXCEPT !.state = "TOOL_IN_FLIGHT", !.version = @ + 1]
    BY <2>4 DEF StoredRunRecord, DurableRunState
  <2>6. /\ store' = [r EXCEPT !.version = ctx[w].version + 1]
        /\ ctx' = [ctx EXCEPT ![w] = store']
        /\ carried' = [carried EXCEPT ![c] = store.next_step]
        /\ Goto(w, "execute")
        /\ UNCHANGED <<now, began, deadline, blocked, outcome, effected>>
    BY <1>3, <2>2, <2>3, <2>5 DEF Claim
  <2> HIDE DEF r
  <2>7. "execute" \in Active \ {"record"} /\ "execute" \in PhaseOf(r.state)
    BY <2>5 DEF PhaseOf, Active
  <2>8. /\ store'.state = r.state /\ store'.next_step = r.next_step
        /\ store'.pending = r.pending /\ store'.terminal = r.terminal
        /\ carried' \in [Attempt -> Step \cup {NoRequest}] => TypeOK'
        /\ CopyBehind'
        /\ CopyCurrent'
        /\ TerminalStored' <=> (r.state \in Terminal <=> r.terminal \in RunStatus)
    BY <1>1, <2>1, <2>2, <2>5, <2>6, <2>7, WriteStep, ZenonT(60)
  <2>9. /\ carried \in [Attempt -> Step \cup {NoRequest}]
        /\ carried' \in [Attempt -> Step \cup {NoRequest}]
    BY <2>3, <2>6 DEF IInv, TypeOK, Contract!TypeOK
  <2>10. store.terminal \notin RunStatus
    BY <2>1 DEF IInv, TerminalStored, Terminal
  <2>11. TerminalStored' /\ CompletedMeansExecuted'
    BY <2>5, <2>8, <2>10 DEF Terminal, CompletedMeansExecuted, RunStatus
  <2>12. \A a \in Attempt : carried[a] # NoRequest =>
           carried[a] = a[2] /\ a[2] < store.next_step /\ outcome[a].status = "EXECUTED"
    BY <2>1 DEF IInv, Behind, Recorded, Terminal
  <2>13. c[2] = store.next_step /\ store.next_step \in Nat /\ store.next_step # NoRequest
    BY <2>3, RequestsAreSteps
  <2>14. \A a \in Attempt :
           carried'[a] = IF a = c THEN store.next_step ELSE carried[a]
    BY <2>3, <2>6, <2>9
  <2>15. carried[c] = NoRequest
    BY <2>12, <2>13, <2>3
  <2> HIDE DEF c
  <2>16. Behind'
    BY <2>5, <2>8, <2>12, <2>13, <2>14 DEF Behind
  <2>17. Unmade'
    BY <2>6, <2>13, <2>14 DEF Unmade, IInv
  <2>18. Recorded'
    BY <2>5, <2>6, <2>8, <2>12, <2>13, <2>14 DEF Recorded
  <2>19. OneDispatchPerRequest'
    <3> SUFFICES ASSUME NEW a \in Attempt, NEW b \in Attempt,
                        carried'[a] # NoRequest, carried'[a] = carried'[b]
                 PROVE  a = b
      BY DEF OneDispatchPerRequest
    <3>1. a # c /\ b # c => a = b
      BY <2>14 DEF IInv, OneDispatchPerRequest
    <3>2. a = c /\ b # c => FALSE
      BY <2>12, <2>13, <2>14
    <3>3. a # c /\ b = c => FALSE
      BY <2>12, <2>13, <2>14
    <3>4. QED
      BY <3>1, <3>2, <3>3
  <2>20. PendingIsStep'
    BY <2>3, <2>5, <2>8 DEF PendingIsStep
  <2>21. InFlightHeld'
    <3>1. /\ pc'[w] = "execute" /\ ctx'[w] = store'
          /\ \A v \in Worker : v # w => pc'[v] \notin {"execute", "record"}
      BY <2>2, <2>6 DEF Goto, IInv, TypeOK
    <3>2. carried'[<<w, store'.next_step>>] = store'.next_step
      BY <2>3, <2>5, <2>8, <2>14 DEF c
    <3>3. QED
      BY <2>5, <2>8, <3>1, <3>2 DEF InFlightHeld
  <2>22. QED
    BY <2>8, <2>9, <2>11, <2>16, <2>17, <2>18, <2>19, <2>20, <2>21 DEF IInv
<1>4. QED
  BY <1>2, <1>3

\* execute() returns: only the call's own outcome and copy change.
LEMMA ExecuteStep ==
  ASSUME IInv, NEW w \in Worker, NEW o \in Contract!Outcome, Execute(w, o) PROVE IInv'
<1> USE DEF callVars
<1> DEFINE c == <<w, store.next_step>>
<1>1. pc[w] = "execute" /\ pc[w] \in Active
  BY DEF Execute, Active
<1>2. /\ store.state = "TOOL_IN_FLIGHT" /\ ctx[w].version = store.version
      /\ \A v \in Worker : v # w => pc[v] \notin {"execute", "record"}
      /\ carried[c] = store.next_step
  BY <1>1 DEF IInv, InFlightHeld
<1>3. ctx[w] = store
  BY <1>1, <1>2 DEF IInv, CopyCurrent
<1>4. store.next_step \in Step /\ c \in Attempt
  BY <1>2, PendingStep DEF Attempt
<1>5. /\ outcome[c] = Contract!NoOutcome
      /\ outcome' = [outcome EXCEPT ![c] = o]
      /\ UNCHANGED <<now, store, began, deadline, blocked, carried, effected, result>>
      /\ pc' = [pc EXCEPT ![w] = "record"]
      /\ ctx' = [ctx EXCEPT ![w] = [ctx[w] EXCEPT !.tool_calls = @ + 1, !.execution = o.status]]
  BY <1>3 DEF Execute, Contract!Return, Goto, IInv, TypeOK
<1>6. o.status \in ExecutionStatus
  BY ContractNames
<1>7. store \in StoredRunRecord
  BY DEF IInv, TypeOK
<1> DEFINE u == [ctx[w] EXCEPT !.tool_calls = @ + 1, !.execution = o.status]
<1>8. /\ u \in StoredRunRecord
      /\ u.version = store.version /\ u.state = "TOOL_IN_FLIGHT"
      /\ u.next_step = store.next_step /\ u.pending = store.pending
      /\ u.terminal = store.terminal /\ u.execution = o.status
  <2>1. store.tool_calls + 1 \in Nat
    BY <1>7 DEF StoredRunRecord
  <2>2. u = [store EXCEPT !.tool_calls = store.tool_calls + 1, !.execution = o.status]
    BY <1>3
  <2>3. QED
    BY <1>2, <1>6, <1>7, <2>1, <2>2 DEF StoredRunRecord
<1>9. /\ pc'[w] = "record" /\ ctx'[w] = u
      /\ \A v \in Worker : v # w => pc'[v] = pc[v] /\ ctx'[v] = ctx[v]
  BY <1>5 DEF IInv, TypeOK
<1>10. /\ outcome'[c] = o
       /\ \A a \in Attempt : a # c => outcome'[a] = outcome[a]
  BY <1>4, <1>5 DEF IInv, TypeOK, Contract!TypeOK
<1>11. ctx' \in [Worker -> StoredRunRecord]
  BY <1>5, <1>8 DEF IInv, TypeOK
<1> HIDE DEF u, c
<1>12. TypeOK'
  <2>1. outcome' \in [Attempt -> Contract!Outcome \cup {Contract!NoOutcome}]
    BY <1>4, <1>5 DEF IInv, TypeOK, Contract!TypeOK
  <2>2. pc' \in [Worker -> {"idle", "create", "top", "text", "tool", "invalid", "claim",
                        "conflict", "execute", "record", "fold", "done"}]
    BY <1>5 DEF IInv, TypeOK
  <2>3. QED
    BY <1>5, <1>11, <2>1, <2>2 DEF IInv, TypeOK, Contract!TypeOK
<1>13. CopyBehind'
  <2>1. "record" \in PhaseOf(u.state)
    BY <1>8 DEF PhaseOf
  <2>2. store.version <= store.version
    BY <1>7 DEF StoredRunRecord
  <2>3. QED
    BY <1>2, <1>5, <1>8, <1>9, <2>1, <2>2, ZenonT(60) DEF IInv, CopyBehind
<1>14. CopyCurrent'
  <2> SUFFICES ASSUME NEW v \in Worker
               PROVE  /\ pc'[v] \in Active \ {"record"} /\ ctx'[v].version = store'.version =>
                           ctx'[v] = store'
                      /\ pc'[v] = "record" =>
                           /\ ctx'[v].next_step = store'.next_step
                           /\ ctx'[v].pending = store'.pending
                           /\ ctx'[v].terminal = store'.terminal
                           /\ outcome'[<<v, store'.next_step>>].status = ctx'[v].execution
    BY DEF CopyCurrent
  <2>1. CASE v = w
    BY <1>5, <1>8, <1>9, <1>10, <2>1, ZenonT(60) DEF c
  <2>2. CASE v # w
    BY <1>2, <1>5, <1>9, <2>2 DEF IInv, CopyCurrent
  <2>3. QED
    BY <2>1, <2>2
<1>15. InFlightHeld'
  BY <1>2, <1>5, <1>8, <1>9 DEF InFlightHeld, c
<1>16. (PendingIsStep /\ Behind /\ TerminalStored /\ OneDispatchPerRequest)'
  BY <1>5 DEF IInv, PendingIsStep, Behind, TerminalStored, OneDispatchPerRequest
<1>17. Unmade'
  BY <1>2, <1>4, <1>5, <1>10, RequestsAreSteps DEF IInv, Unmade
<1>18. Recorded'
  <2>1. c[2] = store.next_step /\ store.next_step \in Nat
    BY <1>4, RequestsAreSteps DEF c
  <2>2. QED
    BY <1>2, <1>5, <1>10, <2>1 DEF IInv, Recorded
<1>19. CompletedMeansExecuted'
  BY <1>2, <1>5 DEF IInv, TerminalStored, CompletedMeansExecuted, Terminal, RunStatus
<1>20. QED
  BY <1>12, <1>13, <1>14, <1>15, <1>16, <1>17, <1>18, <1>19 DEF IInv

\* run() loads the record, ends at once or enters the loop with it.
LEMMA LoadStep ==
  ASSUME IInv, NEW w \in Worker, Load(w) PROVE IInv'
<1> USE DEF callVars
<1>1. /\ pc[w] = "idle"
      /\ began' \in [Worker -> Nat]
      /\ UNCHANGED <<now, store, callVars>>
  BY DEF Load, IInv, TypeOK
<1>2. CASE Enter(w, store) /\ store.state \in {"RUNNING", "TOOL_PREPARED", "TOOL_COMPLETED"}
  <2>1. /\ pc' = [pc EXCEPT ![w] = "top"] /\ UNCHANGED result
        /\ ctx' = [ctx EXCEPT ![w] = store]
    BY <1>2 DEF Enter, Goto
  <2>2. TypeOK'
    <3>1. deadline' \in [Worker -> Nat]
      BY <1>2 DEF Enter, IInv, TypeOK, StoredRunRecord
    <3>2. blocked' \in [Worker -> BOOLEAN]
      BY <1>2, Zenon DEF Enter, IInv, TypeOK
    <3>3. QED
      BY <1>1, <2>1, <3>1, <3>2 DEF IInv, TypeOK, Contract!TypeOK
  <2>3. /\ pc'[w] = "top" /\ ctx'[w] = store
        /\ \A v \in Worker : v # w => pc'[v] = pc[v] /\ ctx'[v] = ctx[v]
    BY <2>1 DEF IInv, TypeOK
  <2>4. CopyBehind'
    <3>1. "top" \in PhaseOf(store.state) /\ store.state # "ABSENT"
      BY <1>2 DEF PhaseOf
    <3>2. store.version <= store.version
      BY DEF IInv, TypeOK, StoredRunRecord
    <3>3. QED
      BY <1>1, <2>3, <3>1, <3>2 DEF IInv, CopyBehind
  <2>5. CopyCurrent' /\ InFlightHeld'
    BY <1>1, <2>3 DEF IInv, CopyCurrent, InFlightHeld
  <2>6. TerminalStored'
    BY <1>1, <2>1 DEF IInv, TerminalStored
  <2>7. (PendingIsStep /\ Behind /\ Unmade /\ Recorded)'
    BY <1>1 DEF IInv, PendingIsStep, Behind, Unmade, Recorded
  <2>8. (OneDispatchPerRequest /\ CompletedMeansExecuted)'
    BY <1>1 DEF IInv, OneDispatchPerRequest, CompletedMeansExecuted
  <2>9. QED
    BY <2>2, <2>4, <2>5, <2>6, <2>7, <2>8 DEF IInv
<1>3. CASE Goto(w, "create") /\ UNCHANGED <<ctx, deadline, blocked>>
  <2>1. TypeOK'
    BY <1>1, <1>3 DEF Goto, IInv, TypeOK, Contract!TypeOK
  <2>2. CopyBehind' /\ CopyCurrent'
    BY <1>1, <1>3 DEF Goto, IInv, TypeOK, CopyBehind, CopyCurrent, Active
  <2>3. InFlightHeld' /\ TerminalStored'
    BY <1>1, <1>3 DEF Goto, IInv, TypeOK, InFlightHeld, TerminalStored
  <2>4. (PendingIsStep /\ Behind /\ Unmade /\ Recorded)'
    BY <1>1 DEF IInv, PendingIsStep, Behind, Unmade, Recorded
  <2>5. (OneDispatchPerRequest /\ CompletedMeansExecuted)'
    BY <1>1 DEF IInv, OneDispatchPerRequest, CompletedMeansExecuted
  <2>6. QED
    BY <2>1, <2>2, <2>3, <2>4, <2>5 DEF IInv
<1>4. CASE \E s \in Ends : /\ End(w, s) /\ UNCHANGED <<ctx, deadline, blocked>>
                           /\ s \in RunStatus => store.terminal = s
  BY <1>1, <1>4, StopStep
<1>5. store.state \in Terminal => store.terminal \in RunStatus
  BY DEF IInv, TerminalStored
<1>6. QED
  BY <1>2, <1>3, <1>4, <1>5 DEF Load, Ends, RunStatus

\* run() creates the record.
LEMMA CreateStep ==
  ASSUME IInv, NEW w \in Worker, Create(w) PROVE IInv'
<1> USE DEF callVars
<1>1. pc[w] = "create" /\ UNCHANGED <<now, began, callVars>>
  BY DEF Create
<1>2. began' \in [Worker -> Nat] /\ began[w] \in Nat
  BY <1>1 DEF IInv, TypeOK
<1>3. CASE store.state # "ABSENT"
  BY <1>1, <1>2, <1>3, StopStep DEF Create, Ends, RunStatus
<1>4. CASE store.state = "ABSENT"
  <2> DEFINE r == NewRunningRecord(began[w])
  <2>1. /\ r \in StoredRunRecord
        /\ r.state = "RUNNING" /\ r.terminal = "NONE" /\ r.version = 0 /\ r.next_step = 1
    <3>1. NoRecord \in StoredRunRecord
      BY RequestsAreSteps DEF NoRecord, StoredRunRecord, DurableRunState
    <3>2. began[w] + Timeout \in Nat
      BY <1>2, LimitsArePositive
    <3>3. QED
      BY <3>1, <3>2 DEF NewRunningRecord, NoRecord, StoredRunRecord, DurableRunState
  <2>2. /\ store' = r
        /\ pc' = [pc EXCEPT ![w] = "top"] /\ UNCHANGED result
        /\ ctx' = [ctx EXCEPT ![w] = r]
        /\ Enter(w, r)
    BY <1>4 DEF Create, Enter, Goto
  <2> HIDE DEF r
  <2>3. TypeOK'
    <3>1. deadline' \in [Worker -> Nat]
      BY <2>1, <2>2 DEF Enter, IInv, TypeOK, StoredRunRecord
    <3>2. blocked' \in [Worker -> BOOLEAN]
      BY <2>2, Zenon DEF Enter, IInv, TypeOK
    <3>3. QED
      BY <1>1, <2>1, <2>2, <3>1, <3>2 DEF IInv, TypeOK, Contract!TypeOK
  <2>4. \A v \in Worker : pc[v] \notin Active
    BY <1>4 DEF IInv, CopyBehind
  <2>5. \A a \in Attempt : carried[a] = NoRequest
    BY <1>4 DEF IInv, Behind
  <2>6. \A v \in Worker : result[v] \notin RunStatus
    BY <1>4 DEF IInv, TerminalStored, Terminal
  <2>7. /\ pc'[w] = "top" /\ ctx'[w] = r
        /\ \A v \in Worker : v # w => pc'[v] = pc[v] /\ ctx'[v] = ctx[v]
    BY <2>2 DEF IInv, TypeOK
  <2>8. CopyBehind' /\ CopyCurrent' /\ InFlightHeld'
    <3>1. "top" \in PhaseOf(r.state)
      BY <2>1 DEF PhaseOf
    <3>2. QED
      BY <2>1, <2>2, <2>4, <2>7, <3>1 DEF CopyBehind, CopyCurrent, InFlightHeld, Active
  <2>9. TerminalStored' /\ PendingIsStep' /\ CompletedMeansExecuted'
    BY <2>1, <2>2, <2>6 DEF TerminalStored, PendingIsStep, CompletedMeansExecuted, Terminal,
                            RunStatus
  <2>10. (Behind /\ Unmade /\ Recorded /\ OneDispatchPerRequest)'
    BY <1>1, <2>5 DEF IInv, Behind, Unmade, Recorded, OneDispatchPerRequest
  <2>11. QED
    BY <2>3, <2>8, <2>9, <2>10 DEF IInv
<1>5. QED
  BY <1>3, <1>4

\* Neither the clock nor a call's effect touches what the workers rely on.
LEMMA QuietStep ==
  ASSUME IInv, now' \in Nat, UNCHANGED <<store, workerVars, carried, outcome>>,
         effected' \in [Attempt -> BOOLEAN],
         \A a \in Attempt : carried[a] = NoRequest => effected'[a] = effected[a]
  PROVE  IInv'
<1> USE DEF workerVars
<1>1. TypeOK'
  BY DEF IInv, TypeOK, Contract!TypeOK
<1>2. (CopyBehind /\ CopyCurrent /\ InFlightHeld /\ TerminalStored)'
  BY DEF IInv, CopyBehind, CopyCurrent, InFlightHeld, TerminalStored
<1>3. (PendingIsStep /\ Behind /\ Recorded)'
  BY DEF IInv, PendingIsStep, Behind, Recorded
<1>4. (OneDispatchPerRequest /\ CompletedMeansExecuted)'
  BY DEF IInv, OneDispatchPerRequest, CompletedMeansExecuted
<1>5. Unmade'
  BY DEF IInv, Unmade
<1>6. QED
  BY <1>1, <1>2, <1>3, <1>4, <1>5 DEF IInv

\* An external effect, however late, keeps the invariant.
LEMMA EffectStep ==
  ASSUME IInv, NEW a \in Attempt, Effect(a) PROVE IInv'
<1>1. effected' \in [Attempt -> BOOLEAN]
  BY Zenon DEF Effect, Contract!Effect, IInv, TypeOK, Contract!TypeOK
<1>2. \A b \in Attempt : carried[b] = NoRequest => effected'[b] = effected[b]
  BY DEF Effect, Contract!Effect, IInv, TypeOK, Contract!TypeOK
<1>3. QED
  BY <1>1, <1>2, QuietStep DEF Effect, Contract!Effect, IInv, TypeOK

\* Every way the loop ends the run is a FinishStep.
LEMMA EndingStep ==
  ASSUME IInv, NEW w \in Worker,
         LoopEnds(w) \/ ModelFails(w) \/ Answered(w) \/ ToolRefused(w) \/ ToolEndsRun(w)
  PROVE  IInv'
<1>1. \E s \in RunStatus : /\ Finish(w, s)
                           /\ pc[w] \in Active \ {"execute", "record"}
                           /\ s = "COMPLETED" => pc[w] = "text"
  BY DEF LoopEnds, ModelFails, Answered, ToolRefused, ToolEndsRun, InLoop, Active, RunStatus
<1>2. QED
  BY <1>1, FinishStep

\* No record, no worker and no call at the start.
LEMMA InitIInv == Init => IInv
<1> SUFFICES ASSUME Init PROVE IInv
  OBVIOUS
<1> USE DEF Init, Contract!Init
<1>1. NoRecord \in StoredRunRecord
  BY RequestsAreSteps DEF NoRecord, StoredRunRecord, DurableRunState
<1>2. TypeOK
  BY <1>1 DEF TypeOK, Contract!TypeOK
<1>3. CopyBehind /\ CopyCurrent /\ InFlightHeld
  BY DEF CopyBehind, CopyCurrent, InFlightHeld, Active
<1>4. TerminalStored /\ PendingIsStep /\ CompletedMeansExecuted
  BY DEF TerminalStored, PendingIsStep, CompletedMeansExecuted, NoRecord, Terminal, RunStatus
<1>5. Behind /\ Unmade /\ Recorded /\ OneDispatchPerRequest
  BY DEF Behind, Unmade, Recorded, OneDispatchPerRequest
<1>6. QED
  BY <1>2, <1>3, <1>4, <1>5 DEF IInv

\* Every step keeps the invariant.
LEMMA StepIInv == IInv /\ [Next]_vars => IInv'
<1> SUFFICES ASSUME IInv, [Next]_vars PROVE IInv'
  OBVIOUS
<1>1. ASSUME NEW w \in Worker, ResumePrepared(w) PROVE IInv'
  BY <1>1, AdvanceStep DEF ResumePrepared, InLoop, Active, PhaseOf
<1>2. ASSUME NEW w \in Worker, ResumeCompleted(w) PROVE IInv'
  BY <1>2, AdvanceStep DEF ResumeCompleted, InLoop, Active, PhaseOf
<1>3. ASSUME NEW w \in Worker, ResolveClaimConflict(w) PROVE IInv'
  <2>1. began' \in [Worker -> Nat]
    BY <1>3 DEF ResolveClaimConflict, IInv, TypeOK
  <2>2. store.state \in Terminal => store.terminal \in RunStatus
    BY DEF IInv, TerminalStored
  <2>3. QED
    BY <1>3, <2>1, <2>2, StopStep DEF ResolveClaimConflict, Ends, RunStatus
<1>4. ASSUME NEW w \in Worker, Crash(w) PROVE IInv'
  <2>1. began' \in [Worker -> Nat]
    BY <1>4 DEF Crash, IInv, TypeOK
  <2>2. QED
    BY <1>4, <2>1, StopStep DEF Crash, Ends, RunStatus
<1>5. CASE Tick
  BY <1>5, QuietStep DEF Tick, workerVars, callVars, IInv, TypeOK, Contract!TypeOK
<1>6. CASE UNCHANGED vars
  BY <1>6, QuietStep DEF vars, workerVars, callVars, IInv, TypeOK, Contract!TypeOK
<1>7. ASSUME NEW w \in Worker, WorkerStep(w) PROVE IInv'
  BY <1>1, <1>2, <1>3, <1>7, LoadStep, CreateStep, EndingStep, TurnStep, PrepareStep,
     ClaimStep, CompleteStep, FoldStep, ExecuteStep DEF WorkerStep
<1>8. QED
  BY <1>4, <1>5, <1>6, <1>7, EffectStep DEF Next

\* The invariant holds always.
LEMMA Invariance == Spec => []IInv
BY InitIInv, StepIInv, PTL DEF Spec

-----------------------------------------------------------------------------
(* Theorems *)

\* Type correctness of the durable loop: in particular every request_id that
\* reaches the store or execute() names a step of the loop's range.
THEOREM DurableTypeCorrect == Spec => []TypeOK
BY Invariance, PTL DEF IInv

\* claim_tool_dispatch and the resume rules: however many workers resume a
\* run and wherever they crash, execute() is entered at most once per
\* request_id.
THEOREM DispatchedOnce == Spec => []OneDispatchPerRequest
BY Invariance, PTL DEF IInv

\* _persist_terminal and resume_durable_run: all callers that are told how
\* the run ended are told the same, and it is what the store holds.
THEOREM OneTerminalResult == Spec => []TerminalAgreement
<1>1. IInv => TerminalAgreement
  BY DEF IInv, TerminalStored, TerminalAgreement
<1>2. QED
  BY <1>1, Invariance, PTL

\* _execute_durable_tool: a run is COMPLETED only when each of its tool calls
\* is known to have executed.
THEOREM CompletedOnlyIfExecuted == Spec => []CompletedMeansExecuted
BY Invariance, PTL DEF IInv

\* Only a current worker writes, and inside execute() only to complete.
LEMMA Writers ==
  ASSUME IInv, Next, store' # store
  PROVE  \/ store.state = "ABSENT"
         \/ store.state \in {"RUNNING", "TOOL_PREPARED", "TOOL_COMPLETED"}
         \/ \E w \in Worker : Complete(w) /\ Current(w)
<1>1. PICK w \in Worker : WorkerStep(w) \/ Crash(w)
  BY DEF Next, Tick, Effect
<1>2. CASE Create(w)
  BY <1>2 DEF Create
<1>3. CASE Complete(w)
  BY <1>3 DEF Complete, Persist
<1>4. CASE LoopEnds(w) \/ ModelFails(w) \/ Answered(w) \/ ToolRefused(w) \/ ToolEndsRun(w)
  <2>1. pc[w] \in Active \ {"execute", "record"} /\ Current(w)
    BY <1>4 DEF LoopEnds, ModelFails, Answered, ToolRefused, ToolEndsRun, InLoop, Active, Finish
  <2>2. QED
    BY <2>1, CurrentHolder
<1>5. CASE ModelTurn(w) \/ Prepare(w) \/ Fold(w)
  <2>1. pc[w] \in Active \ {"execute", "record"} /\ Current(w)
    BY <1>5 DEF ModelTurn, Prepare, Fold, InLoop, Active, Persist
  <2>2. QED
    BY <2>1, CurrentHolder
<1>6. CASE Claim(w)
  BY <1>6 DEF Claim, Claimable
<1>7. QED
  BY <1>1, <1>2, <1>3, <1>4, <1>5, <1>6
     DEF WorkerStep, Crash, Load, ResumePrepared, ResolveClaimConflict, ResumeCompleted, Execute

\* save()'s version test: a terminal record is never written again, not even
\* by a worker that loaded the run before it ended.
THEOREM TerminalRecordIsFinal == Spec => TerminalIsFinal
<1>1. IInv /\ [Next]_vars => [store.state \in Terminal => store' = store]_vars
  <2> SUFFICES ASSUME IInv, Next, store.state \in Terminal, store' # store PROVE FALSE
    BY DEF vars
  <2>1. PICK w \in Worker : Complete(w) /\ Current(w)
    BY Writers DEF Terminal
  <2>2. QED
    BY <2>1 DEF Complete, IInv, InFlightHeld, Terminal
<1>2. QED
  BY <1>1, Invariance, PTL DEF Spec, TerminalIsFinal

\* TOOL_IN_FLIGHT: no observer, canceller or resumer touches a run whose tool
\* is in flight; the claiming worker alone records what execute() returned.
THEOREM InFlightUntouched == Spec => InFlightIsOwned
<1> DEFINE Owned ==
      store.state = "TOOL_IN_FLIGHT" /\ store' # store =>
        /\ store'.state = "TOOL_COMPLETED"
        /\ \E w \in Worker :
             /\ pc[w] = "record"
             /\ carried[<<w, store.next_step>>] = store.pending
             /\ outcome[<<w, store.next_step>>].status = store'.execution
<1>1. IInv /\ [Next]_vars => [Owned]_vars
  <2> SUFFICES ASSUME IInv, Next, store.state = "TOOL_IN_FLIGHT", store' # store
               PROVE  Owned
    BY DEF vars
  <2>1. PICK w \in Worker : Complete(w) /\ Current(w)
    BY Writers
  <2>2. pc[w] = "record" /\ pc[w] \in Active
    BY <2>1 DEF Complete, Active
  <2>3. /\ carried[<<w, store.next_step>>] = store.next_step
        /\ outcome[<<w, store.next_step>>].status = ctx[w].execution
        /\ store.pending = store.next_step
        /\ ctx[w] \in StoredRunRecord
    BY <2>2, PendingStep, HeldRecord DEF IInv, InFlightHeld, CopyCurrent
  <2> DEFINE r == [ctx[w] EXCEPT !.state = "TOOL_COMPLETED"]
  <2>4. store' = [r EXCEPT !.version = ctx[w].version + 1]
    BY <2>1 DEF Complete, Persist
  <2>5. r \in StoredRunRecord /\ r.state = "TOOL_COMPLETED" /\ r.execution = ctx[w].execution
    BY <2>3 DEF StoredRunRecord, DurableRunState
  <2>6. ctx[w].version \in Nat
    BY <2>3 DEF StoredRunRecord
  <2> HIDE DEF r
  <2>7. store'.state = "TOOL_COMPLETED" /\ store'.execution = ctx[w].execution
    BY <2>4, <2>5, <2>6, NewVersion
  <2>8. QED
    BY <2>2, <2>3, <2>7
<1>2. QED
  BY <1>1, Invariance, PTL DEF Spec, InFlightIsOwned

-----------------------------------------------------------------------------
(* The loop is a caller ExecutionContract allows *)

\* Nobody ever carried the request_id of a prepared step.
LEMMA ClaimFresh ==
  ASSUME IInv, store.state = "TOOL_PREPARED", NEW b \in Attempt
  PROVE  carried[b] # store.next_step
<1>1. store.next_step \in Step
  BY PendingStep
<1>2. carried[b] # NoRequest => carried[b] = b[2] /\ b[2] < store.next_step
  BY DEF IInv, Behind, Terminal
<1>3. b[2] \in Nat /\ store.next_step \in Nat /\ store.next_step # NoRequest
  BY <1>1, RequestsAreSteps DEF Attempt
<1>4. QED
  BY <1>2, <1>3

\* Every step of the loop is a step of the contract or leaves it alone.
LEMMA ContractStep == IInv /\ [Next]_vars => [Contract!Next]_(Contract!vars)
<1> SUFFICES ASSUME IInv, [Next]_vars, ~ UNCHANGED Contract!vars PROVE Contract!Next
  OBVIOUS
<1> USE DEF Contract!vars, callVars
<1>1. ASSUME NEW w \in Worker, Claim(w) PROVE Contract!Next
  <2>1. Claimable(w) /\ pc[w] \in Active \ {"execute", "record"}
    BY <1>1 DEF Claim, Active
  <2>2. store.state = "TOOL_PREPARED" /\ ctx[w] = store
    BY <2>1, CurrentHolder DEF Claimable, Current
  <2>3. store.pending = store.next_step /\ store.next_step \in Step
    BY <2>2, PendingStep
  <2> DEFINE c == <<w, store.next_step>>
  <2>4. c \in Attempt
    BY <2>3 DEF Attempt
  <2>5. carried[c] = NoRequest
    <3>1. carried[c] # NoRequest => carried[c] = c[2]
      BY <2>4 DEF IInv, Behind
    <3>2. QED
      BY <3>1, <2>2, <2>4, ClaimFresh
  <2>6. Contract!Begin(c, store.next_step)
    BY <1>1, <2>1, <2>2, <2>3, <2>5, ClaimFresh DEF Claim, Contract!Begin
  <2>7. QED
    BY <2>3, <2>4, <2>6 DEF Contract!Next
<1>2. ASSUME NEW w \in Worker, NEW o \in Contract!Outcome, Execute(w, o) PROVE Contract!Next
  <2>1. store.state = "TOOL_IN_FLIGHT" /\ ctx[w] = store
    BY <1>2 DEF Execute, IInv, InFlightHeld, CopyCurrent, Active
  <2>2. <<w, ctx[w].next_step>> \in Attempt
    BY <2>1, PendingStep DEF Attempt
  <2>3. QED
    BY <1>2, <2>2 DEF Execute, Contract!Next
<1>3. ASSUME NEW a \in Attempt, Effect(a) PROVE Contract!Next
  BY <1>3 DEF Effect, Contract!Next
<1>4. QED
  BY <1>1, <1>2, <1>3, ZenonT(60)
     DEF Next, WorkerStep, Load, Create, LoopEnds, ModelFails, ModelTurn, Answered, ToolRefused,
         Prepare, ResumePrepared, ResolveClaimConflict, Complete, ResumeCompleted, Fold,
         ToolEndsRun, Crash, Tick, Finish, vars

\* The durable loop, with any number of workers that resume each other's
\* runs, calls execute() only as ExecutionContract allows its callers.
THEOREM DurableRunObeysContract == Spec => ImplementsContract
<1>1. Init => Contract!Init
  BY DEF Init
<1>2. QED
  BY <1>1, ContractStep, Invariance, PTL DEF Spec, ImplementsContract, Contract!Spec

-----------------------------------------------------------------------------
(* The stored expiry *)

\* A run's expiry is fixed at its creation, every copy has it, and a worker
\* that passed the dispatch controls began before it: a deadline other than
\* the stored expiry lay in the past when the worker set it.
ExpiryKept ==
  \A w \in Worker :
    /\ began[w] <= now
    /\ pc[w] \in Active =>
         /\ ctx[w].expires_at = store.expires_at
         /\ deadline[w] = store.expires_at \/ deadline[w] <= now
    /\ pc[w] \in {"claim", "execute", "record"} => began[w] < store.expires_at
    /\ pc[w] \in {"idle", "create"} => \A s \in Step : carried[<<w, s>>] = NoRequest

LateInv == ExpiryKept /\ NoLateDispatch

\* A step of w that moves it to l, makes no call, and leaves the clocks and
\* the expiry alone.
Timeless(w, l) ==
  /\ pc' = [pc EXCEPT ![w] = l]
  /\ UNCHANGED <<now, began, deadline, carried>>
  /\ store'.expires_at = store.expires_at
  /\ \A v \in Worker : ctx'[v].expires_at = ctx[v].expires_at

\* Writing any record that kept its expiry is timeless.
LEMMA PersistTimeless ==
  ASSUME IInv, ExpiryKept, NEW w \in Worker, pc[w] \in Active, NEW l, NEW r \in StoredRunRecord,
         r.expires_at = ctx[w].expires_at, Persist(w, r, l),
         UNCHANGED <<now, began, deadline, carried>>
  PROVE  \E m \in {l, "done"} : Timeless(w, m)
<1>1. CASE ~Current(w)
  BY <1>1 DEF Persist, End, Timeless
<1>2. CASE Current(w)
  <2>1. ctx[w].version \in Nat
    BY DEF IInv, TypeOK, StoredRunRecord
  <2> DEFINE u == [r EXCEPT !.version = ctx[w].version + 1]
  <2>2. u.expires_at = ctx[w].expires_at
    BY <2>1, NewVersion
  <2>3. store' = u /\ ctx' = [ctx EXCEPT ![w] = u] /\ pc' = [pc EXCEPT ![w] = l]
    BY <1>2 DEF Persist, Goto
  <2> HIDE DEF u
  <2>4. QED
    BY <2>2, <2>3 DEF Timeless, IInv, TypeOK, ExpiryKept
<1>3. QED
  BY <1>1, <1>2

\* Writing the terminal record is timeless.
LEMMA FinishTimeless ==
  ASSUME IInv, ExpiryKept, NEW w \in Worker, pc[w] \in Active, NEW s \in RunStatus, Finish(w, s)
  PROVE  Timeless(w, "done")
<1>1. ctx[w] \in StoredRunRecord /\ ctx[w].version \in Nat
  BY DEF IInv, TypeOK, StoredRunRecord
<1>2. Finalized(ctx[w], s) \in StoredRunRecord
      /\ Finalized(ctx[w], s).expires_at = ctx[w].expires_at
  BY <1>1, FinalizedTyped DEF Finalized, StoredRunRecord
<1>3. [Finalized(ctx[w], s) EXCEPT !.version = ctx[w].version + 1].expires_at
        = ctx[w].expires_at
  BY <1>1, <1>2, NewVersion
<1>4. store'.expires_at = store.expires_at
  BY <1>3 DEF Finish, ExpiryKept
<1>5. QED
  BY <1>4 DEF Finish, End, Timeless, callVars

\* A timeless step keeps the invariant, if who comes to dispatch began early.
LEMMA TimelessStep ==
  ASSUME IInv, LateInv, NEW w \in Worker, NEW l, Timeless(w, l),
         l \notin {"idle", "create"},
         l \in Active => pc[w] \in Active,
         l \in {"claim", "execute", "record"} => began[w] < store.expires_at
  PROVE  LateInv'
<1>1. pc \in [Worker -> Place]
  BY DEF IInv, TypeOK, Place
<1>2. ExpiryKept'
  <2> SUFFICES ASSUME NEW v \in Worker
               PROVE  /\ began'[v] <= now'
                      /\ pc'[v] \in Active =>
                           /\ ctx'[v].expires_at = store'.expires_at
                           /\ deadline'[v] = store'.expires_at \/ deadline'[v] <= now'
                      /\ pc'[v] \in {"claim", "execute", "record"} =>
                           began'[v] < store'.expires_at
                      /\ pc'[v] \in {"idle", "create"} =>
                           \A s \in Step : carried'[<<v, s>>] = NoRequest
    BY DEF ExpiryKept
  <2>1. CASE v = w
    BY <1>1, <2>1 DEF Timeless, LateInv, ExpiryKept
  <2>2. CASE v # w
    BY <1>1, <2>2 DEF Timeless, LateInv, ExpiryKept
  <2>3. QED
    BY <2>1, <2>2
<1>3. NoLateDispatch'
  BY DEF Timeless, LateInv, NoLateDispatch
<1>4. QED
  BY <1>2, <1>3 DEF LateInv

\* A worker that is still before its own deadline began before the expiry.
LEMMA BeganInTime ==
  ASSUME IInv, ExpiryKept, NEW w \in Worker, pc[w] \in Active, now < deadline[w]
  PROVE  began[w] < store.expires_at
<1>1. began[w] \in Nat /\ now \in Nat /\ deadline[w] \in Nat /\ store.expires_at \in Nat
  BY DEF IInv, TypeOK, StoredRunRecord
<1>2. QED
  BY <1>1 DEF ExpiryKept

\* A step of the loop that is neither an entry nor a claim is timeless.
LEMMA LoopIsTimeless ==
  ASSUME IInv, LateInv, NEW w \in Worker, WorkerStep(w) \/ Crash(w),
         ~Load(w), ~Create(w), ~Claim(w)
  PROVE  LateInv'
<1>0. ctx[w] \in StoredRunRecord /\ LateInv /\ ExpiryKept
  BY DEF IInv, TypeOK, LateInv
<1>1. CASE LoopEnds(w) \/ ModelFails(w) \/ Answered(w) \/ ToolRefused(w) \/ ToolEndsRun(w)
  <2>1. PICK s \in RunStatus : Finish(w, s) /\ pc[w] \in Active
    BY <1>1 DEF LoopEnds, ModelFails, Answered, ToolRefused, ToolEndsRun, InLoop, Active,
                RunStatus
  <2>2. QED
    BY <1>0, <2>1, FinishTimeless, TimelessStep DEF Active
<1>2. CASE Crash(w) \/ ResolveClaimConflict(w)
  <2>1. Timeless(w, "done")
    BY <1>2 DEF Crash, ResolveClaimConflict, End, Timeless, callVars
  <2>2. QED
    BY <2>1, TimelessStep DEF Active
<1>3. CASE ModelTurn(w)
  <2> DEFINE r == [ctx[w] EXCEPT !.model_turns = @ + 1]
  <2>1. r \in StoredRunRecord /\ r.expires_at = ctx[w].expires_at /\ pc[w] \in Active
    BY <1>0, <1>3 DEF StoredRunRecord, ModelTurn, InLoop, Active
  <2>2. PICK l \in {"text", "tool", "invalid"} : Persist(w, r, l)
    BY <1>3 DEF ModelTurn
  <2> HIDE DEF r
  <2>3. \E m \in {l, "done"} : Timeless(w, m)
    BY <1>0, <1>3, <2>1, <2>2, PersistTimeless DEF ModelTurn, callVars
  <2>4. QED
    BY <2>1, <2>3, TimelessStep DEF Active
<1>4. CASE Prepare(w)
  <2> DEFINE r == [ctx[w] EXCEPT !.state = "TOOL_PREPARED", !.pending = ctx[w].next_step]
  <2>1. pc[w] \in Active /\ pc[w] = "tool" /\ now < deadline[w]
    BY <1>4 DEF Prepare, Active
  <2>2. ctx[w].next_step \in Step
    BY <2>1 DEF IInv, CopyBehind
  <2>3. r \in StoredRunRecord /\ r.expires_at = ctx[w].expires_at
    BY <1>0, <2>2 DEF StoredRunRecord, DurableRunState
  <2>4. Persist(w, r, "claim") /\ UNCHANGED <<now, began, deadline, carried>>
    BY <1>4 DEF Prepare, callVars
  <2> HIDE DEF r
  <2>5. \E m \in {"claim", "done"} : Timeless(w, m)
    BY <1>0, <2>1, <2>3, <2>4, PersistTimeless
  <2>6. QED
    BY <1>0, <2>1, <2>5, BeganInTime, TimelessStep DEF Active
<1>5. CASE ResumePrepared(w)
  <2>1. Timeless(w, "claim") /\ pc[w] \in Active /\ now < deadline[w]
    BY <1>5 DEF ResumePrepared, InLoop, Goto, Active, Timeless, callVars
  <2>2. QED
    BY <1>0, <2>1, BeganInTime, TimelessStep
<1>6. CASE ResumeCompleted(w)
  <2>1. Timeless(w, "fold") /\ pc[w] \in Active
    BY <1>6 DEF ResumeCompleted, InLoop, Goto, Active, Timeless, callVars
  <2>2. QED
    BY <2>1, TimelessStep
<1>7. CASE Complete(w)
  <2> DEFINE r == [ctx[w] EXCEPT !.state = "TOOL_COMPLETED"]
  <2>1. r \in StoredRunRecord /\ r.expires_at = ctx[w].expires_at /\ pc[w] \in Active
    BY <1>0, <1>7 DEF StoredRunRecord, DurableRunState, Complete, Active
  <2>2. Persist(w, r, "fold") /\ UNCHANGED <<now, began, deadline, carried>>
    BY <1>7 DEF Complete, callVars
  <2> HIDE DEF r
  <2>3. \E m \in {"fold", "done"} : Timeless(w, m)
    BY <1>0, <2>1, <2>2, PersistTimeless
  <2>4. QED
    BY <2>1, <2>3, TimelessStep DEF Active
<1>8. CASE Fold(w)
  <2> DEFINE r == [ctx[w] EXCEPT !.state = "RUNNING", !.next_step = @ + 1,
                                 !.pending = NoRequest, !.execution = "NONE"]
  <2>1. ctx[w].next_step \in Nat \ {0}
    BY <1>0 DEF StoredRunRecord
  <2>2. ctx[w].next_step + 1 \in Nat \ {0} /\ "RUNNING" \in DurableRunState
    BY <2>1 DEF DurableRunState
  <2>3. Persist(w, r, "top") /\ UNCHANGED <<now, began, deadline, carried>> /\ pc[w] \in Active
    BY <1>8 DEF Fold, callVars, Active
  <2>4. r \in StoredRunRecord /\ r.expires_at = ctx[w].expires_at
    BY <1>0, <2>2 DEF StoredRunRecord
  <2> HIDE DEF r
  <2>5. \E m \in {"top", "done"} : Timeless(w, m)
    BY <1>0, <2>3, <2>4, PersistTimeless
  <2>6. QED
    BY <2>3, <2>5, TimelessStep DEF Active
<1>9. ASSUME NEW o \in Contract!Outcome, Execute(w, o) PROVE LateInv'
  <2>1. Timeless(w, "record") /\ pc[w] = "execute"
    BY <1>9 DEF Execute, Contract!Return, Goto, Timeless, IInv, TypeOK, StoredRunRecord
  <2>2. QED
    BY <1>0, <2>1, TimelessStep DEF Active, ExpiryKept
<1>10. QED
  BY <1>1, <1>2, <1>3, <1>4, <1>5, <1>6, <1>7, <1>8, <1>9 DEF WorkerStep

\* Entering the loop sets a deadline that is the expiry, or already past.
LEMMA EnterInTime ==
  ASSUME IInv, LateInv, NEW w \in Worker, NEW r \in StoredRunRecord, Enter(w, r),
         store'.expires_at = r.expires_at, UNCHANGED <<now, carried>>,
         began' \in [Worker -> Nat], began'[w] <= now,
         \A v \in Worker : v # w =>
           began'[v] = began[v] /\ (pc[v] \in Active => store'.expires_at = store.expires_at),
         \A v \in Worker, s \in Step : carried[<<v, s>>] # NoRequest =>
           v # w /\ store'.expires_at = store.expires_at
  PROVE  LateInv'
<1>1. /\ pc' = [pc EXCEPT ![w] = "top"]
      /\ ctx' = [ctx EXCEPT ![w] = r]
      /\ deadline' = [deadline EXCEPT ![w] = IF r.expires_at > now THEN r.expires_at ELSE now]
  BY DEF Enter, Goto
<1>2. /\ pc \in [Worker -> Place]
      /\ ctx \in [Worker -> StoredRunRecord]
      /\ deadline \in [Worker -> Nat]
      /\ now \in Nat /\ r.expires_at \in Nat
  BY DEF IInv, TypeOK, Place, StoredRunRecord
<1>3. ASSUME NEW v \in Worker
      PROVE  /\ began'[v] <= now'
             /\ pc'[v] \in Active =>
                  /\ ctx'[v].expires_at = store'.expires_at
                  /\ deadline'[v] = store'.expires_at \/ deadline'[v] <= now'
             /\ pc'[v] \in {"claim", "execute", "record"} => began'[v] < store'.expires_at
             /\ pc'[v] \in {"idle", "create"} =>
                  \A s \in Step : carried'[<<v, s>>] = NoRequest
  <2>1. CASE v = w
    BY <1>1, <1>2, <2>1
  <2>2. CASE v # w
    BY <1>1, <1>2, <2>2 DEF LateInv, ExpiryKept, Active
  <2>3. QED
    BY <2>1, <2>2
<1>4. ExpiryKept'
  BY <1>3 DEF ExpiryKept
<1>5. NoLateDispatch'
  BY DEF LateInv, NoLateDispatch
<1>6. QED
  BY <1>4, <1>5 DEF LateInv

\* load(): whoever starts has made no call.
LEMMA LoadInTime ==
  ASSUME IInv, LateInv, NEW w \in Worker, Load(w) PROVE LateInv'
<1>1. /\ pc[w] = "idle" /\ began' = [began EXCEPT ![w] = now]
      /\ UNCHANGED <<now, store, carried>>
  BY DEF Load, callVars
<1>2. /\ pc \in [Worker -> Place]
      /\ began \in [Worker -> Nat] /\ now \in Nat
      /\ store \in StoredRunRecord
  BY DEF IInv, TypeOK, Place
<1>3. \A s \in Step : carried[<<w, s>>] = NoRequest
  BY <1>1 DEF LateInv, ExpiryKept
<1>4. CASE Enter(w, store)
  BY <1>1, <1>2, <1>3, <1>4, EnterInTime
<1>5. CASE UNCHANGED <<ctx, deadline>> /\ \E l \in {"create", "done"} : pc' = [pc EXCEPT ![w] = l]
  <2>1. ExpiryKept'
    BY <1>1, <1>2, <1>3, <1>5 DEF LateInv, ExpiryKept, Active
  <2>2. NoLateDispatch'
    BY <1>1, <1>2, <1>3 DEF LateInv, NoLateDispatch
  <2>3. QED
    BY <2>1, <2>2 DEF LateInv
<1>6. QED
  BY <1>4, <1>5 DEF Load, Goto, End

\* create(): the expiry is set while nobody holds a record.
LEMMA CreateInTime ==
  ASSUME IInv, LateInv, NEW w \in Worker, Create(w) PROVE LateInv'
<1>1. CASE store.state = "ABSENT"
  <2>1. began[w] \in Nat /\ began[w] <= now /\ began \in [Worker -> Nat]
    BY DEF IInv, TypeOK, LateInv, ExpiryKept
  <2>2. NewRunningRecord(began[w]) \in StoredRunRecord
    <3>1. NoRecord \in StoredRunRecord
      BY RequestsAreSteps DEF NoRecord, StoredRunRecord, DurableRunState
    <3>2. began[w] + Timeout \in Nat
      BY <2>1, LimitsArePositive
    <3>3. QED
      BY <3>1, <3>2 DEF NewRunningRecord, NoRecord, StoredRunRecord, DurableRunState
  <2>3. \A v \in Worker : pc[v] \notin Active
    BY <1>1 DEF IInv, CopyBehind
  <2>4. \A v \in Worker, s \in Step : carried[<<v, s>>] = NoRequest
    BY <1>1 DEF IInv, Behind, Attempt
  <2>5. /\ store' = NewRunningRecord(began[w]) /\ Enter(w, NewRunningRecord(began[w]))
        /\ UNCHANGED <<now, began, carried>>
    BY <1>1 DEF Create, callVars
  <2>6. QED
    BY <2>1, <2>2, <2>3, <2>4, <2>5, EnterInTime
<1>2. CASE store.state # "ABSENT"
  <2>1. Timeless(w, "done")
    BY <1>2 DEF Create, End, Timeless, callVars
  <2>2. QED
    BY <2>1, TimelessStep DEF Active
<1>3. QED
  BY <1>1, <1>2

\* claim_tool_dispatch: the one step that makes a call.
LEMMA ClaimInTime ==
  ASSUME IInv, LateInv, NEW w \in Worker, Claim(w) PROVE LateInv'
<1>1. CASE ~Claimable(w)
  <2>1. Timeless(w, "conflict")
    BY <1>1 DEF Claim, Goto, Timeless
  <2>2. QED
    BY <2>1, TimelessStep DEF Active
<1>2. CASE Claimable(w)
  <2> DEFINE u == [store EXCEPT !.state = "TOOL_IN_FLIGHT", !.version = @ + 1]
             c == <<w, ctx[w].next_step>>
  <2>1. u.expires_at = store.expires_at
    BY DEF IInv, TypeOK, StoredRunRecord
  <2>2. /\ pc[w] = "claim" /\ pc' = [pc EXCEPT ![w] = "execute"]
        /\ store' = u /\ ctx' = [ctx EXCEPT ![w] = u]
        /\ carried' = [carried EXCEPT ![c] = ctx[w].pending]
        /\ UNCHANGED <<now, began, deadline>>
    BY <1>2 DEF Claim, Goto
  <2> HIDE DEF u
  <2>3. /\ pc \in [Worker -> Place]
        /\ ctx \in [Worker -> StoredRunRecord]
        /\ carried \in [Attempt -> Step \cup {NoRequest}]
    BY DEF IInv, TypeOK, Place, Contract!TypeOK
  <2>4. \A v \in Worker, s \in Step : v # w => carried'[<<v, s>>] = carried[<<v, s>>]
    BY <2>2, <2>3 DEF Attempt
  <2>5. began[w] < store.expires_at
    BY <2>2 DEF LateInv, ExpiryKept
  <2>6. ASSUME NEW v \in Worker
        PROVE  /\ began'[v] <= now'
               /\ pc'[v] \in Active =>
                    /\ ctx'[v].expires_at = store'.expires_at
                    /\ deadline'[v] = store'.expires_at \/ deadline'[v] <= now'
               /\ pc'[v] \in {"claim", "execute", "record"} => began'[v] < store'.expires_at
               /\ pc'[v] \in {"idle", "create"} =>
                    \A s \in Step : carried'[<<v, s>>] = NoRequest
    <3> HIDE DEF c
    <3>1. CASE v = w
      BY <2>1, <2>2, <2>3, <2>5, <3>1 DEF LateInv, ExpiryKept, Active
    <3>2. CASE v # w
      BY <2>1, <2>2, <2>3, <2>4, <3>2 DEF LateInv, ExpiryKept
    <3>3. QED
      BY <3>1, <3>2
  <2>7. ExpiryKept'
    BY <2>6 DEF ExpiryKept
  <2> HIDE DEF c
  <2>8. NoLateDispatch'
    BY <2>1, <2>2, <2>4, <2>5 DEF LateInv, NoLateDispatch
  <2>9. QED
    BY <2>7, <2>8 DEF LateInv
<1>3. QED
  BY <1>1, <1>2

\* Resumption honours the stored expiry: a call that starts once the run's
\* deadline has passed dispatches no tool, whatever state it resumes.
THEOREM NeverDispatchedLate == Spec => []NoLateDispatch
<1>1. Init => LateInv
  <2> SUFFICES ASSUME Init PROVE LateInv
    OBVIOUS
  <2>1. \A w \in Worker, s \in Step : carried[<<w, s>>] = NoRequest
    BY DEF Init, Contract!Init, Attempt
  <2>2. ExpiryKept
    BY <2>1 DEF Init, ExpiryKept, Active
  <2>3. NoLateDispatch
    BY <2>1 DEF NoLateDispatch
  <2>4. QED
    BY <2>2, <2>3 DEF LateInv
<1>2. IInv /\ LateInv /\ [Next]_vars => LateInv'
  <2> SUFFICES ASSUME IInv, LateInv, [Next]_vars PROVE LateInv'
    OBVIOUS
  <2>1. ASSUME now' \in {now, now + 1}, UNCHANGED <<store, workerVars, carried>>
        PROVE  LateInv'
    <3>1. now \in Nat /\ now <= now' /\ began \in [Worker -> Nat] /\ deadline \in [Worker -> Nat]
          /\ now' \in Nat
      BY <2>1 DEF IInv, TypeOK
    <3>2. QED
      BY <2>1, <3>1 DEF workerVars, LateInv, ExpiryKept, NoLateDispatch
  <2>2. CASE Tick
    BY <2>1, <2>2 DEF Tick, callVars
  <2>3. ASSUME NEW a \in Attempt, Effect(a) PROVE LateInv'
    BY <2>1, <2>3 DEF Effect, Contract!Effect
  <2>4. CASE UNCHANGED vars
    BY <2>1, <2>4 DEF vars, callVars
  <2>5. QED
    BY <2>2, <2>3, <2>4, LoadInTime, CreateInTime, ClaimInTime, LoopIsTimeless
       DEF Next
<1>3. LateInv => NoLateDispatch
  BY DEF LateInv
<1>4. QED
  BY <1>1, <1>2, <1>3, Invariance, PTL DEF Spec

-----------------------------------------------------------------------------
(* The tool-call budget *)

\* The execute() calls made so far.
Calls == {a \in Attempt : carried[a] # NoRequest}

InFlightCalls == IF store.state = "TOOL_IN_FLIGHT" THEN 1 ELSE 0

\* The count is exact, a record about to be dispatched is below the limit,
\* and the worker that comes back from execute() has counted its own call.
BudgetInv ==
  /\ IsFiniteSet(Calls)
  /\ Cardinality(Calls) = store.tool_calls + InFlightCalls
  /\ store.tool_calls <= MaxToolCalls
  /\ store.state \in {"TOOL_PREPARED", "TOOL_IN_FLIGHT"} => store.tool_calls < MaxToolCalls
  /\ \A w \in Worker : pc[w] = "record" => ctx[w].tool_calls = store.tool_calls + 1

\* A step that makes no call, and leaves the count and who is at "record".
LEMMA NoCallStep ==
  ASSUME BudgetInv, UNCHANGED carried,
         store'.tool_calls = store.tool_calls,
         store'.state = "TOOL_IN_FLIGHT" <=> store.state = "TOOL_IN_FLIGHT",
         store'.state = "TOOL_PREPARED" =>
           store.state = "TOOL_PREPARED" \/ store.tool_calls < MaxToolCalls,
         \A w \in Worker : pc'[w] = "record" => pc[w] = "record" /\ ctx'[w] = ctx[w]
  PROVE  BudgetInv'
<1>1. Calls' = Calls
  BY DEF Calls
<1>2. InFlightCalls' = InFlightCalls
  BY DEF InFlightCalls
<1>3. QED
  BY <1>1, <1>2 DEF BudgetInv

\* A worker outside execute() writes a record with its own count.
LEMMA PersistCounts ==
  ASSUME IInv, BudgetInv, NEW w \in Worker, pc[w] \in Active \ {"execute", "record"},
         NEW l \in Active \ {"execute", "record"},
         NEW r \in StoredRunRecord, r.tool_calls = ctx[w].tool_calls,
         r.state # "TOOL_IN_FLIGHT",
         r.state = "TOOL_PREPARED" => r.tool_calls < MaxToolCalls,
         Persist(w, r, l), UNCHANGED carried
  PROVE  BudgetInv'
<1>1. pc \in [Worker -> Place]
      /\ ctx \in [Worker -> StoredRunRecord]
  BY DEF IInv, TypeOK, Place
<1>2. CASE ~Current(w)
  <2>1. pc' = [pc EXCEPT ![w] = "done"] /\ UNCHANGED <<store, ctx>>
    BY <1>2 DEF Persist, End
  <2>2. QED
    BY <1>1, <2>1, NoCallStep
<1>3. CASE Current(w)
  <2>1. /\ ctx[w] = store /\ store.state # "TOOL_IN_FLIGHT"
        /\ \A v \in Worker : pc[v] # "record"
    BY <1>3, CurrentHolder
  <2>2. ctx[w].version \in Nat
    BY <1>1 DEF StoredRunRecord
  <2> DEFINE u == [r EXCEPT !.version = ctx[w].version + 1]
  <2>3. u.tool_calls = r.tool_calls /\ u.state = r.state
    BY DEF StoredRunRecord
  <2>4. store' = u /\ pc' = [pc EXCEPT ![w] = l]
    BY <1>3 DEF Persist, Goto
  <2> HIDE DEF u
  <2>5. \A v \in Worker : pc'[v] # "record"
    BY <1>1, <2>1, <2>4
  <2>6. QED
    BY <2>1, <2>3, <2>4, <2>5, NoCallStep
<1>4. QED
  BY <1>2, <1>3

\* The terminal record keeps the count.
LEMMA FinishCounts ==
  ASSUME IInv, BudgetInv, NEW w \in Worker, pc[w] \in Active \ {"execute", "record"},
         NEW s \in RunStatus, Finish(w, s)
  PROVE  BudgetInv'
<1>1. pc \in [Worker -> Place]
      /\ ctx[w] \in StoredRunRecord
  BY DEF IInv, TypeOK, Place
<1>2. pc' = [pc EXCEPT ![w] = "done"] /\ UNCHANGED <<ctx, carried>>
  BY DEF Finish, End, callVars
<1>3. CASE ~Current(w)
  BY <1>1, <1>2, <1>3, NoCallStep DEF Finish
<1>4. CASE Current(w)
  <2>1. ctx[w] = store /\ store.state # "TOOL_IN_FLIGHT"
    BY <1>4, CurrentHolder
  <2> DEFINE r == Finalized(ctx[w], s)
             u == [r EXCEPT !.version = ctx[w].version + 1]
  <2>2. /\ r \in StoredRunRecord /\ r.tool_calls = ctx[w].tool_calls
        /\ r.state = TerminalState(s)
    BY <1>1, FinalizedTyped DEF Finalized, StoredRunRecord
  <2>3. store' = u
    BY <1>4 DEF Finish
  <2> HIDE DEF r
  <2>4. u.tool_calls = r.tool_calls /\ u.state = r.state
    BY <2>2 DEF StoredRunRecord
  <2> HIDE DEF u
  <2>5. r.state \notin {"TOOL_IN_FLIGHT", "TOOL_PREPARED"}
    BY <2>2 DEF TerminalState
  <2>6. QED
    BY <1>1, <1>2, <2>1, <2>2, <2>3, <2>4, <2>5, NoCallStep
<1>5. QED
  BY <1>3, <1>4

\* claim_tool_dispatch makes one new call, of a record below the limit.
LEMMA ClaimCounts ==
  ASSUME IInv, BudgetInv, NEW w \in Worker, Claim(w) PROVE BudgetInv'
<1>1. pc \in [Worker -> Place]
      /\ store \in StoredRunRecord /\ carried \in [Attempt -> Step \cup {NoRequest}]
  BY DEF IInv, TypeOK, Place, Contract!TypeOK
<1>2. CASE ~Claimable(w)
  <2>1. pc' = [pc EXCEPT ![w] = "conflict"] /\ UNCHANGED <<store, ctx, carried>>
    BY <1>2 DEF Claim, Goto
  <2>2. QED
    BY <1>1, <2>1, NoCallStep
<1>3. CASE Claimable(w)
  <2>1. Current(w) /\ pc[w] \in Active \ {"execute", "record"}
    BY <1>3 DEF Claim, Claimable, Current, Active
  <2>2. /\ ctx[w] = store /\ store.state = "TOOL_PREPARED"
        /\ \A v \in Worker : pc[v] # "record"
    BY <1>3, <2>1, CurrentHolder DEF Claimable
  <2>3. store.pending = store.next_step /\ store.next_step \in Step
    BY <2>2, PendingStep
  <2> DEFINE c == <<w, store.next_step>>
             u == [store EXCEPT !.state = "TOOL_IN_FLIGHT", !.version = @ + 1]
  <2>4. c \in Attempt /\ c[2] = store.next_step
    BY <2>3 DEF Attempt
  <2>5. /\ store' = u /\ pc' = [pc EXCEPT ![w] = "execute"]
        /\ carried' = [carried EXCEPT ![c] = store.next_step]
    BY <1>3, <2>2, <2>3 DEF Claim, Goto
  <2>6. u.state = "TOOL_IN_FLIGHT" /\ u.tool_calls = store.tool_calls
    BY <1>1 DEF StoredRunRecord
  <2> HIDE DEF u, c
  <2>7. c \notin Calls
    <3>1. carried[c] # NoRequest => carried[c] = c[2]
      BY <2>4 DEF IInv, Behind
    <3>2. carried[c] # store.next_step
      BY <2>2, <2>4, ClaimFresh
    <3>3. QED
      BY <2>4, <3>1, <3>2 DEF Calls
  <2>8. Calls' = Calls \cup {c}
    <3>1. store.next_step # NoRequest
      BY <2>3, RequestsAreSteps
    <3>2. QED
      BY <1>1, <2>4, <2>5, <3>1 DEF Calls
  <2>9. IsFiniteSet(Calls') /\ Cardinality(Calls') = Cardinality(Calls) + 1
    BY <2>7, <2>8, FS_AddElement DEF BudgetInv
  <2>10. InFlightCalls = 0 /\ InFlightCalls' = 1
    BY <2>2, <2>5, <2>6 DEF InFlightCalls
  <2>11. store.tool_calls \in Nat /\ MaxToolCalls \in Nat
    BY <1>1, LimitsArePositive DEF StoredRunRecord
  <2>12. store.tool_calls < MaxToolCalls /\ Cardinality(Calls) = store.tool_calls
    BY <2>2, <2>10, <2>11 DEF BudgetInv
  <2>13. \A v \in Worker : pc'[v] # "record"
    BY <1>1, <2>2, <2>5
  <2>14. QED
    BY <2>5, <2>6, <2>9, <2>10, <2>11, <2>12, <2>13 DEF BudgetInv
<1>4. QED
  BY <1>2, <1>3

\* execute() returns to the worker in flight, who counts the call it made.
LEMMA ExecuteCounts ==
  ASSUME IInv, BudgetInv, NEW w \in Worker, NEW o \in Contract!Outcome, Execute(w, o)
  PROVE  BudgetInv'
<1>1. /\ pc[w] = "execute" /\ pc' = [pc EXCEPT ![w] = "record"]
      /\ ctx' = [ctx EXCEPT ![w].tool_calls = @ + 1, ![w].execution = o.status]
      /\ UNCHANGED <<store, carried>>
  BY DEF Execute, Contract!Return, Goto
<1>2. /\ pc \in [Worker -> Place]
      /\ ctx \in [Worker -> StoredRunRecord]
  BY DEF IInv, TypeOK, Place
<1>3. ctx[w] = store /\ \A v \in Worker : pc[v] # "record"
  BY <1>1 DEF IInv, InFlightHeld, CopyCurrent, Active
<1>4. ctx'[w].tool_calls = store.tool_calls + 1
  BY <1>1, <1>2, <1>3 DEF StoredRunRecord
<1>5. \A v \in Worker : pc'[v] = "record" => v = w
  BY <1>1, <1>2, <1>3
<1>6. Calls' = Calls /\ InFlightCalls' = InFlightCalls
  BY <1>1 DEF Calls, InFlightCalls
<1>7. QED
  BY <1>1, <1>4, <1>5, <1>6 DEF BudgetInv

\* The completed call moves from the one in flight to the stored count.
LEMMA CompleteCounts ==
  ASSUME IInv, BudgetInv, NEW w \in Worker, Complete(w) PROVE BudgetInv'
<1>1. pc[w] = "record" /\ pc[w] \in Active /\ UNCHANGED carried
  BY DEF Complete, Active, callVars
<1>2. /\ pc \in [Worker -> Place]
      /\ ctx[w] \in StoredRunRecord /\ store.tool_calls \in Nat
  BY DEF IInv, TypeOK, Place, StoredRunRecord
<1>3. /\ store.state = "TOOL_IN_FLIGHT" /\ Current(w)
      /\ \A v \in Worker : v # w => pc[v] # "record"
  BY <1>1 DEF IInv, InFlightHeld, Current
<1> DEFINE r == [ctx[w] EXCEPT !.state = "TOOL_COMPLETED"]
           u == [r EXCEPT !.version = ctx[w].version + 1]
<1>4. store' = u /\ pc' = [pc EXCEPT ![w] = "fold"]
  BY <1>3 DEF Complete, Persist, Goto
<1>5. u.state = "TOOL_COMPLETED" /\ u.tool_calls = ctx[w].tool_calls
  BY <1>2 DEF StoredRunRecord
<1> HIDE DEF r, u
<1>6. \A v \in Worker : pc'[v] # "record"
  BY <1>2, <1>3, <1>4
<1>7. Calls' = Calls /\ InFlightCalls = 1 /\ InFlightCalls' = 0
  BY <1>1, <1>3, <1>4, <1>5 DEF Calls, InFlightCalls
<1>8. ctx[w].tool_calls = store.tool_calls + 1 /\ store.tool_calls < MaxToolCalls
  BY <1>1, <1>3 DEF BudgetInv
<1>9. QED
  BY <1>2, <1>4, <1>5, <1>6, <1>7, <1>8, LimitsArePositive DEF BudgetInv

\* Every step of the loop keeps the count exact.
LEMMA BudgetStep ==
  ASSUME IInv, BudgetInv, NEW w \in Worker, WorkerStep(w) \/ Crash(w)
  PROVE  BudgetInv'
<1>0. /\ pc \in [Worker -> Place]
      /\ ctx[w] \in StoredRunRecord
      /\ BudgetInv
  BY DEF IInv, TypeOK, Place
<1>1. CASE LoopEnds(w) \/ ModelFails(w) \/ Answered(w) \/ ToolRefused(w) \/ ToolEndsRun(w)
  <2>1. PICK s \in RunStatus : Finish(w, s) /\ pc[w] \in Active \ {"execute", "record"}
    BY <1>1 DEF LoopEnds, ModelFails, Answered, ToolRefused, ToolEndsRun, InLoop, Active,
                RunStatus
  <2>2. QED
    BY <2>1, FinishCounts
<1>2. ASSUME UNCHANGED <<store, carried>>,
             NEW l, l # "record", pc' = [pc EXCEPT ![w] = l],
             \A v \in Worker : v # w => ctx'[v] = ctx[v]
      PROVE  BudgetInv'
  BY <1>0, <1>2, NoCallStep
<1>3. CASE Crash(w) \/ ResolveClaimConflict(w) \/ ResumePrepared(w) \/ ResumeCompleted(w)
  BY <1>2, <1>3 DEF Crash, ResolveClaimConflict, ResumePrepared, ResumeCompleted, End, Goto,
                    callVars
<1>4. CASE Load(w)
  <2>1. \E l \in {"create", "top", "done"} : pc' = [pc EXCEPT ![w] = l]
    BY <1>4 DEF Load, Enter, Goto, End
  <2>2. \A v \in Worker : v # w => ctx'[v] = ctx[v]
    BY <1>4 DEF Load, Enter, IInv, TypeOK
  <2>3. UNCHANGED <<store, carried>>
    BY <1>4 DEF Load, callVars
  <2>4. QED
    BY <1>2, <2>1, <2>2, <2>3
<1>5. CASE Create(w)
  <2>1. CASE store.state # "ABSENT"
    BY <1>2, <1>5, <2>1 DEF Create, End, callVars
  <2>2. CASE store.state = "ABSENT"
    <3>1. \A a \in Attempt : carried[a] = NoRequest
      BY <2>2 DEF IInv, Behind
    <3>2. Calls' = {} /\ Calls = {}
      BY <1>5, <3>1 DEF Calls, Create, callVars
    <3>3. store'.tool_calls = 0 /\ store'.state = "RUNNING"
      BY <1>5, <2>2 DEF Create, NewRunningRecord, NoRecord
    <3>4. \A v \in Worker : pc'[v] # "record"
      <4>1. \A v \in Worker : pc[v] # "record"
        BY <2>2 DEF IInv, CopyBehind, Active
      <4>2. pc' = [pc EXCEPT ![w] = "top"]
        BY <1>5, <2>2 DEF Create, Enter, Goto
      <4>3. QED
        BY <1>0, <4>1, <4>2
    <3>5. InFlightCalls' = 0
      BY <3>3 DEF InFlightCalls
    <3>6. QED
      BY <3>2, <3>3, <3>4, <3>5, FS_EmptySet, LimitsArePositive DEF BudgetInv
  <2>3. QED
    BY <2>1, <2>2
<1>6. CASE ModelTurn(w)
  <2> DEFINE r == [ctx[w] EXCEPT !.model_turns = @ + 1]
  <2>1. /\ r \in StoredRunRecord /\ r.tool_calls = ctx[w].tool_calls
        /\ r.state = "RUNNING" /\ pc[w] \in Active \ {"execute", "record"}
    BY <1>0, <1>6 DEF StoredRunRecord, ModelTurn, InLoop, Active
  <2>2. PICK l \in {"text", "tool", "invalid"} : Persist(w, r, l)
    BY <1>6 DEF ModelTurn
  <2> HIDE DEF r
  <2>3. QED
    BY <1>6, <2>1, <2>2, PersistCounts DEF ModelTurn, callVars, Active
<1>7. CASE Prepare(w)
  <2> DEFINE r == [ctx[w] EXCEPT !.state = "TOOL_PREPARED", !.pending = ctx[w].next_step]
  <2>1. /\ pc[w] \in Active \ {"execute", "record"} /\ pc[w] = "tool"
        /\ ctx[w].tool_calls < MaxToolCalls
    BY <1>7 DEF Prepare, Active
  <2>2. ctx[w].next_step \in Step
    BY <2>1 DEF IInv, CopyBehind
  <2>3. r \in StoredRunRecord /\ r.tool_calls = ctx[w].tool_calls /\ r.state = "TOOL_PREPARED"
    BY <1>0, <2>2 DEF StoredRunRecord, DurableRunState
  <2>4. Persist(w, r, "claim") /\ UNCHANGED carried
    BY <1>7 DEF Prepare, callVars
  <2> HIDE DEF r
  <2>5. QED
    BY <2>1, <2>3, <2>4, PersistCounts DEF Active
<1>8. CASE Fold(w)
  <2> DEFINE r == [ctx[w] EXCEPT !.state = "RUNNING", !.next_step = @ + 1,
                                 !.pending = NoRequest, !.execution = "NONE"]
  <2>1. ctx[w].next_step \in Nat \ {0}
    BY <1>0 DEF StoredRunRecord
  <2>2. ctx[w].next_step + 1 \in Nat \ {0} /\ "RUNNING" \in DurableRunState
    BY <2>1 DEF DurableRunState
  <2>3. /\ Persist(w, r, "top") /\ UNCHANGED carried
        /\ pc[w] \in Active \ {"execute", "record"}
    BY <1>8 DEF Fold, callVars, Active
  <2>4. r \in StoredRunRecord /\ r.tool_calls = ctx[w].tool_calls /\ r.state = "RUNNING"
    BY <1>0, <2>2 DEF StoredRunRecord
  <2> HIDE DEF r
  <2>5. QED
    BY <2>3, <2>4, PersistCounts DEF Active
<1>9. QED
  BY <1>1, <1>3, <1>4, <1>5, <1>6, <1>7, <1>8, ClaimCounts, ExecuteCounts, CompleteCounts
     DEF WorkerStep

\* The profile's max_tool_calls holds for the run, across every crash and
\* resume, and the stored count is exact but for the call in flight.
THEOREM WithinToolBudget == Spec => []ToolCallBudget
<1>1. Init => BudgetInv
  <2> SUFFICES ASSUME Init PROVE BudgetInv
    OBVIOUS
  <2>1. Calls = {} /\ \A w \in Worker : pc[w] # "record"
    BY DEF Init, Contract!Init, Calls
  <2>2. store.state = "ABSENT" /\ store.tool_calls = 0
    BY DEF Init, NoRecord
  <2>3. QED
    BY <2>1, <2>2, FS_EmptySet, LimitsArePositive DEF BudgetInv, InFlightCalls
<1>2. IInv /\ BudgetInv /\ [Next]_vars => BudgetInv'
  <2> SUFFICES ASSUME IInv, BudgetInv, [Next]_vars PROVE BudgetInv'
    OBVIOUS
  <2>1. CASE Tick \/ UNCHANGED vars
    BY <2>1, NoCallStep DEF Tick, vars, workerVars, callVars
  <2>2. ASSUME NEW a \in Attempt, Effect(a) PROVE BudgetInv'
    BY <2>2, NoCallStep DEF Effect, Contract!Effect, workerVars
  <2>3. QED
    BY <2>1, <2>2, BudgetStep DEF Next
<1>3. IInv /\ BudgetInv => ToolCallBudget
  <2> SUFFICES ASSUME IInv, BudgetInv PROVE ToolCallBudget
    OBVIOUS
  <2>1. store.tool_calls \in Nat /\ MaxToolCalls \in Nat
    BY LimitsArePositive DEF IInv, TypeOK, StoredRunRecord
  <2>2. QED
    BY <2>1 DEF BudgetInv, InFlightCalls, ToolCallBudget, Calls
<1>4. QED
  BY <1>1, <1>2, <1>3, Invariance, PTL DEF Spec
=============================================================================
