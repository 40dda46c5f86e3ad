------------------------ MODULE GovernedDispatchProofs ------------------------
(***************************************************************************)
(* Proofs about GovernedDispatch for any number of requests, attempts,     *)
(* permits and threads.                                                    *)
(***************************************************************************)
EXTENDS GovernedDispatch, TLAPS

\* A thread either is free or carries an envelope that some attempt posted.
ThreadsBound ==
  \A t \in Thread :
    /\ tpc[t] = "free" => env[t] = None /\ ~sent[t]
    /\ tpc[t] # "free" => env[t] \in Attempt /\ conn[env[t]] # None

\* Where an attempt stands determines what it has already obtained.
AttemptsBound ==
  \A a \in Attempt :
    /\ pc[a] = "idle" <=> req[a] = None
    /\ result[a] = NoResult <=> pc[a] # "done"
    /\ pc[a] \in {"idle", "plan", "decide", "issue"} => permit[a] = None
    /\ pc[a] \in {"authorize", "dispatch"} => permit[a] \in Permit
    /\ conn[a] # None => /\ permit[a] \in Permit
                         /\ env[conn[a]] = a
                         /\ tpc[conn[a]] # "free"
                         /\ pc[a] \in {"claiming", "dispatch", "handled", "await",
                                       "verify", "done", "crashed"}
    /\ pc[a] \in {"claiming", "handled", "await", "verify"} => conn[a] # None
    /\ pc[a] \in {"claiming", "handled"} => ~Independent(a)
    /\ pc[a] \in {"await", "verify"} => Independent(a)
    /\ pc[a] = "dispatch" => IF Independent(a) THEN conn[a] = None
                             ELSE conn[a] # None /\ tpc[conn[a]] = "claimed"

\* Threads past a successful claim, and threads that sent.
Holding(t) == tpc[t] \in {"claimed", "answered", "closed"} \/ sent[t]

\* The ledger row a holder's claim inserted stays, so no two threads ever hold
\* the same permit.
HoldersExclusive ==
  /\ \A t \in Thread : Holding(t) => permit[env[t]] \in consumed
  /\ \A t, u \in Thread :
       Holding(t) /\ Holding(u) /\ permit[env[t]] = permit[env[u]] => t = u

IInv == TypeOK /\ ThreadsBound /\ AttemptsBound /\ HoldersExclusive

-----------------------------------------------------------------------------

USE NoneIsNoId, ModesAreTyped, ClockBounds DEF Independent

\* Nothing is posted, claimed or sent at the start.
LEMMA InitIInv == Init => IInv
BY DEF Init, IInv, TypeOK, ThreadsBound, AttemptsBound, HoldersExclusive, Holding,
       AttemptLabels, ThreadLabels, Results, NoResult

\* Every classification of runtime.py and gateway.py is one of the six results.
LEMMA OutcomesDiffer ==
  /\ NoResult \notin Results
  /\ \A a : ContractFailure(a) \in Results /\ GatewayIndeterminate(a) \in Results
  /\ \A a, g : g \in Results => RuntimeResult(a, g) \in Results
BY DEF Results, NoResult, Executed, Blocked, ReviewRequired, Indeterminate,
       ControlFailure, ContractBroken, ContractFailure, GatewayIndeterminate,
       RuntimeResult

\* A gateway result handed to execute() comes back as a typed result.
LEMMA ReturnTyped ==
  ASSUME TypeOK, NEW a \in Attempt, NEW g \in Results, Return(a, g)
  PROVE  pc' \in [Attempt -> AttemptLabels]
         /\ result' \in [Attempt -> Results \cup {NoResult}]
BY OutcomesDiffer DEF TypeOK, Return, AttemptLabels

\* So does an exception of the gateway.
LEMMA RaiseTyped ==
  ASSUME TypeOK, NEW a \in Attempt, Raise(a)
  PROVE  pc' \in [Attempt -> AttemptLabels]
         /\ result' \in [Attempt -> Results \cup {NoResult}]
BY OutcomesDiffer DEF TypeOK, Raise, AttemptLabels

\* So are the results the gateway names.
LEMMA NamedResults ==
  /\ {ControlFailure, Blocked, ReviewRequired, Executed, Indeterminate} \subseteq Results
  /\ \A a : GatewayIndeterminate(a) \in Results
BY OutcomesDiffer DEF Results

\* TypeOK is preserved by every step.
LEMMA TypeStep == IInv /\ [Next]_vars => TypeOK'
<1> SUFFICES ASSUME IInv, TypeOK, [Next]_vars PROVE TypeOK'
  BY DEF IInv
<1> USE OutcomesDiffer, NamedResults
<1> USE DEF agentVars, vaultVars, threadVars, Goto, Start, Move, Mint
<1>1. ASSUME NEW a \in Attempt, NEW r \in Request, Begin(a, r) PROVE TypeOK'
  BY <1>1 DEF Begin, TypeOK, AttemptLabels
<1>2. ASSUME NEW a \in Attempt, Plan(a) PROVE TypeOK'
  BY <1>2, ReturnTyped DEF Plan, TypeOK, AttemptLabels, ThreadLabels
<1>3. ASSUME NEW a \in Attempt, Decide(a) PROVE TypeOK'
  BY <1>3, ReturnTyped DEF Decide, TypeOK, AttemptLabels, ThreadLabels
<1>4. ASSUME NEW a \in Attempt, Issue(a) PROVE TypeOK'
  BY <1>4, ReturnTyped DEF Issue, TypeOK, AttemptLabels, ThreadLabels
<1>5. ASSUME NEW a \in Attempt, VerifyOnly(a) PROVE TypeOK'
  BY <1>5, ReturnTyped DEF VerifyOnly, TypeOK, AttemptLabels, ThreadLabels
<1>6. ASSUME NEW a \in Attempt, ClaimLocally(a) PROVE TypeOK'
  BY <1>6, ReturnTyped DEF ClaimLocally, TypeOK, AttemptLabels, ThreadLabels
<1>7. ASSUME NEW a \in Attempt, ClaimAnswered(a) PROVE TypeOK'
  BY <1>7, ReturnTyped DEF ClaimAnswered, TypeOK, AttemptLabels, ThreadLabels
<1>8. ASSUME NEW a \in Attempt, InvokeHandler(a) PROVE TypeOK'
  <2>1. /\ pc' \in [Attempt -> AttemptLabels]
        /\ result' \in [Attempt -> Results \cup {NoResult}]
    <3>1. CASE Raise(a)
      BY <3>1, RaiseTyped
    <3>2. CASE Return(a, ControlFailure)
      BY <3>2, ReturnTyped
    <3>3. CASE Goto(a, "handled")
      BY <3>3 DEF TypeOK, AttemptLabels
    <3>4. QED
      BY <1>8, <3>1, <3>2, <3>3 DEF InvokeHandler
  <2>2. entries' \in [Attempt -> Nat]
    BY <1>8 DEF InvokeHandler, TypeOK
  <2>3. sent' \in [Thread -> BOOLEAN]
    BY <1>8, Zenon DEF InvokeHandler, TypeOK
  <2>4. QED
    BY <1>8, <2>1, <2>2, <2>3 DEF InvokeHandler, TypeOK
<1>9. ASSUME NEW a \in Attempt, FinishLocally(a) PROVE TypeOK'
  BY <1>9, ReturnTyped DEF FinishLocally, TypeOK, AttemptLabels, ThreadLabels
<1>10. ASSUME NEW a \in Attempt, Post(a) PROVE TypeOK'
  BY <1>10, ReturnTyped DEF Post, TypeOK, AttemptLabels, ThreadLabels
<1>11. ASSUME NEW a \in Attempt, Answered(a) PROVE TypeOK'
  BY <1>11, ReturnTyped DEF Answered, TypeOK, AttemptLabels, ThreadLabels
<1>12. ASSUME NEW a \in Attempt, RpcFailed(a) PROVE TypeOK'
  BY <1>12, ReturnTyped DEF RpcFailed, TypeOK, AttemptLabels, ThreadLabels
<1>13. ASSUME NEW a \in Attempt, VerifyClosure(a) PROVE TypeOK'
  BY <1>13, ReturnTyped DEF VerifyClosure, TypeOK, AttemptLabels, ThreadLabels
<1>14. ASSUME NEW a \in Attempt, Replay(a) PROVE TypeOK'
  BY <1>14, ReturnTyped DEF Replay, TypeOK, AttemptLabels, ThreadLabels
<1>15. ASSUME NEW a \in Attempt, AgentCrash(a) PROVE TypeOK'
  BY <1>15, ReturnTyped DEF AgentCrash, TypeOK, AttemptLabels, ThreadLabels
<1>16. ASSUME NEW t \in Thread, Admit(t) PROVE TypeOK'
  BY <1>16 DEF Admit, TypeOK, ThreadLabels
<1>17. ASSUME NEW t \in Thread, Connect(t) PROVE TypeOK'
  BY <1>17 DEF Connect, TypeOK, ThreadLabels
<1>18. ASSUME NEW t \in Thread, Sample(t) PROVE TypeOK'
  BY <1>18 DEF Sample, TypeOK, ThreadLabels
<1>19. ASSUME NEW t \in Thread, Lookup(t) PROVE TypeOK'
  <2>1. (permit[env[t]] \in consumed) \in BOOLEAN
    OBVIOUS
  <2>2. seen' \in [Thread -> BOOLEAN]
    BY <1>19, <2>1, Zenon DEF Lookup, TypeOK
  <2>3. QED
    BY <1>19, <2>2 DEF Lookup, TypeOK, ThreadLabels
<1>20. ASSUME NEW t \in Thread, Verify(t) PROVE TypeOK'
  BY <1>20 DEF Verify, TypeOK, ThreadLabels
<1>21. ASSUME NEW t \in Thread, ClaimOnce(t) PROVE TypeOK'
  <2>1. permit[env[t]] \in Permit
    BY <1>21 DEF IInv, ThreadsBound, AttemptsBound, ClaimOnce, TypeOK
  <2>2. QED
    BY <1>21, <2>1 DEF ClaimOnce, TypeOK, ThreadLabels
<1>22. ASSUME NEW t \in Thread, Send(t) PROVE TypeOK'
  BY <1>22 DEF Send, TypeOK, ThreadLabels
<1>23. ASSUME NEW t \in Thread, Seal(t) PROVE TypeOK'
  BY <1>23 DEF Seal, TypeOK, ThreadLabels
<1>24. CASE SidecarCrash
  BY <1>24 DEF SidecarCrash, TypeOK, ThreadLabels
<1>25. CASE Tick
  BY <1>25 DEF Tick, TypeOK, ThreadLabels
<1>26. CASE UNCHANGED vars
  BY <1>26 DEF vars, TypeOK, ThreadLabels
<1>27. QED
  BY <1>1, <1>2, <1>3, <1>4, <1>5, <1>6, <1>7, <1>8, <1>9, <1>10, <1>11, <1>12, <1>13, <1>14, <1>15, <1>16, <1>17, <1>18, <1>19, <1>20, <1>21, <1>22, <1>23, <1>24, <1>25, <1>26 DEF Next, AttemptStep, ThreadStep

\* Envelopes, connections and permits stay bound to one attempt.
LEMMA BindingStep == IInv /\ [Next]_vars => (ThreadsBound /\ AttemptsBound)'
<1> SUFFICES ASSUME IInv, TypeOK', [Next]_vars PROVE (ThreadsBound /\ AttemptsBound)'
  BY TypeStep
<1> USE OutcomesDiffer, NamedResults
<1> USE DEF IInv, TypeOK, ThreadsBound, AttemptsBound, agentVars, vaultVars, threadVars,
            Goto, Return, Raise, Start, Move, Mint
<1>1. ASSUME NEW a \in Attempt, NEW r \in Request, Begin(a, r) PROVE (ThreadsBound /\ AttemptsBound)'
  BY <1>1 DEF Begin
<1>2. ASSUME NEW a \in Attempt, Plan(a) PROVE (ThreadsBound /\ AttemptsBound)'
  BY <1>2 DEF Plan
<1>3. ASSUME NEW a \in Attempt, Decide(a) PROVE (ThreadsBound /\ AttemptsBound)'
  BY <1>3 DEF Decide
<1>4. ASSUME NEW a \in Attempt, Issue(a) PROVE (ThreadsBound /\ AttemptsBound)'
  BY <1>4 DEF Issue
<1>5. ASSUME NEW a \in Attempt, VerifyOnly(a) PROVE (ThreadsBound /\ AttemptsBound)'
  BY <1>5 DEF VerifyOnly
<1>6. ASSUME NEW a \in Attempt, ClaimLocally(a) PROVE (ThreadsBound /\ AttemptsBound)'
  BY <1>6 DEF ClaimLocally
<1>7. ASSUME NEW a \in Attempt, ClaimAnswered(a) PROVE (ThreadsBound /\ AttemptsBound)'
  BY <1>7 DEF ClaimAnswered
<1>8. ASSUME NEW a \in Attempt, InvokeHandler(a) PROVE (ThreadsBound /\ AttemptsBound)'
  BY <1>8 DEF InvokeHandler
<1>9. ASSUME NEW a \in Attempt, FinishLocally(a) PROVE (ThreadsBound /\ AttemptsBound)'
  BY <1>9 DEF FinishLocally
<1>10. ASSUME NEW a \in Attempt, Post(a) PROVE (ThreadsBound /\ AttemptsBound)'
  BY <1>10 DEF Post
<1>11. ASSUME NEW a \in Attempt, Answered(a) PROVE (ThreadsBound /\ AttemptsBound)'
  BY <1>11 DEF Answered
<1>12. ASSUME NEW a \in Attempt, RpcFailed(a) PROVE (ThreadsBound /\ AttemptsBound)'
  BY <1>12 DEF RpcFailed
<1>13. ASSUME NEW a \in Attempt, VerifyClosure(a) PROVE (ThreadsBound /\ AttemptsBound)'
  BY <1>13 DEF VerifyClosure
<1>14. ASSUME NEW a \in Attempt, Replay(a) PROVE (ThreadsBound /\ AttemptsBound)'
  BY <1>14 DEF Replay
<1>15. ASSUME NEW a \in Attempt, AgentCrash(a) PROVE (ThreadsBound /\ AttemptsBound)'
  BY <1>15 DEF AgentCrash
<1>16. ASSUME NEW t \in Thread, Admit(t) PROVE (ThreadsBound /\ AttemptsBound)'
  BY <1>16 DEF Admit
<1>17. ASSUME NEW t \in Thread, Connect(t) PROVE (ThreadsBound /\ AttemptsBound)'
  BY <1>17 DEF Connect
<1>18. ASSUME NEW t \in Thread, Sample(t) PROVE (ThreadsBound /\ AttemptsBound)'
  BY <1>18 DEF Sample
<1>19. ASSUME NEW t \in Thread, Lookup(t) PROVE (ThreadsBound /\ AttemptsBound)'
  BY <1>19 DEF Lookup
<1>20. ASSUME NEW t \in Thread, Verify(t) PROVE (ThreadsBound /\ AttemptsBound)'
  BY <1>20 DEF Verify
<1>21. ASSUME NEW t \in Thread, ClaimOnce(t) PROVE (ThreadsBound /\ AttemptsBound)'
  BY <1>21 DEF ClaimOnce
<1>22. ASSUME NEW t \in Thread, Send(t) PROVE (ThreadsBound /\ AttemptsBound)'
  BY <1>22 DEF Send
<1>23. ASSUME NEW t \in Thread, Seal(t) PROVE (ThreadsBound /\ AttemptsBound)'
  BY <1>23 DEF Seal
<1>24. CASE SidecarCrash
  BY <1>24 DEF SidecarCrash
<1>25. CASE Tick
  BY <1>25 DEF Tick
<1>26. CASE UNCHANGED vars
  BY <1>26 DEF vars
<1>27. QED
  BY <1>1, <1>2, <1>3, <1>4, <1>5, <1>6, <1>7, <1>8, <1>9, <1>10, <1>11, <1>12, <1>13, <1>14, <1>15, <1>16, <1>17, <1>18, <1>19, <1>20, <1>21, <1>22, <1>23, <1>24, <1>25, <1>26 DEF Next, AttemptStep, ThreadStep

\* A claim excludes every later claim of the same permit.
LEMMA HoldersStep == IInv /\ [Next]_vars => HoldersExclusive'
<1> SUFFICES ASSUME IInv, TypeOK', [Next]_vars PROVE HoldersExclusive'
  BY TypeStep
<1> USE OutcomesDiffer, NamedResults
<1> USE DEF IInv, TypeOK, ThreadsBound, AttemptsBound, HoldersExclusive, Holding, agentVars, vaultVars, threadVars,
            Goto, Return, Raise, Start, Move, Mint
<1>1. ASSUME NEW a \in Attempt, NEW r \in Request, Begin(a, r) PROVE HoldersExclusive'
  BY <1>1 DEF Begin
<1>2. ASSUME NEW a \in Attempt, Plan(a) PROVE HoldersExclusive'
  BY <1>2 DEF Plan
<1>3. ASSUME NEW a \in Attempt, Decide(a) PROVE HoldersExclusive'
  BY <1>3 DEF Decide
<1>4. ASSUME NEW a \in Attempt, Issue(a) PROVE HoldersExclusive'
  <2>1. UNCHANGED <<tpc, env, sent, consumed>>
    BY <1>4 DEF Issue
  <2>2. conn[a] = None
    BY <1>4 DEF Issue
  <2>3. \A t \in Thread : Holding(t) => env[t] \in Attempt /\ env[t] # a
    BY <2>2
  <2>4. \A b \in Attempt : b # a => permit'[b] = permit[b]
    BY <1>4 DEF Issue
  <2>5. \A t \in Thread : Holding(t) => permit'[env[t]] = permit[env[t]]
    BY <2>3, <2>4
  <2>6. QED
    BY <2>1, <2>5
<1>5. ASSUME NEW a \in Attempt, VerifyOnly(a) PROVE HoldersExclusive'
  BY <1>5 DEF VerifyOnly
<1>6. ASSUME NEW a \in Attempt, ClaimLocally(a) PROVE HoldersExclusive'
  BY <1>6 DEF ClaimLocally
<1>7. ASSUME NEW a \in Attempt, ClaimAnswered(a) PROVE HoldersExclusive'
  BY <1>7 DEF ClaimAnswered
<1>8. ASSUME NEW a \in Attempt, InvokeHandler(a) PROVE HoldersExclusive'
  BY <1>8 DEF InvokeHandler
<1>9. ASSUME NEW a \in Attempt, FinishLocally(a) PROVE HoldersExclusive'
  BY <1>9 DEF FinishLocally
<1>10. ASSUME NEW a \in Attempt, Post(a) PROVE HoldersExclusive'
  BY <1>10 DEF Post
<1>11. ASSUME NEW a \in Attempt, Answered(a) PROVE HoldersExclusive'
  BY <1>11 DEF Answered
<1>12. ASSUME NEW a \in Attempt, RpcFailed(a) PROVE HoldersExclusive'
  BY <1>12 DEF RpcFailed
<1>13. ASSUME NEW a \in Attempt, VerifyClosure(a) PROVE HoldersExclusive'
  BY <1>13 DEF VerifyClosure
<1>14. ASSUME NEW a \in Attempt, Replay(a) PROVE HoldersExclusive'
  BY <1>14 DEF Replay
<1>15. ASSUME NEW a \in Attempt, AgentCrash(a) PROVE HoldersExclusive'
  BY <1>15 DEF AgentCrash
<1>16. ASSUME NEW t \in Thread, Admit(t) PROVE HoldersExclusive'
  BY <1>16 DEF Admit
<1>17. ASSUME NEW t \in Thread, Connect(t) PROVE HoldersExclusive'
  BY <1>17 DEF Connect
<1>18. ASSUME NEW t \in Thread, Sample(t) PROVE HoldersExclusive'
  BY <1>18 DEF Sample
<1>19. ASSUME NEW t \in Thread, Lookup(t) PROVE HoldersExclusive'
  BY <1>19 DEF Lookup
<1>20. ASSUME NEW t \in Thread, Verify(t) PROVE HoldersExclusive'
  BY <1>20 DEF Verify
<1>21. ASSUME NEW t \in Thread, ClaimOnce(t) PROVE HoldersExclusive'
  BY <1>21 DEF ClaimOnce
<1>22. ASSUME NEW t \in Thread, Send(t) PROVE HoldersExclusive'
  BY <1>22 DEF Send
<1>23. ASSUME NEW t \in Thread, Seal(t) PROVE HoldersExclusive'
  BY <1>23 DEF Seal
<1>24. CASE SidecarCrash
  BY <1>24 DEF SidecarCrash
<1>25. CASE Tick
  BY <1>25 DEF Tick
<1>26. CASE UNCHANGED vars
  BY <1>26 DEF vars
<1>27. QED
  BY <1>1, <1>2, <1>3, <1>4, <1>5, <1>6, <1>7, <1>8, <1>9, <1>10, <1>11, <1>12, <1>13, <1>14, <1>15, <1>16, <1>17, <1>18, <1>19, <1>20, <1>21, <1>22, <1>23, <1>24, <1>25, <1>26 DEF Next, AttemptStep, ThreadStep

\* The binding of attempts, threads and permits is an invariant.
LEMMA Invariance == Spec => []IInv
<1>1. IInv /\ [Next]_vars => IInv'
  BY TypeStep, BindingStep, HoldersStep DEF IInv
<1>2. QED
  BY <1>1, InitIInv, PTL DEF Spec

\* The state of runtime, gateway, sidecar and ledger is always well typed.
THEOREM TypeCorrect == Spec => []TypeOK
<1>1. IInv => TypeOK
  BY DEF IInv
<1>2. QED
  BY <1>1, Invariance, PTL

\* One permit, one transmission: claim_once is the only gate a sender passes,
\* and its ledger row outlives crashes, replays and re-issued permits.
THEOREM PermitSpentOnce == Spec => []SingleUse
<1>1. IInv => SingleUse
  BY DEF IInv, HoldersExclusive, Holding, SingleUse
<1>2. QED
  BY <1>1, Invariance, PTL

-----------------------------------------------------------------------------
(* Results against transmissions, when no envelope is replayed. *)

\* Only the thread an attempt waits for carries its envelope.
OneThread == \A t \in Thread : tpc[t] # "free" => conn[env[t]] = t

\* What "has sent" and "has entered the handler" leave behind.
SentStates ==
  /\ \A t \in Thread :
       IF env[t] \notin Local
       THEN /\ sent[t] => tpc[t] \in {"answered", "indeterminate", "closed", "gone"}
            /\ tpc[t] \in {"answered", "indeterminate", "closed"} => sent[t]
       ELSE sent[t] => entries[env[t]] > 0
  /\ \A a \in Attempt :
       /\ Independent(a) => entries[a] = 0
       /\ entries[a] > 0 => /\ pc[a] \in {"handled", "done", "crashed"}
                            /\ result[a] \in {NoResult, Indeterminate}
       /\ pc[a] = "handled" => entries[a] > 0

ToolExecutedFalse(a) ==
  result[a].status \in {"BLOCKED", "REVIEW_REQUIRED", "CONTROL_FAILURE"}

\* A negative result means a thread that can send no more; a positive one, or
\* a closure under verification, means a thread that has sent.
ResultStates ==
  \A a \in Attempt :
    /\ Independent(a) /\ ToolExecutedFalse(a) /\ conn[a] # None
         => tpc[conn[a]] \in {"refused", "gone"} /\ ~sent[conn[a]]
    /\ pc[a] = "verify" \/ result[a] = Executed
         => Independent(a) /\ conn[a] # None /\ sent[conn[a]]

\* Of two attempts of one request, one has given up without effect.
RetryDiscipline ==
  \A a, b \in Attempt :
    a # b /\ req[a] = req[b] /\ req[a] # None
      => result[a].retryable \/ result[b].retryable

JInv == IInv /\ OneThread /\ SentStates /\ ResultStates /\ RetryDiscipline

\* No result and no effect at the start.
LEMMA InitJInv == Init => JInv
BY InitIInv DEF Init, JInv, OneThread, SentStates, ResultStates, RetryDiscipline,
   ToolExecutedFalse, NoResult, Executed

\* A step keeps senders on the record.
LEMMA SentStep == ~Replays /\ JInv /\ [Next]_vars => (OneThread /\ SentStates)'
<1> SUFFICES ASSUME ~Replays, JInv, IInv', [Next]_vars PROVE (OneThread /\ SentStates)'
  BY TypeStep, BindingStep, HoldersStep DEF IInv, JInv
<1> USE DEF JInv, IInv, TypeOK, ThreadsBound, AttemptsBound, OneThread, SentStates, agentVars, vaultVars, threadVars,
            Goto, Return, Raise, Start, Move, Mint,
            NoResult, Executed, Blocked, ReviewRequired, Indeterminate, ControlFailure,
            ContractBroken, ContractFailure, GatewayIndeterminate, RuntimeResult
<1>1. ASSUME NEW a \in Attempt, NEW r \in Request, Begin(a, r) PROVE (OneThread /\ SentStates)'
  BY <1>1 DEF Begin
<1>2. ASSUME NEW a \in Attempt, Plan(a) PROVE (OneThread /\ SentStates)'
  BY <1>2 DEF Plan
<1>3. ASSUME NEW a \in Attempt, Decide(a) PROVE (OneThread /\ SentStates)'
  BY <1>3 DEF Decide
<1>4. ASSUME NEW a \in Attempt, Issue(a) PROVE (OneThread /\ SentStates)'
  BY <1>4 DEF Issue
<1>5. ASSUME NEW a \in Attempt, VerifyOnly(a) PROVE (OneThread /\ SentStates)'
  BY <1>5 DEF VerifyOnly
<1>6. ASSUME NEW a \in Attempt, ClaimLocally(a) PROVE (OneThread /\ SentStates)'
  BY <1>6 DEF ClaimLocally
<1>7. ASSUME NEW a \in Attempt, ClaimAnswered(a) PROVE (OneThread /\ SentStates)'
  BY <1>7 DEF ClaimAnswered
<1>8. ASSUME NEW a \in Attempt, InvokeHandler(a) PROVE (OneThread /\ SentStates)'
  <2>1. OneThread'
    BY <1>8 DEF InvokeHandler
  <2>2. ~Independent(a) /\ env' = env /\ tpc' = tpc
        /\ env[conn[a]] = a /\ conn[a] \in Thread /\ entries[a] \in Nat
    BY <1>8 DEF InvokeHandler
  <2>3. ASSUME NEW t \in Thread
        PROVE  IF env[t] \notin Local
               THEN /\ sent'[t] => tpc[t] \in {"answered", "indeterminate", "closed", "gone"}
                    /\ tpc[t] \in {"answered", "indeterminate", "closed"} => sent'[t]
               ELSE sent'[t] => entries'[env[t]] > 0
    <3>1. CASE t = conn[a]
      BY <1>8, <2>2, <3>1 DEF InvokeHandler
    <3>2. CASE t # conn[a]
      <4>1. sent'[t] = sent[t]
        BY <1>8, <2>2, <3>2 DEF InvokeHandler
      <4>2. sent[t] => env[t] \in Attempt
        OBVIOUS
      <4>3. env[t] \in Attempt /\ entries[env[t]] > 0 => entries'[env[t]] > 0
        BY <1>8, <2>2 DEF InvokeHandler
      <4>4. QED
        BY <4>1, <4>2, <4>3
    <3>3. QED
      BY <3>1, <3>2
  <2>4. ASSUME NEW b \in Attempt
        PROVE  /\ entries'[b] > 0 => /\ pc'[b] \in {"handled", "done", "crashed"}
                                     /\ result'[b] \in {NoResult, Indeterminate}
               /\ pc'[b] = "handled" => entries'[b] > 0
               /\ Independent(b) => entries'[b] = 0
    <3>1. CASE b # a
      <4>1. entries'[b] = entries[b] /\ pc'[b] = pc[b] /\ result'[b] = result[b]
        BY <1>8, <3>1 DEF InvokeHandler
      <4>2. QED
        BY <4>1
    <3>2. CASE b = a /\ UNCHANGED entries
      <4>1. entries[a] = 0
        BY <1>8 DEF InvokeHandler
      <4>2. pc'[a] = "done"
        BY <1>8, <3>2, <2>2 DEF InvokeHandler
      <4>3. QED
        BY <3>2, <4>1, <4>2
    <3>3. CASE b = a /\ ~UNCHANGED entries
      <4>1. entries'[a] = entries[a] + 1 /\ pc'[a] = "handled" /\ result'[a] = NoResult
        BY <1>8, <3>3 DEF InvokeHandler
      <4>2. QED
        BY <2>2, <3>3, <4>1
    <3>4. QED
      BY <3>1, <3>2, <3>3
  <2>5. QED
    BY <2>1, <2>2, <2>3, <2>4
<1>9. ASSUME NEW a \in Attempt, FinishLocally(a) PROVE (OneThread /\ SentStates)'
  BY <1>9 DEF FinishLocally
<1>10. ASSUME NEW a \in Attempt, Post(a) PROVE (OneThread /\ SentStates)'
  <2>1. Independent(a) /\ pc[a] = "dispatch" /\ conn[a] = None
    BY <1>10 DEF Post
  <2>2. UNCHANGED <<entries, sent>>
    BY <1>10 DEF Post
  <2>3. CASE UNCHANGED <<conn, threadVars>>
    <3>1. entries[a] = 0
      BY <2>1
    <3>2. /\ pc'[a] = "done"
          /\ \A b \in Attempt : b # a => pc'[b] = pc[b] /\ result'[b] = result[b]
      BY <1>10, <2>1, <2>3 DEF Post
    <3>3. OneThread'
      BY <2>3
    <3>4. SentStates'
      BY <2>2, <2>3, <3>1, <3>2
    <3>5. QED
      BY <3>3, <3>4
  <2>4. CASE \E t \in Thread : /\ Start(t, a, "received")
                               /\ conn' = [conn EXCEPT ![a] = t]
                               /\ Goto(a, "await")
    <3> PICK t \in Thread : /\ Start(t, a, "received")
                            /\ conn' = [conn EXCEPT ![a] = t]
                            /\ Goto(a, "await")
      BY <2>4
    <3>1. /\ tpc[t] = "free" /\ tpc'[t] = "received" /\ env'[t] = a /\ conn'[a] = t
          /\ \A u \in Thread : u # t => tpc'[u] = tpc[u] /\ env'[u] = env[u]
          /\ \A b \in Attempt : b # a => conn'[b] = conn[b] /\ pc'[b] = pc[b]
          /\ pc'[a] = "await" /\ result' = result
      OBVIOUS
    <3>2. OneThread'
      <4>1. \A u \in Thread : u # t /\ tpc[u] # "free" => env[u] \in Attempt /\ env[u] # a
        BY <2>1
      <4>2. QED
        BY <3>1, <4>1
    <3>3. SentStates'
      BY <2>1, <2>2, <3>1
    <3>4. QED
      BY <3>2, <3>3
  <2>5. QED
    BY <1>10, <2>3, <2>4 DEF Post
<1>11. ASSUME NEW a \in Attempt, Answered(a) PROVE (OneThread /\ SentStates)'
  BY <1>11 DEF Answered
<1>12. ASSUME NEW a \in Attempt, RpcFailed(a) PROVE (OneThread /\ SentStates)'
  BY <1>12 DEF RpcFailed
<1>13. ASSUME NEW a \in Attempt, VerifyClosure(a) PROVE (OneThread /\ SentStates)'
  BY <1>13 DEF VerifyClosure
<1>14. ASSUME NEW a \in Attempt, Replay(a) PROVE (OneThread /\ SentStates)'
  BY <1>14 DEF Replay
<1>15. ASSUME NEW a \in Attempt, AgentCrash(a) PROVE (OneThread /\ SentStates)'
  BY <1>15 DEF AgentCrash
<1>16. ASSUME NEW t \in Thread, Admit(t) PROVE (OneThread /\ SentStates)'
  BY <1>16 DEF Admit
<1>17. ASSUME NEW t \in Thread, Connect(t) PROVE (OneThread /\ SentStates)'
  BY <1>17 DEF Connect
<1>18. ASSUME NEW t \in Thread, Sample(t) PROVE (OneThread /\ SentStates)'
  BY <1>18 DEF Sample
<1>19. ASSUME NEW t \in Thread, Lookup(t) PROVE (OneThread /\ SentStates)'
  BY <1>19 DEF Lookup
<1>20. ASSUME NEW t \in Thread, Verify(t) PROVE (OneThread /\ SentStates)'
  BY <1>20 DEF Verify
<1>21. ASSUME NEW t \in Thread, ClaimOnce(t) PROVE (OneThread /\ SentStates)'
  BY <1>21 DEF ClaimOnce
<1>22. ASSUME NEW t \in Thread, Send(t) PROVE (OneThread /\ SentStates)'
  BY <1>22 DEF Send
<1>23. ASSUME NEW t \in Thread, Seal(t) PROVE (OneThread /\ SentStates)'
  BY <1>23 DEF Seal
<1>24. CASE SidecarCrash
  BY <1>24 DEF SidecarCrash
<1>25. CASE Tick
  BY <1>25 DEF Tick
<1>26. CASE UNCHANGED vars
  BY <1>26 DEF vars
<1>27. QED
  BY <1>1, <1>2, <1>3, <1>4, <1>5, <1>6, <1>7, <1>8, <1>9, <1>10, <1>11, <1>12, <1>13, <1>14, <1>15, <1>16, <1>17, <1>18, <1>19, <1>20, <1>21, <1>22, <1>23, <1>24, <1>25, <1>26 DEF Next, AttemptStep, ThreadStep

\* A step returns only results the thread's state supports.
LEMMA ResultStep == ~Replays /\ JInv /\ [Next]_vars => ResultStates'
<1> SUFFICES ASSUME ~Replays, JInv, IInv', [Next]_vars PROVE ResultStates'
  BY TypeStep, BindingStep, HoldersStep DEF IInv, JInv
<1> USE DEF JInv, IInv, TypeOK, ThreadsBound, AttemptsBound, OneThread, SentStates, ResultStates, ToolExecutedFalse, agentVars, vaultVars, threadVars,
            Goto, Return, Raise, Start, Move, Mint,
            NoResult, Executed, Blocked, ReviewRequired, Indeterminate, ControlFailure,
            ContractBroken, ContractFailure, GatewayIndeterminate, RuntimeResult
<1>1. ASSUME NEW a \in Attempt, NEW r \in Request, Begin(a, r) PROVE ResultStates'
  BY <1>1 DEF Begin
<1>2. ASSUME NEW a \in Attempt, Plan(a) PROVE ResultStates'
  <2>1. conn[a] = None /\ conn' = conn /\ tpc' = tpc /\ sent' = sent
    BY <1>2 DEF Plan
  <2>2. pc'[a] # "verify" /\ result'[a] # Executed
    BY <1>2 DEF Plan
  <2>3. \A b \in Attempt \ {a} : pc'[b] = pc[b] /\ result'[b] = result[b]
    BY <1>2 DEF Plan
  <2>4. QED
    BY <2>1, <2>2, <2>3
<1>3. ASSUME NEW a \in Attempt, Decide(a) PROVE ResultStates'
  <2>1. conn[a] = None /\ conn' = conn /\ tpc' = tpc /\ sent' = sent
    BY <1>3 DEF Decide
  <2>2. pc'[a] # "verify" /\ result'[a] # Executed
    BY <1>3 DEF Decide
  <2>3. \A b \in Attempt \ {a} : pc'[b] = pc[b] /\ result'[b] = result[b]
    BY <1>3 DEF Decide
  <2>4. QED
    BY <2>1, <2>2, <2>3
<1>4. ASSUME NEW a \in Attempt, Issue(a) PROVE ResultStates'
  BY <1>4 DEF Issue
<1>5. ASSUME NEW a \in Attempt, VerifyOnly(a) PROVE ResultStates'
  <2>1. conn[a] = None /\ conn' = conn /\ tpc' = tpc /\ sent' = sent
    BY <1>5 DEF VerifyOnly
  <2>2. pc'[a] # "verify" /\ result'[a] # Executed
    BY <1>5 DEF VerifyOnly
  <2>3. \A b \in Attempt \ {a} : pc'[b] = pc[b] /\ result'[b] = result[b]
    BY <1>5 DEF VerifyOnly
  <2>4. QED
    BY <2>1, <2>2, <2>3
<1>6. ASSUME NEW a \in Attempt, ClaimLocally(a) PROVE ResultStates'
  BY <1>6 DEF ClaimLocally
<1>7. ASSUME NEW a \in Attempt, ClaimAnswered(a) PROVE ResultStates'
  BY <1>7 DEF ClaimAnswered
<1>8. ASSUME NEW a \in Attempt, InvokeHandler(a) PROVE ResultStates'
  BY <1>8 DEF InvokeHandler
<1>9. ASSUME NEW a \in Attempt, FinishLocally(a) PROVE ResultStates'
  BY <1>9 DEF FinishLocally
<1>10. ASSUME NEW a \in Attempt, Post(a) PROVE ResultStates'
  BY <1>10 DEF Post
<1>11. ASSUME NEW a \in Attempt, Answered(a) PROVE ResultStates'
  BY <1>11 DEF Answered
<1>12. ASSUME NEW a \in Attempt, RpcFailed(a) PROVE ResultStates'
  BY <1>12 DEF RpcFailed
<1>13. ASSUME NEW a \in Attempt, VerifyClosure(a) PROVE ResultStates'
  BY <1>13 DEF VerifyClosure
<1>14. ASSUME NEW a \in Attempt, Replay(a) PROVE ResultStates'
  BY <1>14 DEF Replay
<1>15. ASSUME NEW a \in Attempt, AgentCrash(a) PROVE ResultStates'
  BY <1>15 DEF AgentCrash
<1>16. ASSUME NEW t \in Thread, Admit(t) PROVE ResultStates'
  BY <1>16 DEF Admit
<1>17. ASSUME NEW t \in Thread, Connect(t) PROVE ResultStates'
  BY <1>17 DEF Connect
<1>18. ASSUME NEW t \in Thread, Sample(t) PROVE ResultStates'
  BY <1>18 DEF Sample
<1>19. ASSUME NEW t \in Thread, Lookup(t) PROVE ResultStates'
  BY <1>19 DEF Lookup
<1>20. ASSUME NEW t \in Thread, Verify(t) PROVE ResultStates'
  BY <1>20 DEF Verify
<1>21. ASSUME NEW t \in Thread, ClaimOnce(t) PROVE ResultStates'
  BY <1>21 DEF ClaimOnce
<1>22. ASSUME NEW t \in Thread, Send(t) PROVE ResultStates'
  BY <1>22 DEF Send
<1>23. ASSUME NEW t \in Thread, Seal(t) PROVE ResultStates'
  BY <1>23 DEF Seal
<1>24. CASE SidecarCrash
  BY <1>24 DEF SidecarCrash
<1>25. CASE Tick
  BY <1>25 DEF Tick
<1>26. CASE UNCHANGED vars
  BY <1>26 DEF vars
<1>27. QED
  BY <1>1, <1>2, <1>3, <1>4, <1>5, <1>6, <1>7, <1>8, <1>9, <1>10, <1>11, <1>12, <1>13, <1>14, <1>15, <1>16, <1>17, <1>18, <1>19, <1>20, <1>21, <1>22, <1>23, <1>24, <1>25, <1>26 DEF Next, AttemptStep, ThreadStep

\* Callers retry only retryable results, and results are final.
LEMMA RetryStep == ~Replays /\ JInv /\ [Next]_vars => RetryDiscipline'
<1> SUFFICES ASSUME ~Replays, JInv, IInv', [Next]_vars PROVE RetryDiscipline'
  BY TypeStep, BindingStep, HoldersStep DEF IInv, JInv
<1>0. ASSUME UNCHANGED req,
             \A b \in Attempt : result'[b] # result[b] => result[b] = NoResult
      PROVE  RetryDiscipline'
  BY <1>0 DEF JInv, RetryDiscipline, NoResult
<1> USE DEF JInv, IInv, TypeOK, AttemptsBound, agentVars, vaultVars, Goto, Return, Raise
<1>1. ASSUME NEW a \in Attempt, NEW r \in Request, Begin(a, r) PROVE RetryDiscipline'
  BY <1>1 DEF Begin, RetryDiscipline, NoResult
<1>2. ASSUME NEW a \in Attempt, Plan(a) PROVE RetryDiscipline'
  BY <1>0, <1>2 DEF Plan
<1>3. ASSUME NEW a \in Attempt, Decide(a) PROVE RetryDiscipline'
  BY <1>0, <1>3 DEF Decide
<1>4. ASSUME NEW a \in Attempt, Issue(a) PROVE RetryDiscipline'
  BY <1>0, <1>4 DEF Issue
<1>5. ASSUME NEW a \in Attempt, VerifyOnly(a) PROVE RetryDiscipline'
  BY <1>0, <1>5 DEF VerifyOnly
<1>6. ASSUME NEW a \in Attempt, ClaimLocally(a) PROVE RetryDiscipline'
  BY <1>0, <1>6 DEF ClaimLocally
<1>7. ASSUME NEW a \in Attempt, ClaimAnswered(a) PROVE RetryDiscipline'
  BY <1>0, <1>7 DEF ClaimAnswered
<1>8. ASSUME NEW a \in Attempt, InvokeHandler(a) PROVE RetryDiscipline'
  BY <1>0, <1>8 DEF InvokeHandler
<1>9. ASSUME NEW a \in Attempt, FinishLocally(a) PROVE RetryDiscipline'
  BY <1>0, <1>9 DEF FinishLocally
<1>10. ASSUME NEW a \in Attempt, Post(a) PROVE RetryDiscipline'
  BY <1>0, <1>10 DEF Post
<1>11. ASSUME NEW a \in Attempt, Answered(a) PROVE RetryDiscipline'
  BY <1>0, <1>11 DEF Answered
<1>12. ASSUME NEW a \in Attempt, RpcFailed(a) PROVE RetryDiscipline'
  BY <1>0, <1>12 DEF RpcFailed
<1>13. ASSUME NEW a \in Attempt, VerifyClosure(a) PROVE RetryDiscipline'
  BY <1>0, <1>13 DEF VerifyClosure
<1>14. ASSUME NEW a \in Attempt, Replay(a) PROVE RetryDiscipline'
  BY <1>0, <1>14 DEF Replay
<1>15. ASSUME NEW a \in Attempt, AgentCrash(a) PROVE RetryDiscipline'
  BY <1>0, <1>15 DEF AgentCrash
<1>16. ASSUME NEW t \in Thread, Admit(t) PROVE RetryDiscipline'
  BY <1>0, <1>16 DEF Admit
<1>17. ASSUME NEW t \in Thread, Connect(t) PROVE RetryDiscipline'
  BY <1>0, <1>17 DEF Connect
<1>18. ASSUME NEW t \in Thread, Sample(t) PROVE RetryDiscipline'
  BY <1>0, <1>18 DEF Sample
<1>19. ASSUME NEW t \in Thread, Lookup(t) PROVE RetryDiscipline'
  BY <1>0, <1>19 DEF Lookup
<1>20. ASSUME NEW t \in Thread, Verify(t) PROVE RetryDiscipline'
  BY <1>0, <1>20 DEF Verify
<1>21. ASSUME NEW t \in Thread, ClaimOnce(t) PROVE RetryDiscipline'
  BY <1>0, <1>21 DEF ClaimOnce
<1>22. ASSUME NEW t \in Thread, Send(t) PROVE RetryDiscipline'
  BY <1>0, <1>22 DEF Send
<1>23. ASSUME NEW t \in Thread, Seal(t) PROVE RetryDiscipline'
  BY <1>0, <1>23 DEF Seal
<1>24. CASE SidecarCrash
  BY <1>0, <1>24 DEF SidecarCrash
<1>25. CASE Tick
  BY <1>0, <1>25 DEF Tick
<1>26. CASE UNCHANGED vars
  BY <1>0, <1>26 DEF vars
<1>27. QED
  BY <1>1, <1>2, <1>3, <1>4, <1>5, <1>6, <1>7, <1>8, <1>9, <1>10, <1>11, <1>12, <1>13, <1>14, <1>15, <1>16, <1>17, <1>18, <1>19, <1>20, <1>21, <1>22, <1>23, <1>24, <1>25, <1>26 DEF Next, AttemptStep, ThreadStep

\* The invariant behind the contract is inductive without replays.
LEMMA JStep == ~Replays /\ JInv /\ [Next]_vars => JInv'
BY TypeStep, BindingStep, HoldersStep, SentStep, ResultStep, RetryStep DEF IInv, JInv

\* It therefore holds always.
LEMMA JInvariance == ASSUME ~Replays PROVE Spec => []JInv
BY InitJInv, JStep, PTL DEF Spec

\* tool_executed=False is never contradicted later: neither a handler entry nor
\* a late sidecar thread follows a BLOCKED, REVIEW_REQUIRED or CONTROL_FAILURE.
THEOREM RefusalIsFinal == ASSUME ~Replays PROVE Spec => []RefusalMeansUnsent
<1>1. JInv => RefusalMeansUnsent
  <2> SUFFICES ASSUME JInv, NEW a \in Attempt, ToolExecutedFalse(a),
                      NEW t \in Thread, sent[t], env[t] = a
               PROVE  FALSE
    BY DEF RefusalMeansUnsent, Senders, ToolExecutedFalse
  <2>1. conn[a] = t
    BY DEF JInv, IInv, OneThread, ThreadsBound
  <2>2. QED
    BY <2>1 DEF JInv, ResultStates, SentStates, ToolExecutedFalse, NoResult,
                Indeterminate, IInv, TypeOK
<1>2. QED
  BY <1>1, JInvariance, PTL

\* Whatever fails and is retried, the effect of a request starts at most once.
THEOREM OneEffectPerRequest == ASSUME ~Replays PROVE Spec => []AtMostOneEffect
<1>1. JInv => AtMostOneEffect
  <2> SUFFICES ASSUME JInv, NEW t \in Thread, NEW u \in Thread, sent[t], sent[u],
                      req[env[t]] = req[env[u]], t # u
               PROVE  FALSE
    BY DEF AtMostOneEffect
  <2>1. /\ env[t] \in Attempt /\ conn[env[t]] = t /\ req[env[t]] # None
        /\ env[u] \in Attempt /\ conn[env[u]] = u
    BY DEF JInv, IInv, OneThread, ThreadsBound, AttemptsBound
  <2>2. PICK a \in {env[t], env[u]} : result[a].retryable
    BY <2>1 DEF JInv, RetryDiscipline
  <2>3. a \in Attempt /\ ToolExecutedFalse(a)
    BY <2>1, <2>2 DEF JInv, IInv, TypeOK, ToolExecutedFalse, Results, NoResult,
       Executed, Blocked, ReviewRequired, Indeterminate, ControlFailure, ContractBroken
  <2>4. QED
    BY <2>1, <2>2, <2>3 DEF JInv, ResultStates, SentStates, ToolExecutedFalse,
       NoResult, Indeterminate, IInv, TypeOK
<1>2. QED
  BY <1>1, JInvariance, PTL

\* EXECUTED is reported only by an independent transport, for bytes that left.
THEOREM ExecutedOnlyWhenProven == ASSUME ~Replays PROVE Spec => []ExecutedIsProven
<1>1. JInv => ExecutedIsProven
  BY DEF JInv, IInv, TypeOK, AttemptsBound, ResultStates, SentStates, ExecutedIsProven, Senders
<1>2. QED
  BY <1>1, JInvariance, PTL

-----------------------------------------------------------------------------
(* The governed path implements the contract of execute(). *)

\* The contract starts where the governed path starts.
LEMMA ContractInit == Init => Contract!Init
BY DEF Init, Contract!Init, Senders, NoResult, Contract!NoOutcome

\* Steps that touch neither results, requests nor transmissions stutter.
LEMMA QuietStep ==
  ASSUME UNCHANGED <<req, result, env, sent>>
  PROVE  UNCHANGED Contract!vars
BY DEF Contract!vars, Senders

\* A thread that starts work has not sent, so no attempt gains a sender.
LEMMA StartQuiet ==
  ASSUME JInv, NEW t \in Thread, NEW a \in Attempt, NEW l, Start(t, a, l),
         UNCHANGED <<req, result>>
  PROVE  UNCHANGED Contract!vars
<1>1. \A b \in Attempt : Senders(b)' = Senders(b)
  BY DEF Start, Senders, JInv, IInv, TypeOK, ThreadsBound
<1>2. QED
  BY <1>1 DEF Contract!vars

\* Returning a result is the contract's Return: the invariant of the next state
\* says that the result agrees with what was sent.
LEMMA ReportStep ==
  ASSUME JInv, JInv', NEW a \in Attempt, pc[a] \notin {"idle", "done"},
         UNCHANGED <<req, env, sent>>, NEW o \in Results,
         result' = [result EXCEPT ![a] = o]
  PROVE  Contract!Next
<1>1. req[a] # None /\ result[a] = NoResult /\ result'[a] = o
  BY DEF JInv, IInv, AttemptsBound, TypeOK
<1>2. Senders(a)' = Senders(a) /\ \A b \in Attempt : Senders(b)' = Senders(b)
  BY DEF Senders
<1>3. o = Executed => Senders(a) # {}
  BY <1>1, <1>2 DEF JInv, IInv, TypeOK, AttemptsBound, ResultStates, Senders
<1>4. ToolExecutedFalse(a)' => Senders(a)' = {}
  <2> SUFFICES ASSUME ToolExecutedFalse(a)', NEW t \in Thread, sent'[t], env'[t] = a
               PROVE  FALSE
    BY DEF Senders
  <2>1. conn'[a] = t
    BY DEF JInv, IInv, OneThread, ThreadsBound
  <2>2. QED
    BY <2>1 DEF JInv, ResultStates, SentStates, ToolExecutedFalse, NoResult,
                Indeterminate, IInv, TypeOK
<1>5. o \in Contract!Outcome
  BY DEF Contract!Outcome, Results, Executed, Blocked, ReviewRequired, Indeterminate,
         ControlFailure, ContractBroken
<1>6. o.status = "EXECUTED" => o = Executed
  BY DEF Results, Executed, Blocked, ReviewRequired, Indeterminate,
         ControlFailure, ContractBroken
<1>7. Contract!Return(a, o)
  BY <1>1, <1>2, <1>3, <1>4, <1>6 DEF Contract!Return, Contract!NoOutcome, NoResult,
     Contract!ToolExecutedFalse, ToolExecutedFalse
<1>8. QED
  BY <1>5, <1>7 DEF Contract!Next

\* The first transmission of an attempt is the contract's Effect.
LEMMA EffectStep ==
  ASSUME JInv, JInv', NEW t \in Thread, ~sent[t], tpc[t] # "free",
         sent' = [sent EXCEPT ![t] = TRUE], UNCHANGED <<req, env, result, conn>>
  PROVE  Contract!Next
<1> DEFINE a == env[t]
<1>1. a \in Attempt /\ req[a] # None /\ conn[a] = t
  BY DEF JInv, IInv, ThreadsBound, AttemptsBound, OneThread
<1>2. Senders(a) = {}
  BY <1>1 DEF Senders, JInv, IInv, ThreadsBound, OneThread
<1>3. Senders(a)' # {} /\ \A b \in Attempt \ {a} : Senders(b)' = Senders(b)
  BY <1>1 DEF Senders, JInv, IInv, TypeOK
<1>4. result[a].status \in {"NONE", "INDETERMINATE"}
  <2>1. sent'[t] /\ conn'[a] = t /\ env'[t] = a /\ result'[a] = result[a]
    BY <1>1 DEF JInv, IInv, TypeOK
  <2>2. ~ToolExecutedFalse(a)'
    BY <1>1, <2>1 DEF JInv, ResultStates, SentStates, ToolExecutedFalse, NoResult,
                Indeterminate, IInv, TypeOK
  <2>3. result[a] # Executed
    BY <1>1 DEF JInv, ResultStates
  <2>4. QED
    BY <1>1, <2>1, <2>2, <2>3 DEF JInv, IInv, TypeOK, ToolExecutedFalse, Results, NoResult,
       Executed, Blocked, ReviewRequired, Indeterminate, ControlFailure, ContractBroken
<1>5. [b \in Attempt |-> Senders(b) # {}]'
        = [[b \in Attempt |-> Senders(b) # {}] EXCEPT ![a] = TRUE]
  BY <1>1, <1>3, Zenon
<1>6. Contract!Effect(a)
  BY <1>1, <1>2, <1>4, <1>5 DEF Contract!Effect, Contract!MayStillHappen
<1>7. QED
  BY <1>1, <1>6 DEF Contract!Next

\* Every step of the governed path is a step of the contract or a stutter.
LEMMA ContractStep ==
  ASSUME JInv, JInv', ~Replays, [Next]_vars
  PROVE  [Contract!Next]_(Contract!vars)
<1> USE OutcomesDiffer, NamedResults
<1> USE DEF agentVars, vaultVars, threadVars, Goto, Return, Move
<1>1. ASSUME NEW a \in Attempt, NEW r \in Request, Begin(a, r) PROVE Contract!Next
  <2>1. Contract!Begin(a, r)
    BY <1>1 DEF Begin, Contract!Begin, Senders, JInv, IInv, AttemptsBound
  <2>2. QED
    BY <2>1 DEF Contract!Next
<1>2. ASSUME NEW a \in Attempt, Plan(a) PROVE [Contract!Next]_(Contract!vars)
  BY <1>2, ReportStep, QuietStep DEF Plan
<1>3. ASSUME NEW a \in Attempt, Decide(a) PROVE [Contract!Next]_(Contract!vars)
  BY <1>3, ReportStep, QuietStep DEF Decide
<1>4. ASSUME NEW a \in Attempt, Issue(a) PROVE [Contract!Next]_(Contract!vars)
  BY <1>4, ReportStep, QuietStep DEF Issue
<1>5. ASSUME NEW a \in Attempt, VerifyOnly(a) PROVE [Contract!Next]_(Contract!vars)
  BY <1>5, ReportStep, QuietStep DEF VerifyOnly
<1>6. ASSUME NEW a \in Attempt, ClaimAnswered(a) PROVE [Contract!Next]_(Contract!vars)
  BY <1>6, ReportStep, QuietStep DEF ClaimAnswered
<1>7. ASSUME NEW a \in Attempt, FinishLocally(a) PROVE [Contract!Next]_(Contract!vars)
  BY <1>7, ReportStep, QuietStep DEF FinishLocally
<1>8. ASSUME NEW a \in Attempt, Answered(a) PROVE [Contract!Next]_(Contract!vars)
  BY <1>8, ReportStep, QuietStep DEF Answered
<1>9. ASSUME NEW a \in Attempt, RpcFailed(a) PROVE [Contract!Next]_(Contract!vars)
  BY <1>9, ReportStep, QuietStep DEF RpcFailed
<1>10. ASSUME NEW a \in Attempt, VerifyClosure(a) PROVE [Contract!Next]_(Contract!vars)
  BY <1>10, ReportStep, QuietStep DEF VerifyClosure
<1>11. ASSUME NEW a \in Attempt, AgentCrash(a) PROVE [Contract!Next]_(Contract!vars)
  BY <1>11, ReportStep, QuietStep DEF AgentCrash
<1>12. ASSUME NEW a \in Attempt, ClaimLocally(a) PROVE [Contract!Next]_(Contract!vars)
  BY <1>12, StartQuiet DEF ClaimLocally
<1>13. ASSUME NEW a \in Attempt, Post(a) PROVE [Contract!Next]_(Contract!vars)
  BY <1>13, ReportStep, StartQuiet DEF Post
<1>14. ASSUME NEW a \in Attempt, InvokeHandler(a) PROVE [Contract!Next]_(Contract!vars)
  <2>1. CASE (Raise(a) \/ Return(a, ControlFailure)) /\ UNCHANGED sent
    BY <1>14, <2>1, ReportStep DEF InvokeHandler, Raise
  <2>2. CASE sent' = [sent EXCEPT ![conn[a]] = TRUE] /\ UNCHANGED result
    <3>1. /\ conn[a] \in Thread /\ ~sent[conn[a]] /\ tpc[conn[a]] # "free"
      BY <1>14 DEF InvokeHandler, JInv, IInv, TypeOK, AttemptsBound, SentStates
    <3>2. QED
      BY <1>14, <2>2, <3>1, EffectStep DEF InvokeHandler
  <2>3. QED
    BY <1>14, <2>1, <2>2 DEF InvokeHandler
<1>15. ASSUME NEW t \in Thread, Send(t) PROVE [Contract!Next]_(Contract!vars)
  <2>1. ~sent[t]
    BY <1>15 DEF Send, JInv, SentStates
  <2>2. QED
    BY <1>15, <2>1, EffectStep DEF Send
<1>16. ASSUME NEW t \in Thread, Admit(t) PROVE [Contract!Next]_(Contract!vars)
  BY <1>16, QuietStep DEF Admit
<1>17. ASSUME NEW t \in Thread, Connect(t) PROVE [Contract!Next]_(Contract!vars)
  BY <1>17, QuietStep DEF Connect
<1>18. ASSUME NEW t \in Thread, Sample(t) PROVE [Contract!Next]_(Contract!vars)
  BY <1>18, QuietStep DEF Sample
<1>19. ASSUME NEW t \in Thread, Lookup(t) PROVE [Contract!Next]_(Contract!vars)
  BY <1>19, QuietStep DEF Lookup
<1>20. ASSUME NEW t \in Thread, Verify(t) PROVE [Contract!Next]_(Contract!vars)
  BY <1>20, QuietStep DEF Verify
<1>21. ASSUME NEW t \in Thread, ClaimOnce(t) PROVE [Contract!Next]_(Contract!vars)
  BY <1>21, QuietStep DEF ClaimOnce
<1>22. ASSUME NEW t \in Thread, Seal(t) PROVE [Contract!Next]_(Contract!vars)
  BY <1>22, QuietStep DEF Seal
<1>23. CASE SidecarCrash
  BY <1>23, QuietStep DEF SidecarCrash
<1>24. CASE Tick
  BY <1>24, QuietStep DEF Tick
<1>25. CASE UNCHANGED vars
  BY <1>25, QuietStep DEF vars
<1>26. ASSUME NEW a \in Attempt, Replay(a) PROVE FALSE
  BY <1>26 DEF Replay
<1>27. QED
  BY <1>1, <1>2, <1>3, <1>4, <1>5, <1>6, <1>7, <1>8, <1>9, <1>10, <1>11, <1>12, <1>13, <1>14, <1>15, <1>16, <1>17, <1>18, <1>19, <1>20, <1>21, <1>22, <1>23, <1>24, <1>25, <1>26 DEF Next, AttemptStep, ThreadStep

\* Runtime, gateway, sidecar and ledger together implement ExecutionContract:
\* effect at most once, never after a negative result, EXECUTED only after it.
THEOREM GovernedPathImplementsContract ==
  ASSUME ~Replays PROVE Spec => ImplementsContract
<1>1. Init => Contract!Init
  BY ContractInit
<1>2. JInv /\ JInv' /\ [Next]_vars => [Contract!Next]_(Contract!vars)
  BY ContractStep
<1>3. QED
  BY <1>1, <1>2, JInvariance, PTL DEF Spec, ImplementsContract, Contract!Spec

-----------------------------------------------------------------------------
(* Expiry is judged on a clock sampled after the channel was opened. *)

Sampled(t) == tpc[t] \in {"sampled", "looked_up"}
Passed(t)  == Holding(t) \/ tpc[t] = "verified"

FreshInv ==
  /\ \A a \in Attempt : permit[a] # None => owner[permit[a]] # None
  /\ \A t \in Thread :
       /\ sent[t] => tpc[t] \in {"claimed", "answered", "indeterminate", "closed", "gone"}
       /\ dialedAt[t] <= now
       /\ Sampled(t) \/ Passed(t) => dialedAt[t] <= claimedAt[t]
       /\ Passed(t) => claimedAt[t] < expires[permit[env[t]]]

\* The clock sample a thread carries stays after its dial and before the expiry.
LEMMA FreshStep == IInv /\ FreshInv /\ [Next]_vars => FreshInv'
<1> SUFFICES ASSUME IInv, IInv', FreshInv, [Next]_vars PROVE FreshInv'
  BY TypeStep, BindingStep, HoldersStep DEF IInv
<1> USE DEF IInv, TypeOK, ThreadsBound, AttemptsBound, FreshInv, Sampled, Passed, Holding,
            agentVars, vaultVars, threadVars, Start, Move, Mint
<1>1. ASSUME NEW a \in Attempt, NEW r \in Request, Begin(a, r) PROVE FreshInv'
  BY <1>1 DEF Begin
<1>2. ASSUME NEW a \in Attempt, Plan(a) PROVE FreshInv'
  BY <1>2 DEF Plan
<1>3. ASSUME NEW a \in Attempt, Decide(a) PROVE FreshInv'
  BY <1>3 DEF Decide
<1>4. ASSUME NEW a \in Attempt, Issue(a) PROVE FreshInv'
  BY <1>4 DEF Issue
<1>5. ASSUME NEW a \in Attempt, VerifyOnly(a) PROVE FreshInv'
  BY <1>5 DEF VerifyOnly
<1>6. ASSUME NEW a \in Attempt, ClaimLocally(a) PROVE FreshInv'
  BY <1>6 DEF ClaimLocally
<1>7. ASSUME NEW a \in Attempt, ClaimAnswered(a) PROVE FreshInv'
  BY <1>7 DEF ClaimAnswered
<1>8. ASSUME NEW a \in Attempt, InvokeHandler(a) PROVE FreshInv'
  BY <1>8 DEF InvokeHandler
<1>9. ASSUME NEW a \in Attempt, FinishLocally(a) PROVE FreshInv'
  BY <1>9 DEF FinishLocally
<1>10. ASSUME NEW a \in Attempt, Post(a) PROVE FreshInv'
  BY <1>10 DEF Post
<1>11. ASSUME NEW a \in Attempt, Answered(a) PROVE FreshInv'
  BY <1>11 DEF Answered
<1>12. ASSUME NEW a \in Attempt, RpcFailed(a) PROVE FreshInv'
  BY <1>12 DEF RpcFailed
<1>13. ASSUME NEW a \in Attempt, VerifyClosure(a) PROVE FreshInv'
  BY <1>13 DEF VerifyClosure
<1>14. ASSUME NEW a \in Attempt, Replay(a) PROVE FreshInv'
  BY <1>14 DEF Replay
<1>15. ASSUME NEW a \in Attempt, AgentCrash(a) PROVE FreshInv'
  BY <1>15 DEF AgentCrash
<1>16. ASSUME NEW t \in Thread, Admit(t) PROVE FreshInv'
  BY <1>16 DEF Admit
<1>17. ASSUME NEW t \in Thread, Connect(t) PROVE FreshInv'
  BY <1>17 DEF Connect
<1>18. ASSUME NEW t \in Thread, Sample(t) PROVE FreshInv'
  BY <1>18 DEF Sample
<1>19. ASSUME NEW t \in Thread, Lookup(t) PROVE FreshInv'
  BY <1>19 DEF Lookup
<1>20. ASSUME NEW t \in Thread, Verify(t) PROVE FreshInv'
  BY <1>20 DEF Verify, Acceptable
<1>21. ASSUME NEW t \in Thread, ClaimOnce(t) PROVE FreshInv'
  BY <1>21 DEF ClaimOnce
<1>22. ASSUME NEW t \in Thread, Send(t) PROVE FreshInv'
  BY <1>22 DEF Send
<1>23. ASSUME NEW t \in Thread, Seal(t) PROVE FreshInv'
  BY <1>23 DEF Seal
<1>24. CASE SidecarCrash
  BY <1>24 DEF SidecarCrash
<1>25. CASE Tick
  BY <1>25 DEF Tick
<1>26. CASE UNCHANGED vars
  BY <1>26 DEF vars
<1>27. QED
  BY <1>1, <1>2, <1>3, <1>4, <1>5, <1>6, <1>7, <1>8, <1>9, <1>10, <1>11, <1>12, <1>13, <1>14, <1>15, <1>16, <1>17, <1>18, <1>19, <1>20, <1>21, <1>22, <1>23, <1>24, <1>25, <1>26 DEF Next, AttemptStep, ThreadStep

\* No bytes leave on a permit that expired while the sidecar was dialing.
THEOREM SentOnFreshPermit == Spec => []FreshAfterDial
<1>1. Init => FreshInv
  BY DEF Init, FreshInv, Sampled, Passed, Holding
<1>2. IInv /\ FreshInv => FreshAfterDial
  BY DEF FreshInv, FreshAfterDial, Passed, Holding
<1>3. QED
  BY <1>1, <1>2, FreshStep, Invariance, PTL DEF Spec
=============================================================================
