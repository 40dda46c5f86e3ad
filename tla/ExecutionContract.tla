-------------------------- MODULE ExecutionContract --------------------------
(***************************************************************************)
(* What GovernedRuntime.execute promises its caller, with no gateway,      *)
(* sidecar, permit or network in it.  An attempt carries one request; its  *)
(* external effect (handler entered, or action bytes leaving the sidecar)  *)
(* may start at most once, possibly after an INDETERMINATE outcome was     *)
(* returned, and never after an outcome that says tool_executed=False.     *)
(* A caller starts a further attempt of a request only when every earlier  *)
(* one returned a retryable outcome.                                       *)
(***************************************************************************)

CONSTANTS Request, Attempt, None

VARIABLES
  req,       \* the request an attempt carries, None before it begins
  outcome,   \* the GovernedExecution returned, NoOutcome while running
  effected   \* whether the external effect of the attempt has started

vars == <<req, outcome, effected>>

\* tool_executed and retryable of GovernedExecution: a status determines the
\* former, and __post_init__ lets only CONTROL_FAILURE be retryable.
Outcome ==
  {[status |-> s, retryable |-> FALSE] :
     s \in {"EXECUTED", "BLOCKED", "REVIEW_REQUIRED", "CONTROL_FAILURE", "INDETERMINATE"}}
  \cup {[status |-> "CONTROL_FAILURE", retryable |-> TRUE]}

NoOutcome == [status |-> "NONE", retryable |-> FALSE]

ToolExecutedFalse(o) ==
  o.status \in {"BLOCKED", "REVIEW_REQUIRED", "CONTROL_FAILURE"}

\* An effect may still start: nothing was returned, or INDETERMINATE was.
MayStillHappen(o) == o.status \in {"NONE", "INDETERMINATE"}

Init ==
  /\ req = [a \in Attempt |-> None]
  /\ outcome = [a \in Attempt |-> NoOutcome]
  /\ effected = [a \in Attempt |-> FALSE]

Begin(a, r) ==
  /\ req[a] = None
  /\ \A b \in Attempt : req[b] = r => outcome[b].retryable
  /\ req' = [req EXCEPT ![a] = r]
  /\ UNCHANGED <<outcome, effected>>

Effect(a) ==
  /\ req[a] # None
  /\ ~effected[a]
  /\ MayStillHappen(outcome[a])
  /\ effected' = [effected EXCEPT ![a] = TRUE]
  /\ UNCHANGED <<req, outcome>>

Return(a, o) ==
  /\ req[a] # None
  /\ outcome[a] = NoOutcome
  /\ o.status = "EXECUTED" => effected[a]
  /\ ToolExecutedFalse(o) => ~effected[a]
  /\ outcome' = [outcome EXCEPT ![a] = o]
  /\ UNCHANGED <<req, effected>>

Next ==
  \E a \in Attempt :
    \/ \E r \in Request : Begin(a, r)
    \/ Effect(a)
    \/ \E o \in Outcome : Return(a, o)

Spec == Init /\ [][Next]_vars

-----------------------------------------------------------------------------

TypeOK ==
  /\ req \in [Attempt -> Request \cup {None}]
  /\ outcome \in [Attempt -> Outcome \cup {NoOutcome}]
  /\ effected \in [Attempt -> BOOLEAN]

\* However often a request is retried, its external effect starts at most once.
AtMostOneEffect ==
  \A a, b \in Attempt :
    effected[a] /\ effected[b] /\ req[a] = req[b] => a = b
=============================================================================
