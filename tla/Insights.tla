------------------------------ MODULE Insights ------------------------------
(***************************************************************************)
(* Learning signals and standing personalization (agent/insights.py over   *)
(* the append-only learning store): people leave feedback, recorders store *)
(* what completed runs did, managers approve guidance repeated feedback    *)
(* supports, and compile approved guidance into an agent's profile, while  *)
(* reviewers may lose their authority.                                     *)
(*                                                                         *)
(* A store method is one step; record_run, approve and compile_profile are *)
(* sequences of them and can fail between two.  A signal's id hashes its   *)
(* content and its timestamp, so a signal is its own id; feedback_text is  *)
(* its normalized form.                                                    *)
(***************************************************************************)
EXTENDS Integers, Sequences, FiniteSets

CONSTANTS
    Recorders, Managers,    \* calls of record_run; of approve and compile_profile
    Agents, Reviewers,
    Workloads,      \* [feedback, results, legacy] of a behaviour: human signals not
                    \* yet dated [key, kind, agent, text], run results
                    \* [agent, run, status, rejections], and rows [signal, intact]
                    \* of a store of schema 1
    Fingerprints,   \* fingerprints of the base profiles of an agent
    Min, Window,    \* min_occurrences; the window, in units of the clock
    MaxTime,        \* bound of the model on the clock
    None

HumanKinds == {"correction", "preference", "workflow"}

ASSUME InsightsConfig ==
    /\ Min \in Nat \ {0, 1} /\ Window \in Nat /\ MaxTime \in Nat
    /\ \A w \in Workloads :
          /\ \A f \in w.feedback : f.kind \in HumanKinds /\ f.agent \in Agents
          /\ \A r \in w.results : r.agent \in Agents /\ r.rejections \in Seq(STRING)

\* Outcomes of a store of schema 1 are under the key record_run gives them.
ASSUME LegacyKeys ==
    \A w \in Workloads : \A row \in w.legacy :
        row.intact /\ row.signal.kind = "outcome" =>
            row.signal.key = <<"run-outcome", row.signal.agent, row.signal.what[1]>>

VARIABLES
    workload,       \* what people say and runs report in this behaviour
    phase, temp,    \* of the migration; the signals of its temporary file
    clock,
    trusted,        \* reviewers the deployment's verifier accepts
    signals,        \* stored signals
    approvals,      \* stored approvals
    rpc, result, stamp, step,   \* recorders: place, argument, observed_at, appends done
    mpc, reviewer, cand, fp, now,   \* managers: place and arguments of approve()
    agent, skills, listed, valid, compiled, \* managers: compile_profile()
    authority       \* history: the reviewers trusted when a manager's call began

store == <<signals, approvals>>
recorder == <<rpc, result, stamp, step>>
manager == <<mpc, reviewer, cand, fp, now, agent, skills, listed, valid, compiled, authority>>
migration == <<phase, temp>>
vars == <<workload, migration, clock, trusted, store, recorder, manager>>

-----------------------------------------------------------------------------
(* The store.                                                              *)

\* The semantic payload: everything but the timestamp.
Payload(s) == [s EXCEPT !.at = 0]

\* An append under a stored key returns the stored record, or fails when the
\* record differs in more than its timestamp.
Retried(s) == {t \in signals : t.key = s.key}
AppendRefused(s) == \E t \in Retried(s) : Payload(t) # Payload(s)
AppendSignal(s) ==
    signals' = IF Retried(s) = {} THEN signals \cup {s} ELSE signals

ApprovalKey(a) == <<a.reviewer, a.cand, a.fp>>
AppendApproval(a) ==
    approvals' = IF \E b \in approvals : ApprovalKey(b) = ApprovalKey(a)
                 THEN approvals ELSE approvals \cup {a}

ListSignals(a) == {s \in signals : s.agent = a}
LoadSignals(ids) == ids \subseteq signals     \* a missing id fails the load
ListApprovals(a) == {p \in approvals : p.cand.agent = a}
LoadApprovals(ids) == ids \subseteq approvals

-----------------------------------------------------------------------------
(* Analysis.                                                               *)

FinalizeSignal(key, kind, a, what, t) ==
    [key |-> key, kind |-> kind, agent |-> a, what |-> what, at |-> t]
Human(f, t) == FinalizeSignal(<<f.key>>, f.kind, f.agent, <<f.text>>, t)
RunOutcome(r, t) == FinalizeSignal(<<"run-outcome", r.agent, r.run>>, "outcome",
                                   r.agent, <<r.run, r.status>>, t)
ToolRejection(r, i, t) ==
    FinalizeSignal(<<"tool-rejection", r.agent, r.run, i, r.rejections[i]>>,
                   "rejection", r.agent, <<r.run, r.rejections[i]>>, t)

InWindow(s, t) == t - Window <= s.at /\ s.at <= t

Homogeneous(g) ==
    /\ Cardinality(g) >= 2              \* MIN_GUIDANCE_OCCURRENCES
    /\ \A s \in g : s.kind \in HumanKinds
    /\ \A s, t \in g : s.kind = t.kind /\ s.agent = t.agent /\ s.what = t.what

\* A candidate: what it says, and the signals it rests on.  Workflows become
\* skills, corrections and preferences rules.
Candidate(g) ==
    LET s == CHOOSE s \in g : TRUE
    IN  [agent |-> s.agent, kind |-> s.kind, body |-> s.what, evidence |-> g]
IsSkill(c) == c.kind = "workflow"

Windowed(a, t) == {s \in ListSignals(a) : InWindow(s, t)}

\* Signals are grouped by what was said, the run's status or the rejection; a group
\* of min_occurrences and more counts.
GroupKey(s) == <<s.kind, s.what[Len(s.what)]>>
Groups(a, t, kinds) ==
    LET seen == {s \in Windowed(a, t) : s.kind \in kinds}
    IN  {g \in {{u \in seen : GroupKey(u) = GroupKey(s)} : s \in seen} :
            Cardinality(g) >= Min}

Candidates(a, t) == {Candidate(g) : g \in Groups(a, t, HumanKinds)}

\* Friction: runs that ended alike but for COMPLETED; rejections of one tool.
RunFriction(a, t) ==
    {g \in Groups(a, t, {"outcome"}) : \A s \in g : s.what[2] # "COMPLETED"}
ToolFriction(a, t) == Groups(a, t, {"rejection"})

-----------------------------------------------------------------------------
(* Feedback and recorders.                                                 *)

\* cbrain-insights feedback; a refused append leaves no trace.
LeaveFeedback(f) ==
    /\ ~AppendRefused(Human(f, clock))
    /\ AppendSignal(Human(f, clock))
    /\ UNCHANGED <<clock, trusted, approvals, recorder, manager>>

RecordRun(p, r) ==
    /\ rpc[p] \in {"idle", "false"}
    /\ rpc' = [rpc EXCEPT ![p] = "append"]
    /\ result' = [result EXCEPT ![p] = r]
    /\ stamp' = [stamp EXCEPT ![p] = clock]
    /\ step' = [step EXCEPT ![p] = 0]
    /\ UNCHANGED <<clock, trusted, store, manager>>

Appended(p) ==
    IF step[p] = 0 THEN RunOutcome(result[p], stamp[p])
    ELSE ToolRejection(result[p], step[p], stamp[p])

RecordSignal(p) ==
    /\ rpc[p] = "append" /\ step[p] <= Len(result[p].rejections)
    /\ ~AppendRefused(Appended(p))
    /\ AppendSignal(Appended(p))
    /\ step' = [step EXCEPT ![p] = @ + 1]
    /\ UNCHANGED <<clock, trusted, approvals, rpc, result, stamp, manager>>

RecordDone(p) ==
    /\ rpc[p] = "append" /\ step[p] > Len(result[p].rejections)
    /\ rpc' = [rpc EXCEPT ![p] = "true"]
    /\ UNCHANGED <<clock, trusted, store, result, stamp, step, manager>>

\* Mutant: a failed append is logged and the run reported as recorded.
RecordFailsSilently(p) ==
    /\ rpc[p] = "append" /\ step[p] <= Len(result[p].rejections)
    /\ rpc' = [rpc EXCEPT ![p] = "true"]
    /\ UNCHANGED <<clock, trusted, store, result, stamp, step, manager>>

\* A refused append or any other exception, after the appends made so far.
RecordFails(p) ==
    /\ rpc[p] = "append" /\ step[p] <= Len(result[p].rejections)
    /\ rpc' = [rpc EXCEPT ![p] = "false"]
    /\ UNCHANGED <<clock, trusted, store, result, stamp, step, manager>>

-----------------------------------------------------------------------------
(* approve(): each step may raise, which ends the call.                    *)

\* The call raised, or its caller is done with what it returned.
ManagerReturns(m) ==
    /\ mpc[m] # "idle"
    /\ mpc' = [mpc EXCEPT ![m] = "idle"]
    /\ reviewer' = [reviewer EXCEPT ![m] = None] /\ cand' = [cand EXCEPT ![m] = None]
    /\ fp' = [fp EXCEPT ![m] = None] /\ now' = [now EXCEPT ![m] = 0]
    /\ agent' = [agent EXCEPT ![m] = None] /\ skills' = [skills EXCEPT ![m] = {}]
    /\ listed' = [listed EXCEPT ![m] = {}] /\ valid' = [valid EXCEPT ![m] = {}]
    /\ compiled' = [compiled EXCEPT ![m] = {}] /\ authority' = [authority EXCEPT ![m] = {}]
    /\ UNCHANGED <<clock, trusted, store, recorder>>

\* The caller's candidate is any claim: current, stale or made up.
Approve(m, r, c, f) ==
    /\ mpc[m] = "idle"
    /\ r \in trusted
    /\ mpc' = [mpc EXCEPT ![m] = "now"]
    /\ reviewer' = [reviewer EXCEPT ![m] = r]
    /\ cand' = [cand EXCEPT ![m] = c]
    /\ fp' = [fp EXCEPT ![m] = f]
    /\ authority' = [authority EXCEPT ![m] = trusted]
    /\ UNCHANGED <<clock, trusted, store, recorder, now, agent, skills, listed,
                   valid, compiled>>

\* The manager's clock may run behind; behind a stored timestamp it is refused.
TrustedNow(m, t) ==
    /\ mpc[m] = "now"
    /\ \A s \in signals : s.at <= t
    /\ \A a \in approvals : a.at <= t
    /\ now' = [now EXCEPT ![m] = t]
    /\ mpc' = [mpc EXCEPT ![m] = "match"]
    /\ UNCHANGED <<clock, trusted, store, recorder, reviewer, cand, fp, agent,
                   skills, listed, valid, compiled, authority>>

Match(c, t) == c \in Candidates(c.agent, t)

MatchCandidate(m) ==
    /\ mpc[m] = "match"
    /\ Match(cand[m], now[m])
    /\ mpc' = [mpc EXCEPT ![m] = "store"]
    /\ UNCHANGED <<clock, trusted, store, recorder, reviewer, cand, fp, now,
                   agent, skills, listed, valid, compiled, authority>>

FinalizeApproval(r, c, f, t) == [reviewer |-> r, cand |-> c, fp |-> f, at |-> t]

Reconstructs(c) ==
    LoadSignals(c.evidence) /\ Homogeneous(c.evidence) /\ Candidate(c.evidence) = c

StoreApproval(m) ==
    /\ mpc[m] = "store"
    /\ Reconstructs(cand[m])
    /\ AppendApproval(FinalizeApproval(reviewer[m], cand[m], fp[m], now[m]))
    /\ mpc' = [mpc EXCEPT ![m] = "approved"]
    /\ UNCHANGED <<clock, trusted, signals, recorder, reviewer, cand, fp, now,
                   agent, skills, listed, valid, compiled, authority>>

-----------------------------------------------------------------------------
(* compile_profile().                                                      *)

Compile(m, a, f, on) ==
    /\ mpc[m] = "idle"
    /\ mpc' = [mpc EXCEPT ![m] = "revalidate"]
    /\ agent' = [agent EXCEPT ![m] = a]
    /\ fp' = [fp EXCEPT ![m] = f]
    /\ skills' = [skills EXCEPT ![m] = on]
    /\ listed' = [listed EXCEPT ![m] = ListApprovals(a)]
    /\ valid' = [valid EXCEPT ![m] = {}]
    /\ authority' = [authority EXCEPT ![m] = trusted]
    /\ UNCHANGED <<clock, trusted, store, recorder, reviewer, cand, now, compiled>>

\* Mutant: who approved is not verified again.
EvidenceOnly(p, a) == p.cand.agent = a /\ Reconstructs(p.cand)
Revalidates(p, a) ==
    p.reviewer \in trusted /\ p.cand.agent = a /\ Reconstructs(p.cand)

\* One approval after another; the first that fails ends the compilation.
RevalidateApproval(m, p) ==
    /\ mpc[m] = "revalidate"
    /\ p \in listed[m] \ valid[m]
    /\ LoadApprovals(listed[m])
    /\ Revalidates(p, agent[m])
    /\ valid' = [valid EXCEPT ![m] = @ \cup {p}]
    /\ UNCHANGED <<clock, trusted, store, recorder, mpc, reviewer, cand, fp, now,
                   agent, skills, listed, compiled, authority>>

\* What enters the instructions: rules, and the skills that are switched on,
\* which must all be approved for this fingerprint.
OfProfile(m) == {p \in valid[m] : p.fp = fp[m]}
SkillsKnown(m) == skills[m] \subseteq {p.cand : p \in OfProfile(m)}
Selected(m) == {p \in OfProfile(m) : IsSkill(p.cand) => p.cand \in skills[m]}

CompileProfile(m) ==
    /\ mpc[m] = "revalidate" /\ valid[m] = listed[m]
    /\ SkillsKnown(m)
    /\ compiled' = [compiled EXCEPT ![m] = Selected(m)]
    /\ mpc' = [mpc EXCEPT ![m] = "compiled"]
    /\ UNCHANGED <<clock, trusted, store, recorder, reviewer, cand, fp, now,
                   agent, skills, listed, valid, authority>>

-----------------------------------------------------------------------------
(* migrate_learning_store_v1_to_v2.  The destination does not exist before,  *)
(* and nobody opens it until it does.                                        *)

\* verify_v1_signal_payload, verify_v1_signal_columns: of every row, or none.  A row
\* that is not intact also stands for a schema or an approval that v1 may not have.
Verified == \A row \in workload.legacy : row.intact
Legacy == {row.signal : row \in workload.legacy}

MigrateVerify ==
    /\ phase = "legacy" /\ Verified
    /\ phase' = "copy" /\ temp' = {}

MigrateAppend(s) ==
    /\ phase = "copy" /\ s \in Legacy \ temp
    /\ \A t \in temp : t.key # s.key
    /\ temp' = temp \cup {s} /\ UNCHANGED phase

\* The temporary file is read back, compared, and renamed.
MigratePublish ==
    /\ phase = "copy" /\ temp = Legacy
    /\ signals' = temp /\ phase' = "open" /\ temp' = {}
    /\ UNCHANGED approvals

\* An exception removes the temporary file; a crash leaves it behind, under a name
\* no other migration uses.
MigrateFails ==
    /\ phase = "copy"
    /\ phase' = "legacy" /\ temp' = {}

Migrate ==
    /\ \/ MigrateVerify /\ UNCHANGED store
       \/ (\E s \in Legacy : MigrateAppend(s)) /\ UNCHANGED store
       \/ MigrateFails /\ UNCHANGED store
       \/ MigratePublish
    /\ UNCHANGED <<clock, trusted, recorder, manager>>

-----------------------------------------------------------------------------

Tick ==
    /\ clock < MaxTime
    /\ clock' = clock + 1
    /\ UNCHANGED <<trusted, store, recorder, manager>>

Revoke(r) ==
    /\ r \in trusted
    /\ trusted' = trusted \ {r}
    /\ UNCHANGED <<clock, store, recorder, manager>>

Init ==
    /\ workload \in Workloads
    /\ phase = (IF workload.legacy = {} THEN "open" ELSE "legacy") /\ temp = {}
    /\ clock = 0 /\ trusted = Reviewers
    /\ signals = {} /\ approvals = {}
    /\ rpc = [p \in Recorders |-> "idle"] /\ result = [p \in Recorders |-> None]
    /\ stamp = [p \in Recorders |-> 0] /\ step = [p \in Recorders |-> 0]
    /\ mpc = [m \in Managers |-> "idle"]
    /\ reviewer = [m \in Managers |-> None] /\ cand = [m \in Managers |-> None]
    /\ fp = [m \in Managers |-> None] /\ now = [m \in Managers |-> 0]
    /\ agent = [m \in Managers |-> None] /\ skills = [m \in Managers |-> {}]
    /\ listed = [m \in Managers |-> {}] /\ valid = [m \in Managers |-> {}]
    /\ compiled = [m \in Managers |-> {}] /\ authority = [m \in Managers |-> {}]

\* Claims a caller may bring: a candidate of some time so far, or one whose
\* evidence is not all there is, or not of one text.
Claims ==
    {Candidate(g) : g \in {h \in SUBSET signals : Cardinality(h) = 2}}
        \cup UNION {Candidates(a, t) : a \in Agents, t \in 0 .. clock}

RecorderStep(p) ==
    (\E r \in workload.results : RecordRun(p, r)) \/ RecordSignal(p) \/ RecordDone(p) \/ RecordFails(p)

ManagerStep(m) ==
    \/ \E r \in Reviewers, c \in Claims, f \in Fingerprints : Approve(m, r, c, f)
    \/ \E t \in {clock, clock - 1} : TrustedNow(m, t)
    \/ MatchCandidate(m) \/ StoreApproval(m)
    \/ \E a \in Agents, f \in Fingerprints,
          on \in {{}} \cup {{p.cand} : p \in {q \in approvals : IsSkill(q.cand)}} :
          Compile(m, a, f, on)
    \/ \E p \in listed[m] : RevalidateApproval(m, p)
    \/ CompileProfile(m) \/ ManagerReturns(m)

Next ==
    /\ UNCHANGED workload
    /\ \/ Migrate
       \/ /\ phase = "open" /\ UNCHANGED migration
          /\ \/ \E f \in workload.feedback : LeaveFeedback(f)
             \/ \E p \in Recorders : RecorderStep(p)
             \/ \E m \in Managers : ManagerStep(m)
             \/ Tick
             \/ \E r \in Reviewers : Revoke(r)

Spec == Init /\ [][Next]_vars

-----------------------------------------------------------------------------
(* Properties.                                                             *)

\* Guidance compiled into a profile is people's: it was approved for this
\* agent and this base profile, on at least MIN_GUIDANCE_OCCURRENCES stored
\* signals of people who said the same, all of them in the window of the
\* approval, and its reviewer still had authority when the compilation began,
\* whatever was stored, revoked or timed in between.
GuidanceIsPeoples ==
    \A m \in Managers : \A p \in compiled[m] :
        /\ p \in approvals
        /\ mpc[m] = "compiled" => p.cand.agent = agent[m] /\ p.fp = fp[m]
                                  /\ p.reviewer \in authority[m]
        /\ p.cand.evidence \subseteq {s \in signals : InWindow(s, p.at)}
        /\ Homogeneous(p.cand.evidence)
        /\ \A s \in p.cand.evidence : p.cand.agent = s.agent /\ p.cand.body = s.what

\* A run is counted once: retries, failures between two appends and two
\* recorders of one run leave one outcome, a run reported as recorded is
\* stored in full and as reported, and friction counts each run once.  A
\* migrated store starts from every row of the old one, all of them verified,
\* and a run it already holds is not counted again.
RunsCountedOnce ==
    /\ phase = "open" =>
          \A row \in workload.legacy : row.intact /\ row.signal \in signals
    /\ \A p \in Recorders : rpc[p] = "true" =>
          \A s \in {RunOutcome(result[p], 0)} \cup
                   {ToolRejection(result[p], i, 0) : i \in DOMAIN result[p].rejections} :
              s \in {Payload(t) : t \in signals}
    /\ \A a \in Agents : \A g \in RunFriction(a, clock) :
          Cardinality({s.what[1] : s \in g}) = Cardinality(g)
=============================================================================
