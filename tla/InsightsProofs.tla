--------------------------- MODULE InsightsProofs ---------------------------
(***************************************************************************)
(* Theorems about Insights, for any people, runs, recorders, managers,     *)
(* reviewers, rows to migrate, windows and clocks.                         *)
(***************************************************************************)
EXTENDS Insights, FiniteSetTheorems, FunctionTheorems, TLAPS

InsightsTypeOK ==
    /\ workload \in Workloads /\ phase \in {"legacy", "copy", "open"}
    /\ rpc \in [Recorders -> {"idle", "append", "true", "false"}]
    /\ result \in [Recorders -> workload.results \cup {None}]
    /\ DOMAIN stamp = Recorders /\ step \in [Recorders -> Nat]
    /\ mpc \in [Managers -> {"idle", "now", "match", "store", "approved", "revalidate",
                             "compiled"}]
    /\ DOMAIN reviewer = Managers /\ DOMAIN cand = Managers /\ DOMAIN fp = Managers
    /\ DOMAIN now = Managers /\ DOMAIN agent = Managers /\ DOMAIN skills = Managers
    /\ DOMAIN listed = Managers /\ DOMAIN valid = Managers /\ DOMAIN compiled = Managers
    /\ DOMAIN authority = Managers

\* What a store's signals satisfy: one signal per key, and one key per run's outcome.
Sound(S) ==
    /\ IsFiniteSet(S)
    /\ \A s, t \in S : s.key = t.key => s = t
    /\ \A s \in S : s.kind = "outcome" => s.key = <<"run-outcome", s.agent, s.what[1]>>

\* The store during and after a migration.
StoreOK ==
    /\ Sound(signals)
    /\ phase # "open" =>
          /\ signals = {} /\ approvals = {}
          /\ \A p \in Recorders : rpc[p] = "idle"
          /\ \A m \in Managers : mpc[m] = "idle"
    /\ phase = "copy" => Verified /\ temp \subseteq Legacy /\ Sound(temp)
    /\ phase = "open" => \A row \in workload.legacy : row.intact /\ row.signal \in signals

\* The k-th signal of a run, and whether the store holds it as reported.
SignalOf(r, k) == IF k = 0 THEN RunOutcome(r, 0) ELSE ToolRejection(r, k, 0)
Written(r, k) == \E t \in signals : SignalOf(r, k) = Payload(t)

\* A recorder has written what it has passed.
RecorderOK(p) ==
    /\ rpc[p] # "idle" => result[p] \in workload.results
    /\ rpc[p] = "append" => \A k \in 0 .. (step[p] - 1) : Written(result[p], k)
    /\ rpc[p] = "true" => \A k \in 0 .. Len(result[p].rejections) : Written(result[p], k)

\* What an approval was given for.
Founded(c, t) == c.evidence \subseteq {s \in signals : InWindow(s, t)}
OfPeople(c) ==
    /\ Homogeneous(c.evidence)
    /\ \A s \in c.evidence : c.agent = s.agent /\ c.body = s.what
ApprovalOK(p) == Founded(p.cand, p.at) /\ OfPeople(p.cand)

\* What a manager holds in the middle of approve() and compile_profile().
ManagerOK(m) ==
    /\ mpc[m] = "store" => Founded(cand[m], now[m])
    /\ mpc[m] # "compiled" => compiled[m] = {}
    /\ mpc[m] \in {"revalidate", "compiled"} =>
          /\ listed[m] \subseteq approvals /\ valid[m] \subseteq listed[m]
          /\ trusted \subseteq authority[m]
          /\ \A p \in valid[m] : p.cand.agent = agent[m] /\ p.reviewer \in authority[m]
    /\ mpc[m] = "compiled" =>
          compiled[m] \subseteq valid[m] /\ \A p \in compiled[m] : p.fp = fp[m]

IInv ==
    /\ InsightsTypeOK /\ StoreOK
    /\ \A p \in Recorders : RecorderOK(p)
    /\ \A p \in approvals : ApprovalOK(p)
    /\ \A m \in Managers : ManagerOK(m)

-----------------------------------------------------------------------------
(* What a step leaves alone *)

\* The store is append-only.
Grows == signals \subseteq signals' /\ approvals \subseteq approvals'

RecorderKept(p) == rpc'[p] = rpc[p] /\ result'[p] = result[p] /\ step'[p] = step[p]
ManagerKept(m) ==
    /\ mpc'[m] = mpc[m] /\ cand'[m] = cand[m] /\ fp'[m] = fp[m] /\ now'[m] = now[m]
    /\ agent'[m] = agent[m] /\ listed'[m] = listed[m] /\ valid'[m] = valid[m]
    /\ compiled'[m] = compiled[m] /\ authority'[m] = authority[m]

\* What was written stays written.
LEMMA WrittenStays ==
    ASSUME Grows, NEW r, NEW k, Written(r, k) PROVE Written(r, k)'
<1>1. PICK t \in signals : SignalOf(r, k) = Payload(t)
  BY DEF Written
<1>2. t \in signals'
  BY DEF Grows
<1>3. QED
  BY <1>1, <1>2 DEF Written

\* A recorder that is not stepping.
LEMMA RecorderStays ==
    ASSUME Grows, UNCHANGED workload, NEW p \in Recorders, RecorderOK(p), RecorderKept(p)
    PROVE  RecorderOK(p)'
BY WrittenStays DEF RecorderOK, RecorderKept

\* Evidence stays in the store.
LEMMA FoundedStays ==
    ASSUME Grows, NEW c, NEW t, Founded(c, t) PROVE Founded(c, t)'
BY DEF Grows, Founded

\* An approval is as good as before.
LEMMA ApprovalStays ==
    ASSUME Grows, NEW p, ApprovalOK(p) PROVE ApprovalOK(p)'
<1>1. Founded(p.cand, p.at)' /\ OfPeople(p.cand)
  BY FoundedStays DEF ApprovalOK
<1>2. QED
  BY <1>1 DEF ApprovalOK, OfPeople

\* A manager that is not stepping, while authority may be lost.
LEMMA ManagerStays ==
    ASSUME Grows, trusted' \subseteq trusted, NEW m \in Managers, ManagerOK(m), ManagerKept(m)
    PROVE  ManagerOK(m)'
<1>1. mpc[m] = "store" => Founded(cand[m], now[m])'
  <2>1. Founded(cand[m], now[m]) => \A c, t : c = cand[m] /\ t = now[m] => Founded(c, t)'
    BY FoundedStays
  <2>2. QED
    BY <2>1 DEF ManagerOK, ManagerKept, Founded
<1>2. QED
  BY <1>1 DEF ManagerOK, ManagerKept, Grows

-----------------------------------------------------------------------------
(* Appends *)

\* An append that is not refused leaves the store sound, and with the signal in it.
LEMMA Appends ==
    ASSUME StoreOK, phase = "open", UNCHANGED <<workload, phase>>,
           NEW s, ~AppendRefused(s), AppendSignal(s),
           s.kind = "outcome" => s.key = <<"run-outcome", s.agent, s.what[1]>>
    PROVE  /\ StoreOK' /\ signals \subseteq signals'
           /\ \E t \in signals' : Payload(t) = Payload(s)
<1>1. CASE Retried(s) = {}
  <2>1. signals' = signals \cup {s} /\ \A t \in signals : t.key # s.key
    BY <1>1 DEF AppendSignal, Retried
  <2>2. IsFiniteSet(signals')
    BY <2>1, FS_AddElement DEF StoreOK, Sound
  <2>3. \A t, u \in signals' : t.key = u.key => t = u
    BY <2>1 DEF StoreOK, Sound
  <2>4. \A t \in signals' : t.kind = "outcome" => t.key = <<"run-outcome", t.agent, t.what[1]>>
    BY <2>1 DEF StoreOK, Sound
  <2>5. Sound(signals')
    BY <2>2, <2>3, <2>4 DEF Sound
  <2>6. Sound(signals)'
    BY <2>5 DEF Sound
  <2>7. QED
    BY <2>1, <2>6 DEF StoreOK
<1>2. CASE Retried(s) # {}
  <2>1. signals' = signals
    BY <1>2 DEF AppendSignal
  <2>2. PICK t \in signals : Payload(t) = Payload(s)
    BY <1>2 DEF AppendRefused, Retried
  <2>3. QED
    BY <2>1, <2>2 DEF StoreOK, Sound
<1>3. QED
  BY <1>1, <1>2

\* A person leaves feedback: it is no run's outcome.
LEMMA FeedbackKeeps ==
    ASSUME IInv, phase = "open", UNCHANGED <<workload, migration>>,
           NEW f \in workload.feedback, LeaveFeedback(f)
    PROVE  IInv'
<1>1. f.kind \in HumanKinds
  BY InsightsConfig DEF IInv, InsightsTypeOK
<1>2. PICK s : s = Human(f, clock)
  OBVIOUS
<1>3. s.kind # "outcome"
  BY <1>1, <1>2 DEF Human, FinalizeSignal, HumanKinds
<1>4. /\ ~AppendRefused(s) /\ AppendSignal(s)
      /\ UNCHANGED <<trusted, approvals, rpc, result, stamp, step, mpc, reviewer, cand, fp, now,
                     agent, skills, listed, valid, compiled, authority, phase>>
  BY <1>2 DEF LeaveFeedback, recorder, manager, migration
<1>5. StoreOK' /\ signals \subseteq signals'
  BY <1>3, <1>4, Appends DEF IInv
<1>6. Grows
  BY <1>4, <1>5 DEF Grows
<1>7. InsightsTypeOK'
  BY <1>4 DEF IInv, InsightsTypeOK
<1>8. \A p \in Recorders : RecorderOK(p)'
  BY <1>4, <1>6, RecorderStays DEF IInv, RecorderKept
<1>9. \A m \in Managers : ManagerOK(m)'
  BY <1>4, <1>6, ManagerStays DEF IInv, ManagerKept
<1>10. \A p \in approvals' : ApprovalOK(p)'
  BY <1>4, <1>6, ApprovalStays DEF IInv
<1>11. QED
  BY <1>5, <1>7, <1>8, <1>9, <1>10 DEF IInv

\* A recorder's own steps that write nothing.
LEMMA RecorderMoves ==
    ASSUME IInv, phase = "open", UNCHANGED <<workload, migration, store, manager, trusted>>,
           NEW p \in Recorders, InsightsTypeOK', RecorderOK(p)',
           \A d \in Recorders \ {p} : RecorderKept(d)
    PROVE  IInv'
<1>1. UNCHANGED <<signals, approvals, mpc, cand, fp, now, agent, listed, valid, compiled,
                  authority, phase, temp>>
  BY DEF store, manager, migration
<1>2. Grows
  BY <1>1 DEF Grows
<1>3. StoreOK'
  BY <1>1 DEF IInv, StoreOK, Sound
<1>4. \A d \in Recorders : RecorderOK(d)'
  BY <1>2, RecorderStays DEF IInv
<1>5. \A m \in Managers : ManagerOK(m)'
  BY <1>1, <1>2, ManagerStays DEF IInv, ManagerKept
<1>6. \A a \in approvals' : ApprovalOK(a)'
  BY <1>1, <1>2, ApprovalStays DEF IInv
<1>7. QED
  BY <1>3, <1>4, <1>5, <1>6 DEF IInv

\* record_run begins, ends, or fails.
LEMMA RecorderTurns ==
    ASSUME IInv, phase = "open", UNCHANGED <<workload, migration>>, NEW p \in Recorders,
           (\E r \in workload.results : RecordRun(p, r)) \/ RecordDone(p) \/ RecordFails(p)
    PROVE  IInv'
<1>0. InsightsTypeOK /\ RecorderOK(p)
  BY DEF IInv
<1>1. ASSUME NEW r \in workload.results, RecordRun(p, r) PROVE IInv'
  <2>1. /\ rpc' = [rpc EXCEPT ![p] = "append"] /\ result' = [result EXCEPT ![p] = r]
        /\ step' = [step EXCEPT ![p] = 0] /\ stamp' = [stamp EXCEPT ![p] = clock]
        /\ UNCHANGED <<store, manager, trusted>>
    BY <1>1 DEF RecordRun
  <2>2. InsightsTypeOK'
    BY <1>0, <2>1 DEF InsightsTypeOK, manager, migration
  <2>3. RecorderOK(p)'
    BY <1>0, <2>1 DEF InsightsTypeOK, RecorderOK
  <2>4. \A d \in Recorders \ {p} : RecorderKept(d)
    BY <1>0, <2>1 DEF InsightsTypeOK, RecorderKept
  <2>5. QED
    BY <2>1, <2>2, <2>3, <2>4, RecorderMoves
<1>2. CASE RecordDone(p)
  <2>1. /\ rpc[p] = "append" /\ step[p] > Len(result[p].rejections)
        /\ rpc' = [rpc EXCEPT ![p] = "true"]
        /\ UNCHANGED <<store, manager, trusted, result, stamp, step>>
    BY <1>2 DEF RecordDone
  <2>2. InsightsTypeOK'
    BY <1>0, <2>1 DEF InsightsTypeOK, manager, migration
  <2>3. RecorderOK(p)'
    <3>1. result[p] \in workload.results /\ \A k \in 0 .. (step[p] - 1) : Written(result[p], k)
      BY <1>0, <2>1 DEF RecorderOK
    <3>2. Len(result[p].rejections) \in Nat /\ step[p] \in Nat
      BY <1>0, <3>1, InsightsConfig DEF InsightsTypeOK
    <3>3. \A k \in 0 .. Len(result[p].rejections) : Written(result[p], k)
      BY <2>1, <3>1, <3>2
    <3>4. Grows
      BY <2>1 DEF Grows, store
    <3>5. \A k \in 0 .. Len(result[p].rejections) : Written(result[p], k)'
      BY <2>1, <3>3 DEF Written, store
    <3>6. QED
      BY <1>0, <2>1, <3>1, <3>5 DEF InsightsTypeOK, RecorderOK
  <2>4. \A d \in Recorders \ {p} : RecorderKept(d)
    BY <1>0, <2>1 DEF InsightsTypeOK, RecorderKept
  <2>5. QED
    BY <2>1, <2>2, <2>3, <2>4, RecorderMoves
<1>3. CASE RecordFails(p)
  <2>1. /\ rpc[p] = "append" /\ rpc' = [rpc EXCEPT ![p] = "false"]
        /\ UNCHANGED <<store, manager, trusted, result, stamp, step>>
    BY <1>3 DEF RecordFails
  <2>2. InsightsTypeOK'
    BY <1>0, <2>1 DEF InsightsTypeOK, manager, migration
  <2>3. RecorderOK(p)'
    BY <1>0, <2>1 DEF InsightsTypeOK, RecorderOK
  <2>4. \A d \in Recorders \ {p} : RecorderKept(d)
    BY <1>0, <2>1 DEF InsightsTypeOK, RecorderKept
  <2>5. QED
    BY <2>1, <2>2, <2>3, <2>4, RecorderMoves
<1>4. QED
  BY <1>1, <1>2, <1>3

\* The signal a recorder is about to append, without its timestamp.
LEMMA AppendedIs ==
    ASSUME NEW p \in Recorders
    PROVE  /\ Payload(Appended(p)) = SignalOf(result[p], step[p])
           /\ Appended(p).kind = "outcome" =>
                 Appended(p).key = <<"run-outcome", Appended(p).agent, Appended(p).what[1]>>
<1>1. CASE step[p] = 0
  BY <1>1 DEF Appended, RunOutcome, FinalizeSignal, Payload, SignalOf
<1>2. CASE step[p] # 0
  BY <1>2 DEF Appended, ToolRejection, FinalizeSignal, Payload, SignalOf
<1>3. QED
  BY <1>1, <1>2

\* record_run appends one signal.
LEMMA RecordKeeps ==
    ASSUME IInv, phase = "open", UNCHANGED <<workload, migration>>, NEW p \in Recorders,
           RecordSignal(p)
    PROVE  IInv'
<1>0. InsightsTypeOK /\ RecorderOK(p)
  BY DEF IInv
<1>1. PICK s : s = Appended(p)
  OBVIOUS
<1>2. /\ rpc[p] = "append" /\ ~AppendRefused(s) /\ AppendSignal(s)
      /\ step' = [step EXCEPT ![p] = step[p] + 1]
      /\ UNCHANGED <<trusted, approvals, rpc, result, stamp, mpc, reviewer, cand, fp, now,
                     agent, skills, listed, valid, compiled, authority, phase>>
  BY <1>1 DEF RecordSignal, manager, migration
<1>3. StoreOK' /\ signals \subseteq signals' /\ \E t \in signals' : Payload(t) = Payload(s)
  BY <1>1, <1>2, AppendedIs, Appends DEF IInv
<1>4. Grows
  BY <1>2, <1>3 DEF Grows
<1>5. step[p] \in Nat /\ step[p] + 1 \in Nat
  BY <1>0 DEF InsightsTypeOK
<1>6. InsightsTypeOK'
  BY <1>0, <1>2, <1>5 DEF InsightsTypeOK
<1>7. RecorderOK(p)'
  <2>1. PICK r : r = result[p]
    OBVIOUS
  <2>2. PICK n \in Nat : n = step[p]
    BY <1>5
  <2>3. \A k \in 0 .. (n - 1) : Written(r, k)'
    <3>1. \A k \in 0 .. (n - 1) : Written(r, k)
      BY <1>0, <1>2, <2>1, <2>2 DEF RecorderOK
    <3>2. QED
      BY <1>4, <3>1, WrittenStays
  <2>4. Written(r, n)'
    BY <1>1, <1>3, <2>1, <2>2, AppendedIs DEF Written, SignalOf
  <2>5. \A k \in 0 .. n : Written(r, k)'
    BY <2>3, <2>4
  <2>6. step'[p] = n + 1 /\ result'[p] = r /\ rpc'[p] = "append"
    BY <1>0, <1>2, <2>1, <2>2 DEF InsightsTypeOK
  <2>7. result'[p] \in workload'.results
    BY <1>0, <1>2, <2>1, <2>6 DEF RecorderOK
  <2>8. \A k \in 0 .. (step'[p] - 1) : Written(result[p], k)'
    BY <2>5, <2>6 DEF Written
  <2>9. QED
    BY <2>6, <2>7, <2>8 DEF RecorderOK
<1>8. \A d \in Recorders : RecorderOK(d)'
  <2>1. \A d \in Recorders \ {p} : RecorderKept(d)
    BY <1>0, <1>2 DEF InsightsTypeOK, RecorderKept
  <2>2. QED
    BY <1>4, <1>7, <2>1, RecorderStays DEF IInv
<1>9. \A m \in Managers : ManagerOK(m)'
  BY <1>2, <1>4, ManagerStays DEF IInv, ManagerKept
<1>10. \A a \in approvals' : ApprovalOK(a)'
  BY <1>2, <1>4, ApprovalStays DEF IInv
<1>11. QED
  BY <1>3, <1>6, <1>8, <1>9, <1>10 DEF IInv

-----------------------------------------------------------------------------
(* Managers *)

\* A manager's step, but for what it does to the manager and to the approvals.
LEMMA ManagerMoves ==
    ASSUME IInv, phase = "open",
           UNCHANGED <<workload, migration, signals, recorder, trusted>>,
           NEW m \in Managers, InsightsTypeOK', ManagerOK(m)', approvals \subseteq approvals',
           \A p \in approvals' \ approvals : ApprovalOK(p)',
           \A d \in Managers \ {m} : ManagerKept(d)
    PROVE  IInv'
<1>1. UNCHANGED <<signals, rpc, result, step, phase, temp>>
  BY DEF recorder, migration
<1>2. Grows
  BY <1>1 DEF Grows
<1>3. StoreOK'
  BY <1>1 DEF IInv, StoreOK, Sound
<1>4. \A d \in Recorders : RecorderOK(d)'
  BY <1>1, <1>2, RecorderStays DEF IInv, RecorderKept
<1>5. \A d \in Managers : ManagerOK(d)'
  BY <1>2, ManagerStays DEF IInv
<1>6. \A a \in approvals' : ApprovalOK(a)'
  BY <1>2, ApprovalStays DEF IInv
<1>7. QED
  BY <1>3, <1>4, <1>5, <1>6 DEF IInv

\* What a candidate of the analysis rests on: stored signals of the window.
LEMMA CandidatesAreFounded ==
    ASSUME NEW c, NEW t, Match(c, t) PROVE Founded(c, t)
<1>1. PICK g \in Groups(c.agent, t, HumanKinds) : c = Candidate(g)
  BY DEF Match, Candidates
<1>2. c.evidence = g
  BY <1>1 DEF Candidate
<1>3. g \subseteq Windowed(c.agent, t)
  BY <1>1 DEF Groups
<1>4. QED
  BY <1>2, <1>3 DEF Windowed, ListSignals, Founded

\* What reconstructs is what the evidence says.
LEMMA ReconstructedIsPeoples ==
    ASSUME NEW c, Reconstructs(c) PROVE OfPeople(c)
<1>1. PICK g : g = c.evidence
  OBVIOUS
<1>2. Homogeneous(g) /\ Candidate(g) = c
  BY <1>1 DEF Reconstructs
<1>3. ASSUME NEW s \in g PROVE c.agent = s.agent /\ c.body = s.what
  <2>1. PICK u : u = CHOOSE x \in g : TRUE
    OBVIOUS
  <2>2. u \in g
    BY <1>3, <2>1
  <2>3. c.agent = u.agent /\ c.body = u.what
    BY <1>2, <2>1 DEF Candidate
  <2>4. QED
    BY <1>2, <1>3, <2>2, <2>3 DEF Homogeneous
<1>4. QED
  BY <1>1, <1>2, <1>3 DEF OfPeople

\* approve(): the reviewer, the clock, the candidate.
LEMMA ApproveKeeps ==
    ASSUME IInv, phase = "open", UNCHANGED <<workload, migration>>, NEW m \in Managers,
           \/ \E r \in Reviewers, c \in Claims, f \in Fingerprints : Approve(m, r, c, f)
           \/ \E t \in {clock, clock - 1} : TrustedNow(m, t)
           \/ MatchCandidate(m)
    PROVE  IInv'
<1>0. InsightsTypeOK /\ ManagerOK(m)
  BY DEF IInv
<1>1. ASSUME NEW r \in Reviewers, NEW c \in Claims, NEW f \in Fingerprints, Approve(m, r, c, f)
      PROVE  IInv'
  <2>1. /\ mpc[m] = "idle" /\ mpc' = [mpc EXCEPT ![m] = "now"]
        /\ reviewer' = [reviewer EXCEPT ![m] = r] /\ cand' = [cand EXCEPT ![m] = c]
        /\ fp' = [fp EXCEPT ![m] = f] /\ authority' = [authority EXCEPT ![m] = trusted]
        /\ UNCHANGED <<signals, approvals, trusted, recorder, now, agent, skills, listed, valid,
                       compiled>>
    BY <1>1 DEF Approve, store
  <2>2. InsightsTypeOK'
    BY <1>0, <2>1 DEF InsightsTypeOK, recorder, migration
  <2>3. ManagerOK(m)'
    BY <1>0, <2>1 DEF InsightsTypeOK, ManagerOK
  <2>4. \A d \in Managers \ {m} : ManagerKept(d)
    BY <1>0, <2>1 DEF InsightsTypeOK, ManagerKept
  <2>5. QED
    BY <2>1, <2>2, <2>3, <2>4, ManagerMoves
<1>2. ASSUME NEW t \in {clock, clock - 1}, TrustedNow(m, t) PROVE IInv'
  <2>1. /\ mpc[m] = "now" /\ mpc' = [mpc EXCEPT ![m] = "match"]
        /\ now' = [now EXCEPT ![m] = t]
        /\ UNCHANGED <<signals, approvals, trusted, recorder, reviewer, cand, fp, agent, skills,
                       listed, valid, compiled, authority>>
    BY <1>2 DEF TrustedNow, store
  <2>2. InsightsTypeOK'
    BY <1>0, <2>1 DEF InsightsTypeOK, recorder, migration
  <2>3. ManagerOK(m)'
    BY <1>0, <2>1 DEF InsightsTypeOK, ManagerOK
  <2>4. \A d \in Managers \ {m} : ManagerKept(d)
    BY <1>0, <2>1 DEF InsightsTypeOK, ManagerKept
  <2>5. QED
    BY <2>1, <2>2, <2>3, <2>4, ManagerMoves
<1>3. CASE MatchCandidate(m)
  <2>1. /\ mpc[m] = "match" /\ mpc' = [mpc EXCEPT ![m] = "store"] /\ Match(cand[m], now[m])
        /\ UNCHANGED <<signals, approvals, trusted, recorder, reviewer, cand, fp, now, agent,
                       skills, listed, valid, compiled, authority>>
    BY <1>3 DEF MatchCandidate, store
  <2>2. InsightsTypeOK'
    BY <1>0, <2>1 DEF InsightsTypeOK, recorder, migration
  <2>3. Founded(cand[m], now[m])
    BY <2>1, CandidatesAreFounded
  <2>4. Founded(cand[m], now[m])'
    BY <2>1, <2>3 DEF Founded
  <2>5. ManagerOK(m)'
    BY <1>0, <2>1, <2>4 DEF InsightsTypeOK, ManagerOK
  <2>6. \A d \in Managers \ {m} : ManagerKept(d)
    BY <1>0, <2>1 DEF InsightsTypeOK, ManagerKept
  <2>7. QED
    BY <2>1, <2>2, <2>5, <2>6, ManagerMoves
<1>4. QED
  BY <1>1, <1>2, <1>3

\* approve() stores its approval, on evidence the store still holds.
LEMMA StoreKeeps ==
    ASSUME IInv, phase = "open", UNCHANGED <<workload, migration>>, NEW m \in Managers,
           StoreApproval(m)
    PROVE  IInv'
<1>0. InsightsTypeOK /\ ManagerOK(m)
  BY DEF IInv
<1>1. PICK a : a = FinalizeApproval(reviewer[m], cand[m], fp[m], now[m])
  OBVIOUS
<1>2. /\ mpc[m] = "store" /\ Reconstructs(cand[m]) /\ AppendApproval(a)
      /\ mpc' = [mpc EXCEPT ![m] = "approved"]
      /\ UNCHANGED <<signals, trusted, recorder, reviewer, cand, fp, now, agent, skills, listed,
                     valid, compiled, authority>>
  BY <1>1 DEF StoreApproval
<1>3. approvals \subseteq approvals' /\ approvals' \subseteq approvals \cup {a}
  BY <1>2 DEF AppendApproval
<1>4. a.cand = cand[m] /\ a.at = now[m]
  BY <1>1 DEF FinalizeApproval
<1>5. ApprovalOK(a)
  <2>1. Founded(cand[m], now[m])
    BY <1>0, <1>2 DEF ManagerOK
  <2>2. OfPeople(cand[m])
    BY <1>2, ReconstructedIsPeoples
  <2>3. QED
    BY <1>4, <2>1, <2>2 DEF ApprovalOK
<1>6. ApprovalOK(a)'
  <2>1. Grows
    BY <1>2, <1>3 DEF Grows
  <2>2. QED
    BY <1>5, <2>1, ApprovalStays
<1>7. InsightsTypeOK'
  BY <1>0, <1>2 DEF InsightsTypeOK, recorder, migration
<1>8. ManagerOK(m)'
  BY <1>0, <1>2 DEF InsightsTypeOK, ManagerOK
<1>9. \A d \in Managers \ {m} : ManagerKept(d)
  BY <1>0, <1>2 DEF InsightsTypeOK, ManagerKept
<1>10. QED
  BY <1>2, <1>3, <1>6, <1>7, <1>8, <1>9, ManagerMoves

\* compile_profile(): every approval is revalidated, then those of the profile are taken.
LEMMA CompileKeeps ==
    ASSUME IInv, phase = "open", UNCHANGED <<workload, migration>>, NEW m \in Managers,
           \/ \E a, f, on : Compile(m, a, f, on)
           \/ \E p \in listed[m] : RevalidateApproval(m, p)
           \/ CompileProfile(m) \/ ManagerReturns(m)
    PROVE  IInv'
<1>0. InsightsTypeOK /\ ManagerOK(m)
  BY DEF IInv
<1>1. ASSUME NEW a, NEW f, NEW on, Compile(m, a, f, on) PROVE IInv'
  <2>1. /\ mpc[m] = "idle" /\ mpc' = [mpc EXCEPT ![m] = "revalidate"]
        /\ agent' = [agent EXCEPT ![m] = a] /\ fp' = [fp EXCEPT ![m] = f]
        /\ skills' = [skills EXCEPT ![m] = on]
        /\ listed' = [listed EXCEPT ![m] = ListApprovals(a)]
        /\ valid' = [valid EXCEPT ![m] = {}] /\ authority' = [authority EXCEPT ![m] = trusted]
        /\ UNCHANGED <<signals, approvals, trusted, recorder, reviewer, cand, now, compiled>>
    BY <1>1 DEF Compile, store
  <2>2. InsightsTypeOK'
    BY <1>0, <2>1 DEF InsightsTypeOK, recorder, migration
  <2>3. ListApprovals(a) \subseteq approvals
    BY DEF ListApprovals
  <2>4. ManagerOK(m)'
    BY <1>0, <2>1, <2>3 DEF InsightsTypeOK, ManagerOK
  <2>5. \A d \in Managers \ {m} : ManagerKept(d)
    BY <1>0, <2>1 DEF InsightsTypeOK, ManagerKept
  <2>6. QED
    BY <2>1, <2>2, <2>4, <2>5, ManagerMoves
<1>2. ASSUME NEW p \in listed[m], RevalidateApproval(m, p) PROVE IInv'
  <2>1. /\ mpc[m] = "revalidate" /\ p.reviewer \in trusted /\ p.cand.agent = agent[m]
        /\ valid' = [valid EXCEPT ![m] = valid[m] \cup {p}]
        /\ UNCHANGED <<signals, approvals, trusted, recorder, mpc, reviewer, cand, fp, now,
                       agent, skills, listed, compiled, authority>>
    BY <1>2 DEF RevalidateApproval, Revalidates, store
  <2>2. InsightsTypeOK'
    BY <1>0, <2>1 DEF InsightsTypeOK, recorder, migration
  <2>3. ManagerOK(m)'
    BY <1>0, <1>2, <2>1 DEF InsightsTypeOK, ManagerOK
  <2>4. \A d \in Managers \ {m} : ManagerKept(d)
    BY <1>0, <2>1 DEF InsightsTypeOK, ManagerKept
  <2>5. QED
    BY <2>1, <2>2, <2>3, <2>4, ManagerMoves
<1>3. CASE CompileProfile(m)
  <2>1. /\ mpc[m] = "revalidate" /\ mpc' = [mpc EXCEPT ![m] = "compiled"]
        /\ compiled' = [compiled EXCEPT ![m] = Selected(m)]
        /\ UNCHANGED <<signals, approvals, trusted, recorder, reviewer, cand, fp, now,
                       agent, skills, listed, valid, authority>>
    BY <1>3 DEF CompileProfile, store
  <2>2. InsightsTypeOK'
    BY <1>0, <2>1 DEF InsightsTypeOK, recorder, migration
  <2>3. Selected(m) \subseteq valid[m] /\ \A p \in Selected(m) : p.fp = fp[m]
    BY DEF Selected, OfProfile
  <2>4. ManagerOK(m)'
    BY <1>0, <2>1, <2>3 DEF InsightsTypeOK, ManagerOK
  <2>5. \A d \in Managers \ {m} : ManagerKept(d)
    BY <1>0, <2>1 DEF InsightsTypeOK, ManagerKept
  <2>6. QED
    BY <2>1, <2>2, <2>4, <2>5, ManagerMoves
<1>4. CASE ManagerReturns(m)
  <2>1. /\ mpc' = [mpc EXCEPT ![m] = "idle"] /\ compiled' = [compiled EXCEPT ![m] = {}]
        /\ UNCHANGED <<signals, approvals, trusted, recorder>>
    BY <1>4 DEF ManagerReturns, store
  <2>2. /\ reviewer' = [reviewer EXCEPT ![m] = None] /\ cand' = [cand EXCEPT ![m] = None]
        /\ fp' = [fp EXCEPT ![m] = None] /\ now' = [now EXCEPT ![m] = 0]
        /\ agent' = [agent EXCEPT ![m] = None] /\ skills' = [skills EXCEPT ![m] = {}]
        /\ listed' = [listed EXCEPT ![m] = {}] /\ valid' = [valid EXCEPT ![m] = {}]
        /\ authority' = [authority EXCEPT ![m] = {}]
    BY <1>4 DEF ManagerReturns
  <2>3. InsightsTypeOK'
    BY <1>0, <2>1, <2>2 DEF InsightsTypeOK, recorder, migration
  <2>4. ManagerOK(m)'
    BY <1>0, <2>1 DEF InsightsTypeOK, ManagerOK
  <2>5. \A d \in Managers \ {m} : ManagerKept(d)
    BY <1>0, <2>1, <2>2 DEF InsightsTypeOK, ManagerKept
  <2>6. QED
    BY <2>1, <2>3, <2>4, <2>5, ManagerMoves
<1>5. QED
  BY <1>1, <1>2, <1>3, <1>4

-----------------------------------------------------------------------------
(* Migration, and the world *)

\* Nobody uses the store while it is migrated; what is published is the whole of it.
LEMMA MigrateStore ==
    ASSUME StoreOK, workload \in Workloads, UNCHANGED <<workload, rpc, mpc>>,
           \/ MigrateVerify /\ UNCHANGED store
           \/ (\E s \in Legacy : MigrateAppend(s)) /\ UNCHANGED store
           \/ MigrateFails /\ UNCHANGED store
           \/ MigratePublish
    PROVE  /\ StoreOK' /\ signals = {} /\ approvals = {} /\ approvals' = {}
           /\ phase' \in {"legacy", "copy", "open"}
<1>0. /\ phase # "open" /\ signals = {} /\ approvals = {}
      /\ \A p \in Recorders : rpc[p] = "idle"
      /\ \A m \in Managers : mpc[m] = "idle"
  BY DEF StoreOK, MigrateVerify, MigrateAppend, MigrateFails, MigratePublish
<1>1. CASE MigrateVerify /\ UNCHANGED store
  <2>1. phase' = "copy" /\ temp' = {} /\ UNCHANGED <<signals, approvals>> /\ Verified
    BY <1>1 DEF MigrateVerify, store
  <2>2. Sound({})
    BY FS_EmptySet DEF Sound
  <2>3. Verified' /\ Sound(temp)' /\ Sound(signals)'
    BY <1>0, <2>1, <2>2 DEF Verified, Sound
  <2>4. QED
    BY <1>0, <2>1, <2>3 DEF StoreOK
<1>2. ASSUME NEW s \in Legacy, MigrateAppend(s), UNCHANGED store
      PROVE  /\ StoreOK' /\ approvals' = {} /\ phase' = "copy"
  <2>1. /\ phase = "copy" /\ phase' = "copy" /\ temp' = temp \cup {s}
        /\ \A t \in temp : t.key # s.key
        /\ UNCHANGED <<signals, approvals>>
    BY <1>2 DEF MigrateAppend, store
  <2>2. Verified /\ temp \subseteq Legacy /\ Sound(temp)
    BY <2>1 DEF StoreOK
  <2>3. s.kind = "outcome" => s.key = <<"run-outcome", s.agent, s.what[1]>>
    <3>1. PICK row \in workload.legacy : s = row.signal
      BY DEF Legacy
    <3>2. row.intact
      BY <2>2 DEF Verified
    <3>3. QED
      BY <3>1, <3>2, LegacyKeys
  <2>4. IsFiniteSet(temp')
    BY <2>1, <2>2, FS_AddElement DEF Sound
  <2>5. \A t, u \in temp' : t.key = u.key => t = u
    BY <2>1, <2>2 DEF Sound
  <2>6. Sound(temp)'
    BY <2>1, <2>2, <2>3, <2>4, <2>5 DEF Sound
  <2>7. Verified' /\ temp' \subseteq Legacy' /\ Sound(signals)'
    BY <2>1, <2>2 DEF Verified, Legacy, StoreOK, Sound
  <2>8. QED
    BY <1>0, <2>1, <2>6, <2>7 DEF StoreOK
<1>3. CASE MigrateFails /\ UNCHANGED store
  <2>1. phase' = "legacy" /\ UNCHANGED <<signals, approvals>>
    BY <1>3 DEF MigrateFails, store
  <2>2. QED
    BY <1>0, <2>1 DEF StoreOK, Sound
<1>4. CASE MigratePublish
  <2>1. /\ phase = "copy" /\ temp = Legacy /\ signals' = temp /\ phase' = "open"
        /\ UNCHANGED approvals
    BY <1>4 DEF MigratePublish
  <2>2. Verified /\ Sound(temp)
    BY <2>1 DEF StoreOK
  <2>3. Sound(signals)'
    BY <2>1, <2>2 DEF Sound
  <2>4. \A row \in workload'.legacy : row.intact /\ row.signal \in signals'
    BY <2>1, <2>2 DEF Verified, Legacy
  <2>5. QED
    BY <1>0, <2>1, <2>3, <2>4 DEF StoreOK
<1>5. QED
  BY <1>0, <1>1, <1>2, <1>3, <1>4

\* A migration keeps all of this.
LEMMA MigrateKeeps ==
    ASSUME IInv, UNCHANGED workload, Migrate PROVE IInv'
<1>1. UNCHANGED <<trusted, rpc, result, stamp, step, mpc, reviewer, cand, fp, now,
                  agent, skills, listed, valid, compiled, authority>>
  BY DEF Migrate, recorder, manager
<1>2. /\ StoreOK' /\ signals = {} /\ approvals = {} /\ approvals' = {}
      /\ phase' \in {"legacy", "copy", "open"}
  BY <1>1, MigrateStore DEF Migrate, IInv, InsightsTypeOK
<1>3. Grows
  BY <1>2 DEF Grows
<1>4. InsightsTypeOK'
  BY <1>1, <1>2 DEF IInv, InsightsTypeOK
<1>5. \A p \in Recorders : RecorderOK(p)'
  BY <1>1, <1>3, RecorderStays DEF IInv, RecorderKept
<1>6. \A m \in Managers : ManagerOK(m)'
  BY <1>1, <1>3, ManagerStays DEF IInv, ManagerKept
<1>7. QED
  BY <1>2, <1>4, <1>5, <1>6 DEF IInv

\* Time passes, a reviewer loses authority, or nothing happens.
LEMMA WorldKeeps ==
    ASSUME IInv, UNCHANGED <<workload, migration, store, recorder, manager>>,
           trusted' \subseteq trusted
    PROVE  IInv'
<1>1. UNCHANGED <<signals, approvals, rpc, result, stamp, step, mpc, reviewer, cand, fp, now,
                  agent, skills, listed, valid, compiled, authority, phase, temp>>
  BY DEF recorder, manager, store, migration
<1>2. Grows
  BY <1>1 DEF Grows
<1>3. InsightsTypeOK'
  BY <1>1 DEF IInv, InsightsTypeOK
<1>4. StoreOK'
  BY <1>1 DEF IInv, StoreOK, Sound, Verified, Legacy
<1>5. \A p \in Recorders : RecorderOK(p)'
  BY <1>1, <1>2, RecorderStays DEF IInv, RecorderKept
<1>6. \A m \in Managers : ManagerOK(m)'
  BY <1>1, <1>2, ManagerStays DEF IInv, ManagerKept
<1>7. \A a \in approvals' : ApprovalOK(a)'
  BY <1>1, <1>2, ApprovalStays DEF IInv
<1>8. QED
  BY <1>3, <1>4, <1>5, <1>6, <1>7 DEF IInv

\* The invariant holds in an empty store, migrated or not.
LEMMA InsightsInit == Init => IInv
<1> SUFFICES ASSUME Init PROVE IInv
  OBVIOUS
<1>1. InsightsTypeOK
  BY DEF Init, InsightsTypeOK
<1>2. Sound({})
  BY FS_EmptySet DEF Sound
<1>3. StoreOK
  BY <1>2 DEF Init, StoreOK
<1>4. (\A p \in Recorders : RecorderOK(p)) /\ (\A m \in Managers : ManagerOK(m)) /\ approvals = {}
  BY DEF Init, RecorderOK, ManagerOK
<1>5. QED
  BY <1>1, <1>3, <1>4 DEF IInv

\* Every step keeps it.
LEMMA InsightsStep ==
    ASSUME IInv, [Next]_vars PROVE IInv'
<1>1. CASE UNCHANGED vars
  BY <1>1, WorldKeeps DEF vars
<1>2. ASSUME UNCHANGED workload, Migrate PROVE IInv'
  BY <1>2, MigrateKeeps
<1>3. ASSUME UNCHANGED <<workload, migration>>, phase = "open",
             \/ \E f \in workload.feedback : LeaveFeedback(f)
             \/ \E p \in Recorders : RecorderStep(p)
      PROVE  IInv'
  BY <1>3, FeedbackKeeps, RecordKeeps, RecorderTurns DEF RecorderStep
<1>4. ASSUME UNCHANGED <<workload, migration>>, phase = "open", NEW m \in Managers,
             ManagerStep(m)
      PROVE  IInv'
  BY <1>4, ApproveKeeps, StoreKeeps, CompileKeeps DEF ManagerStep
<1>5. ASSUME UNCHANGED <<workload, migration>>, Tick \/ \E r \in Reviewers : Revoke(r)
      PROVE  IInv'
  BY <1>5, WorldKeeps DEF Tick, Revoke
<1>6. QED
  BY <1>1, <1>2, <1>3, <1>4, <1>5 DEF Next

\* It is an invariant.
LEMMA InsightsInvariance == Spec => []IInv
BY InsightsInit, InsightsStep, PTL DEF Spec

-----------------------------------------------------------------------------
(* The properties *)

\* Guidance compiled into a profile (compile_profile) rests on stored signals of people
\* who said the same, and was approved, for this agent and this base profile, by a
\* reviewer who still had authority when the compilation began.
THEOREM GuidanceIsOfPeople == Spec => []GuidanceIsPeoples
<1>1. ASSUME IInv, NEW m \in Managers, NEW p \in compiled[m]
      PROVE  /\ p \in approvals
             /\ mpc[m] = "compiled" => p.cand.agent = agent[m] /\ p.fp = fp[m]
                                       /\ p.reviewer \in authority[m]
  BY <1>1 DEF IInv, ManagerOK
<1>2. ASSUME IInv, NEW p \in approvals
      PROVE  /\ p.cand.evidence \subseteq {s \in signals : InWindow(s, p.at)}
             /\ Homogeneous(p.cand.evidence)
             /\ \A s \in p.cand.evidence : p.cand.agent = s.agent /\ p.cand.body = s.what
  BY <1>2 DEF IInv, ApprovalOK, Founded, OfPeople
<1>3. IInv => GuidanceIsPeoples
  <2> SUFFICES ASSUME IInv, NEW m \in Managers, NEW p \in compiled[m]
               PROVE  /\ p \in approvals
                      /\ mpc[m] = "compiled" => p.cand.agent = agent[m] /\ p.fp = fp[m]
                                                /\ p.reviewer \in authority[m]
                      /\ p.cand.evidence \subseteq {s \in signals : InWindow(s, p.at)}
                      /\ Homogeneous(p.cand.evidence)
                      /\ \A s \in p.cand.evidence : p.cand.agent = s.agent
                                                    /\ p.cand.body = s.what
    BY Zenon DEF GuidanceIsPeoples
  <2>1. /\ p \in approvals
        /\ mpc[m] = "compiled" => p.cand.agent = agent[m] /\ p.fp = fp[m]
                                  /\ p.reviewer \in authority[m]
    BY <1>1
  <2>2. QED
    BY <2>1, <1>2, Zenon
<1>4. QED
  BY <1>3, InsightsInvariance, PTL

\* The outcomes of an agent's runs are as many as the runs: no two stored outcomes of one
\* agent are of one run.
LEMMA OutcomesAreRuns ==
    ASSUME Sound(signals), NEW a, NEW g, g \subseteq signals,
           \A s \in g : s.kind = "outcome" /\ s.agent = a
    PROVE  Cardinality({s.what[1] : s \in g}) = Cardinality(g)
<1> DEFINE runs == {s.what[1] : s \in g}
           run == [s \in g |-> s.what[1]]
<1>1. IsFiniteSet(g)
  BY FS_Subset DEF Sound
<1>2. \A s, t \in g : s.what[1] = t.what[1] => s = t
  <2> SUFFICES ASSUME NEW s \in g, NEW t \in g, s.what[1] = t.what[1] PROVE s = t
    OBVIOUS
  <2>1. s.key = <<"run-outcome", a, s.what[1]>> /\ t.key = <<"run-outcome", a, t.what[1]>>
    BY DEF Sound
  <2>2. s.key = t.key
    BY <2>1
  <2>3. QED
    BY <2>2 DEF Sound
<1>3. run \in Injection(g, runs)
  BY <1>2 DEF Injection, IsInjective
<1>4. run \in Surjection(g, runs)
  BY DEF Surjection
<1>5. ExistsBijection(g, runs)
  BY <1>3, <1>4 DEF ExistsBijection, Bijection
<1>6. QED
  BY <1>1, <1>5, FS_Bijection

\* Retries, failures between two appends, two recorders of one run and a migration leave
\* one outcome of a run in the store: what record_run reported as recorded is stored in
\* full, a migrated store starts from every row of the old one, and friction counts each
\* run once.
THEOREM EachRunCountsOnce == Spec => []RunsCountedOnce
<1>1. ASSUME IInv, NEW p \in Recorders, rpc[p] = "true",
             NEW s \in {RunOutcome(result[p], 0)} \cup
                       {ToolRejection(result[p], i, 0) : i \in DOMAIN result[p].rejections}
      PROVE  s \in {Payload(t) : t \in signals}
  <2>1. /\ result[p] \in workload.results /\ workload \in Workloads
        /\ \A k \in 0 .. Len(result[p].rejections) : Written(result[p], k)
    BY <1>1 DEF IInv, InsightsTypeOK, RecorderOK
  <2>2. result[p].rejections \in Seq(STRING)
    BY <2>1, InsightsConfig
  <2>3. DOMAIN result[p].rejections = 1 .. Len(result[p].rejections)
        /\ Len(result[p].rejections) \in Nat
    BY <2>2
  <2>4. \E k \in 0 .. Len(result[p].rejections) : s = SignalOf(result[p], k)
    <3>1. CASE s = RunOutcome(result[p], 0)
      BY <3>1, <2>3 DEF SignalOf
    <3>2. ASSUME NEW i \in DOMAIN result[p].rejections, s = ToolRejection(result[p], i, 0)
          PROVE  \E k \in 0 .. Len(result[p].rejections) : s = SignalOf(result[p], k)
      <4>1. i \in 0 .. Len(result[p].rejections) /\ i # 0
        BY <2>3
      <4>2. s = SignalOf(result[p], i)
        BY <3>2, <4>1 DEF SignalOf
      <4>3. QED
        BY <4>1, <4>2
    <3>3. QED
      BY <3>1, <3>2, <1>1
  <2>5. QED
    BY <2>1, <2>4 DEF Written
<1>2. ASSUME IInv, NEW a \in Agents, NEW g \in RunFriction(a, clock)
      PROVE  Cardinality({s.what[1] : s \in g}) = Cardinality(g)
  <2>1. g \subseteq signals /\ \A s \in g : s.kind = "outcome" /\ s.agent = a
    BY <1>2 DEF RunFriction, Groups, Windowed, ListSignals
  <2>2. Sound(signals)
    BY <1>2 DEF IInv, StoreOK
  <2>3. QED
    BY <2>1, <2>2, OutcomesAreRuns
<1>3. ASSUME IInv, phase = "open"
      PROVE  \A row \in workload.legacy : row.intact /\ row.signal \in signals
  BY <1>3 DEF IInv, StoreOK
<1>4. IInv => RunsCountedOnce
  BY <1>1, <1>2, <1>3, Zenon DEF RunsCountedOnce
<1>5. QED
  BY <1>4, InsightsInvariance, PTL
=============================================================================
