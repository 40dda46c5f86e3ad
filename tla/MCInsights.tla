----------------------------- MODULE MCInsights -----------------------------
(* A small instance of Insights for TLC.  Key 1 is used for two texts, one   *)
(* text is said to two agents, and one run is reported with two outcomes.    *)
EXTENDS Insights, TLC

CONSTANTS a1, a2

Said(k, kind, a, text) == [key |-> k, kind |-> kind, agent |-> a, text |-> text]
MCFeedback == {Said(1, "correction", a1, "x"), Said(2, "correction", a1, "x"),
               Said(1, "workflow", a1, "y"), Said(3, "correction", a2, "x"),
               Said(2, "workflow", a1, "y")}
Ran(r, s, rejections) == [agent |-> a1, run |-> r, status |-> s, rejections |-> rejections]
MCResults == {Ran("r1", "FAILED", <<"t">>), Ran("r1", "COMPLETED", <<>>),
              Ran("r2", "FAILED", <<>>)}
Work(feedback, results, legacy) ==
    [feedback |-> feedback, results |-> results, legacy |-> legacy]
Row(s, intact) == [signal |-> s, intact |-> intact]
MCLegacy == {Row(RunOutcome(Ran("r2", "FAILED", <<>>), 0), TRUE),
             Row(Human(Said(2, "correction", a1, "x"), 0), TRUE)}
MCWorkloads == {Work(MCFeedback, {}, {}),
                Work({Said(1, "correction", a1, "x"), Said(2, "correction", a1, "x")},
                     {Ran("r2", "FAILED", <<>>)}, {}),
                Work({}, MCResults, {}),
                Work({Said(1, "correction", a1, "x")},
                     {Ran("r1", "FAILED", <<>>), Ran("r2", "FAILED", <<>>)}, MCLegacy),
                Work({}, {}, MCLegacy \cup
                     {Row(Human(Said(1, "workflow", a1, "y"), 0), FALSE)})}
MCSymmetry == Permutations(Recorders)
              \cup Permutations(Fingerprints)
=============================================================================
