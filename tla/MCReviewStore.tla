---------------------------- MODULE MCReviewStore ----------------------------
(* ReviewStore for TLC: two roles, each with one approver; actor a3 has none. *)
EXTENDS ReviewStore, TLC

CONSTANTS a1, a2, a3, hr, finance

MCDirectory == [role \in {hr, finance} |-> IF role = hr THEN {a1} ELSE {a2}]

Symmetry == Permutations(Request) \cup Permutations(Digest) \cup Permutations(Worker)
=============================================================================
