------------------------- MODULE MCGovernedDispatch -------------------------
(* Small instances of GovernedDispatch for TLC. *)
EXTENDS GovernedDispatch, TLC

\* Attempts in and outside Local are interchangeable among themselves only.
Symmetry ==
  Permutations(Request) \cup Permutations(Attempt \ Local)
  \cup Permutations(Permit) \cup Permutations(Thread)
=============================================================================
