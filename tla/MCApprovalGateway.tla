-------------------------- MODULE MCApprovalGateway --------------------------
(* ApprovalGateway for TLC: d1 and d2 are REVIEW actions for approvers of     *)
(* different roles, any other digest needs no approval or has no role.        *)
EXTENDS ApprovalGateway, TLC

CONSTANTS d1, d2, p1, p2

MCApprovers ==
  [d \in Digest |-> CASE d = d1 -> {p1} [] d = d2 -> {p2} [] OTHER -> {}]

Symmetry == Permutations(Call) \cup Permutations(Request)
=============================================================================
