----------------------------- MODULE Approvals -----------------------------
(* What the in-memory approval inbox (ApprovalGateway) and the durable review *)
(* store (ReviewStore) have in common: the actions they park and a clock.     *)
CONSTANTS
  Request,        \* request_ids
  Digest,         \* canonical digests of ActionIntents
  None,
  MaxClock        \* bound of the model on the clock

VARIABLE now      \* the clock that leases and approvals expire by
=============================================================================
