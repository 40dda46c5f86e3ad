----------------------------- MODULE ReviewStore -----------------------------
(***************************************************************************)
(* DurableReviewStore: REVIEW actions parked in a SQLite table shared by   *)
(* workers, with leases, approvals and one-shot consumption.               *)
(*                                                                         *)
(* Every method is one BEGIN IMMEDIATE transaction under the store's lock, *)
(* so it is one action here; a method that raises rolls back everything,   *)
(* the lazy lease expiry included, so a call that raises is no step.  The  *)
(* transactions are serial, so the version check in _replace never fails   *)
(* and versions are left out.  The clock is sampled once per transaction.  *)
(*                                                                         *)
(* What a worker knows is not in the table: held is the lease expiry a     *)
(* worker was told, granted the calls of consume_if_approved that returned *)
(* True.                                                                   *)
(***************************************************************************)
EXTENDS Naturals, Sequences, Approvals

CONSTANTS
  Worker, Actor,
  Role,           \* ApprovalRole
  Directory,      \* _allowed_approvers
  MaxLease,       \* _max_lease_seconds, in clock ticks
  MaxTTL          \* _max_ttl_seconds, in clock ticks

ASSUME StoreParameters ==
  /\ None \notin Digest \cup Worker \cup Actor \cup Role
  /\ Directory \in [Role -> SUBSET Actor]
  /\ MaxLease \in Nat \ {0} /\ MaxTTL \in Nat \ {0} /\ MaxClock \in Nat

VARIABLES
  row,       \* durable_reviews, by request_id; NoRow is an absent row
  held,      \* held[w][r]: expiry of the lease on r that worker w was given
  granted    \* the actions consume_if_approved returned True for

vars == <<now, row, held, granted>>

ReviewState == {"PARKED", "LEASED", "APPROVED", "CONSUMED", "APPROVAL_EXPIRED", "FROZEN"}

ReviewRecord ==
  [state : ReviewState, digest : Digest, role : Role,
   lease_owner : Worker \cup {None}, lease_expires_at : Nat,
   actor_id : Actor \cup {None}, approval_expires_at : Nat]

Grant == [req : Request, digest : Digest, role : Role, at : Nat]

NoRow == [state |-> "ABSENT", digest |-> None, role |-> None,
          lease_owner |-> None, lease_expires_at |-> 0,
          actor_id |-> None, approval_expires_at |-> 0]

-----------------------------------------------------------------------------

ClearLease(rec) == [rec EXCEPT !.lease_owner = None, !.lease_expires_at = 0]

\* Mutant: a lease is taken for expired one tick early.
ExpireLeaseEarly(rec) ==
  IF rec.state = "LEASED" /\ now + 1 >= rec.lease_expires_at
  THEN [ClearLease(rec) EXCEPT !.state = "PARKED"]
  ELSE rec

\* _expire_lease_if_needed
ExpireLease(rec) ==
  IF rec.state = "LEASED" /\ now >= rec.lease_expires_at
  THEN [ClearLease(rec) EXCEPT !.state = "PARKED"]
  ELSE rec

\* Mutant: an approval is still good in the instant it expires.
ExpireApprovalLate(rec) ==
  IF rec.state = "APPROVED" /\ now > rec.approval_expires_at
  THEN [rec EXCEPT !.state = "APPROVAL_EXPIRED"]
  ELSE rec

\* _expire_approval_if_needed
ExpireApproval(rec) ==
  IF rec.state = "APPROVED" /\ now >= rec.approval_expires_at
  THEN [rec EXCEPT !.state = "APPROVAL_EXPIRED"]
  ELSE rec

\* park(): inserts a row; a row that is there is returned or refused, never changed.
Park(r, d, role) ==
  /\ row[r] = NoRow
  /\ row' = [row EXCEPT ![r] = [NoRow EXCEPT !.state = "PARKED", !.digest = d, !.role = role]]
  /\ UNCHANGED <<now, held, granted>>

\* claim_lease(): of a parked request, or a renewal by the owner.
ClaimLease(w, r, window) ==
  LET rec == ExpireLease(row[r]) IN
  /\ \/ rec.state = "PARKED"
     \/ rec.state = "LEASED" /\ rec.lease_owner = w
  /\ row' = [row EXCEPT ![r] =
       [rec EXCEPT !.state = "LEASED", !.lease_owner = w, !.lease_expires_at = now + window]]
  /\ held' = [held EXCEPT ![w][r] = now + window]
  /\ UNCHANGED <<now, granted>>

\* Mutant: anyone may release.
ReleaseLeaseAny(w, r) ==
  LET rec == ExpireLease(row[r]) IN
  /\ row[r] # NoRow
  /\ row' = [row EXCEPT ![r] =
       IF rec.state = "LEASED" THEN [ClearLease(rec) EXCEPT !.state = "PARKED"] ELSE rec]
  /\ held' = [held EXCEPT ![w][r] = 0]
  /\ UNCHANGED <<now, granted>>

\* release_lease(): by the owner; on a request that is not leased it only
\* reports the row.
ReleaseLease(w, r) ==
  LET rec == ExpireLease(row[r]) IN
  /\ row[r] # NoRow
  /\ rec.state = "LEASED" => rec.lease_owner = w
  /\ row' = [row EXCEPT ![r] =
       IF rec.state = "LEASED" THEN [ClearLease(rec) EXCEPT !.state = "PARKED"] ELSE rec]
  /\ held' = [held EXCEPT ![w][r] = 0]
  /\ UNCHANGED <<now, granted>>

\* Mutant: only dead ends are refused, so a stale approval is renewed.
ApproveAgain(r, actor, role, ttl) ==
  LET rec == ExpireLease(row[r]) IN
  /\ rec.state \in {"PARKED", "LEASED", "APPROVED", "CONSUMED"}
  /\ role = rec.role /\ actor \in Directory[role]
  /\ row' = [row EXCEPT ![r] =
       [ClearLease(rec) EXCEPT !.state = "APPROVED", !.actor_id = actor,
                               !.approval_expires_at = now + ttl]]
  /\ UNCHANGED <<now, held, granted>>

\* approve(): a lease, whoever holds it, is cleared.
Approve(r, actor, role, ttl) ==
  LET rec == ExpireLease(row[r]) IN
  /\ rec.state \in {"PARKED", "LEASED"}
  /\ role = rec.role /\ actor \in Directory[role]
  /\ row' = [row EXCEPT ![r] =
       [ClearLease(rec) EXCEPT !.state = "APPROVED", !.actor_id = actor,
                               !.approval_expires_at = now + ttl]]
  /\ UNCHANGED <<now, held, granted>>

\* Mutant: consuming does not mark the row.
ConsumeIfApprovedAgain(r, d, role) ==
  /\ row[r].state = "APPROVED"
  /\ ExpireApproval(row[r]) = row[r]
  /\ row[r].digest = d /\ row[r].role = role
  /\ Len(granted) < 3
  /\ granted' = Append(granted, [req |-> r, digest |-> d, role |-> role, at |-> now])
  /\ UNCHANGED <<now, held, row>>

\* consume_if_approved(): an approval found expired is marked so and refused;
\* a refusal that writes nothing is no step.
ConsumeIfApproved(r, d, role) ==
  /\ row[r].state = "APPROVED"
  /\ \/ /\ ExpireApproval(row[r]) # row[r]
        /\ row' = [row EXCEPT ![r] = ExpireApproval(row[r])]
        /\ UNCHANGED granted
     \/ /\ ExpireApproval(row[r]) = row[r]
        /\ row[r].digest = d /\ row[r].role = role
        /\ row' = [row EXCEPT ![r].state = "CONSUMED"]
        /\ granted' = Append(granted, [req |-> r, digest |-> d, role |-> role, at |-> now])
  /\ UNCHANGED <<now, held>>

\* freeze(): every row there is, in whatever state; not the rows parked later.
Freeze ==
  /\ row' = [r \in Request |->
       IF row[r] = NoRow THEN NoRow ELSE [ClearLease(row[r]) EXCEPT !.state = "FROZEN"]]
  /\ UNCHANGED <<now, held, granted>>

\* get(): reading expires what is late.
Get(r) ==
  /\ row' = [row EXCEPT ![r] = ExpireApproval(ExpireLease(row[r]))]
  /\ UNCHANGED <<now, held, granted>>

\* A worker process dies: its leases stay in the table, its memory does not.
\* It may come back under the same worker_id.
Crash(w) ==
  /\ held' = [held EXCEPT ![w] = [r \in Request |-> 0]]
  /\ UNCHANGED <<now, row, granted>>

Tick ==
  /\ now < MaxClock
  /\ now' = now + 1
  /\ UNCHANGED <<row, held, granted>>

Init ==
  /\ now = 0
  /\ row = [r \in Request |-> NoRow]
  /\ held = [w \in Worker |-> [r \in Request |-> 0]]
  /\ granted = << >>

Next ==
  \/ \E r \in Request, d \in Digest, role \in Role : Park(r, d, role) \/ ConsumeIfApproved(r, d, role)
  \/ \E w \in Worker, r \in Request :
       ReleaseLease(w, r) \/ \E window \in 1..MaxLease : ClaimLease(w, r, window)
  \/ \E r \in Request, actor \in Actor, role \in Role, ttl \in 1..MaxTTL :
       Approve(r, actor, role, ttl)
  \/ \E r \in Request : Get(r)
  \/ \E w \in Worker : Crash(w)
  \/ Freeze
  \/ Tick

Spec == Init /\ [][Next]_vars

-----------------------------------------------------------------------------

\* Every variable keeps its type, and a row has a lease owner exactly while it
\* is LEASED: every exit from LEASED clears the lease.
TypeOK ==
  /\ now \in Nat
  /\ row \in [Request -> ReviewRecord \cup {NoRow}]
  /\ held \in [Worker -> [Request -> Nat]]
  /\ granted \in Seq(Grant)
  /\ \A r \in Request : row[r].state = "LEASED" <=> row[r].lease_owner # None

\* Two workers never both believe, within the time they were given, that they
\* hold the lease of one request - whatever was renewed, released, expired,
\* approved or frozen in between (docs/claims.md: "Competing workers cannot
\* both hold a REVIEW lease").
LeaseExclusive ==
  \A r \in Request, v, w \in Worker :
    now < held[v][r] /\ now < held[w][r] => v = w

\* A worker within its time still has the lease, or the request has left the
\* lease cycle: it can no longer be leased to anyone.
HolderIsCurrent ==
  \A r \in Request, w \in Worker : now < held[w][r] =>
    \/ row[r].state = "LEASED" /\ row[r].lease_owner = w /\ row[r].lease_expires_at = held[w][r]
    \/ row[r].state \in {"APPROVED", "CONSUMED", "APPROVAL_EXPIRED", "FROZEN"}

\* An approval is consumed once: of all the calls ever made for a request, by
\* any worker, one at most returned True.
ConsumedOnce ==
  \A i, j \in DOMAIN granted : granted[i].req = granted[j].req => i = j

\* A call returned True only for the very action that was parked, approved in
\* time by an actor the directory lists under the role the request requires.
GrantJustified ==
  \A i \in DOMAIN granted : LET g == granted[i] IN
    /\ row[g.req].state \in {"CONSUMED", "FROZEN"}
    /\ row[g.req].digest = g.digest /\ row[g.req].role = g.role
    /\ row[g.req].actor_id \in Directory[g.role]
    /\ g.at < row[g.req].approval_expires_at

\* CONSUMED, APPROVAL_EXPIRED and FROZEN are dead ends that only a freeze
\* leaves: no lease, no approval and no grant comes after them, and the parked
\* action is never replaced.
DeadEnds ==
  [][\A r \in Request :
       /\ row[r] # NoRow => row'[r].digest = row[r].digest /\ row'[r].role = row[r].role
       /\ row[r].state \in {"CONSUMED", "APPROVAL_EXPIRED", "FROZEN"} =>
            /\ row'[r].state \in {row[r].state, "FROZEN"}
            /\ row'[r].actor_id = row[r].actor_id
            /\ \A i \in DOMAIN granted' \ DOMAIN granted : granted'[i].req # r]_vars
=============================================================================
