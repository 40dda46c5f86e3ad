--------------------------- MODULE ApprovalProofs ---------------------------
(***************************************************************************)
(* Theorems about human approval: the durable review store (ReviewStore)   *)
(* and the in-memory inbox with its gateway (ApprovalGateway), for any     *)
(* number of requests, workers, principals and calls and any lease,        *)
(* approval and clock times.                                               *)
(*                                                                         *)
(* The store.  The table is the authority: a worker within the time it was *)
(* given is the owner in the row, with the expiry it was told, or the row  *)
(* has left the lease cycle for good; and a row for which True was         *)
(* returned stays CONSUMED, or is frozen.                                  *)
(*                                                                         *)
(* The inbox.  A call between the consumption of its approval and the end  *)
(* of its handler (Spends) finds the approval consumed for its own digest, *)
(* and no second call of the request is there, because consume_if_approved *)
(* returns True only for an approval that is not consumed.                 *)
(***************************************************************************)
EXTENDS ReviewStore, ApprovalGateway, TLAPS

\* The states in which a row has its approver.
Decided == {"APPROVED", "CONSUMED", "APPROVAL_EXPIRED"}

\* An approved row names an approver the directory lists under its role.
ApproverListed ==
  \A r \in Request : row[r].state \in Decided =>
    row[r].actor_id \in Directory[row[r].role]

IInv ==
  /\ TypeOK
  /\ ApproverListed
  /\ HolderIsCurrent
  /\ LeaseExclusive
  /\ ConsumedOnce
  /\ GrantJustified

-----------------------------------------------------------------------------
(* What a transaction makes of a row.                                      *)

Row == ReviewRecord \cup {NoRow}

\* The lease is cleared as the row moves on; the rest of it is kept.
LEMMA ClearLeaseRow ==
  ASSUME NEW old \in ReviewRecord, NEW st \in ReviewState
  PROVE  LET new == [ClearLease(old) EXCEPT !.state = st]
         IN  /\ new \in ReviewRecord
             /\ new.state = st /\ new.lease_owner = None
             /\ new.digest = old.digest /\ new.role = old.role
             /\ new.actor_id = old.actor_id
             /\ new.approval_expires_at = old.approval_expires_at
<1>1. [old EXCEPT !.lease_owner = None] \in ReviewRecord
  BY DEF ReviewRecord
<1>2. ClearLease(old) \in ReviewRecord
  BY <1>1 DEF ReviewRecord, ClearLease
<1>3. [ClearLease(old) EXCEPT !.state = st] \in ReviewRecord
  BY <1>2 DEF ReviewRecord
<1>4. QED
  BY <1>2, <1>3 DEF ReviewRecord, ClearLease

\* A lease that has run out leaves a parked row; anything else is left alone.
LEMMA ExpireLeaseRow ==
  ASSUME TypeOK, NEW r \in Request
  PROVE  LET old == row[r]
             new == ExpireLease(old)
         IN  /\ new \in Row
             /\ new.digest = old.digest /\ new.role = old.role
             /\ new.actor_id = old.actor_id
             /\ new.approval_expires_at = old.approval_expires_at
             /\ new = NoRow <=> old = NoRow
             /\ new.state = "LEASED" <=> new.lease_owner # None
             /\ \/ new = old
                \/ /\ old.state = "LEASED" /\ now >= old.lease_expires_at
                   /\ new.state = "PARKED"
<1> DEFINE old == row[r]
           new == ExpireLease(old)
<1>1. old \in Row /\ (old.state = "LEASED" <=> old.lease_owner # None)
  BY DEF TypeOK, Row
<1>2. CASE ~(old.state = "LEASED" /\ now >= old.lease_expires_at)
  BY <1>1, <1>2 DEF ExpireLease
<1>3. CASE old.state = "LEASED" /\ now >= old.lease_expires_at
  <2>1. old \in ReviewRecord /\ "PARKED" \in ReviewState
    BY <1>1, <1>3 DEF Row, NoRow, ReviewState
  <2>2. new = [ClearLease(old) EXCEPT !.state = "PARKED"]
    BY <1>3 DEF ExpireLease
  <2> HIDE DEF new
  <2>3. /\ new \in ReviewRecord /\ new.state = "PARKED" /\ new.lease_owner = None
        /\ new.digest = old.digest /\ new.role = old.role /\ new.actor_id = old.actor_id
        /\ new.approval_expires_at = old.approval_expires_at
    BY <2>1, <2>2, ClearLeaseRow
  <2>4. new # NoRow /\ old # NoRow
    BY <1>3, <2>3 DEF NoRow
  <2>5. QED
    BY <1>3, <2>3, <2>4 DEF Row, new
<1>4. QED
  BY <1>2, <1>3

\* An approval that has run out is marked so; anything else is left alone.
LEMMA ExpireApprovalRow ==
  ASSUME NEW old \in Row
  PROVE  LET new == ExpireApproval(old)
         IN  /\ new \in Row
             /\ new.digest = old.digest /\ new.role = old.role
             /\ new.actor_id = old.actor_id
             /\ new.approval_expires_at = old.approval_expires_at
             /\ new.lease_owner = old.lease_owner
             /\ new.lease_expires_at = old.lease_expires_at
             /\ \/ new = old
                \/ old.state = "APPROVED" /\ new.state = "APPROVAL_EXPIRED"
<1> DEFINE new == ExpireApproval(old)
<1>1. CASE ~(old.state = "APPROVED" /\ now >= old.approval_expires_at)
  BY <1>1 DEF ExpireApproval
<1>2. CASE old.state = "APPROVED" /\ now >= old.approval_expires_at
  <2>1. old \in ReviewRecord
    BY <1>2 DEF Row, NoRow
  <2>2. new = [old EXCEPT !.state = "APPROVAL_EXPIRED"]
    BY <1>2 DEF ExpireApproval
  <2>3. QED
    BY <1>2, <2>1, <2>2 DEF Row, ReviewRecord, ReviewState
<1>3. QED
  BY <1>1, <1>2

-----------------------------------------------------------------------------
(* What the invariant needs of a transaction is stated once, as a relation *)
(* between a row before and after it.                                      *)

\* The cycle of a row, and the states in which it has left it for good.
Cycle == {"ABSENT", "PARKED", "LEASED"}
Left == {"APPROVED", "CONSUMED", "APPROVAL_EXPIRED", "FROZEN"}

\* new may follow old: well typed, the action kept, an approver only of the
\* directory, no way back into the cycle and none out of a dead end.
Follows(old, new) ==
  /\ new \in Row
  /\ new.state = "LEASED" <=> new.lease_owner # None
  /\ old # NoRow => new.digest = old.digest /\ new.role = old.role
  /\ old.state \in Left => /\ new.state \in Left
                           /\ new.actor_id = old.actor_id
                           /\ new.approval_expires_at = old.approval_expires_at
  /\ old.state \in {"CONSUMED", "APPROVAL_EXPIRED", "FROZEN"} =>
       new.state \in {old.state, "FROZEN"}
  /\ old.state \in Cycle /\ new.state \in Decided =>
       new.actor_id \in Directory[new.role]

RowsFollow == /\ row' \in [Request -> Row]
              /\ \A r \in Request : Follows(row[r], row'[r])

\* A worker within its time keeps the lease it has, unless the row leaves the cycle.
HoldersFollow ==
  \A r \in Request, w \in Worker : now < held[w][r] =>
    \/ row'[r].state \in Left
    \/ /\ row'[r].state = row[r].state
       /\ row'[r].lease_owner = row[r].lease_owner
       /\ row'[r].lease_expires_at = row[r].lease_expires_at

\* A row left alone follows itself.
LEMMA SameRowFollows ==
  ASSUME TypeOK, NEW r \in Request
  PROVE  Follows(row[r], row[r])
<1>1. row[r] \in Row /\ (row[r].state = "LEASED" <=> row[r].lease_owner # None)
  BY DEF TypeOK, Row
<1>2. row[r].state \in Cycle => row[r].state \notin Decided
  BY DEF Cycle, Decided
<1>3. QED
  BY <1>1, <1>2 DEF Follows

\* One row is written.
LEMMA OneRowFollows ==
  ASSUME TypeOK, NEW r \in Request, NEW new, Follows(row[r], new),
         row' = [row EXCEPT ![r] = new]
  PROVE  RowsFollow /\ row'[r] = new /\ \A q \in Request : q # r => row'[q] = row[q]
<1>1. row'[r] = new /\ \A q \in Request : q # r => row'[q] = row[q]
  BY DEF TypeOK
<1>2. row' \in [Request -> Row]
  BY DEF TypeOK, Row, Follows
<1>3. QED
  BY <1>1, <1>2, SameRowFollows DEF RowsFollow

\* Approvers, grants and types, when no new grant is given.
LEMMA RowsKept ==
  ASSUME IInv, RowsFollow, now' \in Nat, held' \in [Worker -> [Request -> Nat]],
         granted' = granted
  PROVE  TypeOK' /\ ApproverListed' /\ ConsumedOnce' /\ GrantJustified'
<1>1. TypeOK'
  BY DEF IInv, TypeOK, RowsFollow, Follows, Row
<1>2. ApproverListed'
  <2> SUFFICES ASSUME NEW r \in Request, row'[r].state \in Decided
               PROVE  row'[r].actor_id \in Directory[row'[r].role]
    BY DEF ApproverListed
  <2>1. CASE row[r].state \in Cycle
    BY <2>1 DEF RowsFollow, Follows
  <2>2. CASE row[r].state \in Left
    <3>1. row[r].state \in Decided
      BY <2>2 DEF RowsFollow, Follows, Left, Decided
    <3>2. row[r] # NoRow
      BY <2>2 DEF NoRow, Left
    <3>3. QED
      BY <2>2, <3>1, <3>2 DEF IInv, ApproverListed, RowsFollow, Follows
  <2>3. row[r].state \in Cycle \cup Left
    BY DEF IInv, TypeOK, ReviewRecord, ReviewState, NoRow, Cycle, Left
  <2>4. QED
    BY <2>1, <2>2, <2>3
<1>3. ConsumedOnce'
  BY DEF IInv, ConsumedOnce
<1>4. GrantJustified'
  <2> SUFFICES ASSUME NEW i \in DOMAIN granted
               PROVE  LET g == granted[i] IN
                      /\ row'[g.req].state \in {"CONSUMED", "FROZEN"}
                      /\ row'[g.req].digest = g.digest /\ row'[g.req].role = g.role
                      /\ row'[g.req].actor_id \in Directory[g.role]
                      /\ g.at < row'[g.req].approval_expires_at
    BY DEF GrantJustified
  <2>1. granted[i].req \in Request
    <3>1. granted \in Seq(Grant)
      BY DEF IInv, TypeOK
    <3>2. granted[i] \in Grant
      BY <3>1
    <3>3. QED
      BY <3>2 DEF Grant
  <2> DEFINE q == granted[i].req
  <2>2. row[q].state \in {"CONSUMED", "FROZEN"} /\ row[q].state \in Left /\ row[q] # NoRow
    BY DEF IInv, GrantJustified, Left, NoRow
  <2>3. Follows(row[q], row'[q])
    BY <2>1 DEF RowsFollow
  <2>4. QED
    BY <2>2, <2>3 DEF IInv, GrantJustified, Follows
<1>5. QED
  BY <1>1, <1>2, <1>3, <1>4

\* Leases, when none is given.
LEMMA HoldersKept ==
  ASSUME IInv, HoldersFollow, now' \in Nat, now' >= now,
         held' \in [Worker -> [Request -> Nat]],
         \A w \in Worker, r \in Request : held'[w][r] \in {held[w][r], 0}
  PROVE  HolderIsCurrent' /\ LeaseExclusive'
<1>1. \A w \in Worker, r \in Request :
        now' < held'[w][r] => held'[w][r] = held[w][r] /\ now < held[w][r]
  <2> SUFFICES ASSUME NEW w \in Worker, NEW r \in Request, now' < held'[w][r]
               PROVE  held'[w][r] = held[w][r] /\ now < held[w][r]
    OBVIOUS
  <2>1. now \in Nat /\ held[w][r] \in Nat /\ held'[w][r] \in Nat
    BY DEF IInv, TypeOK
  <2>2. held'[w][r] = held[w][r]
    BY <2>1
  <2>3. QED
    BY <2>1, <2>2
<1>2. LeaseExclusive'
  BY <1>1 DEF IInv, LeaseExclusive
<1>3. HolderIsCurrent'
  <2> SUFFICES ASSUME NEW r \in Request, NEW w \in Worker, now' < held'[w][r]
               PROVE  \/ /\ row'[r].state = "LEASED" /\ row'[r].lease_owner = w
                         /\ row'[r].lease_expires_at = held'[w][r]
                      \/ row'[r].state \in Left
    BY DEF HolderIsCurrent, Left
  <2>1. held'[w][r] = held[w][r] /\ now < held[w][r]
    BY <1>1
  <2>2. QED
    BY <2>1 DEF IInv, HolderIsCurrent, HoldersFollow, Left
<1>4. QED
  BY <1>2, <1>3

-----------------------------------------------------------------------------
(* The transactions.                                                       *)

\* park(): nobody holds a lease on a row that is not there.
LEMMA ParkStep ==
  ASSUME IInv, NEW r \in Request, NEW d \in Digest, NEW role \in Role, Park(r, d, role)
  PROVE  IInv' /\ RowsFollow
<1> DEFINE new == [NoRow EXCEPT !.state = "PARKED", !.digest = d, !.role = role]
<1>1. new \in ReviewRecord /\ new.state = "PARKED" /\ new.lease_owner = None
  BY DEF NoRow, ReviewRecord, ReviewState
<1>2. row[r] = NoRow /\ row' = [row EXCEPT ![r] = new] /\ UNCHANGED <<now, held, granted>>
  BY DEF Park
<1> HIDE DEF new
<1>4. Follows(row[r], new)
  BY <1>1, <1>2 DEF Follows, Row, NoRow, Left, Decided
<1>5. RowsFollow /\ \A q \in Request : q # r => row'[q] = row[q]
  BY <1>2, <1>4, OneRowFollows DEF IInv
<1>6. HoldersFollow
  BY <1>2, <1>5 DEF IInv, HolderIsCurrent, HoldersFollow, NoRow
<1>7. QED
  BY <1>2, <1>5, <1>6, RowsKept, HoldersKept DEF IInv, TypeOK

\* claim_lease(): nobody else is within its time on a row that can be leased.
LEMMA ClaimLeaseStep ==
  ASSUME IInv, NEW w \in Worker, NEW r \in Request, NEW window \in 1..MaxLease,
         ClaimLease(w, r, window)
  PROVE  IInv' /\ RowsFollow
<1> DEFINE rec == ExpireLease(row[r])
           t == now + window
           new == [rec EXCEPT !.state = "LEASED", !.lease_owner = w, !.lease_expires_at = t]
<1>1. /\ rec.state = "PARKED" \/ (rec.state = "LEASED" /\ rec.lease_owner = w)
      /\ row' = [row EXCEPT ![r] = new]
      /\ held' = [held EXCEPT ![w][r] = t]
      /\ UNCHANGED <<now, granted>>
  BY DEF ClaimLease
<1>2. /\ rec \in Row
      /\ rec.digest = row[r].digest /\ rec.role = row[r].role
      /\ rec = NoRow <=> row[r] = NoRow
      /\ \/ rec = row[r]
         \/ row[r].state = "LEASED" /\ now >= row[r].lease_expires_at
  BY ExpireLeaseRow DEF IInv
<1> HIDE DEF rec
<1>3. rec \in ReviewRecord /\ row[r].state \in {"PARKED", "LEASED"}
  BY <1>1, <1>2 DEF Row, NoRow
<1>4. t \in Nat /\ now \in Nat
  BY StoreParameters DEF IInv, TypeOK
<1> HIDE DEF t
<1>5. /\ new \in ReviewRecord /\ new.state = "LEASED" /\ new.lease_owner = w
      /\ new.lease_expires_at = t /\ new.digest = rec.digest /\ new.role = rec.role
  <2>1. [rec EXCEPT !.state = "LEASED"] \in ReviewRecord
    BY <1>3 DEF ReviewRecord, ReviewState
  <2>2. [rec EXCEPT !.state = "LEASED", !.lease_owner = w] \in ReviewRecord
    BY <2>1 DEF ReviewRecord
  <2>3. new \in ReviewRecord
    BY <1>4, <2>2 DEF ReviewRecord
  <2>4. QED
    BY <1>3, <2>3 DEF ReviewRecord
<1> HIDE DEF new
<1>6. w # None
  BY StoreParameters
<1>7. Follows(row[r], new)
  BY <1>2, <1>3, <1>5, <1>6 DEF Follows, Row, Left, Decided
<1>8. RowsFollow /\ row'[r] = new /\ \A q \in Request : q # r => row'[q] = row[q]
  BY <1>1, <1>7, OneRowFollows DEF IInv
<1>9. \A v \in Worker : now < held[v][r] => v = w
  <2> SUFFICES ASSUME NEW v \in Worker, now < held[v][r] PROVE v = w
    OBVIOUS
  <2>1. row[r].state = "LEASED" /\ row[r].lease_owner = v /\ row[r].lease_expires_at = held[v][r]
    BY <1>3 DEF IInv, HolderIsCurrent
  <2>2. held[v][r] \in Nat
    BY DEF IInv, TypeOK
  <2>3. rec = row[r]
    BY <1>2, <1>4, <2>1, <2>2
  <2>4. QED
    BY <1>1, <2>1, <2>3
<1>10. /\ held' \in [Worker -> [Request -> Nat]]
       /\ held'[w][r] = t
       /\ \A v \in Worker, q \in Request : v # w \/ q # r => held'[v][q] = held[v][q]
  BY <1>1, <1>4 DEF IInv, TypeOK
<1>11. HolderIsCurrent'
  <2> SUFFICES ASSUME NEW q \in Request, NEW v \in Worker, now < held'[v][q]
               PROVE  \/ /\ row'[q].state = "LEASED" /\ row'[q].lease_owner = v
                         /\ row'[q].lease_expires_at = held'[v][q]
                      \/ row'[q].state \in {"APPROVED", "CONSUMED", "APPROVAL_EXPIRED", "FROZEN"}
    BY <1>1 DEF HolderIsCurrent
  <2>1. CASE q # r
    BY <1>8, <1>10, <2>1 DEF IInv, HolderIsCurrent
  <2>2. CASE q = r
    BY <1>5, <1>8, <1>9, <1>10, <2>2
  <2>3. QED
    BY <2>1, <2>2
<1>12. LeaseExclusive'
  BY <1>1, <1>9, <1>10 DEF IInv, LeaseExclusive
<1>13. QED
  BY <1>1, <1>4, <1>8, <1>10, <1>11, <1>12, RowsKept DEF IInv

\* release_lease(): only by the owner, or on a row that is not leased.
LEMMA ReleaseLeaseStep ==
  ASSUME IInv, NEW w \in Worker, NEW r \in Request, ReleaseLease(w, r)
  PROVE  IInv' /\ RowsFollow
<1> DEFINE rec == ExpireLease(row[r])
           new == IF rec.state = "LEASED" THEN [ClearLease(rec) EXCEPT !.state = "PARKED"] ELSE rec
<1>1. /\ row[r] # NoRow
      /\ rec.state = "LEASED" => rec.lease_owner = w
      /\ row' = [row EXCEPT ![r] = new]
      /\ held' = [held EXCEPT ![w][r] = 0]
      /\ UNCHANGED <<now, granted>>
  BY DEF ReleaseLease
<1>2. /\ rec \in Row
      /\ rec.digest = row[r].digest /\ rec.role = row[r].role
      /\ rec.actor_id = row[r].actor_id
      /\ rec.approval_expires_at = row[r].approval_expires_at
      /\ rec = NoRow <=> row[r] = NoRow
      /\ rec.state = "LEASED" <=> rec.lease_owner # None
      /\ \/ rec = row[r]
         \/ /\ row[r].state = "LEASED" /\ now >= row[r].lease_expires_at
            /\ rec.state = "PARKED"
  BY ExpireLeaseRow DEF IInv
<1> HIDE DEF rec
<1>3. rec \in ReviewRecord
  BY <1>1, <1>2 DEF Row
<1>4. /\ new \in ReviewRecord /\ new.digest = rec.digest /\ new.role = rec.role
      /\ new.actor_id = rec.actor_id /\ new.approval_expires_at = rec.approval_expires_at
      /\ new.state = "LEASED" <=> new.lease_owner # None
      /\ \/ new = rec /\ rec.state # "LEASED"
         \/ rec.state = "LEASED" /\ new.state = "PARKED"
  <2>1. CASE rec.state = "LEASED"
    BY <1>3, <2>1, ClearLeaseRow DEF ReviewState
  <2>2. CASE rec.state # "LEASED"
    BY <1>2, <1>3, <2>2
  <2>3. QED
    BY <2>1, <2>2
<1> HIDE DEF new
<1>5. Follows(row[r], new)
  BY <1>2, <1>4, SameRowFollows DEF IInv, Follows, Row, Left, Decided, Cycle
<1>6. RowsFollow /\ row'[r] = new /\ \A q \in Request : q # r => row'[q] = row[q]
  BY <1>1, <1>5, OneRowFollows DEF IInv
<1>7. /\ held' \in [Worker -> [Request -> Nat]]
      /\ held'[w][r] = 0
      /\ \A v \in Worker, q \in Request : v # w \/ q # r => held'[v][q] = held[v][q]
  BY <1>1 DEF IInv, TypeOK
\* Whoever else is within its time holds a row that is not leased any more.
<1>8. \A v \in Worker : v # w /\ now < held[v][r] => row[r].state \in Left
  <2> SUFFICES ASSUME NEW v \in Worker, v # w, now < held[v][r], row[r].state \notin Left
               PROVE  FALSE
    OBVIOUS
  <2>1. row[r].state = "LEASED" /\ row[r].lease_owner = v /\ row[r].lease_expires_at = held[v][r]
    BY DEF IInv, HolderIsCurrent, Left
  <2>2. now \in Nat /\ held[v][r] \in Nat
    BY DEF IInv, TypeOK
  <2>3. rec = row[r]
    BY <1>2, <2>1, <2>2
  <2>4. QED
    BY <1>1, <2>1, <2>3
<1>9. \A v \in Worker, q \in Request : now < held'[v][q] => held'[v][q] = held[v][q]
  BY <1>7 DEF IInv, TypeOK
<1>10. LeaseExclusive'
  BY <1>1, <1>9 DEF IInv, LeaseExclusive
<1>11. HolderIsCurrent'
  <2> SUFFICES ASSUME NEW q \in Request, NEW v \in Worker, now < held'[v][q]
               PROVE  \/ /\ row'[q].state = "LEASED" /\ row'[q].lease_owner = v
                         /\ row'[q].lease_expires_at = held'[v][q]
                      \/ row'[q].state \in Left
    BY <1>1 DEF HolderIsCurrent, Left
  <2>1. CASE q # r
    BY <1>6, <1>9, <2>1 DEF IInv, HolderIsCurrent, Left
  <2>2. CASE q = r
    <3>1. v # w
      BY <1>7, <2>2 DEF IInv, TypeOK
    <3>2. row[r].state \in Left
      BY <1>8, <1>9, <2>2, <3>1
    <3>3. QED
      BY <1>5, <1>6, <2>2, <3>2 DEF Follows
  <2>3. QED
    BY <2>1, <2>2
<1>12. QED
  BY <1>1, <1>6, <1>7, <1>10, <1>11, RowsKept DEF IInv, TypeOK

\* approve(): the row leaves the cycle, with an approver of the directory.
LEMMA ApproveStep ==
  ASSUME IInv, NEW r \in Request, NEW actor \in Actor, NEW role \in Role,
         NEW ttl \in 1..MaxTTL, Approve(r, actor, role, ttl)
  PROVE  IInv' /\ RowsFollow
<1> DEFINE rec == ExpireLease(row[r])
           clear == [ClearLease(rec) EXCEPT !.state = "APPROVED"]
           new == [ClearLease(rec) EXCEPT !.state = "APPROVED", !.actor_id = actor,
                                          !.approval_expires_at = now + ttl]
<1>1. /\ rec.state \in {"PARKED", "LEASED"}
      /\ role = rec.role /\ actor \in Directory[role]
      /\ row' = [row EXCEPT ![r] = new]
      /\ UNCHANGED <<now, held, granted>>
  BY DEF Approve
<1>2. /\ rec \in Row
      /\ rec.digest = row[r].digest /\ rec.role = row[r].role
      /\ \/ rec = row[r]
         \/ row[r].state = "LEASED"
  BY ExpireLeaseRow DEF IInv
<1> HIDE DEF rec
<1>3. rec \in ReviewRecord /\ row[r].state \in {"PARKED", "LEASED"}
  BY <1>1, <1>2 DEF Row, NoRow
<1>4. /\ clear \in ReviewRecord /\ clear.state = "APPROVED" /\ clear.lease_owner = None
      /\ clear.digest = rec.digest /\ clear.role = rec.role
  BY <1>3, ClearLeaseRow DEF ReviewState
<1>5. now + ttl \in Nat
  BY StoreParameters DEF IInv, TypeOK
<1>6. /\ new \in ReviewRecord /\ new.state = "APPROVED" /\ new.lease_owner = None
      /\ new.digest = rec.digest /\ new.role = rec.role /\ new.actor_id = actor
  <2>1. new = [clear EXCEPT !.actor_id = actor, !.approval_expires_at = now + ttl]
    OBVIOUS
  <2> HIDE DEF clear, new
  <2>2. [clear EXCEPT !.actor_id = actor] \in ReviewRecord
    BY <1>4 DEF ReviewRecord
  <2>3. new \in ReviewRecord
    BY <1>5, <2>1, <2>2 DEF ReviewRecord
  <2>4. QED
    BY <1>4, <2>1, <2>3 DEF ReviewRecord
<1> HIDE DEF new, clear
<1>7. Follows(row[r], new)
  BY <1>1, <1>2, <1>3, <1>6 DEF Follows, Row, Left
<1>8. RowsFollow /\ row'[r] = new /\ \A q \in Request : q # r => row'[q] = row[q]
  BY <1>1, <1>7, OneRowFollows DEF IInv
<1>9. HoldersFollow
  BY <1>6, <1>8 DEF HoldersFollow, Left
<1>10. QED
  BY <1>1, <1>8, <1>9, RowsKept, HoldersKept DEF IInv, TypeOK

\* consume_if_approved(): a grant is the first for its row, which it leaves CONSUMED.
LEMMA ConsumeStep ==
  ASSUME IInv, NEW r \in Request, NEW d \in Digest, NEW role \in Role,
         ConsumeIfApproved(r, d, role)
  PROVE  IInv' /\ RowsFollow
<1>1. row[r] \in ReviewRecord /\ row[r].state = "APPROVED" /\ row[r].lease_owner = None
  BY DEF IInv, TypeOK, ConsumeIfApproved, NoRow
<1>2. UNCHANGED <<now, held>> /\ now \in Nat /\ held \in [Worker -> [Request -> Nat]]
  BY DEF IInv, TypeOK, ConsumeIfApproved
<1>3. \A new : Follows(row[r], new) /\ row' = [row EXCEPT ![r] = new]
                => RowsFollow /\ HoldersFollow
  <2> SUFFICES ASSUME NEW new, Follows(row[r], new), row' = [row EXCEPT ![r] = new]
               PROVE  RowsFollow /\ HoldersFollow
    OBVIOUS
  <2>1. RowsFollow /\ row'[r] = new /\ \A q \in Request : q # r => row'[q] = row[q]
    BY OneRowFollows DEF IInv
  <2>2. new.state \in Left
    BY <1>1 DEF Follows, Left
  <2>3. QED
    BY <2>1, <2>2 DEF HoldersFollow
<1>4. CASE ExpireApproval(row[r]) # row[r]
  <2> DEFINE new == ExpireApproval(row[r])
  <2>1. row' = [row EXCEPT ![r] = new] /\ UNCHANGED granted
    BY <1>4 DEF ConsumeIfApproved
  <2>2. /\ new \in Row /\ new.digest = row[r].digest /\ new.role = row[r].role
        /\ new.actor_id = row[r].actor_id
        /\ new.approval_expires_at = row[r].approval_expires_at
        /\ new.lease_owner = row[r].lease_owner
        /\ new.state = "APPROVAL_EXPIRED"
    BY <1>1, <1>4, ExpireApprovalRow DEF Row
  <2> HIDE DEF new
  <2>3. Follows(row[r], new)
    BY <1>1, <2>2 DEF Follows, Left, Cycle
  <2>4. RowsFollow /\ HoldersFollow
    BY <1>3, <2>1, <2>3
  <2>5. QED
    BY <1>2, <2>1, <2>4, RowsKept, HoldersKept DEF IInv
<1>5. CASE ExpireApproval(row[r]) = row[r]
  <2> DEFINE new == [row[r] EXCEPT !.state = "CONSUMED"]
             g == [req |-> r, digest |-> d, role |-> role, at |-> now]
  <2>1. /\ row[r].digest = d /\ row[r].role = role
        /\ row' = [row EXCEPT ![r] = new]
        /\ granted' = Append(granted, g)
    BY <1>5 DEF ConsumeIfApproved
  <2>2. /\ new \in ReviewRecord /\ new.state = "CONSUMED"
        /\ new.digest = d /\ new.role = role
        /\ new.actor_id = row[r].actor_id
        /\ new.approval_expires_at = row[r].approval_expires_at
        /\ new.lease_owner = None
    BY <1>1, <2>1 DEF ReviewRecord, ReviewState
  <2> HIDE DEF new
  <2>3. Follows(row[r], new)
    BY <1>1, <2>1, <2>2 DEF Follows, Row, Left, Cycle
  <2>4. RowsFollow /\ HoldersFollow /\ row'[r] = new
    BY <1>3, <2>1, <2>3 DEF IInv, TypeOK
  <2>5. now < row[r].approval_expires_at
    <3>1. row[r].approval_expires_at \in Nat
      BY <1>1 DEF ReviewRecord
    <3>2. ~(now >= row[r].approval_expires_at)
      <4> SUFFICES ASSUME now >= row[r].approval_expires_at PROVE FALSE
        OBVIOUS
      <4>1. row[r] = [row[r] EXCEPT !.state = "APPROVAL_EXPIRED"]
        BY <1>1, <1>5 DEF ExpireApproval
      <4>2. QED
        BY <1>1, <4>1 DEF ReviewRecord
    <3>3. QED
      BY <1>2, <3>1, <3>2
  <2>6. row[r].actor_id \in Directory[role]
    BY <1>1, <2>1 DEF IInv, ApproverListed, Decided
  <2>7. /\ granted \in Seq(Grant) /\ g \in Grant /\ Len(granted) \in Nat
        /\ DOMAIN granted = 1..Len(granted)
        /\ granted' \in Seq(Grant)
        /\ DOMAIN granted' = 1..(Len(granted) + 1)
        /\ granted'[Len(granted) + 1] = g
        /\ \A i \in DOMAIN granted : granted'[i] = granted[i]
    <3>1. granted \in Seq(Grant) /\ g \in Grant
      BY <1>2 DEF IInv, TypeOK, Grant
    <3>2. QED
      BY <2>1, <3>1
  <2> HIDE DEF g
  <2>8. g.req = r /\ g.digest = d /\ g.role = role /\ g.at = now
    BY DEF g
  \* No earlier grant was for this request: its row is APPROVED.
  <2>9. \A i \in DOMAIN granted : granted[i].req # r /\ granted[i].req \in Request
    <3> SUFFICES ASSUME NEW i \in DOMAIN granted
                 PROVE  granted[i].req # r /\ granted[i].req \in Request
      OBVIOUS
    <3>1. granted[i] \in Grant
      BY <2>7
    <3>2. row[granted[i].req].state \in {"CONSUMED", "FROZEN"}
      BY DEF IInv, GrantJustified
    <3>3. QED
      BY <1>1, <3>1, <3>2 DEF Grant
  <2>10. ConsumedOnce'
    BY <2>7, <2>8, <2>9 DEF IInv, ConsumedOnce
  <2>11. GrantJustified'
    <3> SUFFICES ASSUME NEW i \in DOMAIN granted'
                 PROVE  LET h == granted'[i] IN
                        /\ row'[h.req].state \in {"CONSUMED", "FROZEN"}
                        /\ row'[h.req].digest = h.digest /\ row'[h.req].role = h.role
                        /\ row'[h.req].actor_id \in Directory[h.role]
                        /\ h.at < row'[h.req].approval_expires_at
      BY DEF GrantJustified
    <3>1. CASE i = Len(granted) + 1
      BY <2>2, <2>4, <2>5, <2>6, <2>7, <2>8, <3>1
    <3>2. CASE i \in DOMAIN granted
      <4>1. row'[granted[i].req] = row[granted[i].req]
        BY <2>1, <2>9, <3>2 DEF IInv, TypeOK
      <4>2. QED
        BY <2>7, <3>2, <4>1 DEF IInv, GrantJustified
    <3>3. QED
      BY <2>7, <3>1, <3>2
  <2>12. TypeOK' /\ ApproverListed'
    <3>1. TypeOK'
      BY <1>2, <2>4, <2>7 DEF TypeOK, RowsFollow, Follows, Row
    <3>2. ApproverListed'
      <4> SUFFICES ASSUME NEW q \in Request, row'[q].state \in Decided
                   PROVE  row'[q].actor_id \in Directory[row'[q].role]
        BY DEF ApproverListed
      <4>1. CASE q = r
        BY <2>2, <2>4, <2>6, <4>1
      <4>2. CASE q # r
        BY <2>1, <4>2 DEF IInv, TypeOK, ApproverListed
      <4>3. QED
        BY <4>1, <4>2
    <3>3. QED
      BY <3>1, <3>2
  <2>13. QED
    BY <1>2, <2>4, <2>10, <2>11, <2>12, HoldersKept DEF IInv
<1>6. QED
  BY <1>4, <1>5

\* freeze(): every row leaves the cycle.
LEMMA FreezeStep ==
  ASSUME IInv, Freeze
  PROVE  IInv' /\ RowsFollow
<1>1. UNCHANGED <<now, held, granted>> /\ now \in Nat /\ held \in [Worker -> [Request -> Nat]]
  BY DEF IInv, TypeOK, Freeze
<1>2. ASSUME NEW r \in Request
      PROVE  /\ Follows(row[r], row'[r])
             /\ row[r] # NoRow => row'[r].state = "FROZEN"
  <2>1. CASE row[r] = NoRow
    <3>1. row'[r] = row[r]
      BY <2>1 DEF Freeze
    <3>2. QED
      BY <2>1, <3>1, SameRowFollows DEF IInv
  <2>2. CASE row[r] # NoRow
    <3>1. row[r] \in ReviewRecord
      BY <2>2 DEF IInv, TypeOK
    <3>2. row'[r] = [ClearLease(row[r]) EXCEPT !.state = "FROZEN"]
      BY <2>2 DEF Freeze
    <3>3. /\ row'[r] \in ReviewRecord /\ row'[r].state = "FROZEN" /\ row'[r].lease_owner = None
          /\ row'[r].digest = row[r].digest /\ row'[r].role = row[r].role
          /\ row'[r].actor_id = row[r].actor_id
          /\ row'[r].approval_expires_at = row[r].approval_expires_at
      <4> DEFINE old == row[r]
                 new == row'[r]
      <4>1. "FROZEN" \in ReviewState /\ old \in ReviewRecord
        BY <3>1 DEF ReviewState
      <4>2. new = [ClearLease(old) EXCEPT !.state = "FROZEN"]
        BY <3>2
      <4> HIDE DEF old, new
      <4>3. /\ new \in ReviewRecord /\ new.state = "FROZEN" /\ new.lease_owner = None
            /\ new.digest = old.digest /\ new.role = old.role /\ new.actor_id = old.actor_id
            /\ new.approval_expires_at = old.approval_expires_at
        BY <4>1, <4>2, ClearLeaseRow
      <4>4. QED
        BY <4>3 DEF old, new
    <3>4. QED
      BY <3>3 DEF Follows, Row, Left, Decided
  <2>3. QED
    BY <2>1, <2>2
<1>3. RowsFollow
  <2>1. row' = [r \in Request |-> row'[r]]
    BY DEF Freeze
  <2>2. \A r \in Request : row'[r] \in Row
    BY <1>2 DEF Follows
  <2>3. row' \in [Request -> Row]
    BY <2>1, <2>2
  <2>4. QED
    BY <1>2, <2>3 DEF RowsFollow
<1>4. HoldersFollow
  <2> SUFFICES ASSUME NEW r \in Request, NEW w \in Worker, now < held[w][r]
               PROVE  row'[r].state \in Left
    BY DEF HoldersFollow
  <2>1. row[r] # NoRow
    BY DEF IInv, HolderIsCurrent, NoRow
  <2>2. QED
    BY <1>2, <2>1 DEF Left
<1>5. QED
  BY <1>1, <1>3, <1>4, RowsKept, HoldersKept DEF IInv

\* get(): whoever is within its time has a lease that does not expire now.
LEMMA GetStep ==
  ASSUME IInv, NEW r \in Request, Get(r)
  PROVE  IInv' /\ RowsFollow
<1> DEFINE rec == ExpireLease(row[r])
           new == ExpireApproval(rec)
<1>1. /\ row' = [row EXCEPT ![r] = new] /\ UNCHANGED <<now, held, granted>>
      /\ now \in Nat /\ held \in [Worker -> [Request -> Nat]]
  BY DEF IInv, TypeOK, Get
<1>2. /\ rec \in Row
      /\ rec.digest = row[r].digest /\ rec.role = row[r].role
      /\ rec.actor_id = row[r].actor_id
      /\ rec.approval_expires_at = row[r].approval_expires_at
      /\ rec.state = "LEASED" <=> rec.lease_owner # None
      /\ \/ rec = row[r]
         \/ /\ row[r].state = "LEASED" /\ now >= row[r].lease_expires_at
            /\ rec.state = "PARKED"
  BY ExpireLeaseRow DEF IInv
<1> HIDE DEF rec
<1>3. /\ new \in Row
      /\ new.digest = rec.digest /\ new.role = rec.role
      /\ new.actor_id = rec.actor_id
      /\ new.approval_expires_at = rec.approval_expires_at
      /\ new.lease_owner = rec.lease_owner
      /\ new.lease_expires_at = rec.lease_expires_at
      /\ \/ new = rec
         \/ rec.state = "APPROVED" /\ new.state = "APPROVAL_EXPIRED"
  BY <1>2, ExpireApprovalRow
<1> HIDE DEF new
<1>4. Follows(row[r], new)
  BY <1>2, <1>3, SameRowFollows DEF IInv, Follows, Left, Cycle, Decided
<1>5. RowsFollow /\ row'[r] = new /\ \A q \in Request : q # r => row'[q] = row[q]
  BY <1>1, <1>4, OneRowFollows DEF IInv
<1>6. HoldersFollow
  <2> SUFFICES ASSUME NEW w \in Worker, now < held[w][r]
               PROVE  new.state \in Left \/ new = row[r]
    BY <1>5 DEF HoldersFollow
  <2>1. CASE row[r].state \in Left
    BY <1>4, <2>1 DEF Follows
  <2>2. CASE row[r].state = "LEASED" /\ row[r].lease_expires_at = held[w][r]
    <3>1. held[w][r] \in Nat
      BY <1>1
    <3>2. rec = row[r]
      BY <1>1, <1>2, <2>2, <3>1
    <3>3. QED
      BY <1>3, <2>2, <3>2
  <2>3. QED
    BY <2>1, <2>2 DEF IInv, HolderIsCurrent, Left
<1>7. QED
  BY <1>1, <1>5, <1>6, RowsKept, HoldersKept DEF IInv

\* A crash forgets leases and time ends them; no row changes.
LEMMA IdleStep ==
  ASSUME IInv, (\E w \in Worker : Crash(w)) \/ Tick \/ UNCHANGED vars
  PROVE  IInv' /\ RowsFollow
<1>1. row' = row /\ granted' = granted
  BY DEF Crash, Tick, vars
<1>2. RowsFollow
  BY <1>1, SameRowFollows DEF IInv, TypeOK, RowsFollow, Row
<1>3. HoldersFollow
  BY <1>1 DEF HoldersFollow
<1>4. now \in Nat /\ now' \in Nat /\ now' >= now
  BY DEF IInv, TypeOK, Crash, Tick, vars
<1>5. /\ held' \in [Worker -> [Request -> Nat]]
      /\ \A w \in Worker, r \in Request : held'[w][r] \in {held[w][r], 0}
  <2>1. CASE \E w \in Worker : Crash(w)
    BY <2>1 DEF IInv, TypeOK, Crash
  <2>2. CASE Tick \/ UNCHANGED vars
    BY <2>2 DEF IInv, TypeOK, Tick, vars
  <2>3. QED
    BY <2>1, <2>2
<1>6. QED
  BY <1>1, <1>2, <1>3, <1>4, <1>5, RowsKept, HoldersKept DEF IInv

-----------------------------------------------------------------------------
(* The inductive invariant.                                                *)

\* An empty table: nobody holds and nobody was granted anything.
LEMMA InvInit == Init => IInv
<1> SUFFICES ASSUME Init PROVE IInv
  OBVIOUS
<1>1. /\ now = 0 /\ granted = << >>
      /\ \A r \in Request : row[r] = NoRow
      /\ \A w \in Worker, r \in Request : held[w][r] = 0
  BY DEF Init
<1>2. TypeOK
  <2>1. row \in [Request -> ReviewRecord \cup {NoRow}] /\ held \in [Worker -> [Request -> Nat]]
    BY DEF Init
  <2>2. granted \in Seq(Grant)
    BY <1>1
  <2>3. NoRow.state = "ABSENT" /\ NoRow.lease_owner = None
    BY DEF NoRow
  <2>4. QED
    BY <1>1, <2>1, <2>2, <2>3 DEF TypeOK
<1>3. ApproverListed
  BY <1>1 DEF ApproverListed, Decided, NoRow
<1>4. HolderIsCurrent /\ LeaseExclusive
  BY <1>1 DEF HolderIsCurrent, LeaseExclusive
<1>5. ConsumedOnce /\ GrantJustified
  BY <1>1 DEF ConsumedOnce, GrantJustified
<1>6. QED
  BY <1>2, <1>3, <1>4, <1>5 DEF IInv

\* Every transaction keeps the invariant, and makes of each row only what may
\* follow it.
LEMMA InvStep == IInv /\ [Next]_vars => IInv' /\ RowsFollow
<1> SUFFICES ASSUME IInv, [Next]_vars PROVE IInv' /\ RowsFollow
  OBVIOUS
<1>1. QED
  BY ParkStep, ConsumeStep, ReleaseLeaseStep, ClaimLeaseStep, ApproveStep, GetStep,
     FreezeStep, IdleStep DEF Next

\* The inductive invariant holds in every reachable state.
LEMMA StoreInvariant == Spec => []IInv
<1>1. QED
  BY InvInit, InvStep, PTL DEF Spec

-----------------------------------------------------------------------------
(* What the store promises.                                                *)

\* Rows, what workers were told and the grants keep their types, and a row has an
\* owner exactly while it is LEASED.
THEOREM StoreTypeCorrect == Spec => []TypeOK
<1>1. IInv => TypeOK
  BY DEF IInv
<1>2. QED
  BY <1>1, StoreInvariant, PTL

\* Competing workers are never both within the time they were given for one
\* request (claim_lease), whatever the number of workers and the lease times.
THEOREM LeasesExclude == Spec => []LeaseExclusive
<1>1. IInv => LeaseExclusive
  BY DEF IInv
<1>2. QED
  BY <1>1, StoreInvariant, PTL

\* A worker within its time has the lease in the table, or the request has left
\* the lease cycle.
THEOREM HoldersAreCurrent == Spec => []HolderIsCurrent
<1>1. IInv => HolderIsCurrent
  BY DEF IInv
<1>2. QED
  BY <1>1, StoreInvariant, PTL

\* consume_if_approved returns True once for a request.
THEOREM GrantedOnce == Spec => []ConsumedOnce
<1>1. IInv => ConsumedOnce
  BY DEF IInv
<1>2. QED
  BY <1>1, StoreInvariant, PTL

\* consume_if_approved returns True only for the action that was parked and that
\* a listed actor of the required role approved in time.
THEOREM GrantsAreJustified == Spec => []GrantJustified
<1>1. IInv => GrantJustified
  BY DEF IInv
<1>2. QED
  BY <1>1, StoreInvariant, PTL

\* Nothing but a freeze leaves a dead end, nothing is granted after one, and the
\* parked action is never replaced.
THEOREM DeadEndsHold == Spec => DeadEnds
<1>1. IInv /\ [Next]_vars =>
        [\A r \in Request :
           /\ row[r] # NoRow => row'[r].digest = row[r].digest /\ row'[r].role = row[r].role
           /\ row[r].state \in {"CONSUMED", "APPROVAL_EXPIRED", "FROZEN"} =>
                /\ row'[r].state \in {row[r].state, "FROZEN"}
                /\ row'[r].actor_id = row[r].actor_id
                /\ \A i \in DOMAIN granted' \ DOMAIN granted : granted'[i].req # r]_vars
  <2> SUFFICES ASSUME IInv, Next, NEW r \in Request
               PROVE  /\ row[r] # NoRow => row'[r].digest = row[r].digest /\ row'[r].role = row[r].role
                      /\ row[r].state \in {"CONSUMED", "APPROVAL_EXPIRED", "FROZEN"} =>
                           /\ row'[r].state \in {row[r].state, "FROZEN"}
                           /\ row'[r].actor_id = row[r].actor_id
                           /\ \A i \in DOMAIN granted' \ DOMAIN granted : granted'[i].req # r
    OBVIOUS
  <2>1. Follows(row[r], row'[r])
    BY InvStep DEF RowsFollow
  <2>2. ASSUME row[r].state # "APPROVED"
        PROVE  \A i \in DOMAIN granted' \ DOMAIN granted : granted'[i].req # r
    <3>1. ASSUME NEW q \in Request, NEW d \in Digest, NEW role \in Role,
                 ConsumeIfApproved(q, d, role)
          PROVE  \A i \in DOMAIN granted' \ DOMAIN granted : granted'[i].req # r
      <4>1. q # r
        BY <2>2, <3>1 DEF ConsumeIfApproved
      <4> DEFINE g == [req |-> q, digest |-> d, role |-> role, at |-> now]
      <4>2. granted' = granted \/ granted' = Append(granted, g)
        BY <3>1 DEF ConsumeIfApproved
      <4>3. granted \in Seq(Grant) /\ g \in Grant /\ g.req = q
        BY DEF IInv, TypeOK, Grant
      <4> HIDE DEF g
      <4>4. CASE granted' = Append(granted, g)
        <5>1. \A i \in DOMAIN granted' \ DOMAIN granted : granted'[i] = g
          BY <4>3, <4>4
        <5>2. QED
          BY <4>1, <4>3, <5>1
      <4>5. QED
        BY <4>2, <4>4
    <3>2. CASE granted' = granted
      BY <3>2
    <3>3. QED
      BY <3>1, <3>2 DEF Next, Park, ReleaseLease, ClaimLease, Approve, Get, Crash, Freeze, Tick
  <2>3. QED
    BY <2>1, <2>2 DEF Follows, Left
<1>2. QED
  BY <1>1, StoreInvariant, PTL DEF Spec, DeadEnds

-----------------------------------------------------------------------------
(* The inbox and the gateway.                                              *)

\* The call's handler is about to be entered, or was.
Spends(c) == digest[c] \in Review /\ (pc[c] = "invoke" \/ entered[c])

\* Where a call stands determines what it has.
CallsBound ==
  \A c \in Call :
    /\ pc[c] # "idle" => req[c] \in Request /\ digest[c] \in Digest
    /\ entered[c] => pc[c] = "running" \/ result[c] \in {"EXECUTED", "INDETERMINATE"}
    /\ pc[c] = "running" => entered[c]
    /\ result[c] # "NONE" => pc[c] = "done"
    /\ result[c] = "EXECUTED" => entered[c]
    /\ pc[c] \in {"consume", "look", "park"} => digest[c] \in Review

\* An approval is for what is parked, by someone the directory lists.
ApprovalsBound ==
  \A r \in Request : approvals[r] # NoRecord =>
    /\ pending[r] = approvals[r].digest
    /\ approvals[r].actor \in Approvers[approvals[r].digest]

\* Whoever spends an approval has consumed it, for the digest it was given for.
SpentIsConsumed ==
  \A c \in Call : Spends(c) =>
    /\ approvals[req[c]].consumed
    /\ approvals[req[c]].digest = digest[c]

SpentOnce ==
  \A c, d \in Call : Spends(c) /\ Spends(d) /\ req[c] = req[d] => c = d

GatewayInv == GatewayTypeOK /\ CallsBound /\ ApprovalsBound /\ SpentIsConsumed /\ SpentOnce

-----------------------------------------------------------------------------
(* Types.                                                                  *)

\* A fresh inbox and calls that have not begun are well typed.
LEMMA GatewayTypeInit == GatewayInit => GatewayTypeOK
<1> SUFFICES ASSUME GatewayInit PROVE GatewayTypeOK
  OBVIOUS
<1>1. entered \in [Call -> BOOLEAN] /\ frozen \in BOOLEAN
  BY DEF GatewayInit
<1>2. approvals \in [Request -> Record \cup {NoRecord}]
  BY DEF GatewayInit
<1>3. QED
  BY <1>1, <1>2 DEF GatewayInit, GatewayTypeOK, Labels

\* Every step keeps the types.
LEMMA GatewayTypeStep == GatewayTypeOK /\ [GatewayNext]_gatewayVars => GatewayTypeOK'
<1> SUFFICES ASSUME GatewayTypeOK, [GatewayNext]_gatewayVars PROVE GatewayTypeOK'
  OBVIOUS
<1> USE ApprovalSets DEF GatewayTypeOK, inboxVars, callVars
<1>1. ASSUME NEW c \in Call, CallStep(c) PROVE GatewayTypeOK'
  <2>1. CASE CheckFrozen(c)
    BY <2>1 DEF CheckFrozen, Goto, Return, Labels, Statuses
  <2>2. CASE Decide(c)
    BY <2>2 DEF Decide, Goto, Return, Labels, Statuses
  <2>3. CASE Consume(c)
    <3>1. approvals' \in [Request -> Record \cup {NoRecord}]
      <4>1. CASE Consumable(c) /\ req[c] \in Request
        <5>1. approvals[req[c]] \in Record
          BY <4>1 DEF Consumable
        <5>2. [approvals[req[c]] EXCEPT !.consumed = TRUE] \in Record
          BY <5>1 DEF Record
        <5>3. approvals' = [approvals EXCEPT ![req[c]] = [@ EXCEPT !.consumed = TRUE]]
          BY <2>3, <4>1 DEF Consume
        <5>4. QED
          BY <4>1, <5>2, <5>3
      <4>2. CASE ~(Consumable(c) /\ req[c] \in Request)
        BY <2>3, <4>2 DEF Consume
      <4>3. QED
        BY <4>1, <4>2
    <3>2. QED
      BY <2>3, <3>1 DEF Consume, Goto, Labels
  <2>4. CASE Look(c)
    BY <2>4 DEF Look, Goto, Return, Labels, Statuses
  <2>5. CASE ParkCall(c)
    BY <2>5 DEF ParkCall, Raise, Return, Labels, Statuses
  <2>6. CASE Invoke(c)
    BY <2>6 DEF Invoke, Goto, Labels
  <2>7. CASE HandlerEnds(c)
    BY <2>7 DEF HandlerEnds, Raise, Return, Labels, Statuses
  <2>8. QED
    BY <1>1, <2>1, <2>2, <2>3, <2>4, <2>5, <2>6, <2>7 DEF CallStep
<1>2. ASSUME NEW c \in Call, NEW r \in Request, NEW d \in Digest, Begin(c, r, d) PROVE GatewayTypeOK'
  BY <1>2 DEF Begin, Goto, Labels
<1>3. ASSUME NEW r \in Request, NEW p \in Principal, ApproveParked(r, p) PROVE GatewayTypeOK'
  BY <1>3 DEF ApproveParked, MayApprove, Record
<1>4. CASE FreezeInbox
  BY <1>4 DEF FreezeInbox
<1>5. CASE GatewayTick
  BY <1>5 DEF GatewayTick
<1>6. CASE UNCHANGED gatewayVars
  BY <1>6 DEF gatewayVars
<1>7. QED
  BY <1>1, <1>2, <1>3, <1>4, <1>5, <1>6 DEF GatewayNext

-----------------------------------------------------------------------------
(* The inductive invariant.                                                *)

\* In the beginning nobody spends anything.
LEMMA GatewayInvInit == GatewayInit => GatewayInv
<1> SUFFICES ASSUME GatewayInit PROVE GatewayInv
  OBVIOUS
<1>1. GatewayTypeOK
  BY GatewayTypeInit
<1>2. \A c \in Call : pc[c] = "idle" /\ ~entered[c] /\ result[c] = "NONE"
  BY DEF GatewayInit
<1>3. \A r \in Request : approvals[r] = NoRecord
  BY DEF GatewayInit
<1>4. QED
  BY <1>1, <1>2, <1>3
     DEF GatewayInv, CallsBound, ApprovalsBound, SpentIsConsumed, SpentOnce, Spends

\* A step of a call that leaves the inbox alone and spends no approval it did not
\* spend before keeps what is known of approvals.
LEMMA QuietCall ==
  ASSUME GatewayInv, UNCHANGED <<pending, approvals, req>>,
         \A c \in Call : Spends(c)' => Spends(c) /\ digest'[c] = digest[c]
  PROVE  ApprovalsBound' /\ SpentIsConsumed' /\ SpentOnce'
<1>1. ApprovalsBound'
  BY DEF GatewayInv, ApprovalsBound
<1>2. SpentIsConsumed'
  BY DEF GatewayInv, SpentIsConsumed
<1>3. SpentOnce'
  BY DEF GatewayInv, SpentOnce
<1>4. QED
  BY <1>1, <1>2, <1>3

\* execute() begins: a call that has nothing yet.
LEMMA BeginStep ==
  ASSUME GatewayInv, NEW c \in Call, NEW r \in Request, NEW d \in Digest, Begin(c, r, d)
  PROVE  CallsBound' /\ ApprovalsBound' /\ SpentIsConsumed' /\ SpentOnce'
<1>1. ~entered[c] /\ result[c] = "NONE"
  BY DEF GatewayInv, CallsBound, Begin
<1>2. CallsBound'
  BY <1>1 DEF GatewayInv, GatewayTypeOK, CallsBound, Begin, Goto
<1>3. \A e \in Call : Spends(e)' => e # c /\ Spends(e) /\ req'[e] = req[e] /\ digest'[e] = digest[e]
  BY <1>1 DEF GatewayInv, GatewayTypeOK, Spends, Begin, Goto
<1>4. UNCHANGED <<pending, approvals>>
  BY DEF Begin, inboxVars
<1>5. QED
  BY <1>2, <1>3, <1>4 DEF GatewayInv, ApprovalsBound, SpentIsConsumed, SpentOnce

\* consume_if_approved: the call that is told True is alone with its approval.
LEMMA SpendStep ==
  ASSUME GatewayInv, NEW c \in Call, Consume(c)
  PROVE  CallsBound' /\ ApprovalsBound' /\ SpentIsConsumed' /\ SpentOnce'
<1>1. /\ req[c] \in Request /\ digest[c] \in Review /\ digest[c] \in Digest
      /\ ~entered[c] /\ ~Spends(c) /\ pc[c] = "consume"
  BY DEF GatewayInv, CallsBound, Consume, Spends
<1>2. CallsBound'
  BY <1>1 DEF GatewayInv, GatewayTypeOK, CallsBound, Consume, Goto
<1>3. CASE ~Consumable(c)
  <2>1. \A e \in Call : Spends(e)' => Spends(e) /\ digest'[e] = digest[e]
    BY <1>1, <1>3 DEF GatewayInv, GatewayTypeOK, Spends, Consume, Goto
  <2>2. UNCHANGED <<pending, approvals, req>>
    BY <1>3 DEF Consume
  <2>3. QED
    BY <1>2, <2>1, <2>2, QuietCall
<1>4. CASE Consumable(c)
  <2> DEFINE r == req[c]
  <2>1. /\ approvals[r] \in Record /\ ~approvals[r].consumed
        /\ approvals[r].digest = digest[c] /\ approvals[r] # NoRecord
    BY <1>1, <1>4 DEF GatewayInv, GatewayTypeOK, Consumable
  <2>2. /\ approvals' = [approvals EXCEPT ![r] = [@ EXCEPT !.consumed = TRUE]]
        /\ UNCHANGED <<pending, req, digest, entered>>
        /\ pc' = [pc EXCEPT ![c] = "invoke"]
    BY <1>4 DEF Consume, Goto
  <2>3. /\ approvals'[r].consumed
        /\ approvals'[r].digest = approvals[r].digest
        /\ approvals'[r].actor = approvals[r].actor
    BY <1>1, <2>1, <2>2 DEF GatewayInv, GatewayTypeOK, Record
  <2>4. \A q \in Request : q # r => approvals'[q] = approvals[q]
    BY <2>2 DEF GatewayInv, GatewayTypeOK
  <2>5. ApprovalsBound'
    BY <2>1, <2>2, <2>3, <2>4 DEF GatewayInv, ApprovalsBound
  <2>6. \A e \in Call : Spends(e)' => e = c \/ Spends(e)
    BY <2>2 DEF GatewayInv, GatewayTypeOK, Spends
  \* No other call spends an approval of this request: it was not consumed yet.
  <2>7. \A e \in Call : Spends(e) => req[e] # r /\ req[e] \in Request
    <3> SUFFICES ASSUME NEW e \in Call, Spends(e) PROVE req[e] # r /\ req[e] \in Request
      OBVIOUS
    <3>1. approvals[req[e]].consumed
      BY DEF GatewayInv, SpentIsConsumed
    <3>2. pc[e] # "idle"
      BY DEF GatewayInv, CallsBound, Spends
    <3>3. QED
      BY <2>1, <3>1, <3>2 DEF GatewayInv, CallsBound
  <2>8. SpentIsConsumed'
    <3> SUFFICES ASSUME NEW e \in Call, Spends(e)'
                 PROVE  approvals'[req'[e]].consumed /\ approvals'[req'[e]].digest = digest'[e]
      BY DEF SpentIsConsumed
    <3>1. CASE e = c
      BY <2>1, <2>2, <2>3, <3>1
    <3>2. CASE e # c
      BY <2>2, <2>4, <2>6, <2>7, <3>2 DEF GatewayInv, SpentIsConsumed
    <3>3. QED
      BY <3>1, <3>2
  <2>9. SpentOnce'
    BY <2>2, <2>6, <2>7 DEF GatewayInv, SpentOnce
  <2>10. QED
    BY <1>2, <2>5, <2>8, <2>9
<1>5. QED
  BY <1>3, <1>4

\* park: what is parked is not replaced, so an approval stays bound to it.
LEMMA ParkCallStep ==
  ASSUME GatewayInv, NEW c \in Call, ParkCall(c)
  PROVE  CallsBound' /\ ApprovalsBound' /\ SpentIsConsumed' /\ SpentOnce'
<1>1. ~entered[c] /\ pc[c] = "park" /\ req[c] \in Request /\ digest[c] \in Digest
  BY DEF GatewayInv, CallsBound, ParkCall
<1>2. CallsBound'
  BY <1>1 DEF GatewayInv, GatewayTypeOK, CallsBound, ParkCall, Return, Raise
<1>3. \A e \in Call : Spends(e)' => Spends(e) /\ digest'[e] = digest[e]
  BY <1>1 DEF GatewayInv, GatewayTypeOK, Spends, ParkCall, Return, Raise
<1>4. \A r \in Request : pending[r] # None => pending'[r] = pending[r]
  BY <1>1, ApprovalSets DEF GatewayInv, GatewayTypeOK, ParkCall
<1>5. \A r \in Request : approvals[r] # NoRecord => pending[r] # None
  BY ApprovalSets DEF GatewayInv, GatewayTypeOK, ApprovalsBound, Record
<1>6. UNCHANGED <<approvals, req, digest>>
  BY DEF ParkCall
<1>7. QED
  BY <1>2, <1>3, <1>4, <1>5, <1>6 DEF GatewayInv, ApprovalsBound, SpentIsConsumed, SpentOnce

\* The handler is entered by a call that spends its approval already.
LEMMA InvokeStep ==
  ASSUME GatewayInv, NEW c \in Call, Invoke(c)
  PROVE  CallsBound' /\ ApprovalsBound' /\ SpentIsConsumed' /\ SpentOnce'
<1>1. CallsBound'
  BY DEF GatewayInv, GatewayTypeOK, CallsBound, Invoke, Goto
<1>2. \A e \in Call : Spends(e)' => Spends(e) /\ digest'[e] = digest[e]
  BY DEF GatewayInv, GatewayTypeOK, Spends, Invoke, Goto
<1>3. UNCHANGED <<pending, approvals, req>>
  BY DEF Invoke, inboxVars
<1>4. QED
  BY <1>1, <1>2, <1>3, QuietCall

\* The other steps of a call do not touch the inbox.
LEMMA OtherCallStep ==
  ASSUME GatewayInv, NEW c \in Call, CheckFrozen(c) \/ Decide(c) \/ Look(c) \/ HandlerEnds(c)
  PROVE  CallsBound' /\ ApprovalsBound' /\ SpentIsConsumed' /\ SpentOnce'
<1>1. CallsBound'
  BY DEF GatewayInv, GatewayTypeOK, CallsBound, CheckFrozen, Decide, Look, HandlerEnds, Goto, Return, Raise
<1>2. \A e \in Call : Spends(e)' => Spends(e) /\ digest'[e] = digest[e]
  BY DEF GatewayInv, GatewayTypeOK, Spends, CheckFrozen, Decide, Look, HandlerEnds, Goto, Return, Raise
<1>3. UNCHANGED <<pending, approvals, req>>
  BY DEF CheckFrozen, Decide, Look, HandlerEnds, inboxVars
<1>4. QED
  BY <1>1, <1>2, <1>3, QuietCall

\* approve: only where there is no record, so nobody spends it yet.
LEMMA ApproveParkedStep ==
  ASSUME GatewayInv, NEW r \in Request, NEW p \in Principal, ApproveParked(r, p)
  PROVE  CallsBound' /\ ApprovalsBound' /\ SpentIsConsumed' /\ SpentOnce'
<1>1. UNCHANGED <<pending, pc, req, digest, entered, result>>
  BY DEF ApproveParked, callVars
<1>2. CallsBound' /\ SpentOnce'
  BY <1>1 DEF GatewayInv, CallsBound, SpentOnce, Spends
<1>3. ApprovalsBound'
  BY <1>1 DEF GatewayInv, GatewayTypeOK, ApprovalsBound, ApproveParked, MayApprove
<1>4. SpentIsConsumed'
  <2>1. \A e \in Call : Spends(e) => req[e] \in Request /\ req[e] # r
    BY DEF GatewayInv, CallsBound, SpentIsConsumed, Spends, ApproveParked, NoRecord
  <2>2. \A q \in Request : q # r => approvals'[q] = approvals[q]
    BY DEF GatewayInv, GatewayTypeOK, ApproveParked
  <2>3. QED
    BY <1>1, <2>1, <2>2 DEF GatewayInv, SpentIsConsumed, Spends
<1>5. QED
  BY <1>2, <1>3, <1>4

\* Every step keeps the inductive invariant.
LEMMA GatewayInvStep == GatewayInv /\ [GatewayNext]_gatewayVars => GatewayInv'
<1> SUFFICES ASSUME GatewayInv, [GatewayNext]_gatewayVars PROVE GatewayInv'
  OBVIOUS
<1>1. GatewayTypeOK'
  BY GatewayTypeStep DEF GatewayInv
<1>2. CallsBound' /\ ApprovalsBound' /\ SpentIsConsumed' /\ SpentOnce'
  <2>1. ASSUME NEW c \in Call, CallStep(c)
        PROVE  CallsBound' /\ ApprovalsBound' /\ SpentIsConsumed' /\ SpentOnce'
    BY <2>1, SpendStep, ParkCallStep, InvokeStep, OtherCallStep DEF CallStep
  <2>2. CASE FreezeInbox \/ GatewayTick \/ UNCHANGED gatewayVars
    BY <2>2 DEF GatewayInv, CallsBound, ApprovalsBound, SpentIsConsumed, SpentOnce, Spends,
                FreezeInbox, GatewayTick, gatewayVars, inboxVars, callVars
  <2>3. QED
    BY <2>1, <2>2, BeginStep, ApproveParkedStep DEF GatewayNext
<1>3. QED
  BY <1>1, <1>2 DEF GatewayInv

\* The inductive invariant holds in every reachable state.
LEMMA ApprovalInvariant == GatewaySpec => []GatewayInv
<1>1. QED
  BY GatewayInvInit, GatewayInvStep, PTL DEF GatewaySpec

-----------------------------------------------------------------------------
(* What the inbox and the gateway promise.                                 *)

\* Inbox records and calls keep their types, in every reachable state.
THEOREM InboxTypeCorrect == GatewaySpec => []GatewayTypeOK
<1>1. GatewayInv => GatewayTypeOK
  BY DEF GatewayInv
<1>2. QED
  BY <1>1, ApprovalInvariant, PTL

\* However many threads present an approved action, the handler of a request's
\* REVIEW action is entered once (consume_if_approved).
THEOREM ApprovedRunsOnce == GatewaySpec => []ApprovalRunsOnce
<1>1. GatewayInv => ApprovalRunsOnce
  BY DEF GatewayInv, SpentOnce, Spends, ApprovalRunsOnce
<1>2. QED
  BY <1>1, ApprovalInvariant, PTL

\* A REVIEW action whose handler was entered is the very action that a listed
\* approver of its role approved (ApprovalInbox.approve, consume_if_approved).
THEOREM EntriesWereApproved == GatewaySpec => []EntryWasApproved
<1>1. GatewayInv => EntryWasApproved
  <2> SUFFICES ASSUME GatewayInv, NEW c \in Call, entered[c], digest[c] \in Review
               PROVE  /\ approvals[req[c]].consumed
                      /\ approvals[req[c]].digest = digest[c]
                      /\ approvals[req[c]].actor \in Approvers[digest[c]]
    BY DEF EntryWasApproved
  <2>1. approvals[req[c]].consumed /\ approvals[req[c]].digest = digest[c]
    BY DEF GatewayInv, SpentIsConsumed, Spends
  <2>2. req[c] \in Request
    BY DEF GatewayInv, CallsBound
  <2>3. approvals[req[c]] # NoRecord
    BY <2>1 DEF NoRecord
  <2>4. QED
    BY <2>1, <2>2, <2>3 DEF GatewayInv, ApprovalsBound
<1>2. QED
  BY <1>1, ApprovalInvariant, PTL

\* What execute() says of the handler is so: a refusal means that it was not
\* entered, EXECUTED that it was.
THEOREM ResultsAreHonest == GatewaySpec => []ResultIsHonest
<1>1. GatewayInv => ResultIsHonest
  BY DEF GatewayInv, CallsBound, ResultIsHonest, Refused
<1>2. QED
  BY <1>1, ApprovalInvariant, PTL

\* No step of anyone replaces what is parked for a request, who approved it, or
\* that it was consumed.
THEOREM ApprovalsAreFinal == GatewaySpec => ApprovalIsFinal
<1>1. GatewayInv /\ [GatewayNext]_gatewayVars =>
        [\A r \in Request :
           /\ pending[r] # None => pending'[r] = pending[r]
           /\ approvals[r] # NoRecord =>
                /\ approvals'[r].digest = approvals[r].digest
                /\ approvals'[r].actor = approvals[r].actor
                /\ approvals[r].consumed => approvals'[r].consumed]_gatewayVars
  <2> SUFFICES ASSUME GatewayInv, GatewayNext, NEW r \in Request
               PROVE  /\ pending[r] # None => pending'[r] = pending[r]
                      /\ approvals[r] # NoRecord =>
                           /\ approvals'[r].digest = approvals[r].digest
                           /\ approvals'[r].actor = approvals[r].actor
                           /\ approvals[r].consumed => approvals'[r].consumed
    OBVIOUS
  <2>1. ASSUME NEW c \in Call, Consume(c)
        PROVE  /\ pending' = pending
               /\ approvals[r] # NoRecord =>
                    /\ approvals'[r].digest = approvals[r].digest
                    /\ approvals'[r].actor = approvals[r].actor
                    /\ approvals[r].consumed => approvals'[r].consumed
    <3>1. CASE Consumable(c) /\ req[c] = r
      <4>1. approvals[r] \in Record
        BY <3>1 DEF GatewayInv, GatewayTypeOK, Consumable
      <4>2. approvals'[r] = [approvals[r] EXCEPT !.consumed = TRUE]
        BY <2>1, <3>1 DEF GatewayInv, GatewayTypeOK, Consume
      <4>3. QED
        BY <2>1, <4>1, <4>2 DEF Consume, Record
    <3>2. CASE ~(Consumable(c) /\ req[c] = r)
      BY <2>1, <3>2 DEF GatewayInv, GatewayTypeOK, Consume
    <3>3. QED
      BY <3>1, <3>2
  <2>2. ASSUME NEW c \in Call, ParkCall(c)
        PROVE  approvals' = approvals /\ (pending[r] # None => pending'[r] = pending[r])
    BY <2>2 DEF GatewayInv, GatewayTypeOK, ParkCall
  <2>3. ASSUME NEW q \in Request, NEW p \in Principal, ApproveParked(q, p)
        PROVE  pending' = pending /\ (approvals[r] # NoRecord => approvals'[r] = approvals[r])
    BY <2>3 DEF GatewayInv, GatewayTypeOK, ApproveParked
  <2>4. ASSUME NEW c \in Call,
               \/ CheckFrozen(c) \/ Decide(c) \/ Look(c) \/ Invoke(c) \/ HandlerEnds(c)
               \/ \E q \in Request, d \in Digest : Begin(c, q, d)
        PROVE  UNCHANGED <<pending, approvals>>
    BY <2>4 DEF CheckFrozen, Decide, Look, Invoke, HandlerEnds, Begin, inboxVars
  <2>5. CASE FreezeInbox \/ GatewayTick
    BY <2>5 DEF FreezeInbox, GatewayTick, inboxVars
  <2>6. QED
    BY <2>1, <2>2, <2>3, <2>4, <2>5 DEF GatewayNext, CallStep
<1>2. QED
  BY <1>1, ApprovalInvariant, PTL DEF GatewaySpec, ApprovalIsFinal
=============================================================================
