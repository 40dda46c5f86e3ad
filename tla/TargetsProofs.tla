---------------------------- MODULE TargetsProofs ----------------------------
(***************************************************************************)
(* Theorems about Targets, for any callers, requests, keys, accounts,      *)
(* vendors and limits, over a network that delays, reorders and loses.     *)
(***************************************************************************)
EXTENDS Targets, FiniteSetTheorems, FunctionTheorems, SequenceTheorems,
        WellFoundedInduction, TLAPS

(* The sum of the amounts of a set of transfers is the number of the cents   *)
(* they moved.  The fold is a recursive function; Units gives the function   *)
(* it must be, and a smallest set on which the two differ is impossible.     *)

Units(S) == UNION {{e} \X (1 .. Amount(e)) : e \in S}

\* One more transfer moves as many cents more as it says.
LEMMA UnitsAdd ==
    ASSUME NEW S, IsFiniteSet(Units(S)), NEW n, n \notin S, Amount(n) \in Nat
    PROVE  /\ IsFiniteSet(Units(S \cup {n}))
           /\ Cardinality(Units(S \cup {n})) = Cardinality(Units(S)) + Amount(n)
<1> DEFINE new == {n} \X (1 .. Amount(n))
<1>1. Units(S \cup {n}) = Units(S) \cup new
  BY DEF Units
<1>2. Units(S) \cap new = {}
  BY DEF Units
<1>3. IsFiniteSet(1 .. Amount(n)) /\ Cardinality(1 .. Amount(n)) = Amount(n)
  <2>1. PICK k \in Nat : k = Amount(n)
    OBVIOUS
  <2>2. IsFiniteSet(1 .. k) /\ Cardinality(1 .. k) = IF 1 > k THEN 0 ELSE k - 1 + 1
    BY FS_Interval
  <2>3. QED
    BY <2>1, <2>2
<1>4. IsFiniteSet(new) /\ Cardinality(new) = Amount(n)
  <2>1. IsFiniteSet({n}) /\ Cardinality({n}) = 1
    BY FS_Singleton
  <2>2. IsFiniteSet(new) /\ Cardinality(new) = 1 * Cardinality(1 .. Amount(n))
    BY <1>3, <2>1, FS_Product
  <2>3. QED
    BY <1>3, <2>2
<1>5. Cardinality(Units(S) \cap new) = 0 /\ Cardinality(Units(S)) \in Nat
  BY <1>2, FS_EmptySet, FS_CardinalityType
<1> HIDE DEF new
<1>6. /\ IsFiniteSet(Units(S) \cup new)
      /\ Cardinality(Units(S) \cup new) =
            Cardinality(Units(S)) + Cardinality(new) - Cardinality(Units(S) \cap new)
  BY <1>4, FS_Union
<1>7. Cardinality(Units(S) \cup new) = Cardinality(Units(S)) + Amount(n)
  BY <1>4, <1>5, <1>6
<1>8. QED
  BY <1>1, <1>6, <1>7, Zenon

\* The cents moved by a finite set of transfers are finitely many.
LEMMA UnitsFinite ==
    ASSUME NEW S, IsFiniteSet(S), \A e \in S : Amount(e) \in Nat
    PROVE  IsFiniteSet(Units(S))
<1> DEFINE part == [e \in S |-> {e} \X (1 .. Amount(e))]
           parts == {{e} \X (1 .. Amount(e)) : e \in S}
<1>1. part \in Surjection(S, parts)
  BY DEF Surjection
<1>2. IsFiniteSet(parts)
  BY <1>1, FS_Surjection
<1>3. ASSUME NEW e \in S PROVE IsFiniteSet({e} \X (1 .. Amount(e)))
  <2>1. PICK k \in Nat : k = Amount(e)
    OBVIOUS
  <2>2. IsFiniteSet(1 .. k)
    BY FS_Interval
  <2>3. QED
    BY <2>1, <2>2, FS_Singleton, FS_Product
<1>4. \A p \in parts : IsFiniteSet(p)
  BY <1>3
<1>5. QED
  BY <1>2, <1>4, FS_UNION DEF Units

\* Which transfer the fold takes first, and what it computes from the rest.
First(s) == CHOOSE x \in s : TRUE
Folds(f, S) ==
    f = [s \in SUBSET S |-> IF s = {} THEN 0 ELSE Amount(First(s)) + f[s \ {First(s)}]]

\* MapThenSumSet is such a function, if there is one.
LEMMA SumFolds ==
    ASSUME NEW S, NEW g, Folds(g, S)
    PROVE  \E f : Folds(f, S) /\ MapThenSumSet(Amount, S) = f[S]
BY DEF Folds, First, MapThenSumSet, MapThenFoldSet

\* The number of cents is one.
LEMMA UnitsFold ==
    ASSUME NEW S, IsFiniteSet(S), \A e \in S : Amount(e) \in Nat
    PROVE  Folds([s \in SUBSET S |-> Cardinality(Units(s))], S)
<1> DEFINE g == [s \in SUBSET S |-> Cardinality(Units(s))]
<1>1. g[{}] = 0
  <2>1. Units({}) = {}
    BY DEF Units
  <2>2. QED
    BY <2>1, FS_EmptySet
<1>2. ASSUME NEW s \in SUBSET S, s # {}
      PROVE  g[s] = Amount(First(s)) + g[s \ {First(s)}]
  <2>1. First(s) \in s
    BY <1>2 DEF First
  <2>2. PICK n \in s : n = First(s)
    BY <2>1
  <2>3. IsFiniteSet(s \ {n}) /\ s = (s \ {n}) \cup {n} /\ n \notin s \ {n}
    BY <1>2, FS_Subset
  <2>4. IsFiniteSet(Units(s \ {n}))
    BY <2>3, UnitsFinite
  <2>5. Cardinality(Units(s)) = Cardinality(Units(s \ {n})) + Amount(n)
    BY <2>3, <2>4, UnitsAdd
  <2>6. Cardinality(Units(s \ {n})) \in Nat /\ Amount(n) \in Nat
    BY <2>4, FS_CardinalityType
  <2>7. QED
    BY <2>2, <2>5, <2>6
<1>3. g = [s \in SUBSET S |-> IF s = {} THEN 0 ELSE Amount(First(s)) + g[s \ {First(s)}]]
  BY <1>1, <1>2
<1>4. QED
  BY <1>3 DEF Folds

\* There is only one.
LEMMA FoldIsOne ==
    ASSUME NEW S, IsFiniteSet(S), NEW f, NEW g, Folds(f, S), Folds(g, S)
    PROVE  f[S] = g[S]
<1> DEFINE differ == {s \in SUBSET S : f[s] # g[s]}
<1>1. SUFFICES ASSUME f[S] # g[S] PROVE FALSE
  OBVIOUS
<1>2. differ # {} /\ differ \subseteq SUBSET S
  BY <1>1
<1>3. IsWellFoundedOn(StrictSubsetOrdering(S), SUBSET S)
  BY FS_FiniteSubsetsOfFinite, FS_StrictSubsetOrderingWellFounded
<1>4. PICK s \in differ : \A t \in differ : <<t, s>> \notin StrictSubsetOrdering(S)
  <2> HIDE DEF differ
  <2>1. QED
    BY <1>2, <1>3, WFMin
<1>5. CASE s = {}
  BY <1>4, <1>5 DEF Folds
<1>6. CASE s # {}
  <2>1. First(s) \in s
    BY <1>6 DEF First
  <2>2. <<s \ {First(s)}, s>> \in StrictSubsetOrdering(S)
    BY <1>4, <2>1 DEF StrictSubsetOrdering
  <2>3. f[s \ {First(s)}] = g[s \ {First(s)}]
    BY <1>4, <2>2
  <2>4. /\ f[s] = Amount(First(s)) + f[s \ {First(s)}]
        /\ g[s] = Amount(First(s)) + g[s \ {First(s)}]
    BY <1>4, <1>6 DEF Folds
  <2>5. QED
    BY <1>4, <2>3, <2>4
<1>7. QED
  BY <1>5, <1>6

\* So the sum is the number of cents.
LEMMA SumIsUnits ==
    ASSUME NEW S, IsFiniteSet(S), \A e \in S : Amount(e) \in Nat
    PROVE  MapThenSumSet(Amount, S) = Cardinality(Units(S))
<1> DEFINE g == [s \in SUBSET S |-> Cardinality(Units(s))]
<1>1. Folds(g, S)
  BY UnitsFold
<1>2. g[S] = Cardinality(Units(S))
  OBVIOUS
<1> HIDE DEF g
<1>3. PICK f : Folds(f, S) /\ MapThenSumSet(Amount, S) = f[S]
  BY <1>1, SumFolds
<1>4. QED
  BY <1>1, <1>2, <1>3, FoldIsOne

\* A transfer more adds its amount to the sum.
LEMMA SumAdd ==
    ASSUME NEW S, IsFiniteSet(S), NEW n, n \notin S, \A e \in S \cup {n} : Amount(e) \in Nat
    PROVE  /\ MapThenSumSet(Amount, S) \in Nat
           /\ MapThenSumSet(Amount, S \cup {n}) = MapThenSumSet(Amount, S) + Amount(n)
<1>1. IsFiniteSet(S \cup {n})
  BY FS_AddElement
<1>2. IsFiniteSet(Units(S))
  BY UnitsFinite
<1>3. /\ MapThenSumSet(Amount, S) = Cardinality(Units(S))
      /\ MapThenSumSet(Amount, S \cup {n}) = Cardinality(Units(S \cup {n}))
  BY <1>1, SumIsUnits
<1>4. QED
  BY <1>2, <1>3, UnitsAdd, FS_CardinalityType

-----------------------------------------------------------------------------
(* The invariant *)

IsSeq(s) == s \in Seq(Range(s))

TargetTypeOK ==
    /\ requests \in Workloads
    /\ state = [t \in Targets |-> state[t]]
    /\ effects = [t \in Targets |-> effects[t]]
    /\ version \in [Targets -> Nat] /\ updates \in Nat

\* A target's receipts: of requests made to it, one per key.
ReceiptsOK(t) ==
    /\ IsFiniteSet(effects[t])
    /\ \A e \in effects[t] : e.request \in requests /\ Target(e.request.op) = t
    /\ \A e, f \in effects[t] : e.request.key = f.request.key => e = f

\* The books of each target, as functions of its objects and its receipts es.
Of(es, op) == {e \in es : e.request.op = op}
TransfersFrom(es, a) == {e \in Of(es, "transfer") : e.request.arg.account = a}
Spent(es, a) == MapThenSumSet(Amount, TransfersFrom(es, a))

ListBooks(s, es, op) == IsSeq(s) /\ Numbered(Of(es, op), s)
LedgerBooks(l, es) ==
    /\ l = [balance |-> l.balance, limit |-> l.limit,
            beneficiaries |-> l.beneficiaries, transfers |-> l.transfers]
    /\ l.balance \in [Accounts -> Nat] /\ IsSeq(l.transfers)
    /\ Numbered(Of(es, "transfer"), l.transfers)
    /\ \A a \in Accounts : Opening[a] - l.balance[a] = Spent(es, a)
CrmBooks(x, es) ==
    /\ x = [merged |-> x.merged, emails |-> x.emails, exports |-> x.exports]
    /\ ListBooks(x.emails, es, "send_email") /\ ListBooks(x.exports, es, "export")
Versioned(v, es, extra) ==
    v = Cardinality({e \in es : e.request.op \in Mutating}) + extra

StoreInv ==
    /\ TargetTypeOK
    /\ \A t \in Targets : ReceiptsOK(t)
    /\ LedgerBooks(state["ledger"], effects["ledger"])
    /\ ListBooks(state["orders"], effects["orders"], "create")
    /\ CrmBooks(state["crm"], effects["crm"])
    /\ ListBooks(state["mail"], effects["mail"], "send")
    /\ ListBooks(state["quotes"], effects["quotes"], "request_quote")
    /\ \A t \in Targets :
          Versioned(version[t], effects[t], IF t = "orders" THEN updates ELSE 0)

\* What a caller has asked for: a resubmission may have a request id of its own.
Asked(r, c) == r.op = req[c].op /\ r.key = req[c].key /\ r.arg = req[c].arg

CallerTypeOK ==
    /\ pc \in [Callers -> {"idle", "waiting", "answered", "done", "failed", "reconciled"}]
    /\ req = [c \in Callers |-> req[c]] /\ outcome = [c \in Callers |-> outcome[c]]
    /\ result = [c \in Callers |-> result[c]]

\* How far a caller has come.
CallerOK(c) ==
    /\ pc[c] = "idle" => req[c] = None /\ outcome[c] = None
    /\ pc[c] # "idle" => req[c] \in requests
    /\ outcome[c] = "CONFIRMED" => pc[c] \in {"done", "reconciled"}

\* What a caller was told is so.
Verdict(c) ==
    /\ pc[c] = "done" => \E e \in effects[Target(req[c].op)] :
                            Asked(e.request, c) /\ e.result = result[c]
    /\ outcome[c] = "PENDING_ACCEPTANCE" =>
          \E e \in effects["orders"] : Asked(e.request, c)
    /\ outcome[c] = "CONFIRMED" =>
          \E e \in effects["orders"] : e.request.key = req[c].key /\ e.result = result[c]

\* Every message and every effect is some caller's.
MessageOK(m) ==
    /\ m[1] \in Callers /\ pc[m[1]] # "idle"
    /\ m[3] \in requests /\ Asked(m[3], m[1])
ReplyOK(m) ==
    /\ m[1] \in Callers /\ pc[m[1]] # "idle"
    /\ m[3] = 200 => m[4] \in effects[Target(req[m[1]].op)] /\ Asked(m[4].request, m[1])
    /\ m[3] = 202 => \E e \in effects["orders"] : Asked(e.request, m[1])
EffectOK(e) == \E c \in Callers : pc[c] # "idle" /\ Asked(e.request, c)

ClientInv ==
    /\ CallerTypeOK
    /\ IsFiniteSet({c \in Callers : pc[c] # "idle"})
    /\ \A c \in Callers : CallerOK(c) /\ Verdict(c)
    /\ \A m \in wire : MessageOK(m)
    /\ \A m \in replies : ReplyOK(m)
    /\ \A t \in Targets : \A e \in effects[t] : EffectOK(e)

IInv == StoreInv /\ ClientInv

-----------------------------------------------------------------------------
(* The operations *)

\* Where an operation goes.
LEMMA TargetOf ==
    /\ \A op \in LedgerOps : Target(op) = "ledger"
    /\ \A op \in OrderOps : Target(op) = "orders"
    /\ \A op \in CrmOps : Target(op) = "crm"
    /\ \A op \in MailOps : Target(op) = "mail"
    /\ \A op \in QuoteOps : Target(op) = "quotes"
    /\ \A op \in Ops : Target(op) \in Targets
<1>1. \A op \in LedgerOps : Target(op) = "ledger"
  BY DEF Target, LedgerOps, OrderOps, CrmOps, MailOps, QuoteOps
<1>2. \A op \in OrderOps : Target(op) = "orders"
  BY DEF Target, LedgerOps, OrderOps, CrmOps, MailOps, QuoteOps
<1>3. \A op \in CrmOps : Target(op) = "crm"
  BY DEF Target, LedgerOps, OrderOps, CrmOps, MailOps, QuoteOps
<1>4. \A op \in MailOps : Target(op) = "mail"
  BY DEF Target, LedgerOps, OrderOps, CrmOps, MailOps, QuoteOps
<1>5. \A op \in QuoteOps : Target(op) = "quotes"
  BY DEF Target, LedgerOps, OrderOps, CrmOps, MailOps, QuoteOps
<1>6. QED
  BY <1>1, <1>2, <1>3, <1>4, <1>5 DEF Ops, Targets

\* What a sequence is made of does not matter.
LEMMA SeqIs ==
    ASSUME NEW S, NEW s \in Seq(S)
    PROVE  IsSeq(s) /\ Len(s) \in Nat /\ DOMAIN s = 1 .. Len(s)
<1>1. IsSeq(s)
  BY SeqOfRange DEF IsSeq
<1>2. QED
  BY <1>1, LenProperties

\* A sequence with one more element.
LEMMA AppendSeq ==
    ASSUME NEW s, IsSeq(s), NEW x
    PROVE  /\ IsSeq(Append(s, x)) /\ Len(s) \in Nat
           /\ DOMAIN s = 1 .. Len(s)
           /\ Len(Append(s, x)) = Len(s) + 1
           /\ DOMAIN Append(s, x) = 1 .. Len(s) + 1
<1>1. PICK S : S = Range(s) \cup {x}
  OBVIOUS
<1>2. s \in Seq(S) /\ x \in S
  <2>1. Range(s) \subseteq S /\ x \in S
    BY <1>1
  <2>2. QED
    BY <2>1, SeqMonotonic DEF IsSeq
<1>3. Append(s, x) \in Seq(S) /\ Len(Append(s, x)) = Len(s) + 1
  BY <1>2, AppendProperties
<1>4. QED
  BY <1>2, <1>3, SeqIs

\* A sequence with one element replaced.
LEMMA ReplaceSeq ==
    ASSUME NEW s, IsSeq(s), NEW i \in DOMAIN s, NEW x
    PROVE  /\ IsSeq([s EXCEPT ![i] = x])
           /\ Len([s EXCEPT ![i] = x]) = Len(s)
           /\ DOMAIN [s EXCEPT ![i] = x] = DOMAIN s
<1>1. PICK S : S = Range(s) \cup {x}
  OBVIOUS
<1>2. s \in Seq(S) /\ x \in S
  <2>1. Range(s) \subseteq S /\ x \in S
    BY <1>1
  <2>2. QED
    BY <2>1, SeqMonotonic DEF IsSeq
<1>3. i \in 1 .. Len(s)
  BY <1>2, LenProperties
<1>4. [s EXCEPT ![i] = x] \in Seq(S) /\ Len([s EXCEPT ![i] = x]) = Len(s)
  BY <1>2, <1>3, ExceptSeq
<1>5. QED
  BY <1>4, SeqIs

-----------------------------------------------------------------------------
(* One more receipt and the books *)

\* A new object and the receipt with its number.
LEMMA NumberedGrows ==
    ASSUME NEW es, IsFiniteSet(es), NEW s, IsSeq(s), Numbered(es, s),
           NEW n, n \notin es, NEW x, n.result = Len(s) + 1
    PROVE  IsSeq(Append(s, x)) /\ Numbered(es \cup {n}, Append(s, x))
<1>1. /\ IsSeq(Append(s, x)) /\ Len(s) \in Nat /\ DOMAIN s = 1 .. Len(s)
      /\ Len(Append(s, x)) = Len(s) + 1
      /\ DOMAIN Append(s, x) = 1 .. Len(s) + 1
  BY AppendSeq
<1>2. Cardinality(es \cup {n}) = Cardinality(es) + 1
  BY FS_AddElement
<1>3. {e.result : e \in es \cup {n}} = {e.result : e \in es} \cup {Len(s) + 1}
  OBVIOUS
<1>4. 1 .. Len(s) + 1 = (1 .. Len(s)) \cup {Len(s) + 1}
  BY <1>1
<1>5. QED
  BY <1>1, <1>2, <1>3, <1>4 DEF Numbered

\* A receipt of another operation is not among those of this one.
LEMMA OfOther ==
    ASSUME NEW es, NEW n, NEW op, n.request.op # op
    PROVE  Of(es \cup {n}, op) = Of(es, op)
BY DEF Of

\* A list of objects and the receipts that created them.
LEMMA ListGrows ==
    ASSUME NEW es, IsFiniteSet(es), NEW s, NEW op, ListBooks(s, es, op),
           NEW n, n \notin es, n.request.op = op, n.result = Len(s) + 1, NEW x
    PROVE  ListBooks(Append(s, x), es \cup {n}, op)
<1>1. IsFiniteSet(Of(es, op)) /\ n \notin Of(es, op)
  BY FS_Subset DEF Of
<1>2. Of(es \cup {n}, op) = Of(es, op) \cup {n}
  BY DEF Of
<1>3. IsSeq(Append(s, x)) /\ Numbered(Of(es, op) \cup {n}, Append(s, x))
  BY <1>1, NumberedGrows DEF ListBooks
<1>4. QED
  BY <1>2, <1>3 DEF ListBooks

\* A receipt of another operation leaves the number of objects.
LEMMA ListKept ==
    ASSUME NEW es, NEW s, NEW op, ListBooks(s, es, op),
           NEW u, IsSeq(u), Len(u) = Len(s), DOMAIN u = DOMAIN s,
           NEW n, n.request.op # op
    PROVE  ListBooks(u, es \cup {n}, op) /\ ListBooks(u, es, op)
BY OfOther DEF ListBooks, Numbered

\* _state_version counts one more mutation.
LEMMA VersionGrows ==
    ASSUME NEW es, IsFiniteSet(es), NEW n, n \notin es, NEW v, NEW extra \in Nat,
           Versioned(v, es, extra)
    PROVE  Versioned(v + (IF n.request.op \in Mutating THEN 1 ELSE 0), es \cup {n}, extra)
<1> DEFINE M == {e \in es : e.request.op \in Mutating}
           N == {e \in es \cup {n} : e.request.op \in Mutating}
<1>1. IsFiniteSet(M) /\ n \notin M
  BY FS_Subset
<1>2. Cardinality(M) \in Nat
  BY <1>1, FS_CardinalityType
<1>3. Cardinality(M \cup {n}) = Cardinality(M) + 1
  BY <1>1, FS_AddElement
<1>4. N = IF n.request.op \in Mutating THEN M \cup {n} ELSE M
  OBVIOUS
<1>5. v = Cardinality(M) + extra
  BY DEF Versioned
<1>6. SUFFICES v + (IF n.request.op \in Mutating THEN 1 ELSE 0) = Cardinality(N) + extra
  BY DEF Versioned
<1> HIDE DEF M, N
<1>7. QED
  BY <1>2, <1>3, <1>4, <1>5

\* A transfer: what leaves the account is what its receipt says.
LEMMA LedgerTransfer ==
    ASSUME NEW es, IsFiniteSet(es), NEW l, LedgerBooks(l, es),
           \A e \in Of(es, "transfer") : Amount(e) \in Nat,
           NEW n, n \notin es, n.request.op = "transfer", Amount(n) \in Nat,
           n.request.arg.account \in Accounts, n.result = Len(l.transfers) + 1,
           Amount(n) <= l.balance[n.request.arg.account],
           NEW k, k = [l EXCEPT !.balance[n.request.arg.account] = @ - Amount(n),
                                !.transfers = Append(@, n.request.arg)]
    PROVE  LedgerBooks(k, es \cup {n})
<1> DEFINE b == n.request.arg.account
           es2 == es \cup {n}
<1>1. /\ k = [balance |-> k.balance, limit |-> k.limit,
              beneficiaries |-> k.beneficiaries, transfers |-> k.transfers]
      /\ k.balance = [l.balance EXCEPT ![b] = @ - Amount(n)]
      /\ k.transfers = Append(l.transfers, n.request.arg)
  BY DEF LedgerBooks
<1>2. k.balance \in [Accounts -> Nat]
  <2>1. l.balance \in [Accounts -> Nat]
    BY DEF LedgerBooks
  <2>2. l.balance[b] - Amount(n) \in Nat
    BY <2>1
  <2>3. QED
    BY <1>1, <2>1, <2>2
<1>3. IsFiniteSet(Of(es, "transfer")) /\ n \notin Of(es, "transfer")
  BY FS_Subset DEF Of
<1>4. Of(es2, "transfer") = Of(es, "transfer") \cup {n}
  BY DEF Of
<1> HIDE DEF es2
<1>5. IsSeq(k.transfers) /\ Numbered(Of(es2, "transfer"), k.transfers)
  <2>1. IsSeq(l.transfers) /\ Numbered(Of(es, "transfer"), l.transfers)
    BY DEF LedgerBooks
  <2>2. PICK s : s = l.transfers
    OBVIOUS
  <2>3. /\ IsSeq(Append(s, n.request.arg))
        /\ Numbered(Of(es, "transfer") \cup {n}, Append(s, n.request.arg))
    BY <1>3, <2>1, <2>2, NumberedGrows
  <2>4. QED
    BY <1>1, <1>4, <2>2, <2>3
<1>6. ASSUME NEW a \in Accounts PROVE Opening[a] - k.balance[a] = Spent(es2, a)
  <2>1. /\ IsFiniteSet(TransfersFrom(es, a)) /\ n \notin TransfersFrom(es, a)
        /\ \A e \in TransfersFrom(es, a) \cup {n} : Amount(e) \in Nat
    BY <1>3, FS_Subset DEF TransfersFrom
  <2>2. Opening[a] - l.balance[a] = Spent(es, a) /\ Opening[a] \in Nat /\ l.balance[a] \in Nat
    BY TargetsConfig DEF LedgerBooks
  <2>3. CASE a = b
    <3>1. TransfersFrom(es2, a) = TransfersFrom(es, a) \cup {n}
      BY <1>4, <2>3 DEF TransfersFrom
    <3>2. Spent(es2, a) = Spent(es, a) + Amount(n)
      BY <2>1, <3>1, SumAdd DEF Spent
    <3>3. k.balance[a] = l.balance[a] - Amount(n)
      BY <1>1, <2>3 DEF LedgerBooks
    <3>4. QED
      BY <2>2, <3>2, <3>3
  <2>4. CASE a # b
    <3>1. TransfersFrom(es2, a) = TransfersFrom(es, a)
      BY <1>4, <2>4 DEF TransfersFrom
    <3>2. Spent(es2, a) = Spent(es, a)
      BY <3>1 DEF Spent
    <3>3. k.balance[a] = l.balance[a]
      BY <1>1, <2>4 DEF LedgerBooks
    <3>4. QED
      BY <2>2, <3>2, <3>3
  <2>5. QED
    BY <2>3, <2>4
<1>7. LedgerBooks(k, es2)
  BY <1>1, <1>2, <1>5, <1>6 DEF LedgerBooks
<1>8. QED
  BY <1>7 DEF es2

\* Any other receipt of the ledger moves no money.
LEMMA LedgerKept ==
    ASSUME NEW es, NEW l, LedgerBooks(l, es), NEW n, n.request.op # "transfer",
           NEW k, k.balance = l.balance, k.transfers = l.transfers,
           k = [balance |-> k.balance, limit |-> k.limit,
                beneficiaries |-> k.beneficiaries, transfers |-> k.transfers]
    PROVE  LedgerBooks(k, es \cup {n})
<1> DEFINE es2 == es \cup {n}
<1>1. Of(es2, "transfer") = Of(es, "transfer")
  BY OfOther
<1> HIDE DEF es2
<1>2. \A a \in Accounts : Spent(es2, a) = Spent(es, a)
  BY <1>1 DEF Spent, TransfersFrom
<1>3. LedgerBooks(k, es2)
  BY <1>1, <1>2 DEF LedgerBooks
<1>4. QED
  BY <1>3 DEF es2

-----------------------------------------------------------------------------
(* What an operation that is not refused does to the books of its target.  The *)
(* receipt n is the new one of the request r.                                  *)

\* A transfer moves what it says; the other ledger operations move nothing.
LEMMA LedgerOp ==
    ASSUME StoreInv, NEW r \in requests, r.op \in LedgerOps, Refusal(r.op, r.arg) = "ok",
           NEW n, n.request = r, n.result = Result(r.op, r.arg), n \notin effects["ledger"]
    PROVE  LedgerBooks(Apply(r.op, r.arg), effects["ledger"] \cup {n})
<1> DEFINE l == state["ledger"]
           es == effects["ledger"]
<1>1. LedgerBooks(l, es) /\ IsFiniteSet(es)
  BY DEF StoreInv, ReceiptsOK, Targets
<1>2. CASE r.op = "transfer"
  <2>1. \A e \in Of(es, "transfer") : Amount(e) \in Nat
    BY TargetsConfig DEF StoreInv, TargetTypeOK, ReceiptsOK, Targets, Of, Amount
  <2>2. Amount(n) \in Nat
    BY <1>2, TargetsConfig DEF StoreInv, TargetTypeOK, Amount
  <2>3. TransferRefusal(r.arg) = "ok"
    BY <1>2 DEF Refusal
  <2>4. n.request.arg.account \in Accounts /\ ~(Amount(n) > l.balance[n.request.arg.account])
    BY <2>3 DEF TransferRefusal, Amount, Ledger
  <2>5. n.result = Len(l.transfers) + 1
    BY <1>2 DEF Result, Ledger
  <2>6. Apply(r.op, r.arg) = [l EXCEPT !.balance[n.request.arg.account] = @ - Amount(n),
                                       !.transfers = Append(@, n.request.arg)]
    BY <1>2 DEF Apply, Transfer, Ledger, Amount
  <2>7. Amount(n) <= l.balance[n.request.arg.account]
    BY <1>1, <2>2, <2>4 DEF LedgerBooks
  <2> HIDE DEF l, es
  <2>8. QED
    BY <1>1, <1>2, <2>1, <2>2, <2>4, <2>5, <2>6, <2>7, LedgerTransfer DEF l, es
<1>3. CASE r.op # "transfer"
  <2>1. PICK k : k = Apply(r.op, r.arg)
    OBVIOUS
  <2>2. /\ k.balance = l.balance /\ k.transfers = l.transfers
        /\ k = [balance |-> k.balance, limit |-> k.limit,
                beneficiaries |-> k.beneficiaries, transfers |-> k.transfers]
    <3>1. CASE r.op = "modify_limit"
      BY <1>1, <2>1, <3>1 DEF Apply, ModifyLimit, Ledger, LedgerBooks
    <3>2. CASE r.op = "add_beneficiary"
      BY <1>1, <2>1, <3>2 DEF Apply, AddBeneficiary, Ledger, LedgerBooks
    <3>3. CASE r.op \in {"balance", "limit"}
      <4>1. k = l
        BY <2>1, <3>3, TargetOf DEF Apply, LedgerOps
      <4>2. QED
        BY <1>1, <4>1 DEF LedgerBooks
    <3>4. QED
      BY <1>3, <3>1, <3>2, <3>3 DEF LedgerOps
  <2>3. n.request.op # "transfer"
    BY <1>3
  <2> HIDE DEF l, es
  <2>4. LedgerBooks(k, es \cup {n})
    BY <1>1, <2>2, <2>3, LedgerKept
  <2>5. QED
    BY <2>1, <2>4 DEF es
<1>4. QED
  BY <1>2, <1>3

\* A create adds an order; amending and cancelling keep it an order.
LEMMA OrderOp ==
    ASSUME StoreInv, NEW r \in requests, r.op \in OrderOps, Refusal(r.op, r.arg) = "ok",
           NEW n, n.request = r, n.result = Result(r.op, r.arg), n \notin effects["orders"]
    PROVE  ListBooks(Apply(r.op, r.arg), effects["orders"] \cup {n}, "create")
<1> DEFINE s == state["orders"]
           es == effects["orders"]
<1>1. ListBooks(s, es, "create") /\ IsFiniteSet(es)
  BY DEF StoreInv, ReceiptsOK, Targets
<1>2. CASE r.op = "create"
  <2>1. PICK x : Apply(r.op, r.arg) = Append(s, x)
    BY <1>2 DEF Apply, Create, Orders
  <2>2. n.result = Len(s) + 1 /\ n.request.op = "create"
    BY <1>2 DEF Result, Orders
  <2> HIDE DEF s, es
  <2>3. ListBooks(Append(s, x), es \cup {n}, "create")
    BY <1>1, <2>2, ListGrows DEF es
  <2>4. QED
    BY <2>1, <2>3 DEF es
<1>3. CASE r.op # "create"
  <2>1. PICK u : u = Apply(r.op, r.arg)
    OBVIOUS
  <2>2. IsSeq(s)
    BY <1>1 DEF ListBooks
  <2>3. IsSeq(u) /\ Len(u) = Len(s) /\ DOMAIN u = DOMAIN s
    <3>1. CASE r.op = "amend"
      <4>1. AmendRefusal(r.arg) = "ok"
        BY <3>1 DEF Refusal
      <4>2. r.arg.po \in DOMAIN s
        BY <4>1 DEF AmendRefusal, Orders
      <4>3. u = [s EXCEPT ![r.arg.po] = u[r.arg.po]]
        BY <2>1, <3>1, <4>2 DEF Apply, Amend, Orders
      <4> HIDE DEF s
      <4>4. QED
        BY <2>2, <4>2, <4>3, ReplaceSeq
    <3>2. CASE r.op = "cancel"
      <4>1. CancelRefusal(r.arg) = "ok"
        BY <3>2 DEF Refusal
      <4>2. r.arg.po \in DOMAIN s
        BY <4>1 DEF CancelRefusal, Orders
      <4>3. u = [s EXCEPT ![r.arg.po] = u[r.arg.po]]
        BY <2>1, <3>2, <4>2 DEF Apply, Cancel, Orders
      <4> HIDE DEF s
      <4>4. QED
        BY <2>2, <4>2, <4>3, ReplaceSeq
    <3>3. CASE r.op \in {"read", "read_shipment"}
      BY <2>1, <2>2, <3>3, TargetOf DEF Apply, OrderOps
    <3>4. QED
      BY <1>3, <3>1, <3>2, <3>3 DEF OrderOps
  <2>4. n.request.op # "create"
    BY <1>3
  <2> HIDE DEF s, es
  <2>5. ListBooks(u, es \cup {n}, "create")
    BY <1>1, <2>3, <2>4, ListKept
  <2>6. QED
    BY <2>1, <2>5 DEF es
<1>4. QED
  BY <1>2, <1>3

\* An e-mail or an export is one entry more in its list.
LEMMA CrmOp ==
    ASSUME StoreInv, NEW r \in requests, r.op \in CrmOps,
           NEW n, n.request = r, n.result = Result(r.op, r.arg), n \notin effects["crm"]
    PROVE  CrmBooks(Apply(r.op, r.arg), effects["crm"] \cup {n})
<1> DEFINE x == state["crm"]
           es == effects["crm"]
<1>1. PICK y : y = Apply(r.op, r.arg)
  OBVIOUS
<1>2. CrmBooks(x, es) /\ IsFiniteSet(es)
  BY DEF StoreInv, ReceiptsOK, Targets
<1>3. /\ x = [merged |-> x.merged, emails |-> x.emails, exports |-> x.exports]
      /\ ListBooks(x.emails, es, "send_email") /\ ListBooks(x.exports, es, "export")
      /\ IsSeq(x.emails) /\ IsSeq(x.exports)
  BY <1>2 DEF CrmBooks, ListBooks
<1>4. CASE r.op = "send_email"
  <2>1. /\ y = [merged |-> y.merged, emails |-> y.emails, exports |-> y.exports]
        /\ y.emails = Append(x.emails, r.arg) /\ y.exports = x.exports
    BY <1>1, <1>3, <1>4 DEF Apply, SendEmail, Crm
  <2>2. n.result = Len(x.emails) + 1 /\ n.request.op = "send_email"
    BY <1>4 DEF Result, Crm
  <2> HIDE DEF x, es
  <2>3. ListBooks(y.emails, es \cup {n}, "send_email")
    BY <1>2, <1>3, <2>1, <2>2, ListGrows DEF es
  <2>4. ListBooks(y.exports, es \cup {n}, "export")
    BY <1>3, <2>1, <2>2, ListKept
  <2>5. QED
    BY <1>1, <2>1, <2>3, <2>4 DEF CrmBooks, es
<1>5. CASE r.op = "export"
  <2>1. /\ y = [merged |-> y.merged, emails |-> y.emails, exports |-> y.exports]
        /\ y.exports = Append(x.exports, r.arg) /\ y.emails = x.emails
    BY <1>1, <1>3, <1>5 DEF Apply, Export, Crm
  <2>2. n.result = Len(x.exports) + 1 /\ n.request.op = "export"
    BY <1>5 DEF Result, Crm
  <2> HIDE DEF x, es
  <2>3. ListBooks(y.exports, es \cup {n}, "export")
    BY <1>2, <1>3, <2>1, <2>2, ListGrows DEF es
  <2>4. ListBooks(y.emails, es \cup {n}, "send_email")
    BY <1>3, <2>1, <2>2, ListKept
  <2>5. QED
    BY <1>1, <2>1, <2>3, <2>4 DEF CrmBooks, es
<1>6. CASE r.op \in {"merge", "read_contact"}
  <2>1. /\ y = [merged |-> y.merged, emails |-> y.emails, exports |-> y.exports]
        /\ y.exports = x.exports /\ y.emails = x.emails
    <3>1. CASE r.op = "merge"
      BY <1>1, <1>3, <3>1 DEF Apply, Merge, Crm
    <3>2. CASE r.op = "read_contact"
      <4>1. y = x
        BY <1>1, <3>2, TargetOf DEF Apply, CrmOps
      <4>2. QED
        BY <1>3, <4>1
    <3>3. QED
      BY <1>6, <3>1, <3>2
  <2>2. n.request.op # "send_email" /\ n.request.op # "export"
    BY <1>6
  <2> HIDE DEF x, es
  <2>3. ListBooks(y.exports, es \cup {n}, "export")
    BY <1>3, <2>1, <2>2, ListKept
  <2>4. ListBooks(y.emails, es \cup {n}, "send_email")
    BY <1>3, <2>1, <2>2, ListKept
  <2>5. QED
    BY <1>1, <2>1, <2>3, <2>4 DEF CrmBooks, es
<1>7. QED
  BY <1>4, <1>5, <1>6 DEF CrmOps

\* A message sent is one message more.
LEMMA MailOp ==
    ASSUME StoreInv, NEW r \in requests, r.op \in MailOps,
           NEW n, n.request = r, n.result = Result(r.op, r.arg), n \notin effects["mail"]
    PROVE  ListBooks(Apply(r.op, r.arg), effects["mail"] \cup {n}, "send")
<1> DEFINE s == state["mail"]
           es == effects["mail"]
<1>1. ListBooks(s, es, "send") /\ IsFiniteSet(es)
  BY DEF StoreInv, ReceiptsOK, Targets
<1>2. r.op = "send"
  BY DEF MailOps
<1>3. PICK x : Apply(r.op, r.arg) = Append(s, x)
  BY <1>2 DEF Apply, Send, Mail
<1>4. n.result = Len(s) + 1 /\ n.request.op = "send"
  BY <1>2 DEF Result, Mail
<1> HIDE DEF s, es
<1>5. ListBooks(Append(s, x), es \cup {n}, "send")
  BY <1>1, <1>4, ListGrows DEF es
<1>6. QED
  BY <1>3, <1>5 DEF es

\* A quote requested is one quote more; reading one leaves them.
LEMMA QuoteOp ==
    ASSUME StoreInv, NEW r \in requests, r.op \in QuoteOps,
           NEW n, n.request = r, n.result = Result(r.op, r.arg), n \notin effects["quotes"]
    PROVE  ListBooks(Apply(r.op, r.arg), effects["quotes"] \cup {n}, "request_quote")
<1> DEFINE s == state["quotes"]
           es == effects["quotes"]
<1>1. ListBooks(s, es, "request_quote") /\ IsFiniteSet(es)
  BY DEF StoreInv, ReceiptsOK, Targets
<1>2. CASE r.op = "request_quote"
  <2>1. PICK x : Apply(r.op, r.arg) = Append(s, x)
    BY <1>2 DEF Apply, RequestQuote, Quotes
  <2>2. n.result = Len(s) + 1 /\ n.request.op = "request_quote"
    BY <1>2 DEF Result, Quotes
  <2> HIDE DEF s, es
  <2>3. ListBooks(Append(s, x), es \cup {n}, "request_quote")
    BY <1>1, <2>2, ListGrows DEF es
  <2>4. QED
    BY <2>1, <2>3 DEF es
<1>3. CASE r.op # "request_quote"
  <2>1. Apply(r.op, r.arg) = s /\ n.request.op # "request_quote"
    BY <1>3, TargetOf DEF Apply, QuoteOps
  <2>2. IsSeq(s)
    BY <1>1 DEF ListBooks
  <2> HIDE DEF s, es
  <2>3. ListBooks(s, es \cup {n}, "request_quote")
    BY <1>1, <2>1, <2>2, ListKept
  <2>4. QED
    BY <2>1, <2>3 DEF es
<1>4. QED
  BY <1>2, <1>3

-----------------------------------------------------------------------------
(* The targets' steps *)

\* An execution that stores an effect: under a key of its own, in one target.
LEMMA NewEffect ==
    ASSUME StoreInv, NEW r \in requests, Execute(r), Stored(r) = {}, Status(r) = "ok"
    PROVE  LET t == Target(r.op)  n == NewReceipt(r) IN
           /\ r.op \in Ops /\ t \in Targets /\ Refusal(r.op, r.arg) = "ok"
           /\ n.request = r /\ n.result = Result(r.op, r.arg) /\ n \notin effects[t]
           /\ \A e \in effects[t] : e.request.key # r.key
           /\ state' = [u \in Targets |-> IF u = t THEN Apply(r.op, r.arg) ELSE state[u]]
           /\ effects' = [u \in Targets |-> IF u = t THEN effects[u] \cup {n} ELSE effects[u]]
           /\ version' = [version EXCEPT ![t] =
                             @ + (IF n.request.op \in Mutating THEN 1 ELSE 0)]
<1> DEFINE t == Target(r.op)
           n == NewReceipt(r)
<1>1. r.op \in Ops /\ t \in Targets
  BY TargetsConfig, TargetOf DEF StoreInv, TargetTypeOK
<1>2. n.request = r /\ n.result = Result(r.op, r.arg)
  BY DEF NewReceipt
<1>3. \A e \in effects[t] : e.request.key # r.key
  BY DEF Stored
<1>4. Refusal(r.op, r.arg) = "ok"
  BY DEF Status
<1>5. /\ state' = [state EXCEPT ![t] = Apply(r.op, r.arg)]
      /\ effects' = [effects EXCEPT ![t] = @ \cup {n}]
      /\ version' = [version EXCEPT ![t] = NewVersion(r)]
  BY DEF Execute
<1>6. NewVersion(r) = version[t] + (IF n.request.op \in Mutating THEN 1 ELSE 0)
  BY <1>2 DEF NewVersion
<1>7. n \notin effects[t]
  BY <1>2, <1>3
<1>8. state = [u \in Targets |-> state[u]] /\ effects = [u \in Targets |-> effects[u]]
  BY DEF StoreInv, TargetTypeOK
<1> HIDE DEF t, n
<1>9. state' = [u \in Targets |-> IF u = t THEN Apply(r.op, r.arg) ELSE state[u]]
  BY <1>1, <1>5, <1>8
<1>10. effects' = [u \in Targets |-> IF u = t THEN effects[u] \cup {n} ELSE effects[u]]
  BY <1>1, <1>5, <1>8
<1>11. version' = [version EXCEPT ![t] = @ + (IF n.request.op \in Mutating THEN 1 ELSE 0)]
  BY <1>5, <1>6
<1>12. QED
  BY <1>1, <1>2, <1>3, <1>4, <1>7, <1>9, <1>10, <1>11 DEF t, n

\* An execution that is refused or finds its receipt changes nothing.
LEMMA NoEffect ==
    ASSUME NEW r, Execute(r), ~(Stored(r) = {} /\ Status(r) = "ok")
    PROVE  UNCHANGED <<state, effects, version, updates>>
BY DEF Execute

\* execute() keeps the books, whatever the request is.
LEMMA ExecuteKeeps ==
    ASSUME StoreInv, NEW r \in requests, Execute(r), requests' = requests
    PROVE  StoreInv'
<1>1. CASE ~(Stored(r) = {} /\ Status(r) = "ok")
  BY <1>1, NoEffect DEF StoreInv, TargetTypeOK, ReceiptsOK
<1>2. CASE Stored(r) = {} /\ Status(r) = "ok"
  <2>1. PICK t, n, k :
           /\ t = Target(r.op) /\ k = Apply(r.op, r.arg)
           /\ r.op \in Ops /\ t \in Targets /\ Refusal(r.op, r.arg) = "ok"
           /\ n.request = r /\ n.result = Result(r.op, r.arg) /\ n \notin effects[t]
           /\ \A e \in effects[t] : e.request.key # r.key
           /\ state' = [u \in Targets |-> IF u = t THEN k ELSE state[u]]
           /\ effects' = [u \in Targets |-> IF u = t THEN effects[u] \cup {n} ELSE effects[u]]
           /\ version' = [version EXCEPT ![t] =
                             @ + (IF n.request.op \in Mutating THEN 1 ELSE 0)]
    BY <1>2, NewEffect
  <2>2. UNCHANGED updates
    BY DEF Execute
  <2>3. \A u \in Targets : u # t => state'[u] = state[u] /\ effects'[u] = effects[u]
    BY <2>1
  <2>4. state'[t] = k /\ effects'[t] = effects[t] \cup {n}
    BY <2>1
  <2>5. TargetTypeOK'
    BY <2>1, <2>2 DEF StoreInv, TargetTypeOK
  <2>6. ASSUME NEW u \in Targets PROVE ReceiptsOK(u)'
    <3>1. ReceiptsOK(u)
      BY DEF StoreInv
    <3>2. CASE u # t
      BY <2>3, <3>1, <3>2 DEF ReceiptsOK
    <3>3. CASE u = t
      <4>1. IsFiniteSet(effects'[u])
        BY <2>4, <3>1, <3>3, FS_AddElement DEF ReceiptsOK
      <4>2. QED
        BY <2>1, <2>4, <3>1, <3>3, <4>1 DEF ReceiptsOK
    <3>4. QED
      BY <3>2, <3>3
  <2>7. ASSUME NEW u \in Targets
        PROVE  Versioned(version'[u], effects'[u], IF u = "orders" THEN updates' ELSE 0)
    <3>1. PICK extra : extra = IF u = "orders" THEN updates ELSE 0
      OBVIOUS
    <3>2. extra \in Nat /\ Versioned(version[u], effects[u], extra) /\ IsFiniteSet(effects[u])
      BY <3>1 DEF StoreInv, TargetTypeOK, ReceiptsOK
    <3>3. CASE u # t
      BY <2>1, <2>2, <2>3, <3>1, <3>2, <3>3 DEF StoreInv, TargetTypeOK
    <3>4. CASE u = t
      <4>1. version'[u] = version[u] + (IF n.request.op \in Mutating THEN 1 ELSE 0)
        BY <2>1, <3>4 DEF StoreInv, TargetTypeOK
      <4>2. Versioned(version[u] + (IF n.request.op \in Mutating THEN 1 ELSE 0),
                      effects[u] \cup {n}, extra)
        BY <2>1, <3>2, <3>4, VersionGrows
      <4>3. QED
        BY <2>2, <2>4, <3>1, <3>4, <4>1, <4>2
    <3>5. QED
      BY <3>3, <3>4
  <2>8. LedgerBooks(state'["ledger"], effects'["ledger"])
    <3>1. CASE t # "ledger"
      BY <2>3, <3>1 DEF StoreInv, Targets
    <3>2. CASE t = "ledger"
      <4>1. r.op \in LedgerOps
        BY <2>1, <3>2, TargetOf DEF Ops
      <4>2. QED
        BY <2>1, <2>4, <3>2, <4>1, LedgerOp
    <3>3. QED
      BY <3>1, <3>2
  <2>9. ListBooks(state'["orders"], effects'["orders"], "create")
    <3>1. CASE t # "orders"
      BY <2>3, <3>1 DEF StoreInv, Targets
    <3>2. CASE t = "orders"
      <4>1. r.op \in OrderOps
        BY <2>1, <3>2, TargetOf DEF Ops
      <4>2. QED
        BY <2>1, <2>4, <3>2, <4>1, OrderOp
    <3>3. QED
      BY <3>1, <3>2
  <2>10. CrmBooks(state'["crm"], effects'["crm"])
    <3>1. CASE t # "crm"
      BY <2>3, <3>1 DEF StoreInv, Targets
    <3>2. CASE t = "crm"
      <4>1. r.op \in CrmOps
        BY <2>1, <3>2, TargetOf DEF Ops
      <4>2. QED
        BY <2>1, <2>4, <3>2, <4>1, CrmOp
    <3>3. QED
      BY <3>1, <3>2
  <2>11. ListBooks(state'["mail"], effects'["mail"], "send")
    <3>1. CASE t # "mail"
      BY <2>3, <3>1 DEF StoreInv, Targets
    <3>2. CASE t = "mail"
      <4>1. r.op \in MailOps
        BY <2>1, <3>2, TargetOf DEF Ops
      <4>2. QED
        BY <2>1, <2>4, <3>2, <4>1, MailOp
    <3>3. QED
      BY <3>1, <3>2
  <2>12. ListBooks(state'["quotes"], effects'["quotes"], "request_quote")
    <3>1. CASE t # "quotes"
      BY <2>3, <3>1 DEF StoreInv, Targets
    <3>2. CASE t = "quotes"
      <4>1. r.op \in QuoteOps
        BY <2>1, <3>2, TargetOf DEF Ops
      <4>2. QED
        BY <2>1, <2>4, <3>2, <4>1, QuoteOp
    <3>3. QED
      BY <3>1, <3>2
  <2>13. QED
    BY <2>5, <2>6, <2>7, <2>8, <2>9, <2>10, <2>11, <2>12 DEF StoreInv
<1>3. QED
  BY <1>1, <1>2

\* set_shipment_status changes an order and is counted as such.
LEMMA ShipmentKeeps ==
    ASSUME StoreInv, NEW i \in DOMAIN Orders, NEW s, SetShipmentStatus(i, s), requests' = requests
    PROVE  StoreInv'
<1> DEFINE x == [state["orders"][i] EXCEPT !.shipment = s]
<1>1. /\ state' = [state EXCEPT !["orders"] = [state["orders"] EXCEPT ![i] = x]]
      /\ version' = [version EXCEPT !["orders"] = @ + 1]
      /\ updates' = updates + 1 /\ effects' = effects
  BY DEF SetShipmentStatus
<1>2. PICK u : u = [state["orders"] EXCEPT ![i] = x]
  OBVIOUS
<1>3. IsSeq(u) /\ Len(u) = Len(state["orders"]) /\ DOMAIN u = DOMAIN state["orders"]
  BY <1>2, ReplaceSeq DEF Orders, StoreInv, ListBooks
<1>4. /\ state = [t \in Targets |-> state[t]]
      /\ version \in [Targets -> Nat] /\ updates \in Nat /\ "orders" \in Targets
  BY DEF StoreInv, TargetTypeOK, Targets
<1> HIDE DEF x
<1>5. /\ state' = [t \in Targets |-> state'[t]] /\ state'["orders"] = u
      /\ \A t \in Targets : t # "orders" => state'[t] = state[t]
  BY <1>1, <1>2, <1>4
<1>6. TargetTypeOK'
  BY <1>1, <1>4, <1>5 DEF StoreInv, TargetTypeOK
<1>7. \A t \in Targets : ReceiptsOK(t)'
  BY <1>1 DEF StoreInv, ReceiptsOK
<1>8. ListBooks(state'["orders"], effects'["orders"], "create")
  BY <1>1, <1>3, <1>5 DEF StoreInv, ListBooks, Numbered
<1>9. /\ LedgerBooks(state'["ledger"], effects'["ledger"])
      /\ CrmBooks(state'["crm"], effects'["crm"])
      /\ ListBooks(state'["mail"], effects'["mail"], "send")
      /\ ListBooks(state'["quotes"], effects'["quotes"], "request_quote")
  BY <1>1, <1>5 DEF StoreInv, Targets
<1>10. ASSUME NEW t \in Targets
       PROVE  Versioned(version'[t], effects'[t], IF t = "orders" THEN updates' ELSE 0)
  <2> DEFINE m == Cardinality({e \in effects[t] : e.request.op \in Mutating})
  <2>1. version[t] = m + (IF t = "orders" THEN updates ELSE 0)
    BY DEF StoreInv, Versioned
  <2>2. m \in Nat
    <3>1. IsFiniteSet({e \in effects[t] : e.request.op \in Mutating})
      BY FS_Subset DEF StoreInv, ReceiptsOK
    <3>2. QED
      BY <3>1, FS_CardinalityType
  <2> HIDE DEF m
  <2>3. version'[t] = m + (IF t = "orders" THEN updates' ELSE 0)
    BY <1>1, <1>4, <2>1, <2>2
  <2>4. QED
    BY <1>1, <2>3 DEF Versioned, m
<1>11. QED
  BY <1>6, <1>7, <1>8, <1>9, <1>10 DEF StoreInv

\* At the opening nothing is stored and nothing was spent.
LEMMA StoreInit == Init => StoreInv
<1> SUFFICES ASSUME Init PROVE StoreInv
  OBVIOUS
<1>1. TargetTypeOK
  BY DEF Init, TargetTypeOK
<1>2. \A t \in Targets : effects[t] = {} /\ version[t] = 0
  BY DEF Init
<1>3. updates = 0
  BY DEF Init
<1>4. IsFiniteSet({}) /\ Cardinality({}) = 0
  BY FS_EmptySet
<1>5. \A t \in Targets : ReceiptsOK(t)
  BY <1>2, <1>4 DEF ReceiptsOK
<1>6. ASSUME NEW op PROVE Of({}, op) = {} /\ ListBooks(<<>>, {}, op)
  <2>1. IsSeq(<<>>) /\ Len(<<>>) = 0 /\ DOMAIN <<>> = {}
    <3>1. <<>> \in Seq({}) /\ Len(<<>>) = 0
      BY EmptySeq
    <3>2. IsSeq(<<>>) /\ DOMAIN <<>> = 1 .. 0
      BY <3>1, SeqIs
    <3>3. 1 .. 0 = {}
      OBVIOUS
    <3>4. QED
      BY <3>1, <3>2, <3>3, Zenon
  <2>2. Of({}, op) = {} /\ {e.result : e \in {}} = {}
    BY DEF Of
  <2>3. QED
    BY <1>4, <2>1, <2>2 DEF ListBooks, Numbered
<1>7. /\ state["ledger"] = [balance |-> Opening, limit |-> OpeningLimit,
                            beneficiaries |-> Beneficiaries, transfers |-> <<>>]
      /\ state["crm"] = [merged |-> [c \in Contacts |-> None], emails |-> <<>>, exports |-> <<>>]
      /\ state["orders"] = <<>> /\ state["mail"] = <<>> /\ state["quotes"] = <<>>
  BY DEF Init, Targets
<1>8. /\ ListBooks(state["orders"], effects["orders"], "create")
      /\ CrmBooks(state["crm"], effects["crm"])
      /\ ListBooks(state["mail"], effects["mail"], "send")
      /\ ListBooks(state["quotes"], effects["quotes"], "request_quote")
  <2>1. /\ effects["orders"] = {} /\ effects["crm"] = {}
        /\ effects["mail"] = {} /\ effects["quotes"] = {}
    BY <1>2 DEF Targets
  <2>2. PICK x : x = state["crm"]
    OBVIOUS
  <2>3. /\ x = [merged |-> x.merged, emails |-> x.emails, exports |-> x.exports]
        /\ x.emails = <<>> /\ x.exports = <<>>
    BY <1>7, <2>2
  <2>4. CrmBooks(x, {})
    BY <1>6, <2>3 DEF CrmBooks
  <2>5. QED
    BY <1>6, <1>7, <2>1, <2>2, <2>4
<1>9. LedgerBooks(state["ledger"], effects["ledger"])
  <2>1. ASSUME NEW a \in Accounts PROVE Spent({}, a) = 0
    <3>1. TransfersFrom({}, a) = {}
      BY <1>6 DEF TransfersFrom
    <3>2. MapThenSumSet(Amount, {}) = Cardinality(Units({}))
      BY <1>4, SumIsUnits
    <3>3. Units({}) = {}
      BY DEF Units
    <3>4. QED
      BY <1>4, <3>1, <3>2, <3>3 DEF Spent
  <2>2. Opening \in [Accounts -> Nat]
    BY TargetsConfig
  <2>3. effects["ledger"] = {}
    BY <1>2 DEF Targets
  <2>4. QED
    BY <1>6, <1>7, <2>1, <2>2, <2>3 DEF LedgerBooks, ListBooks
<1>10. ASSUME NEW t \in Targets
       PROVE  Versioned(version[t], effects[t], IF t = "orders" THEN updates ELSE 0)
  <2>1. {e \in effects[t] : e.request.op \in Mutating} = {}
    BY <1>2
  <2>2. version[t] = Cardinality({}) + (IF t = "orders" THEN updates ELSE 0)
    BY <1>2, <1>3, <1>4
  <2>3. QED
    BY <2>1, <2>2 DEF Versioned
<1>11. QED
  BY <1>1, <1>5, <1>8, <1>9, <1>10 DEF StoreInv

-----------------------------------------------------------------------------
(* What execute() answers *)

\* Every refusal is one of the three exceptions.
LEMMA StatusIs ==
    ASSUME NEW r PROVE Status(r) \in {"ok", "not_found", "conflict", "business"}
<1>1. \A a : ModifyLimitRefusal(a) \in {"ok", "not_found", "business"}
  BY DEF ModifyLimitRefusal
<1>2. \A a : AddBeneficiaryRefusal(a) \in {"ok", "conflict"}
  BY DEF AddBeneficiaryRefusal
<1>3. \A a : TransferRefusal(a) \in {"ok", "not_found", "business"}
  BY DEF TransferRefusal
<1>4. \A a : RequiredOrder(a) \in {"ok", "not_found"}
  BY DEF RequiredOrder
<1>5. \A a : AmendRefusal(a) \in {"ok", "not_found", "business"}
  BY DEF AmendRefusal
<1>6. \A a : CancelRefusal(a) \in {"ok", "not_found", "business"}
  BY DEF CancelRefusal
<1>7. \A c : ActiveContact(c) \in {"ok", "not_found", "conflict"}
  BY DEF ActiveContact
<1>8. \A a : MergeRefusal(a) \in {"ok", "not_found", "conflict", "business"}
  BY <1>7 DEF MergeRefusal
<1>9. \A a : /\ RequiredVendor(a) \in {"ok", "not_found"}
             /\ RequestQuoteRefusal(a) \in {"ok", "not_found", "business"}
             /\ ReadQuoteRefusal(a) \in {"ok", "not_found"}
  BY DEF RequiredVendor, RequestQuoteRefusal, ReadQuoteRefusal
<1>10. Refusal(r.op, r.arg) \in {"ok", "not_found", "conflict", "business"}
  BY <1>1, <1>2, <1>3, <1>4, <1>5, <1>6, <1>7, <1>8, <1>9 DEF Refusal
<1>11. QED
  BY <1>10 DEF Status

\* Effects are never lost, and a new one is of the request executed.
LEMMA EffectsGrow ==
    ASSUME StoreInv, NEW r \in requests, Execute(r)
    PROVE  \A t \in Targets : /\ effects[t] \subseteq effects'[t]
                              /\ \A e \in effects'[t] \ effects[t] : e.request = r
<1>1. CASE ~(Stored(r) = {} /\ Status(r) = "ok")
  BY <1>1, NoEffect
<1>2. CASE Stored(r) = {} /\ Status(r) = "ok"
  BY <1>2, NewEffect
<1>3. QED
  BY <1>1, <1>2

\* A receipt is of a stored effect of the very request.
LEMMA ReceiptIsStored ==
    ASSUME StoreInv, NEW r \in requests, Execute(r), Status(r) = "ok"
    PROVE  Receipt(r) \in effects'[Target(r.op)] /\ Receipt(r).request = r
<1>1. CASE Stored(r) # {}
  <2>1. \A e \in Stored(r) : e.request = r
    BY <1>1 DEF Status, SameRequest
  <2>2. Receipt(r) \in Stored(r)
    BY <1>1 DEF Receipt
  <2>3. Stored(r) \subseteq effects[Target(r.op)]
    BY DEF Stored
  <2>4. effects' = effects
    BY <1>1, NoEffect
  <2>5. QED
    BY <2>1, <2>2, <2>3, <2>4
<1>2. CASE Stored(r) = {}
  <2>1. Receipt(r) = NewReceipt(r)
    BY <1>2 DEF Receipt
  <2>2. QED
    BY <1>2, <2>1, NewEffect
<1>3. QED
  BY <1>1, <1>2

-----------------------------------------------------------------------------
(* The callers' steps *)

\* A caller that has asked does not change what it asked for, and effects stay:
\* then what is on the way and what was told stays true.
LEMMA Kept ==
    ASSUME IInv, requests' = requests,
           \A t \in Targets : effects[t] \subseteq effects'[t],
           \A d \in Callers : pc[d] # "idle" => pc'[d] # "idle" /\ req'[d] = req[d]
    PROVE  /\ \A m \in wire : MessageOK(m)'
           /\ \A m \in replies : ReplyOK(m)'
           /\ \A t \in Targets : \A e \in effects[t] : EffectOK(e)'
           /\ \A d \in Callers :
                 /\ pc'[d] = pc[d] /\ req'[d] = req[d]
                 /\ outcome'[d] = outcome[d] /\ result'[d] = result[d]
                 => CallerOK(d)' /\ Verdict(d)'
<1>1. \A d \in Callers : pc[d] # "idle" => Target(req[d].op) \in Targets
  BY TargetsConfig, TargetOf DEF IInv, StoreInv, TargetTypeOK, ClientInv, CallerOK
<1>2. "orders" \in Targets
  BY DEF Targets
<1>3. \A d \in Callers : pc[d] # "idle" => \A x : Asked(x, d) => Asked(x, d)'
  BY DEF Asked
<1>4. ASSUME NEW m \in wire PROVE MessageOK(m)'
  BY <1>3 DEF IInv, ClientInv, MessageOK
<1>5. ASSUME NEW m \in replies PROVE ReplyOK(m)'
  BY <1>1, <1>2, <1>3 DEF IInv, ClientInv, ReplyOK
<1>6. ASSUME NEW t \in Targets, NEW e \in effects[t] PROVE EffectOK(e)'
  BY <1>3 DEF IInv, ClientInv, EffectOK
<1>7. ASSUME NEW d \in Callers, pc'[d] = pc[d], req'[d] = req[d],
             outcome'[d] = outcome[d], result'[d] = result[d]
      PROVE  CallerOK(d)' /\ Verdict(d)'
  <2>1. CallerOK(d) /\ Verdict(d)
    BY DEF IInv, ClientInv
  <2>2. CallerOK(d)'
    BY <1>7, <2>1 DEF CallerOK
  <2>3. \A x : Asked(x, d) => Asked(x, d)'
    BY <1>7 DEF Asked
  <2>4. Verdict(d)'
    BY <1>1, <1>2, <1>7, <2>1, <2>3 DEF Verdict
  <2>5. QED
    BY <2>2, <2>4
<1>8. QED
  BY <1>4, <1>5, <1>6, <1>7

\* A step of the caller c alone, which leaves it with a request.
Moves(c) ==
    /\ CallerTypeOK' /\ pc'[c] # "idle" /\ requests' = requests
    /\ pc[c] # "idle" => req'[c] = req[c]
    /\ \A d \in Callers \ {c} : /\ pc'[d] = pc[d] /\ req'[d] = req[d]
                                /\ outcome'[d] = outcome[d] /\ result'[d] = result[d]
    /\ \A t \in Targets : effects[t] \subseteq effects'[t]

\* What is left to show of such a step is about c and what is new.
LEMMA OneCaller ==
    ASSUME IInv, NEW c \in Callers, Moves(c)
    PROVE  /\ CallerTypeOK' /\ IsFiniteSet({d \in Callers : pc[d] # "idle"})'
           /\ \A d \in Callers \ {c} : CallerOK(d)' /\ Verdict(d)'
           /\ \A m \in wire : MessageOK(m)'
           /\ \A m \in replies : ReplyOK(m)'
           /\ \A t \in Targets : \A e \in effects[t] : EffectOK(e)'
<1>1. IsFiniteSet({d \in Callers : pc'[d] # "idle"})
  <2>1. PICK A : A = {d \in Callers : pc[d] # "idle"} \cup {c}
    OBVIOUS
  <2>2. IsFiniteSet(A)
    BY <2>1, FS_AddElement DEF IInv, ClientInv
  <2>3. {d \in Callers : pc'[d] # "idle"} \subseteq A
    BY <2>1 DEF Moves
  <2>4. QED
    BY <2>2, <2>3, FS_Subset
<1>2. \A d \in Callers : pc[d] # "idle" => pc'[d] # "idle" /\ req'[d] = req[d]
  BY DEF Moves
<1>3. requests' = requests /\ \A t \in Targets : effects[t] \subseteq effects'[t]
  BY DEF Moves
<1>4. /\ \A m \in wire : MessageOK(m)'
      /\ \A m \in replies : ReplyOK(m)'
      /\ \A t \in Targets : \A e \in effects[t] : EffectOK(e)'
      /\ \A d \in Callers :
            /\ pc'[d] = pc[d] /\ req'[d] = req[d]
            /\ outcome'[d] = outcome[d] /\ result'[d] = result[d]
            => CallerOK(d)' /\ Verdict(d)'
  BY <1>2, <1>3, Kept
<1>5. QED
  BY <1>1, <1>4 DEF Moves

\* A request is sent: of a caller that had sent none.
LEMMA SubmitStep ==
    ASSUME IInv, requests' = requests, NEW c \in Callers, NEW r \in requests, Submit(c, r)
    PROVE  ClientInv'
<1>1. /\ pc[c] = "idle" /\ pc' = [pc EXCEPT ![c] = "waiting"] /\ req' = [req EXCEPT ![c] = r]
      /\ UNCHANGED <<effects, replies, outcome, result>>
      /\ wire' = wire \cup {<<c, 1, r>>}
  BY DEF Submit, target
<1>2. Moves(c) /\ pc'[c] = "waiting" /\ req'[c] = r
  BY <1>1 DEF IInv, ClientInv, CallerTypeOK, Moves
<1>3. outcome'[c] = None
  BY <1>1 DEF IInv, ClientInv, CallerOK
<1>4. CallerOK(c)' /\ Verdict(c)'
  BY <1>2, <1>3, NoneIsNoAnswer DEF CallerOK, Verdict
<1>5. MessageOK(<<c, 1, r>>)'
  BY <1>2 DEF MessageOK, Asked
<1>6. QED
  BY <1>1, <1>2, <1>4, <1>5, OneCaller DEF ClientInv

\* A call without a wire: executed and answered at once.
LEMMA CallDirectlyStep ==
    ASSUME IInv, requests' = requests, NEW c \in Callers, NEW r \in requests, CallDirectly(c, r)
    PROVE  ClientInv'
<1>1. /\ pc[c] = "idle" /\ Execute(r) /\ UNCHANGED <<wire, replies, outcome>>
      /\ pc' = [pc EXCEPT ![c] = IF Status(r) = "ok" THEN "done" ELSE "failed"]
      /\ req' = [req EXCEPT ![c] = r]
      /\ result' = [result EXCEPT ![c] = IF Status(r) = "ok" THEN Receipt(r).result ELSE None]
  BY DEF CallDirectly, network
<1>2. \A t \in Targets : /\ effects[t] \subseteq effects'[t]
                         /\ \A e \in effects'[t] \ effects[t] : e.request = r
  BY <1>1, EffectsGrow DEF IInv
<1>3. /\ Moves(c) /\ req'[c] = r
      /\ pc'[c] = (IF Status(r) = "ok" THEN "done" ELSE "failed")
      /\ result'[c] = (IF Status(r) = "ok" THEN Receipt(r).result ELSE None)
  BY <1>1, <1>2 DEF IInv, ClientInv, CallerTypeOK, Moves
<1>4. outcome'[c] = None
  BY <1>1 DEF IInv, ClientInv, CallerOK
<1>5. CallerOK(c)'
  BY <1>3, <1>4, NoneIsNoAnswer DEF CallerOK
<1>6. Verdict(c)'
  <2>1. Status(r) = "ok" => Receipt(r) \in effects'[Target(r.op)] /\ Receipt(r).request = r
    BY <1>1, ReceiptIsStored DEF IInv
  <2>2. Asked(r, c)'
    BY <1>3 DEF Asked
  <2>3. QED
    BY <1>3, <1>4, <2>1, <2>2, NoneIsNoAnswer DEF Verdict
<1>7. \A t \in Targets : \A e \in effects'[t] : EffectOK(e)'
  BY <1>2, <1>3, OneCaller DEF EffectOK, Asked
<1>8. QED
  BY <1>1, <1>3, <1>5, <1>6, <1>7, OneCaller DEF ClientInv

\* An answer is read: a 200 carries the receipt of what was asked, a 202 means
\* that the effect of a create is stored.
LEMMA ReceiveStep ==
    ASSUME IInv, requests' = requests, NEW c \in Callers, NEW m \in replies, Receive(c, m)
    PROVE  ClientInv'
<1>1. PICK p, o, v :
         /\ p = (IF m[3] = 200 THEN "done" ELSE "answered")
         /\ o = (IF req[c].op = "create" THEN InterpretCreateResponse(m[3], m[4]) ELSE outcome[c])
         /\ v = (IF m[3] = 200 THEN m[4].result ELSE None)
         /\ pc[c] = "waiting" /\ m[1] = c
         /\ pc' = [pc EXCEPT ![c] = p] /\ outcome' = [outcome EXCEPT ![c] = o]
         /\ result' = [result EXCEPT ![c] = v]
         /\ UNCHANGED <<effects, wire, req>> /\ replies' \subseteq replies
  BY DEF Receive, target
<1>2. Moves(c) /\ pc'[c] = p /\ outcome'[c] = o /\ result'[c] = v
  <2>1. p \in {"done", "answered"}
    BY <1>1
  <2>2. CallerTypeOK
    BY DEF IInv, ClientInv
  <2>3. /\ pc'[c] = p /\ outcome'[c] = o /\ result'[c] = v
        /\ \A d \in Callers \ {c} : /\ pc'[d] = pc[d] /\ outcome'[d] = outcome[d]
                                    /\ result'[d] = result[d]
    BY <1>1, <2>2 DEF CallerTypeOK
  <2>4. pc' \in [Callers -> {"idle", "waiting", "answered", "done", "failed", "reconciled"}]
    BY <1>1, <2>1, <2>2 DEF CallerTypeOK
  <2>5. outcome' = [d \in Callers |-> outcome'[d]]
    BY <1>1, <2>2 DEF CallerTypeOK
  <2>6. result' = [d \in Callers |-> result'[d]]
    BY <1>1, <2>2 DEF CallerTypeOK
  <2>7. CallerTypeOK'
    BY <1>1, <2>2, <2>4, <2>5, <2>6 DEF CallerTypeOK
  <2>8. QED
    BY <1>1, <2>1, <2>3, <2>7 DEF Moves
<1>3. CallerOK(c) /\ Verdict(c) /\ ReplyOK(m)
  BY DEF IInv, ClientInv
<1>4. /\ o = "CONFIRMED" => m[3] = 200 /\ req[c].op = "create"
      /\ o = "PENDING_ACCEPTANCE" => m[3] = 202 \/ o = outcome[c]
  BY <1>1, <1>3 DEF InterpretCreateResponse, CallerOK
<1>5. CallerOK(c)'
  BY <1>1, <1>2, <1>3, <1>4 DEF CallerOK, Moves
<1>6. req[c].op = "create" => Target(req[c].op) = "orders"
  BY TargetOf DEF OrderOps
<1>7. Verdict(c)'
  BY <1>1, <1>2, <1>3, <1>4, <1>6 DEF Verdict, ReplyOK, Asked
<1>8. /\ CallerTypeOK' /\ IsFiniteSet({d \in Callers : pc[d] # "idle"})'
      /\ \A d \in Callers \ {c} : CallerOK(d)' /\ Verdict(d)'
      /\ \A x \in wire : MessageOK(x)'
      /\ \A x \in replies : ReplyOK(x)'
      /\ \A t \in Targets : \A e \in effects[t] : EffectOK(e)'
  BY <1>2, OneCaller
<1>9. QED
  BY <1>1, <1>5, <1>7, <1>8 DEF ClientInv

\* A transport error tells a caller nothing of an effect.
LEMMA TransportErrorStep ==
    ASSUME IInv, requests' = requests, NEW c \in Callers, TransportError(c)
    PROVE  ClientInv'
<1>1. PICK o :
         /\ o = (IF req[c].op = "create" THEN "INDETERMINATE" ELSE outcome[c])
         /\ pc[c] = "waiting"
         /\ pc' = [pc EXCEPT ![c] = "answered"] /\ outcome' = [outcome EXCEPT ![c] = o]
         /\ UNCHANGED <<effects, wire, req, result>> /\ replies' \subseteq replies
  BY DEF TransportError, target
<1>2. Moves(c) /\ pc'[c] = "answered" /\ outcome'[c] = o
  BY <1>1 DEF IInv, ClientInv, CallerTypeOK, Moves
<1>3. CallerOK(c) /\ Verdict(c)
  BY DEF IInv, ClientInv
<1>4. CallerOK(c)' /\ Verdict(c)'
  BY <1>1, <1>2, <1>3 DEF CallerOK, Verdict, Asked, Moves
<1>5. QED
  BY <1>1, <1>2, <1>4, OneCaller DEF ClientInv

\* A retry asks for what was asked before, under the same key.
LEMMA ResubmitStep ==
    ASSUME IInv, requests' = requests, NEW c \in Callers, NEW r \in requests, Resubmit(c, r)
    PROVE  ClientInv'
<1>1. PICK i :
         /\ pc[c] = "answered" /\ pc' = [pc EXCEPT ![c] = "waiting"]
         /\ UNCHANGED <<effects, replies, req, outcome, result>>
         /\ wire' = wire \cup {<<c, i, r>>}
         /\ Asked(r, c)
  BY DEF Resubmit, RefuseBlindResubmit, Asked, target
<1>2. Moves(c) /\ pc'[c] = "waiting"
  BY <1>1 DEF IInv, ClientInv, CallerTypeOK, Moves
<1>3. CallerOK(c) /\ Verdict(c)
  BY DEF IInv, ClientInv
<1>4. CallerOK(c)' /\ Verdict(c)'
  BY <1>1, <1>2, <1>3 DEF CallerOK, Verdict, Asked, Moves
<1>5. MessageOK(<<c, i, r>>)'
  BY <1>1, <1>2 DEF MessageOK, Asked
<1>6. QED
  BY <1>1, <1>2, <1>4, <1>5, OneCaller DEF ClientInv

\* reconcile_purchase finds what is stored under the caller's key.
LEMMA ReconcileStep ==
    ASSUME IInv, requests' = requests, NEW c \in Callers, Reconcile(c)
    PROVE  ClientInv'
<1>1. /\ pc[c] = "answered" /\ req[c].op = "create"
      /\ UNCHANGED <<effects, wire, replies, req>>
  BY DEF Reconcile, target, network
<1>2. /\ Moves(c) /\ pc'[c] \in {"answered", "reconciled"}
      /\ \/ outcome'[c] = "NOT_FOUND"
         \/ /\ outcome'[c] = "CONFIRMED" /\ pc'[c] = "reconciled"
            /\ \E e \in Stored(req[c]) : result'[c] = e.result
  <2>1. CASE Stored(req[c]) = {}
    <3>1. outcome' = [outcome EXCEPT ![c] = "NOT_FOUND"] /\ pc' = pc /\ result' = result
      BY <2>1 DEF Reconcile
    <3>2. QED
      BY <1>1, <3>1 DEF IInv, ClientInv, CallerTypeOK, Moves
  <2>2. CASE Stored(req[c]) # {}
    <3>1. PICK e \in Stored(req[c]) :
             /\ pc' = [pc EXCEPT ![c] = "reconciled"]
             /\ outcome' = [outcome EXCEPT ![c] = "CONFIRMED"]
             /\ result' = [result EXCEPT ![c] = e.result]
      BY <2>2 DEF Reconcile
    <3>2. QED
      BY <1>1, <3>1 DEF IInv, ClientInv, CallerTypeOK, Moves
  <2>3. QED
    BY <2>1, <2>2
<1>3. CallerOK(c)
  BY DEF IInv, ClientInv
<1>4. CallerOK(c)'
  BY <1>1, <1>2, <1>3 DEF CallerOK, Moves
<1>5. \A e \in Stored(req[c]) : e \in effects["orders"] /\ e.request.key = req[c].key
  BY <1>1, TargetOf DEF Stored, OrderOps
<1>6. Verdict(c)'
  BY <1>1, <1>2, <1>5 DEF Verdict
<1>7. QED
  BY <1>1, <1>2, <1>4, <1>6, OneCaller DEF ClientInv

-----------------------------------------------------------------------------
(* The network's steps *)

\* What leaves the callers as they are, and no effect out.
LEMMA CallersStay ==
    ASSUME IInv, requests' = requests, UNCHANGED caller,
           \A t \in Targets : effects[t] \subseteq effects'[t]
    PROVE  /\ CallerTypeOK' /\ IsFiniteSet({d \in Callers : pc[d] # "idle"})'
           /\ \A d \in Callers : CallerOK(d)' /\ Verdict(d)'
           /\ \A m \in wire : MessageOK(m)'
           /\ \A m \in replies : ReplyOK(m)'
           /\ \A t \in Targets : \A e \in effects[t] : EffectOK(e)'
<1>1. UNCHANGED <<pc, req, outcome, result>>
  BY DEF caller
<1>2. CallerTypeOK' /\ IsFiniteSet({d \in Callers : pc'[d] # "idle"})
  BY <1>1 DEF IInv, ClientInv, CallerTypeOK
<1>3. /\ \A m \in wire : MessageOK(m)'
      /\ \A m \in replies : ReplyOK(m)'
      /\ \A t \in Targets : \A e \in effects[t] : EffectOK(e)'
      /\ \A d \in Callers :
            /\ pc'[d] = pc[d] /\ req'[d] = req[d]
            /\ outcome'[d] = outcome[d] /\ result'[d] = result[d]
            => CallerOK(d)' /\ Verdict(d)'
  BY <1>1, Kept
<1>4. QED
  BY <1>1, <1>2, <1>3

\* What a target answers a request with is true of its caller.
LEMMA AnswerIsTrue ==
    ASSUME IInv, NEW m \in wire, Execute(m[3]), UNCHANGED caller, NEW a \in Answers(m[3])
    PROVE  ReplyOK(<<m[1], m[2], a[1], a[2]>>)'
<1>1. PICK c, r : c = m[1] /\ r = m[3]
  OBVIOUS
<1>2. /\ c \in Callers /\ pc[c] # "idle" /\ r \in requests
      /\ Asked(r, c) /\ UNCHANGED <<pc, req>>
  BY <1>1 DEF IInv, ClientInv, MessageOK, caller
<1>3. Status(r) = "ok" => Receipt(r) \in effects'[Target(r.op)] /\ Receipt(r).request = r
  BY <1>1, <1>2, ReceiptIsStored DEF IInv
<1>4. Status(r) \in {"ok", "not_found", "conflict", "business"}
  BY StatusIs
<1>5. /\ HttpStatus(Status(r)) = 200 => Status(r) = "ok"
      /\ HttpStatus(Status(r)) # 202
  BY <1>4 DEF HttpStatus
<1>6. \/ a[1] = HttpStatus(Status(r)) /\ a[2] = Receipt(r)
      \/ a[1] = 202 /\ r.op = "create" /\ Status(r) = "ok"
  BY <1>1 DEF Answers
<1>7. a[1] = 200 => a[2] \in effects'[Target(req'[c].op)] /\ Asked(a[2].request, c)'
  BY <1>2, <1>3, <1>5, <1>6 DEF Asked
<1>8. a[1] = 202 => \E e \in effects'["orders"] : Asked(e.request, c)'
  <2>1. r.op = "create" => Target(r.op) = "orders"
    BY TargetOf DEF OrderOps
  <2>2. QED
    BY <1>2, <1>3, <1>5, <1>6, <2>1 DEF Asked
<1>9. QED
  BY <1>1, <1>2, <1>7, <1>8 DEF ReplyOK

\* A request arrives, however late.
LEMMA HandleStep ==
    ASSUME IInv, requests' = requests, NEW m \in wire, Handle(m)
    PROVE  StoreInv' /\ ClientInv'
<1>1. PICK c, r : c = m[1] /\ r = m[3]
  OBVIOUS
<1>2. /\ Execute(r) /\ wire' \subseteq wire /\ UNCHANGED caller
      /\ \/ \E a \in Answers(r) : replies' = replies \cup {<<m[1], m[2], a[1], a[2]>>}
         \/ replies' = replies
  BY <1>1 DEF Handle
<1>3. c \in Callers /\ pc[c] # "idle" /\ r \in requests /\ Asked(r, c)
  BY <1>1 DEF IInv, ClientInv, MessageOK
<1>4. StoreInv'
  BY <1>2, <1>3, ExecuteKeeps DEF IInv
<1>5. \A t \in Targets : /\ effects[t] \subseteq effects'[t]
                         /\ \A e \in effects'[t] \ effects[t] : e.request = r
  BY <1>2, <1>3, EffectsGrow DEF IInv
<1>6. /\ CallerTypeOK' /\ IsFiniteSet({d \in Callers : pc[d] # "idle"})'
      /\ \A d \in Callers : CallerOK(d)' /\ Verdict(d)'
      /\ \A x \in wire : MessageOK(x)'
      /\ \A x \in replies : ReplyOK(x)'
      /\ \A t \in Targets : \A e \in effects[t] : EffectOK(e)'
  BY <1>2, <1>5, CallersStay
<1>7. \A x \in replies' : ReplyOK(x)'
  BY <1>1, <1>2, <1>6, AnswerIsTrue
<1>8. \A t \in Targets : \A e \in effects'[t] : EffectOK(e)'
  BY <1>2, <1>3, <1>5, <1>6 DEF EffectOK, Asked, caller
<1>9. QED
  BY <1>2, <1>4, <1>6, <1>7, <1>8 DEF ClientInv

\* A request is refused before it reaches execute().
LEMMA RefuseStep ==
    ASSUME IInv, requests' = requests, NEW m \in wire, Refuse(m)
    PROVE  ClientInv'
<1>1. /\ wire' \subseteq wire /\ UNCHANGED caller /\ effects' = effects
      /\ replies' = replies \cup {<<m[1], m[2], 400, None>>}
  BY DEF Refuse, target
<1>2. /\ CallerTypeOK' /\ IsFiniteSet({d \in Callers : pc[d] # "idle"})'
      /\ \A d \in Callers : CallerOK(d)' /\ Verdict(d)'
      /\ \A x \in wire : MessageOK(x)'
      /\ \A x \in replies : ReplyOK(x)'
      /\ \A t \in Targets : \A e \in effects[t] : EffectOK(e)'
  BY <1>1, CallersStay
<1>3. ReplyOK(<<m[1], m[2], 400, None>>)'
  BY <1>2 DEF ReplyOK, MessageOK
<1>4. QED
  BY <1>1, <1>2, <1>3 DEF ClientInv

-----------------------------------------------------------------------------
(* The theorems *)

\* Nobody has asked for anything at the beginning.
LEMMA InvInit == Init => IInv
<1> SUFFICES ASSUME Init PROVE IInv
  OBVIOUS
<1>1. CallerTypeOK
  BY DEF Init, CallerTypeOK
<1>2. {c \in Callers : pc[c] # "idle"} = {}
  BY DEF Init
<1>3. IsFiniteSet({c \in Callers : pc[c] # "idle"})
  BY <1>2, FS_EmptySet
<1>4. \A c \in Callers : CallerOK(c) /\ Verdict(c)
  BY NoneIsNoAnswer DEF Init, CallerOK, Verdict
<1>5. QED
  BY <1>1, <1>3, <1>4, StoreInit DEF Init, IInv, ClientInv

\* A step that leaves the targets leaves their books.
LEMMA StoreStays ==
    ASSUME StoreInv, requests' = requests, UNCHANGED <<state, effects, version, updates>>
    PROVE  StoreInv'
BY DEF StoreInv, TargetTypeOK, ReceiptsOK

\* Every step keeps the invariant.
LEMMA InvStep == IInv /\ [Next]_vars => IInv'
<1> SUFFICES ASSUME IInv, [Next]_vars PROVE IInv'
  OBVIOUS
<1>1. requests' = requests
  BY DEF Next, vars
<1>2. ASSUME NEW c \in Callers, CallerStep(c) PROVE IInv'
  <2>1. ASSUME NEW r \in requests, Submit(c, r) PROVE IInv'
    BY <1>1, <2>1, StoreStays, SubmitStep DEF IInv, Submit, target
  <2>2. ASSUME NEW r \in requests, CallDirectly(c, r) PROVE IInv'
    BY <1>1, <2>2, ExecuteKeeps, CallDirectlyStep DEF IInv, CallDirectly
  <2>3. ASSUME NEW r \in requests, Resubmit(c, r) PROVE IInv'
    BY <1>1, <2>3, StoreStays, ResubmitStep DEF IInv, Resubmit, target
  <2>4. ASSUME NEW m \in replies, Receive(c, m) PROVE IInv'
    BY <1>1, <2>4, StoreStays, ReceiveStep DEF IInv, Receive, target
  <2>5. CASE TransportError(c)
    BY <1>1, <2>5, StoreStays, TransportErrorStep DEF IInv, TransportError, target
  <2>6. CASE Reconcile(c)
    BY <1>1, <2>6, StoreStays, ReconcileStep DEF IInv, Reconcile, target
  <2>7. QED
    BY <1>2, <2>1, <2>2, <2>3, <2>4, <2>5, <2>6 DEF CallerStep
<1>3. ASSUME NEW m \in wire, Handle(m) PROVE IInv'
  BY <1>1, <1>3, HandleStep DEF IInv
<1>4. ASSUME NEW m \in wire, Refuse(m) PROVE IInv'
  BY <1>1, <1>4, StoreStays, RefuseStep DEF IInv, Refuse, target
\* The carrier, the clock and a stuttering step leave callers, network and effects.
<1>5. ASSUME UNCHANGED <<effects, network, caller>> PROVE ClientInv'
  <2>1. UNCHANGED <<wire, replies>>
    BY <1>5 DEF network
  <2>2. /\ CallerTypeOK' /\ IsFiniteSet({d \in Callers : pc[d] # "idle"})'
        /\ \A d \in Callers : CallerOK(d)' /\ Verdict(d)'
        /\ \A x \in wire : MessageOK(x)'
        /\ \A x \in replies : ReplyOK(x)'
        /\ \A t \in Targets : \A e \in effects[t] : EffectOK(e)'
    BY <1>1, <1>5, CallersStay
  <2>3. QED
    BY <1>5, <2>1, <2>2 DEF ClientInv
<1>6. ASSUME NEW i \in DOMAIN Orders, NEW s \in Shipments, SetShipmentStatus(i, s) PROVE IInv'
  BY <1>1, <1>5, <1>6, ShipmentKeeps DEF IInv, SetShipmentStatus
<1>7. CASE HourPasses
  BY <1>1, <1>5, <1>7, StoreStays DEF IInv, HourPasses
<1>8. CASE UNCHANGED vars
  BY <1>1, <1>5, <1>8, StoreStays DEF IInv, vars, target
<1>9. QED
  BY <1>2, <1>3, <1>4, <1>6, <1>7, <1>8 DEF Next

\* The invariant holds in every reachable state.
LEMMA Invariance == Spec => []IInv
<1>1. QED
  BY InvInit, InvStep, PTL DEF Spec

\* The books of every target agree with its receipts, whatever requests and
\* answers were lost, delayed, repeated or refused (execute(), _state_version).
THEOREM BooksAgree == Spec => []BooksMatchReceipts
<1>1. IInv => BooksMatchReceipts
  BY DEF IInv, StoreInv, BooksMatchReceipts, LedgerBooks, CrmBooks, ListBooks, Versioned,
         Spent, TransfersFrom, Of, Done, Ledger, Orders, Crm, Mail, Quotes
<1>2. QED
  BY <1>1, Invariance, PTL

\* A caller is told of an effect only when it is stored, of its own request and
\* with its result (interpret_create_response, reconcile_purchase).
THEOREM VerdictsAreTrue == Spec => []VerdictIsTrue
<1>1. IInv => VerdictIsTrue
  BY DEF IInv, ClientInv, Verdict, VerdictIsTrue, Asked
<1>2. QED
  BY <1>1, Invariance, PTL

\* The keys under which a purchase was ordered are keys it was asked for under;
\* each has one order.
LEMMA OrdersByKey ==
    ASSUME IInv, NEW a
    PROVE  LET bought == {e \in Done("orders", "create") : e.request.arg = a}
               asking == {d \in Callers : req[d] # None /\ req[d].op = "create" /\ req[d].arg = a}
           IN  Cardinality(bought) <= Cardinality({req[c].key : c \in asking})
<1> DEFINE bought == {e \in Done("orders", "create") : e.request.arg = a}
           asking == {d \in Callers : req[d] # None /\ req[d].op = "create" /\ req[d].arg = a}
           keys == {req[c].key : c \in asking}
           key == [e \in bought |-> e.request.key]
           of == [c \in asking |-> req[c].key]
<1>1. IsFiniteSet(asking)
  <2>1. asking \subseteq {d \in Callers : pc[d] # "idle"}
    BY DEF IInv, ClientInv, CallerOK
  <2>2. QED
    BY <2>1, FS_Subset DEF IInv, ClientInv
<1>2. IsFiniteSet(keys)
  <2>1. of \in Surjection(asking, keys)
    BY DEF Surjection
  <2> HIDE DEF of, asking, keys
  <2>2. QED
    BY <1>1, <2>1, FS_Surjection
<1>3. ASSUME NEW e \in bought PROVE e.request.key \in keys
  <2>1. e \in effects["orders"] /\ e.request.op = "create" /\ e.request.arg = a
    BY DEF Done
  <2>2. PICK c \in Callers : pc[c] # "idle" /\ Asked(e.request, c)
    BY <2>1 DEF IInv, ClientInv, EffectOK, Targets
  <2>3. req[c] # None
    BY <2>2, NoneIsNoAnswer DEF IInv, StoreInv, TargetTypeOK, ClientInv, CallerOK
  <2>4. QED
    BY <2>1, <2>2, <2>3 DEF Asked
<1>4. \A e, f \in bought : e.request.key = f.request.key => e = f
  BY DEF IInv, StoreInv, ReceiptsOK, Targets, Done
<1>5. key \in Injection(bought, keys)
  <2> HIDE DEF bought, keys
  <2>1. QED
    BY <1>3, <1>4 DEF Injection, IsInjective
<1>6. Cardinality(bought) <= Cardinality(keys)
  <2> HIDE DEF key, bought, keys
  <2>1. QED
    BY <1>2, <1>5, FS_Injection
<1>7. QED
  BY <1>6

\* A purchase retried, resubmitted or answered late is at most one order per key
\* its callers asked under (refuse_blind_resubmit, the idempotency key).
THEOREM PurchasedOnce == Spec => []OneOrderPerPurchase
<1>1. IInv => OneOrderPerPurchase
  BY OrdersByKey DEF OneOrderPerPurchase
<1>2. QED
  BY <1>1, Invariance, PTL

\* No account is overdrawn, and its transfer receipts together never exceed what
\* it opened with, however the transfers were interleaved and retried (_transfer).
THEOREM NeverOverdrawn ==
    Spec => [](\A a \in Accounts : /\ Ledger.balance[a] \in Nat
                                   /\ Spent(effects["ledger"], a) <= Opening[a])
<1>1. IInv => \A a \in Accounts : /\ Ledger.balance[a] \in Nat
                                  /\ Spent(effects["ledger"], a) <= Opening[a]
  <2> SUFFICES ASSUME IInv, NEW a \in Accounts
               PROVE  Ledger.balance[a] \in Nat /\ Spent(effects["ledger"], a) <= Opening[a]
    OBVIOUS
  <2>1. /\ Ledger.balance[a] \in Nat /\ Opening[a] \in Nat
        /\ Opening[a] - Ledger.balance[a] = Spent(effects["ledger"], a)
    BY TargetsConfig DEF IInv, StoreInv, LedgerBooks, Ledger
  <2>2. QED
    BY <2>1
<1>2. QED
  BY <1>1, Invariance, PTL

\* A target stores one effect per idempotency key and never drops or changes one,
\* so a receipt can be read back at any later time (execute(), reconcile_purchase).
THEOREM EffectsAreFinal ==
    Spec => /\ [](\A t \in Targets : \A e, f \in effects[t] :
                     e.request.key = f.request.key => e = f)
            /\ [][\A t \in Targets : effects[t] \subseteq effects'[t]]_vars
<1>1. IInv => \A t \in Targets : \A e, f \in effects[t] :
                 e.request.key = f.request.key => e = f
  BY DEF IInv, StoreInv, ReceiptsOK
<1>2. IInv /\ [Next]_vars => [\A t \in Targets : effects[t] \subseteq effects'[t]]_vars
  <2> SUFFICES ASSUME IInv, Next PROVE \A t \in Targets : effects[t] \subseteq effects'[t]
    OBVIOUS
  <2>1. ASSUME NEW c \in Callers, CallerStep(c)
        PROVE  \A t \in Targets : effects[t] \subseteq effects'[t]
    <3>1. ASSUME NEW r \in requests, CallDirectly(c, r)
          PROVE  \A t \in Targets : effects[t] \subseteq effects'[t]
      BY <3>1, EffectsGrow DEF IInv, CallDirectly
    <3>2. ASSUME NEW r \in requests, Submit(c, r) \/ Resubmit(c, r) PROVE effects' = effects
      BY <3>2 DEF Submit, Resubmit, target
    <3>3. ASSUME NEW m \in replies, Receive(c, m) PROVE effects' = effects
      BY <3>3 DEF Receive, target
    <3>4. ASSUME TransportError(c) \/ Reconcile(c) PROVE effects' = effects
      BY <3>4 DEF TransportError, Reconcile, target
    <3>5. QED
      BY <2>1, <3>1, <3>2, <3>3, <3>4 DEF CallerStep
  <2>2. ASSUME NEW m \in wire, Handle(m)
        PROVE  \A t \in Targets : effects[t] \subseteq effects'[t]
    <3>1. m[3] \in requests /\ Execute(m[3])
      BY <2>2 DEF IInv, ClientInv, MessageOK, Handle
    <3>2. QED
      BY <3>1, EffectsGrow DEF IInv
  <2>3. ASSUME NEW m \in wire, Refuse(m) PROVE effects' = effects
    BY <2>3 DEF Refuse, target
  <2>4. ASSUME NEW i \in DOMAIN Orders, NEW s \in Shipments, SetShipmentStatus(i, s)
        PROVE  effects' = effects
    BY <2>4 DEF SetShipmentStatus
  <2>5. CASE HourPasses
    BY <2>5 DEF HourPasses
  <2>6. QED
    BY <2>1, <2>2, <2>3, <2>4, <2>5 DEF Next
<1>3. QED
  BY <1>1, <1>2, Invariance, PTL DEF Spec
=============================================================================
