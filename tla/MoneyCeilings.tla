--------------------------- MODULE MoneyCeilings ---------------------------
\* The claims against one confirmed payment: allocations to receivables
\* (db/migrations/0006), refunds (0007, application/payments.go
\* RefundReservation), and the triggers that guard them. Transactions run
\* concurrently under READ COMMITTED: a statement sees what is committed when it
\* starts and the transaction's own writes; deferred triggers run at COMMIT,
\* before the commit itself.
EXTENDS Naturals, FiniteSets, Functions, FiniteSetTheorems, WellFoundedInduction, TLAPS

CONSTANTS Txs,          \* sessions, one transaction at a time each
          Rows,         \* the ids of the allocation and refund rows
          Receivables,
          Original,     \* receivables.original_minor
          Confirmed,    \* payments.confirmed_minor
          Amounts,      \* the amounts of the rows
          Kinds,        \* which rows are written: subset of {"alloc", "refund"}
          MaxOps,       \* bound: statements of one transaction
          NoTx, NoRec

ASSUME CeilingsAssumption ==
    /\ IsFiniteSet(Rows) /\ Original \in [Receivables -> Nat] /\ Confirmed \in Nat
    /\ Amounts \subseteq Nat \ {0} /\ Kinds \subseteq {"alloc", "refund"}
    /\ MaxOps \in Nat /\ NoTx \notin Txs /\ NoRec \notin Receivables

VARIABLES row,        \* allocations and refunds as committed
          applied,    \* receivables.applied_minor as committed
          lock,       \* the transaction holding each receivable's row lock
          tx          \* the running transactions

vars == <<row, applied, lock, tx>>

Row == [state : {"none", "active", "reversed"}, kind : {"alloc", "refund"},
        rec : Receivables \cup {NoRec}, amount : {0} \cup Amounts]
NoRow == [state |-> "none", kind |-> "alloc", rec |-> NoRec, amount |-> 0]
NoTxn == [pc |-> "idle", wrote |-> <<>>, applied |-> <<>>, rec |-> NoRec, snap |-> 0, ops |-> 0]

Init ==
    /\ row = [i \in Rows |-> NoRow]
    /\ applied = [c \in Receivables |-> 0]
    /\ lock = [c \in Receivables |-> NoTx]
    /\ tx = [t \in Txs |-> NoTxn]

--------------------------------------------------------------------------------

Overlay(own, committed) == [x \in DOMAIN committed |-> IF x \in DOMAIN own THEN own[x] ELSE committed[x]]

\* What a statement of t sees.
View(t) == Overlay(tx[t].wrote, row)

Active(rows, kind) == {i \in DOMAIN rows : rows[i].state = "active" /\ rows[i].kind = kind}
SumOf(rows, S) == SumFunction([i \in S |-> rows[i].amount])
SumOnReceivable(rows, c) == SumOf(rows, {i \in Active(rows, "alloc") : rows[i].rec = c})

CommittedAgainstPayment(rows) == SumOf(rows, Active(rows, "alloc") \cup Active(rows, "refund"))

Update(f, x, v) == [y \in DOMAIN f \cup {x} |-> IF y = x THEN v ELSE f[y]]

\* Rows another transaction has written and not yet committed are its own.
Untouched(i) == \A u \in Txs : i \notin DOMAIN tx[u].wrote

\* Rollback: the writes are gone, the locks are free.
Abort(t) ==
    /\ tx' = [tx EXCEPT ![t] = NoTxn]
    /\ lock' = [c \in Receivables |-> IF lock[c] = t THEN NoTx ELSE lock[c]]
    /\ UNCHANGED <<row, applied>>

\* A row is written and, for an allocation, the AFTER trigger's UPDATE of the
\* receivable starts: its subquery sums what is visible now, even if the UPDATE
\* then waits for the row lock.
Write(t, i, r) ==
    LET after == Update(tx[t].wrote, i, r) IN
    /\ tx' = [tx EXCEPT ![t] =
           [tx[t] EXCEPT !.wrote = after, !.ops = @ + 1,
                         !.pc = IF r.kind = "alloc" THEN "sync" ELSE "run",
                         !.rec = r.rec,
                         !.snap = IF r.kind = "alloc" THEN SumOnReceivable(Overlay(after, row), r.rec) ELSE 0]]
    /\ UNCHANGED <<row, applied, lock>>

CanWrite(t) == tx[t].pc \in {"idle", "run"} /\ tx[t].ops < MaxOps

Allocate(t, i, c, m) ==
    /\ CanWrite(t) /\ Untouched(i) /\ row[i].state = "none"
    /\ Write(t, i, [state |-> "active", kind |-> "alloc", rec |-> c, amount |-> m])

\* Mutant: a reversed row is deleted.
ReverseAllocationDelete(t, i) ==
    /\ CanWrite(t) /\ Untouched(i) /\ row[i].kind = "alloc" /\ row[i].state = "active"
    /\ Write(t, i, [row[i] EXCEPT !.state = "none"])

\* The one legal edit: stamping reversed_at on a live row. The row is locked by
\* the first to stamp it; the guard refuses the second.
ReverseAllocation(t, i) ==
    /\ CanWrite(t) /\ Untouched(i) /\ row[i].kind = "alloc" /\ row[i].state = "active"
    /\ Write(t, i, [row[i] EXCEPT !.state = "reversed"])

\* trg_allocations_sync_receivable gets the row lock and writes its sum; a
\* negative balance trips ck_receivables_balance_nonneg at once.
SyncReceivable(t) ==
    LET c == tx[t].rec IN
    /\ tx[t].pc = "sync" /\ lock[c] \in {NoTx, t}
    /\ IF tx[t].snap > Original[c]
       THEN Abort(t)
       ELSE /\ lock' = [lock EXCEPT ![c] = t]
            /\ tx' = [tx EXCEPT ![t] =
                   [@ EXCEPT !.pc = "run", !.applied = Update(tx[t].applied, c, tx[t].snap)]]
            /\ UNCHANGED <<row, applied>>

\* RefundReservation: the ceiling is checked on what is committed, then the row
\* is inserted.
RefundReservation(t, i, m) ==
    /\ CanWrite(t) /\ Untouched(i) /\ row[i].state = "none"
    /\ CommittedAgainstPayment(View(t)) + m <= Confirmed
    /\ Write(t, i, [state |-> "active", kind |-> "refund", rec |-> NoRec, amount |-> m])

--------------------------------------------------------------------------------
\* The deferred constraint triggers, each on the rows t wrote.

\* Mutant: the ceiling alone, without the comparison with the stored amount.
check_r1NoDrift(t) ==
    \A i \in DOMAIN tx[t].wrote : tx[t].wrote[i].kind = "alloc" =>
        LET c == tx[t].wrote[i].rec IN
        Overlay(tx[t].applied, applied)[c] <= Original[c]

\* applied_minor = the sum of the active rows, and at most the original.
check_r1(t) ==
    \A i \in DOMAIN tx[t].wrote : tx[t].wrote[i].kind = "alloc" =>
        LET c == tx[t].wrote[i].rec
            sum == SumOnReceivable(View(t), c) IN
        sum = Overlay(tx[t].applied, applied)[c] /\ sum <= Original[c]

\* Mutant: every row fits by itself.
check_r2PerRow(t) ==
    \A i \in DOMAIN tx[t].wrote :
        tx[t].wrote[i].kind = "alloc" => tx[t].wrote[i].amount <= Confirmed

\* The active allocations of the payment fit its confirmed amount.
check_r2(t) ==
    (\E i \in DOMAIN tx[t].wrote : tx[t].wrote[i].kind = "alloc")
        => SumOf(View(t), Active(View(t), "alloc")) <= Confirmed

\* The refund fits what allocations and other refunds leave.
check_r6(t) ==
    (\E i \in DOMAIN tx[t].wrote : tx[t].wrote[i].kind = "refund")
        => CommittedAgainstPayment(View(t)) <= Confirmed

DeferredTriggers(t) ==
    /\ tx[t].pc = "run"
    /\ IF check_r1(t) /\ check_r2(t) /\ check_r6(t)
       THEN tx' = [tx EXCEPT ![t].pc = "commit"] /\ UNCHANGED <<row, applied, lock>>
       ELSE Abort(t)

Commit(t) ==
    /\ tx[t].pc = "commit"
    /\ row' = View(t)
    /\ applied' = Overlay(tx[t].applied, applied)
    /\ lock' = [c \in Receivables |-> IF lock[c] = t THEN NoTx ELSE lock[c]]
    /\ tx' = [tx EXCEPT ![t] = NoTxn]

\* The session fails or is chosen as the victim of a lock cycle.
Rollback(t) == tx[t].pc # "idle" /\ Abort(t)

--------------------------------------------------------------------------------

Next ==
    \E t \in Txs :
        \/ \E i \in Rows, m \in Amounts :
              \/ "alloc" \in Kinds /\ \E c \in Receivables : Allocate(t, i, c, m)
              \/ "refund" \in Kinds /\ RefundReservation(t, i, m)
        \/ \E i \in Rows : ReverseAllocation(t, i)
        \/ SyncReceivable(t) \/ DeferredTriggers(t) \/ Commit(t) \/ Rollback(t)

Spec == Init /\ [][Next]_vars

\* Transactions that do not overlap.
OneAtATime == \A t, u \in Txs : tx'[t].pc # "idle" /\ tx'[u].pc # "idle" => t = u
SerialSpec == Init /\ [][Next /\ OneAtATime]_vars

--------------------------------------------------------------------------------

\* Rows and transactions are well formed; a receivable's lock is held exactly by
\* the running transaction that has written its amount.
TypeOK ==
    /\ row \in [Rows -> Row]
    /\ applied \in [Receivables -> Nat]
    /\ lock \in [Receivables -> Txs \cup {NoTx}]
    /\ \A t \in Txs :
          /\ tx[t].pc \in {"idle", "run", "sync", "commit"} /\ tx[t].ops \in 0 .. MaxOps
          /\ DOMAIN tx[t].applied = {c \in Receivables : lock[c] = t}
          /\ \A i \in DOMAIN tx[t].wrote : tx[t].wrote[i] \in Row

\* R1, balance integrity (0006: "applied_minor is maintained to equal the sum of
\* the active rows"), for every interleaving: the sum the trigger writes may be
\* stale, but such a transaction never commits.
BalanceIntegrity ==
    \A c \in Receivables :
        applied[c] = SumOnReceivable(row, c) /\ applied[c] <= Original[c]

\* R3, append-only postings (fuatilia_allocations_guard): a committed row never
\* changes but for its one reversal, and never disappears.
AppendOnly ==
    [][\A i \in Rows : row'[i] # row[i] =>
          \/ row[i].state = "none"
          \/ row[i].state = "active" /\ row'[i] = [row[i] EXCEPT !.state = "reversed"]]_vars

\* R2 (0006: "the active allocations of one source are at most its funds, proven
\* at COMMIT").
NoOverAllocation == SumOf(row, Active(row, "alloc")) <= Confirmed

\* R6 (0007, RefundReservation): the refunds fit what the payment confirmed.
RefundCeiling == SumOf(row, Active(row, "refund")) <= Confirmed

--------------------------------------------------------------------------------
(* For every set of transactions and every amount: the balances are the    *)
(* sums of the confirmed rows, postings are append-only, and the ceilings  *)
(* hold of transactions that run one at a time.                            *)

\* A non-empty set of naturals has a least element.
LEMMA LeastNat ==
    ASSUME NEW S \in SUBSET Nat, S # {}
    PROVE  \E x \in S : \A y \in S : x <= y
<1> DEFINE R == OpToRel(<, Nat)
<1>1. IsWellFoundedOn(R, Nat)
  BY NatLessThanWellFounded, Zenon
<1>2. PICK x \in S : \A y \in S : ~(<<y, x>> \in R)
  BY <1>1, WFMin, Zenon
<1>3. \A y \in S : x <= y
  <2> TAKE y \in S
  <2>1. ~(y < x)
    BY <1>2, Zenon DEF OpToRel
  <2> QED BY <2>1
<1> QED BY <1>3

\* Induction over the subsets of a finite set, on the set of those that are good.
LEMMA SubsetInduction ==
    ASSUME NEW S, IsFiniteSet(S), NEW Good \in SUBSET (SUBSET S),
           \A s \in SUBSET S : (\A x \in s : s \ {x} \in Good) => s \in Good
    PROVE  Good = SUBSET S
<1> SUFFICES ASSUME Good # SUBSET S PROVE FALSE
  OBVIOUS
<1> DEFINE Bad == (SUBSET S) \ Good
           Sizes == {Cardinality(s) : s \in Bad}
<1>1. \A s \in SUBSET S : IsFiniteSet(s) /\ Cardinality(s) \in Nat
  BY FS_Subset, FS_CardinalityType
<1>2. Sizes \in SUBSET Nat /\ Sizes # {}
  <2>1. Bad # {} /\ Bad \subseteq SUBSET S
    OBVIOUS
  <2> HIDE DEF Bad
  <2> QED BY <1>1, <2>1
<1> HIDE DEF Sizes
<1>3. PICK m \in Sizes : \A n \in Sizes : m <= n
  BY <1>2, LeastNat
<1>4. PICK s \in Bad : Cardinality(s) = m
  BY <1>3 DEF Sizes
<1>5. ASSUME NEW x \in s PROVE s \ {x} \in Good
  <2>1. Cardinality(s \ {x}) = Cardinality(s) - 1
    BY <1>1, <1>4, FS_RemoveElement
  <2>2. s \ {x} \in SUBSET S /\ m \in Nat
    BY <1>2, <1>4
  <2>3. s \ {x} \notin Good => Cardinality(s \ {x}) \in Sizes
    BY <2>2 DEF Sizes
  <2>4. Cardinality(s \ {x}) \notin Sizes
    BY <1>3, <1>4, <2>1, <2>2
  <2> QED BY <2>3, <2>4
<1>6. s \in SUBSET S /\ s \notin Good
  BY <1>4, Zenon
<1> QED BY <1>5, <1>6

\* The recursion of the library's fold, as a property of its function.
Pick(s) == CHOOSE x \in s : TRUE
Adds(g, f, Sets) == g = [s \in Sets |-> IF s = {} THEN 0 ELSE f[Pick(s)] + g[s \ {Pick(s)}]]

\* Pick picks a member.
LEMMA PickIn == \A s : s # {} => Pick(s) \in s
  BY DEF Pick

\* The library's sum of a function, as the fold it is.
LEMMA SumIsFold == \A f : SumFunction(f) = (CHOOSE g : Adds(g, f, SUBSET DOMAIN f))[DOMAIN f]
  BY DEF SumFunction, SumFunctionOnSet, FoldFunctionOnSet, MapThenFoldSet, Adds, Pick

\* The fold's function exists on a finite domain.
LEMMA FoldExists ==
    ASSUME NEW f, NEW S, IsFiniteSet(S)
    PROVE  \E g : Adds(g, f, SUBSET S)
<1> DEFINE Upto(n) == {s \in SUBSET S : Cardinality(s) <= n}
           Bad == {n \in Nat : ~\E g : Adds(g, f, Upto(n))}
<1>0. \A s \in SUBSET S : IsFiniteSet(s) /\ Cardinality(s) \in Nat /\ Cardinality(s) <= Cardinality(S)
  BY FS_Subset, FS_CardinalityType
<1>1. Bad = {}
  <2> SUFFICES ASSUME Bad # {} PROVE FALSE
    OBVIOUS
  <2>0. Bad \in SUBSET Nat
    OBVIOUS
  <2>1. PICK m \in Bad : \A n \in Bad : m <= n
    <3> HIDE DEF Bad
    <3> QED BY <2>0, LeastNat
  <2>2. CASE m = 0
    <3>1. \A s \in Upto(0) : s = {}
      <4> TAKE s \in Upto(0)
      <4>1. IsFiniteSet(s) /\ Cardinality(s) = 0
        BY <1>0
      <4> QED BY <4>1, FS_EmptySet
    <3> DEFINE g == [s \in Upto(0) |-> 0]
    <3>2. Adds(g, f, Upto(0))
      BY <3>1 DEF Adds
    <3> QED BY <2>1, <2>2, <3>2, Zenon
  <2>3. CASE m # 0
    <3>1. m \in Nat /\ m - 1 \in Nat /\ m - 1 \notin Bad
      <4> HIDE DEF Bad
      <4> QED BY <2>0, <2>1, <2>3
    <3>2. PICK g : Adds(g, f, Upto(m - 1))
      BY <3>1, Zenon
    <3> DEFINE h == [s \in Upto(m) |-> IF s = {} THEN 0 ELSE f[Pick(s)] + g[s \ {Pick(s)}]]
    <3>3. ASSUME NEW s \in Upto(m), s # {} PROVE s \ {Pick(s)} \in Upto(m - 1) /\ s \ {Pick(s)} \in Upto(m)
      <4>1. Cardinality(s \ {Pick(s)}) = Cardinality(s) - 1 /\ Cardinality(s) <= m /\ Cardinality(s) \in Nat
        BY <1>0, <3>3, PickIn, FS_RemoveElement
      <4> QED BY <3>1, <4>1
    <3>4. \A s \in Upto(m - 1) : g[s] = IF s = {} THEN 0 ELSE f[Pick(s)] + g[s \ {Pick(s)}]
      <4> HIDE DEF Upto
      <4> QED BY <3>2, Zenon DEF Adds
    <3> HIDE DEF Upto
    <3>5. \A s \in Upto(m) : s # {} => h[s \ {Pick(s)}] = g[s \ {Pick(s)}]
      BY <3>3, <3>4, Zenon
    <3>6. Adds(h, f, Upto(m))
      BY <3>5, Zenon DEF Adds
    <3> HIDE DEF h
    <3> QED BY <2>1, <3>6
  <2> QED BY <2>2, <2>3
<1>2. Upto(Cardinality(S)) = SUBSET S /\ Cardinality(S) \in Nat
  BY <1>0
<1>3. Cardinality(S) \notin Bad
  BY <1>1, Zenon
<1>4. \E g : Adds(g, f, Upto(Cardinality(S)))
  BY <1>2, <1>3
<1> QED BY <1>2, <1>4, Zenon

\* What the fold's function is at a set, whichever functions and domains it is of.
LEMMA FoldStep ==
    ASSUME NEW g, NEW f, NEW S, Adds(g, f, SUBSET S)
    PROVE  g[{}] = 0 /\ \A s \in SUBSET S : s # {} => g[s] = f[Pick(s)] + g[s \ {Pick(s)}]
  BY SMTT(20) DEF Adds

\* The fold of naturals is a natural.
LEMMA FoldNat ==
    ASSUME NEW S, IsFiniteSet(S), NEW f \in [S -> Nat], NEW g, Adds(g, f, SUBSET S)
    PROVE  \A s \in SUBSET S : g[s] \in Nat
<1> DEFINE Good == {s \in SUBSET S : g[s] \in Nat}
<1>1. ASSUME NEW s \in SUBSET S, \A x \in s : s \ {x} \in Good PROVE s \in Good
  <2>1. CASE s = {}
    BY <2>1, FoldStep
  <2>2. CASE s # {}
    <3>1. Pick(s) \in s /\ g[s] = f[Pick(s)] + g[s \ {Pick(s)}]
      BY <2>2, PickIn, FoldStep
    <3>2. g[s \ {Pick(s)}] \in Nat /\ f[Pick(s)] \in Nat
      BY <1>1, <3>1
    <3> QED BY <3>1, <3>2
  <2> QED BY <2>1, <2>2
<1>2. Good \in SUBSET (SUBSET S)
  OBVIOUS
<1>3. Good = SUBSET S
  <2> HIDE DEF Good
  <2> QED BY <1>1, <1>2, SubsetInduction, Zenon
<1> QED BY <1>3

\* Any element may be taken out of the sum.
LEMMA FoldAny ==
    ASSUME NEW S, IsFiniteSet(S), NEW f \in [S -> Nat], NEW g, Adds(g, f, SUBSET S)
    PROVE  \A s \in SUBSET S : \A x \in s : g[s] = f[x] + g[s \ {x}]
<1> DEFINE Good == {s \in SUBSET S : \A x \in s : g[s] = f[x] + g[s \ {x}]}
<1>1. ASSUME NEW s \in SUBSET S, \A x \in s : s \ {x} \in Good PROVE s \in Good
  <2> SUFFICES ASSUME NEW x \in s PROVE g[s] = f[x] + g[s \ {x}]
    OBVIOUS
  <2>1. PICK p \in s : g[s] = f[p] + g[s \ {p}]
    <3>1. s # {} /\ Pick(s) \in s
      BY PickIn
    <3>2. g[s] = f[Pick(s)] + g[s \ {Pick(s)}]
      BY <3>1, FoldStep
    <3> QED BY <3>1, <3>2, Zenon
  <2>2. CASE p = x
    BY <2>1, <2>2
  <2>3. CASE p # x
    <3>1. g[s \ {p}] = f[x] + g[(s \ {p}) \ {x}]
      BY <1>1, <2>3
    <3>2. g[s \ {x}] = f[p] + g[(s \ {x}) \ {p}]
      BY <1>1, <2>3
    <3>3. (s \ {p}) \ {x} = (s \ {x}) \ {p}
      OBVIOUS
    <3>4. f[x] \in Nat /\ f[p] \in Nat /\ g[(s \ {p}) \ {x}] \in Nat
      BY FoldNat
    <3> DEFINE u == g[(s \ {p}) \ {x}]
    <3>5. g[s] = f[p] + (f[x] + u) /\ g[s \ {x}] = f[p] + u /\ u \in Nat
      BY <2>1, <3>1, <3>2, <3>3, <3>4, Zenon
    <3> HIDE DEF Good, u
    <3> QED BY <3>4, <3>5
  <2> QED BY <2>2, <2>3
<1>2. Good \in SUBSET (SUBSET S)
  OBVIOUS
<1>3. Good = SUBSET S
  <2> HIDE DEF Good
  <2> QED BY <1>1, <1>2, SubsetInduction, Zenon
<1> QED BY <1>3, Zenon

\* A larger set has no smaller sum.
LEMMA FoldGrows ==
    ASSUME NEW S, IsFiniteSet(S), NEW f \in [S -> Nat], NEW g, Adds(g, f, SUBSET S)
    PROVE  \A s \in SUBSET S : \A r \in SUBSET s : g[r] <= g[s]
<1> DEFINE Good == {s \in SUBSET S : \A r \in SUBSET s : g[r] <= g[s]}
<1>1. ASSUME NEW s \in SUBSET S, \A x \in s : s \ {x} \in Good PROVE s \in Good
  <2> SUFFICES ASSUME NEW r \in SUBSET s PROVE g[r] <= g[s]
    OBVIOUS
  <2>1. CASE r = s
    <3>1. g[s] \in Nat
      BY FoldNat, Zenon
    <3> QED BY <2>1, <3>1
  <2>2. CASE r # s
    <3>1. PICK x \in s : x \notin r
      BY <2>2, Zenon
    <3>2. g[s] = f[x] + g[s \ {x}] /\ r \in SUBSET (s \ {x}) /\ s \ {x} \in SUBSET S
      BY <3>1, FoldAny
    <3>3. g[r] <= g[s \ {x}]
      BY <1>1, <3>2
    <3>4. f[x] \in Nat /\ g[r] \in Nat /\ g[s \ {x}] \in Nat
      BY <3>2, FoldNat, Zenon
    <3> HIDE DEF Good
    <3> QED BY <3>2, <3>3, <3>4
  <2> QED BY <2>1, <2>2
<1>2. Good \in SUBSET (SUBSET S)
  OBVIOUS
<1>3. Good = SUBSET S
  <2> HIDE DEF Good
  <2> QED BY <1>1, <1>2, SubsetInduction, Zenon
<1> QED BY <1>3

\* The sum of naturals over a finite set is a natural, and no smaller than the
\* sum over a part of the set.
LEMMA SumFacts ==
    ASSUME NEW S, IsFiniteSet(S), NEW f \in [S -> Nat], NEW T \in SUBSET S
    PROVE  /\ SumFunction(f) \in Nat
           /\ SumFunction([x \in T |-> f[x]]) \in Nat
           /\ SumFunction([x \in T |-> f[x]]) <= SumFunction(f)
<1>1. PICK h : h = [x \in T |-> f[x]]
  BY Zenon
<1>2. DOMAIN f = S /\ DOMAIN h = T /\ h \in [T -> Nat] /\ \A x \in T : h[x] = f[x]
  BY <1>1
<1>3. IsFiniteSet(T)
  BY FS_Subset
<1>4. PICK g : g = (CHOOSE a : Adds(a, f, SUBSET S)) /\ Adds(g, f, SUBSET S)
  BY FoldExists, Zenon
<1>5. PICK k : k = (CHOOSE a : Adds(a, h, SUBSET T)) /\ Adds(k, h, SUBSET T)
  BY <1>3, FoldExists, Zenon
<1>6. SumFunction(f) = g[S] /\ SumFunction(h) = k[T]
  BY <1>2, <1>4, <1>5, SumIsFold, Zenon
<1>7. \A s \in SUBSET T : g[s] = k[s]
  <2> DEFINE Good == {s \in SUBSET T : g[s] = k[s]}
  <2>0. Adds(g, f, SUBSET S) /\ Adds(k, h, SUBSET T)
    BY <1>4, <1>5
  <2>1. ASSUME NEW s \in SUBSET T, \A x \in s : s \ {x} \in Good PROVE s \in Good
    <3>1. CASE s = {}
      BY <2>0, <3>1, FoldStep
    <3>2. CASE s # {}
      <4>1. Pick(s) \in s /\ g[s] = f[Pick(s)] + g[s \ {Pick(s)}] /\ k[s] = h[Pick(s)] + k[s \ {Pick(s)}]
        BY <2>0, <3>2, PickIn, FoldStep, ZenonT(40)
      <4>2. g[s \ {Pick(s)}] = k[s \ {Pick(s)}] /\ h[Pick(s)] = f[Pick(s)]
        BY <1>2, <2>1, <4>1
      <4> QED BY <4>1, <4>2
    <3> QED BY <3>1, <3>2
  <2>2. Good \in SUBSET (SUBSET T)
    OBVIOUS
  <2>3. Good = SUBSET T
    <3> HIDE DEF Good
    <3> QED BY <1>3, <2>1, <2>2, SubsetInduction, Zenon
  <2> QED BY <2>3
<1>8. g[S] \in Nat /\ g[T] \in Nat /\ g[T] <= g[S]
  BY <1>4, FoldNat, FoldGrows, Zenon
<1> QED BY <1>1, <1>6, <1>7, <1>8

----------------------------------------------------------------------------
\* An allocation to c.
To(r, c) == r.kind = "alloc" /\ r.rec = c

\* What t may have written over the committed row i: a new row, or the reversal
\* of an active allocation.
Writes(r, i) ==
    /\ r \in Row /\ r.state # "none"
    /\ r.kind = "alloc" => r.rec \in Receivables
    /\ \/ row[i].state = "none"
       \/ row[i].state = "active" /\ row[i].kind = "alloc" /\ r = [row[i] EXCEPT !.state = "reversed"]

Fields == {"pc", "wrote", "applied", "rec", "snap", "ops"}

\* A transaction's rows and locks: once its triggers have run it holds the lock
\* of every receivable it has written to, and of no other; the deferred check
\* still holds when it commits.
TxOK(t) ==
    /\ DOMAIN tx[t] = Fields /\ tx[t].pc \in {"idle", "run", "sync", "commit"} /\ tx[t].ops \in 0 .. MaxOps
    /\ DOMAIN tx[t].wrote \subseteq Rows
    /\ \A i \in DOMAIN tx[t].wrote : Writes(tx[t].wrote[i], i)
    /\ \A i \in DOMAIN tx[t].wrote : tx[t].wrote[i].kind = "alloc" =>
          \/ lock[tx[t].wrote[i].rec] = t
          \/ tx[t].pc = "sync" /\ tx[t].wrote[i].rec = tx[t].rec
    /\ tx[t].pc = "sync" => tx[t].rec \in Receivables /\ \E i \in DOMAIN tx[t].wrote : To(tx[t].wrote[i], tx[t].rec)
    /\ DOMAIN tx[t].applied = {c \in Receivables : lock[c] = t}
    /\ \A c \in Receivables : lock[c] = t => \E i \in DOMAIN tx[t].wrote : To(tx[t].wrote[i], c)
    /\ tx[t].pc = "commit" => check_r1(t)

TablesOK ==
    /\ row \in [Rows -> Row]
    /\ DOMAIN applied = Receivables /\ applied = [c \in Receivables |-> applied[c]]
    /\ \A i \in Rows : row[i].state # "none" /\ row[i].kind = "alloc" => row[i].rec \in Receivables
    /\ lock \in [Receivables -> Txs \cup {NoTx}]
    /\ DOMAIN tx = Txs

IInv ==
    /\ TablesOK
    /\ \A t \in Txs : TxOK(t)
    /\ \A t, u \in Txs : t # u => DOMAIN tx[t].wrote \cap DOMAIN tx[u].wrote = {}
    /\ BalanceIntegrity

\* Rows that differ only off c have the same sum on c.
LEMMA SumKeeps ==
    ASSUME NEW a, NEW b, NEW c, DOMAIN a = DOMAIN b,
           \A i \in DOMAIN a : a[i] = b[i] \/ (  (a[i].state = "active" => ~To(a[i], c))
                                               /\ (b[i].state = "active" => ~To(b[i], c)))
    PROVE  SumOnReceivable(a, c) = SumOnReceivable(b, c)
<1> DEFINE SA == {i \in Active(a, "alloc") : a[i].rec = c}
           SB == {i \in Active(b, "alloc") : b[i].rec = c}
<1>1. SA = SB /\ \A i \in SA : a[i] = b[i]
  BY DEF Active, To
<1>2. [i \in SA |-> a[i].amount] = [i \in SB |-> b[i].amount]
  BY <1>1
<1> QED BY <1>2 DEF SumOnReceivable, SumOf


\* The sum over no row.
LEMMA EmptySum == ASSUME NEW f, DOMAIN f = {} PROVE SumFunction(f) = 0
<1> DEFINE Eq(g) == g = [s \in SUBSET {} |-> IF s = {} THEN 0
                          ELSE LET x == CHOOSE x \in s : TRUE IN f[x] + g[s \ {x}]]
           z == [s \in SUBSET {} |-> 0]
<1>1. Eq(z)
  OBVIOUS
<1>2. Eq(CHOOSE g : Eq(g))
  BY <1>1, Zenon
<1>3. (CHOOSE g : Eq(g))[{}] = 0
  BY <1>2, Zenon
<1> QED BY <1>3 DEF SumFunction, SumFunctionOnSet, FoldFunctionOnSet, MapThenFoldSet

\* Init: nothing is written and no sum is due.
LEMMA InitIInv == Init => IInv
<1> SUFFICES ASSUME Init PROVE IInv
  OBVIOUS
<1> USE CeilingsAssumption
<1>1. NoRow \in Row /\ NoRow.state = "none" /\ NoRow.kind = "alloc"
  BY DEF NoRow, Row
<1>2. TablesOK
  BY <1>1 DEF Init, TablesOK
<1>3. DOMAIN NoTxn = Fields /\ NoTxn.pc = "idle" /\ NoTxn.ops \in 0 .. MaxOps /\ DOMAIN NoTxn.wrote = {} /\ DOMAIN NoTxn.applied = {}
  BY DEF NoTxn, Fields
<1>4. ASSUME NEW t \in Txs PROVE tx[t] = NoTxn
  BY DEF Init
<1>5. ASSUME NEW t \in Txs PROVE TxOK(t)
  <2>1. \A c \in Receivables : lock[c] # t
    BY DEF Init
  <2> QED BY <1>3, <1>4, <2>1 DEF TxOK
<1>6. BalanceIntegrity
  <2> SUFFICES ASSUME NEW c \in Receivables PROVE applied[c] = SumOnReceivable(row, c) /\ applied[c] <= Original[c]
    BY DEF BalanceIntegrity
  <2> DEFINE S == {i \in Active(row, "alloc") : row[i].rec = c}
  <2>1. S = {}
    BY <1>1 DEF Init, Active
  <2>2. DOMAIN [i \in S |-> row[i].amount] = {}
    BY <2>1
  <2>3. SumOnReceivable(row, c) = 0
    BY <2>2, EmptySum, Zenon DEF SumOnReceivable, SumOf
  <2> QED BY <2>3 DEF Init
<1> QED BY <1>2, <1>3, <1>4, <1>5, <1>6 DEF IInv

\* A step of t that commits nothing and leaves the others' locks alone keeps
\* what holds of them.
LEMMA OthersKeep ==
    ASSUME IInv, NEW t \in Txs, NEW u \in Txs, u # t, tx'[u] = tx[u], UNCHANGED <<row, applied>>,
           \A c \in Receivables : lock'[c] = u <=> lock[c] = u
    PROVE  TxOK(u)'
<1>1. TxOK(u) /\ tx[u].applied = tx'[u].applied
  BY DEF IInv
<1>2. check_r1(u) => check_r1(u)'
  <2>1. View(u)' = View(u) /\ tx'[u].wrote = tx[u].wrote
    BY DEF View, Overlay
  <2>2. Overlay(tx[u].applied, applied)' = Overlay(tx[u].applied, applied)
    BY DEF Overlay
  <2> QED BY <2>1, <2>2, SMTT(30) DEF check_r1, SumOnReceivable
<1>3. \A i \in DOMAIN tx[u].wrote : Writes(tx[u].wrote[i], i)'
  BY <1>1 DEF TxOK, Writes
<1>4. \A i \in DOMAIN tx[u].wrote : tx[u].wrote[i].kind = "alloc" => tx[u].wrote[i].rec \in Receivables
  BY <1>1, Zenon DEF TxOK, Writes
<1> QED BY <1>1, <1>2, <1>3, <1>4 DEF TxOK

\* One transaction moves and commits nothing: it is enough to see to its own state.
LEMMA TxMoves ==
    ASSUME IInv, NEW t \in Txs, NEW q, tx' = [tx EXCEPT ![t] = q], UNCHANGED <<row, applied>>,
           lock' \in [Receivables -> Txs \cup {NoTx}],
           \A u \in Txs \ {t} : \A c \in Receivables : lock'[c] = u <=> lock[c] = u,
           TxOK(t)',
           \A u \in Txs \ {t} : DOMAIN q.wrote \cap DOMAIN tx[u].wrote = {}
    PROVE  IInv'
<1>1. DOMAIN tx' = Txs /\ tx'[t] = q /\ \A u \in Txs \ {t} : tx'[u] = tx[u]
  BY DEF IInv, TablesOK
<1>2. \A u \in Txs : TxOK(u)'
  BY <1>1, OthersKeep
<1>3. TablesOK'
  BY <1>1 DEF IInv, TablesOK
<1>4. BalanceIntegrity'
  BY DEF IInv, BalanceIntegrity, SumOnReceivable
<1>5. \A v, u \in Txs : v # u => DOMAIN tx'[v].wrote \cap DOMAIN tx'[u].wrote = {}
  <2> SUFFICES ASSUME NEW v \in Txs, NEW u \in Txs, v # u PROVE DOMAIN tx'[v].wrote \cap DOMAIN tx'[u].wrote = {}
    OBVIOUS
  <2>1. CASE v = t
    BY <1>1, <2>1
  <2>2. CASE u = t
    BY <1>1, <2>2
  <2>3. CASE v # t /\ u # t
    BY <1>1, <2>3 DEF IInv
  <2> QED BY <2>1, <2>2, <2>3
<1> QED BY <1>2, <1>3, <1>4, <1>5 DEF IInv

\* Rollback: the transaction is idle again and holds no lock.
LEMMA AbortKeeps == ASSUME IInv, NEW t \in Txs, Abort(t) PROVE IInv'
<1> USE CeilingsAssumption
<1>1. DOMAIN NoTxn = Fields /\ NoTxn.pc = "idle" /\ NoTxn.ops \in 0 .. MaxOps /\ DOMAIN NoTxn.wrote = {} /\ DOMAIN NoTxn.applied = {}
  BY DEF NoTxn, Fields
<1>2. lock' \in [Receivables -> Txs \cup {NoTx}] /\ (\A c \in Receivables : lock'[c] # t)
      /\ \A u \in Txs \ {t} : \A c \in Receivables : lock'[c] = u <=> lock[c] = u
  BY DEF Abort, IInv, TablesOK
<1>3. tx' = [tx EXCEPT ![t] = NoTxn] /\ UNCHANGED <<row, applied>> /\ tx'[t] = NoTxn
  BY DEF Abort, IInv, TablesOK
<1>4. TxOK(t)'
  BY <1>1, <1>2, <1>3 DEF TxOK
<1>5. \A u \in Txs \ {t} : DOMAIN NoTxn.wrote \cap DOMAIN tx[u].wrote = {}
  BY <1>1
<1>6. \A u \in Txs \ {t} : \A c \in Receivables : lock'[c] = u <=> lock[c] = u
  BY <1>2
<1>7. lock' \in [Receivables -> Txs \cup {NoTx}] /\ UNCHANGED <<row, applied>> /\ tx' = [tx EXCEPT ![t] = NoTxn]
  BY <1>2, <1>3
<1> QED BY <1>4, <1>5, <1>6, <1>7, TxMoves, Zenon

\* A row is written: it is the transaction's own, and the trigger's UPDATE is
\* under way when it is an allocation.
LEMMA WriteKeeps ==
    ASSUME IInv, NEW t \in Txs, NEW i \in Rows, NEW r, CanWrite(t), Untouched(i), Writes(r, i), Write(t, i, r)
    PROVE  IInv'
<1>1. PICK q : /\ tx' = [tx EXCEPT ![t] = q] /\ DOMAIN q = Fields
               /\ q.wrote = Update(tx[t].wrote, i, r) /\ q.pc = (IF r.kind = "alloc" THEN "sync" ELSE "run")
               /\ q.rec = r.rec /\ q.applied = tx[t].applied /\ q.ops = tx[t].ops + 1
  <2>0. t \in DOMAIN tx /\ DOMAIN tx[t] = Fields
    BY DEF IInv, TablesOK, TxOK
  <2>1. PICK x, y : y = tx[t].ops + 1
              /\ tx' = [tx EXCEPT ![t] = [@ EXCEPT !.wrote = Update(tx[t].wrote, i, r), !.ops = y,
                             !.pc = IF r.kind = "alloc" THEN "sync" ELSE "run", !.rec = r.rec, !.snap = x]]
    <3>1. tx' = [tx EXCEPT ![t] =
             [tx[t] EXCEPT !.wrote = Update(tx[t].wrote, i, r), !.ops = tx[t].ops + 1,
                           !.pc = IF r.kind = "alloc" THEN "sync" ELSE "run", !.rec = r.rec,
                           !.snap = IF r.kind = "alloc"
                                    THEN SumOnReceivable(Overlay(Update(tx[t].wrote, i, r), row), r.rec) ELSE 0]]
      BY <2>0 DEF Write, Fields
    <3> QED BY <3>1, Zenon
  <2> DEFINE q == [tx[t] EXCEPT !.wrote = Update(tx[t].wrote, i, r), !.ops = y,
                             !.pc = IF r.kind = "alloc" THEN "sync" ELSE "run", !.rec = r.rec, !.snap = x]
  <2>2. tx' = [tx EXCEPT ![t] = q]
    BY <2>0, <2>1
  <2>3. /\ DOMAIN q = Fields
        /\ q.wrote = Update(tx[t].wrote, i, r) /\ q.pc = (IF r.kind = "alloc" THEN "sync" ELSE "run")
        /\ q.rec = r.rec /\ q.applied = tx[t].applied /\ q.ops = tx[t].ops + 1
    BY <2>0, <2>1 DEF Fields
  <2> QED BY <2>2, <2>3, Zenon
<1>2. tx'[t] = q /\ UNCHANGED <<row, applied, lock>> /\ TxOK(t)
  BY <1>1 DEF Write, IInv, TablesOK
<1>3. i \notin DOMAIN tx[t].wrote /\ \A u \in Txs : i \notin DOMAIN tx[u].wrote
  BY DEF Untouched
<1>4. DOMAIN q.wrote = DOMAIN tx[t].wrote \cup {i} /\ q.wrote[i] = r
      /\ \A j \in DOMAIN tx[t].wrote : q.wrote[j] = tx[t].wrote[j]
  BY <1>1, <1>3, SMTT(20) DEF Update
<1>5. TxOK(t)'
  <2>1. \A j \in DOMAIN q.wrote : Writes(q.wrote[j], j)'
    BY <1>2, <1>4 DEF TxOK, Writes
  <2>2. r.kind = "alloc" => r.rec \in Receivables
    BY DEF Writes
  <2>3. \A j \in DOMAIN tx[t].wrote : tx[t].wrote[j].kind = "alloc" => lock[tx[t].wrote[j].rec] = t
    BY <1>2 DEF TxOK, CanWrite
  <2>4. \A j \in DOMAIN q.wrote : q.wrote[j].kind = "alloc" =>
          lock[q.wrote[j].rec] = t \/ (q.pc = "sync" /\ q.wrote[j].rec = q.rec)
    BY <1>1, <1>4, <2>3
  <2>5. q.pc = "sync" => q.rec \in Receivables /\ \E j \in DOMAIN q.wrote : To(q.wrote[j], q.rec)
    BY <1>1, <1>4, <2>2 DEF To
  <2>6. \A c \in Receivables : lock[c] = t => \E j \in DOMAIN q.wrote : To(q.wrote[j], c)
    BY <1>2, <1>4 DEF TxOK
  <2>7. DOMAIN q.wrote \subseteq Rows /\ DOMAIN q.applied = {c \in Receivables : lock[c] = t} /\ q.pc # "commit"
    BY <1>1, <1>2, <1>4 DEF TxOK
  <2>8. q.ops \in 0 .. MaxOps /\ q.pc \in {"idle", "run", "sync", "commit"}
    BY <1>1, <1>2, CeilingsAssumption DEF TxOK, CanWrite
  <2> QED BY <1>1, <1>2, <2>1, <2>4, <2>5, <2>6, <2>7, <2>8 DEF TxOK
<1>6. \A u \in Txs \ {t} : DOMAIN q.wrote \cap DOMAIN tx[u].wrote = {}
  BY <1>3, <1>4 DEF IInv
<1>7. lock' \in [Receivables -> Txs \cup {NoTx}]
  BY <1>2 DEF IInv, TablesOK
<1> QED BY <1>1, <1>2, <1>5, <1>6, <1>7, TxMoves, Zenon

\* The trigger takes the receivable's lock; nobody else held it.
LEMMA SyncKeeps == ASSUME IInv, NEW t \in Txs, SyncReceivable(t) PROVE IInv'
<1> USE CeilingsAssumption
<1> DEFINE c == tx[t].rec
<1>1. CASE Abort(t)
  BY <1>1, AbortKeeps
<1>2. CASE ~Abort(t)
  <2>1. PICK q : tx' = [tx EXCEPT ![t] = q] /\ DOMAIN q = Fields /\ q.wrote = tx[t].wrote /\ q.ops = tx[t].ops /\ q.pc = "run"
                 /\ q.applied = Update(tx[t].applied, c, tx[t].snap)
    <3>0. t \in DOMAIN tx /\ DOMAIN tx[t] = Fields
      BY DEF IInv, TablesOK, TxOK
    <3> DEFINE q == [tx[t] EXCEPT !.pc = "run", !.applied = Update(tx[t].applied, c, tx[t].snap)]
    <3>1. tx' = [tx EXCEPT ![t] = q]
      BY <1>2, <3>0 DEF SyncReceivable
    <3>2. DOMAIN q = Fields /\ q.wrote = tx[t].wrote /\ q.ops = tx[t].ops /\ q.pc = "run"
          /\ q.applied = Update(tx[t].applied, c, tx[t].snap)
      BY <3>0 DEF Fields
    <3> QED BY <3>1, <3>2, Zenon
  <2>2. tx[t].pc = "sync" /\ lock[c] \in {NoTx, t} /\ lock' = [lock EXCEPT ![c] = t] /\ UNCHANGED <<row, applied>>
    BY <1>2 DEF SyncReceivable
  <2>3. TxOK(t) /\ c \in Receivables /\ tx'[t] = q
    BY <2>1, <2>2 DEF IInv, TablesOK, TxOK
  <2>4. /\ lock' \in [Receivables -> Txs \cup {NoTx}] /\ lock'[c] = t
        /\ \A d \in Receivables : d # c => lock'[d] = lock[d]
    BY <2>2, <2>3, SMTT(20) DEF IInv, TablesOK
  <2>5. TxOK(t)'
    <3>1. \A i \in DOMAIN q.wrote : Writes(q.wrote[i], i)'
      BY <2>1, <2>2, <2>3 DEF TxOK, Writes
    <3>2. \A i \in DOMAIN q.wrote : q.wrote[i].kind = "alloc" => lock'[q.wrote[i].rec] = t
      <4> SUFFICES ASSUME NEW i \in DOMAIN q.wrote, q.wrote[i].kind = "alloc" PROVE lock'[q.wrote[i].rec] = t
        OBVIOUS
      <4>1. q.wrote[i].rec \in Receivables
        BY <2>1, <2>3, Zenon DEF TxOK, Writes
      <4>2. lock[q.wrote[i].rec] = t \/ q.wrote[i].rec = c
        BY <2>1, <2>3, Zenon DEF TxOK
      <4> QED BY <2>3, <2>4, <4>1, <4>2
    <3>3. DOMAIN q.applied = {d \in Receivables : lock'[d] = t}
      BY <2>1, <2>3, <2>4 DEF TxOK, Update
    <3>4. \A d \in Receivables : lock'[d] = t => \E i \in DOMAIN q.wrote : To(q.wrote[i], d)
      BY <2>1, <2>2, <2>3, <2>4 DEF TxOK
    <3> QED BY <2>1, <2>3, <3>1, <3>2, <3>3, <3>4 DEF TxOK
  <2>6. \A u \in Txs \ {t} : DOMAIN q.wrote \cap DOMAIN tx[u].wrote = {}
    BY <2>1 DEF IInv
  <2>7. \A u \in Txs \ {t} : \A d \in Receivables : lock'[d] = u <=> lock[d] = u
    BY <2>2, <2>4
  <2>8. tx' = [tx EXCEPT ![t] = q] /\ UNCHANGED <<row, applied>> /\ lock' \in [Receivables -> Txs \cup {NoTx}]
    BY <2>1, <2>2, <2>4
  <2> QED BY <2>5, <2>6, <2>7, <2>8, TxMoves, Zenon
<1> QED BY <1>1, <1>2

\* The deferred triggers: the transaction may commit, or is rolled back.
LEMMA TriggersKeep == ASSUME IInv, NEW t \in Txs, DeferredTriggers(t) PROVE IInv'
<1>1. CASE Abort(t)
  BY <1>1, AbortKeeps
<1>2. CASE ~Abort(t)
  <2>0. t \in DOMAIN tx /\ DOMAIN tx[t] = Fields /\ TxOK(t)
    BY DEF IInv, TablesOK, TxOK
  <2>1. PICK q : tx' = [tx EXCEPT ![t] = q] /\ DOMAIN q = Fields /\ q.wrote = tx[t].wrote /\ q.ops = tx[t].ops /\ q.pc = "commit"
                 /\ q.applied = tx[t].applied
    <3> DEFINE q == [tx[t] EXCEPT !.pc = "commit"]
    <3>1. tx' = [tx EXCEPT ![t] = q]
      BY <1>2, <2>0 DEF DeferredTriggers
    <3>2. DOMAIN q = Fields /\ q.wrote = tx[t].wrote /\ q.ops = tx[t].ops /\ q.pc = "commit" /\ q.applied = tx[t].applied
      BY <2>0 DEF Fields
    <3> QED BY <3>1, <3>2, Zenon
  <2>2. tx[t].pc = "run" /\ check_r1(t) /\ UNCHANGED <<row, applied, lock>> /\ tx'[t] = q
    BY <1>2, <2>0, <2>1 DEF DeferredTriggers
  <2>3. check_r1(t)'
    <3>1. View(t)' = View(t) /\ tx'[t].wrote = tx[t].wrote
      BY <2>1, <2>2 DEF View, Overlay
    <3>2. Overlay(tx[t].applied, applied)' = Overlay(tx[t].applied, applied)
      BY <2>1, <2>2 DEF Overlay
    <3> QED BY <2>2, <3>1, <3>2 DEF check_r1, SumOnReceivable
  <2>4. \A i \in DOMAIN q.wrote : Writes(q.wrote[i], i)'
    BY <2>0, <2>1, <2>2 DEF TxOK, Writes
  <2>5. TxOK(t)'
    BY <2>0, <2>1, <2>2, <2>3, <2>4 DEF TxOK
  <2>6. \A u \in Txs \ {t} : DOMAIN q.wrote \cap DOMAIN tx[u].wrote = {}
    BY <2>1 DEF IInv
  <2>7. tx' = [tx EXCEPT ![t] = q] /\ UNCHANGED <<row, applied>> /\ lock' \in [Receivables -> Txs \cup {NoTx}]
        /\ lock' = lock
    BY <2>1, <2>2 DEF IInv, TablesOK
  <2> QED BY <2>5, <2>6, <2>7, TxMoves, Zenon
<1> QED BY <1>1, <1>2

\* The commit: nobody else has written to a receivable t holds, so every sum is
\* the one t's check saw, or the one that was committed.
LEMMA CommitKeeps == ASSUME IInv, NEW t \in Txs, Commit(t) PROVE IInv'
<1> USE CeilingsAssumption
<1>1. TxOK(t) /\ TablesOK /\ tx[t].pc = "commit" /\ check_r1(t)
  BY DEF IInv, Commit, TxOK
<1>2. DOMAIN NoTxn = Fields /\ NoTxn.pc = "idle" /\ NoTxn.ops \in 0 .. MaxOps /\ DOMAIN NoTxn.wrote = {} /\ DOMAIN NoTxn.applied = {}
  BY DEF NoTxn, Fields
<1>3. DOMAIN tx' = Txs /\ tx'[t] = NoTxn /\ \A u \in Txs \ {t} : tx'[u] = tx[u]
  BY <1>1 DEF Commit, TablesOK
<1>4. /\ lock' \in [Receivables -> Txs \cup {NoTx}] /\ (\A c \in Receivables : lock'[c] # t)
      /\ \A u \in Txs \ {t} : \A c \in Receivables : lock'[c] = u <=> lock[c] = u
  BY <1>1 DEF Commit, TablesOK
<1>5. /\ DOMAIN row' = Rows /\ row' = [i \in Rows |-> row'[i]]
      /\ \A i \in Rows : row'[i] = IF i \in DOMAIN tx[t].wrote THEN tx[t].wrote[i] ELSE row[i]
  BY <1>1 DEF Commit, View, Overlay, TablesOK
<1>6. /\ DOMAIN applied' = Receivables /\ applied' = [c \in Receivables |-> applied'[c]]
      /\ \A c \in Receivables : applied'[c] = IF lock[c] = t THEN tx[t].applied[c] ELSE applied[c]
  BY <1>1 DEF Commit, Overlay, TablesOK, TxOK
<1>7. \A i \in DOMAIN tx[t].wrote : i \in Rows /\ Writes(tx[t].wrote[i], i)
  BY <1>1 DEF TxOK
<1>8. \A i \in DOMAIN tx[t].wrote : tx[t].wrote[i].kind = "alloc" => lock[tx[t].wrote[i].rec] = t
  BY <1>1 DEF TxOK
<1>9. \A i \in DOMAIN tx[t].wrote : \A c \in Receivables : lock[c] # t =>
         ~To(tx[t].wrote[i], c) /\ (row[i].state = "active" => ~To(row[i], c))
  <2> SUFFICES ASSUME NEW i \in DOMAIN tx[t].wrote, NEW c \in Receivables, lock[c] # t
               PROVE  ~To(tx[t].wrote[i], c) /\ (row[i].state = "active" => ~To(row[i], c))
    OBVIOUS
  <2>1. ~To(tx[t].wrote[i], c)
    BY <1>8 DEF To
  <2>2. row[i] \in Row /\ Writes(tx[t].wrote[i], i)
    BY <1>1, <1>7 DEF TablesOK
  <2>3. row[i].state = "active" => tx[t].wrote[i].kind = row[i].kind /\ tx[t].wrote[i].rec = row[i].rec
    BY <2>2 DEF Writes, Row
  <2> QED BY <2>1, <2>3 DEF To
<1>10. TablesOK'
  <2>1. \A i \in Rows : row'[i] \in Row /\ (row'[i].state # "none" /\ row'[i].kind = "alloc" => row'[i].rec \in Receivables)
    <3>1. \A i \in DOMAIN tx[t].wrote : tx[t].wrote[i] \in Row /\ (tx[t].wrote[i].kind = "alloc" => tx[t].wrote[i].rec \in Receivables)
      BY <1>7, Zenon DEF Writes
    <3>2. \A i \in Rows : row[i] \in Row /\ (row[i].state # "none" /\ row[i].kind = "alloc" => row[i].rec \in Receivables)
      BY <1>1 DEF TablesOK
    <3> QED BY <1>5, <3>1, <3>2
  <2> QED BY <1>3, <1>4, <1>5, <1>6, <2>1 DEF TablesOK
<1>11. BalanceIntegrity'
  <2> SUFFICES ASSUME NEW c \in Receivables
               PROVE  applied'[c] = SumOnReceivable(row', c) /\ applied'[c] <= Original[c]
    BY DEF BalanceIntegrity
  <2>1. CASE lock[c] = t
    <3>1. PICK i \in DOMAIN tx[t].wrote : To(tx[t].wrote[i], c)
      BY <1>1, <2>1 DEF TxOK
    <3>2. SumOnReceivable(View(t), c) = Overlay(tx[t].applied, applied)[c] /\ SumOnReceivable(View(t), c) <= Original[c]
      BY <1>1, <3>1 DEF check_r1, To
    <3> QED BY <3>2 DEF Commit
  <2>2. CASE lock[c] # t
    <3>1. \A i \in DOMAIN row' : row'[i] = row[i] \/ (  (row'[i].state = "active" => ~To(row'[i], c))
                                                      /\ (row[i].state = "active" => ~To(row[i], c)))
      BY <1>5, <1>9, <2>2
    <3>2. DOMAIN row' = DOMAIN row
      BY <1>1, <1>5 DEF TablesOK
    <3>3. SumOnReceivable(row', c) = SumOnReceivable(row, c)
      BY <3>1, <3>2, SumKeeps, SMTT(20)
    <3> QED BY <1>6, <2>2, <3>3 DEF IInv, BalanceIntegrity
  <2> QED BY <2>1, <2>2
<1>12. ASSUME NEW u \in Txs, u # t PROVE TxOK(u)'
  <2>1. TxOK(u) /\ tx'[u] = tx[u] /\ DOMAIN tx[u].wrote \cap DOMAIN tx[t].wrote = {}
    BY <1>3, <1>12 DEF IInv
  <2>2. \A i \in DOMAIN tx[u].wrote : Writes(tx[u].wrote[i], i)' /\ row'[i] = row[i]
    <3>1. \A i \in DOMAIN tx[u].wrote : i \in Rows /\ Writes(tx[u].wrote[i], i)
      BY <2>1 DEF TxOK
    <3>2. \A i \in DOMAIN tx[u].wrote : row'[i] = row[i]
      BY <1>5, <2>1, <3>1
    <3> QED BY <2>1, <3>1, <3>2 DEF Writes
  <2>3. \A i \in DOMAIN tx[u].wrote : tx[u].wrote[i].kind = "alloc" => tx[u].wrote[i].rec \in Receivables
    BY <2>1, Zenon DEF TxOK, Writes
  <2>4. ASSUME tx[u].pc = "commit" PROVE check_r1(u)'
    <3> SUFFICES ASSUME NEW i \in DOMAIN tx[u].wrote, tx[u].wrote[i].kind = "alloc", NEW c, c = tx[u].wrote[i].rec
                 PROVE  /\ SumOnReceivable(View(u)', c) = Overlay(tx[u].applied, applied')[c]
                        /\ SumOnReceivable(View(u)', c) <= Original[c]
      BY <2>1 DEF check_r1
    <3>1. c \in Receivables /\ lock[c] = u /\ lock[c] # t /\ c \in DOMAIN tx[u].applied
      BY <1>12, <2>1, <2>3, <2>4 DEF TxOK
    <3>2. Overlay(tx[u].applied, applied')[c] = Overlay(tx[u].applied, applied)[c]
      BY <1>1, <1>6, <3>1 DEF Overlay, TablesOK
    <3>3. SumOnReceivable(View(u)', c) = SumOnReceivable(View(u), c)
      <4> DEFINE a == View(u)'
                 b == View(u)
      <4>1. DOMAIN a = Rows /\ DOMAIN b = Rows
        BY <1>1, <1>5 DEF View, Overlay, TablesOK
      <4>2. \A j \in Rows : a[j] = (IF j \in DOMAIN tx[u].wrote THEN tx[u].wrote[j] ELSE row'[j])
                         /\ b[j] = (IF j \in DOMAIN tx[u].wrote THEN tx[u].wrote[j] ELSE row[j])
        BY <1>1, <1>5, <2>1 DEF View, Overlay, TablesOK
      <4> HIDE DEF a, b
      <4>3. \A j \in DOMAIN a : a[j] = b[j] \/ (  (a[j].state = "active" => ~To(a[j], c))
                                                /\ (b[j].state = "active" => ~To(b[j], c)))
        BY <1>5, <1>9, <3>1, <4>1, <4>2
      <4>4. SumOnReceivable(a, c) = SumOnReceivable(b, c)
        BY <4>1, <4>3, SumKeeps, SMTT(20)
      <4> QED BY <4>4 DEF a, b
    <3>4. /\ SumOnReceivable(View(u), c) = Overlay(tx[u].applied, applied)[c]
          /\ SumOnReceivable(View(u), c) <= Original[c]
      <4>1. check_r1(u)
        BY <2>1, <2>4 DEF TxOK
      <4> QED BY <2>1, <2>4, <4>1 DEF check_r1
    <3> QED BY <3>2, <3>3, <3>4
  <2>5. \A c \in Receivables : lock'[c] = u <=> lock[c] = u
    BY <1>4, <1>12
  <2>6. /\ DOMAIN tx[u].applied = {c \in Receivables : lock'[c] = u}
        /\ \A c \in Receivables : lock'[c] = u => \E i \in DOMAIN tx[u].wrote : To(tx[u].wrote[i], c)
    BY <2>1, <2>5 DEF TxOK
  <2>7. \A i \in DOMAIN tx[u].wrote : tx[u].wrote[i].kind = "alloc" =>
           \/ lock'[tx[u].wrote[i].rec] = u
           \/ tx[u].pc = "sync" /\ tx[u].wrote[i].rec = tx[u].rec
    BY <2>1, <2>3, <2>5 DEF TxOK
  <2>8. /\ DOMAIN tx[u] = Fields /\ tx[u].pc \in {"idle", "run", "sync", "commit"} /\ tx[u].ops \in 0 .. MaxOps
        /\ DOMAIN tx[u].wrote \subseteq Rows
        /\ tx[u].pc = "sync" => tx[u].rec \in Receivables /\ \E i \in DOMAIN tx[u].wrote : To(tx[u].wrote[i], tx[u].rec)
    BY <2>1, Zenon DEF TxOK
  <2>9. tx'[u] = tx[u]
    BY <2>1
  <2> QED BY <2>2, <2>4, <2>6, <2>7, <2>8, <2>9, Zenon DEF TxOK
<1>13. TxOK(t)'
  BY <1>2, <1>3, <1>4 DEF TxOK
<1>14. \A v, u \in Txs : v # u => DOMAIN tx'[v].wrote \cap DOMAIN tx'[u].wrote = {}
  <2> SUFFICES ASSUME NEW v \in Txs, NEW u \in Txs, v # u PROVE DOMAIN tx'[v].wrote \cap DOMAIN tx'[u].wrote = {}
    OBVIOUS
  <2>1. CASE v = t
    BY <1>2, <1>3, <2>1
  <2>2. CASE u = t
    BY <1>2, <1>3, <2>2
  <2>3. CASE v # t /\ u # t
    BY <1>3, <2>3 DEF IInv
  <2> QED BY <2>1, <2>2, <2>3
<1> QED BY <1>10, <1>11, <1>12, <1>13, <1>14, SMTT(20) DEF IInv

\* The rows the statements write are new rows, or reversals of active allocations.
LEMMA RowsWritten ==
    ASSUME IInv, NEW i \in Rows
    PROVE  /\ \A c \in Receivables, m \in Amounts : row[i].state = "none" =>
                 Writes([state |-> "active", kind |-> "alloc", rec |-> c, amount |-> m], i)
           /\ \A m \in Amounts : row[i].state = "none" =>
                 Writes([state |-> "active", kind |-> "refund", rec |-> NoRec, amount |-> m], i)
           /\ row[i].kind = "alloc" /\ row[i].state = "active" => Writes([row[i] EXCEPT !.state = "reversed"], i)
<1>1. row[i] \in Row /\ (row[i].state = "active" /\ row[i].kind = "alloc" => row[i].rec \in Receivables)
  BY DEF IInv, TablesOK
<1>2. ASSUME NEW c \in Receivables, NEW m \in Amounts, row[i].state = "none"
      PROVE  Writes([state |-> "active", kind |-> "alloc", rec |-> c, amount |-> m], i)
  BY <1>2 DEF Writes, Row
<1>3. ASSUME NEW m \in Amounts, row[i].state = "none"
      PROVE  Writes([state |-> "active", kind |-> "refund", rec |-> NoRec, amount |-> m], i)
  BY <1>3 DEF Writes, Row
<1>4. ASSUME row[i].kind = "alloc", row[i].state = "active" PROVE Writes([row[i] EXCEPT !.state = "reversed"], i)
  <2> DEFINE r == [row[i] EXCEPT !.state = "reversed"]
  <2>1. r \in Row /\ r.state = "reversed" /\ r.kind = row[i].kind /\ r.rec = row[i].rec
    BY <1>1 DEF Row
  <2> QED BY <1>1, <1>4, <2>1 DEF Writes
<1> QED BY <1>2, <1>3, <1>4

\* One step per action.
LEMMA NextIInv == IInv /\ [Next]_vars => IInv'
<1> SUFFICES ASSUME IInv, [Next]_vars PROVE IInv'
  OBVIOUS
<1>1. ASSUME NEW t \in Txs, NEW i \in Rows, NEW c \in Receivables, NEW m \in Amounts, Allocate(t, i, c, m) PROVE IInv'
  <2>1. Writes([state |-> "active", kind |-> "alloc", rec |-> c, amount |-> m], i)
    BY <1>1, RowsWritten, Zenon DEF Allocate
  <2> QED BY <1>1, <2>1, WriteKeeps DEF Allocate
<1>2. ASSUME NEW t \in Txs, NEW i \in Rows, NEW m \in Amounts, RefundReservation(t, i, m) PROVE IInv'
  <2>1. Writes([state |-> "active", kind |-> "refund", rec |-> NoRec, amount |-> m], i)
    BY <1>2, RowsWritten, Zenon DEF RefundReservation
  <2> QED BY <1>2, <2>1, WriteKeeps DEF RefundReservation
<1>3. ASSUME NEW t \in Txs, NEW i \in Rows, ReverseAllocation(t, i) PROVE IInv'
  <2>1. Writes([row[i] EXCEPT !.state = "reversed"], i)
    BY <1>3, RowsWritten DEF ReverseAllocation
  <2> QED BY <1>3, <2>1, WriteKeeps DEF ReverseAllocation
<1>4. ASSUME NEW t \in Txs, SyncReceivable(t) \/ DeferredTriggers(t) \/ Commit(t) \/ Rollback(t) PROVE IInv'
  BY <1>4, SyncKeeps, TriggersKeep, CommitKeeps, AbortKeeps DEF Rollback
<1>5. ASSUME UNCHANGED vars PROVE IInv'
  <2>1. UNCHANGED row /\ UNCHANGED applied /\ UNCHANGED lock /\ UNCHANGED tx
    BY <1>5, SMTT(20) DEF vars
  <2>2. ASSUME NEW u \in Txs PROVE check_r1(u)' <=> check_r1(u)
    <3>1. View(u)' = View(u) /\ tx'[u] = tx[u]
      BY <2>1 DEF View, Overlay
    <3>2. Overlay(tx[u].applied, applied)' = Overlay(tx[u].applied, applied)
      BY <2>1 DEF Overlay
    <3> QED BY <3>1, <3>2 DEF check_r1, SumOnReceivable
  <2>3. \A u \in Txs : TxOK(u)'
    BY <2>1, <2>2 DEF IInv, TxOK, Writes
  <2>4. TablesOK'
    BY <2>1 DEF IInv, TablesOK
  <2>5. BalanceIntegrity'
    BY <2>1 DEF IInv, BalanceIntegrity, SumOnReceivable
  <2> QED BY <2>1, <2>3, <2>4, <2>5 DEF IInv
<1> QED BY <1>1, <1>2, <1>3, <1>4, <1>5 DEF Next

\* Only a commit changes the committed rows.
LEMMA OnlyCommitsWrite == ASSUME Next, row' # row PROVE \E t \in Txs : Commit(t)
<1>1. ASSUME NEW t \in Txs, NEW i \in Rows, NEW m \in Amounts,
             RefundReservation(t, i, m) \/ \E c \in Receivables : Allocate(t, i, c, m)
      PROVE  row' = row
  BY <1>1, Zenon DEF RefundReservation, Allocate, Write
<1>2. ASSUME NEW t \in Txs, NEW i \in Rows, ReverseAllocation(t, i) PROVE row' = row
  BY <1>2 DEF ReverseAllocation, Write
<1>3. ASSUME NEW t \in Txs, SyncReceivable(t) \/ DeferredTriggers(t) \/ Rollback(t) PROVE row' = row
  BY <1>3 DEF SyncReceivable, DeferredTriggers, Rollback, Abort
<1> QED BY <1>1, <1>2, <1>3, SMTT(20) DEF Next

(* R1 for any transactions, rows and amounts: what a receivable's stored     *)
(* applied_minor says is what its active rows add up to, within the original *)
(* amount, although the trigger may sum what is stale by the time it writes. *)
THEOREM BalancesAddUp == Spec => []BalanceIntegrity
<1>1. IInv => BalanceIntegrity
  BY DEF IInv
<1> QED BY <1>1, InitIInv, NextIInv, PTL DEF Spec

(* R3 for any transactions and rows: a committed row never changes but for   *)
(* its one reversal, and never disappears.                                   *)
THEOREM PostingsAreAppendOnly == Spec => AppendOnly
<1>1. IInv /\ [Next]_vars => [\A i \in Rows : row'[i] # row[i] =>
          \/ row[i].state = "none"
          \/ row[i].state = "active" /\ row'[i] = [row[i] EXCEPT !.state = "reversed"]]_vars
  <2> SUFFICES ASSUME IInv, Next, NEW i \in Rows, row'[i] # row[i]
               PROVE  \/ row[i].state = "none"
                      \/ row[i].state = "active" /\ row'[i] = [row[i] EXCEPT !.state = "reversed"]
    BY DEF vars
  <2>1. PICK t \in Txs : Commit(t)
    BY OnlyCommitsWrite
  <2>2. i \in DOMAIN tx[t].wrote /\ row'[i] = tx[t].wrote[i]
    BY <2>1, SMTT(20) DEF Commit, View, Overlay, IInv, TablesOK
  <2>3. Writes(tx[t].wrote[i], i)
    BY <2>2 DEF IInv, TxOK
  <2> QED BY <2>2, <2>3 DEF Writes
<1> QED BY <1>1, InitIInv, NextIInv, PTL DEF Spec, AppendOnly

\* The rows' amounts, as a function on a finite set.
LEMMA AmountsAreNat ==
    ASSUME NEW a \in [Rows -> Row], NEW S \in SUBSET Rows
    PROVE  IsFiniteSet(S) /\ [i \in S |-> a[i].amount] \in [S -> Nat]
<1>1. IsFiniteSet(S)
  BY CeilingsAssumption, FS_Subset
<1>2. \A i \in S : a[i].amount \in Nat
  <2>1. \A i \in S : a[i].amount \in {0} \cup Amounts
    BY DEF Row
  <2>2. {0} \cup Amounts \subseteq Nat
    BY CeilingsAssumption
  <2> QED BY <2>1, <2>2, Zenon
<1>3. [i \in S |-> a[i].amount] \in [S -> Nat]
  BY <1>2, Zenon
<1> QED BY <1>1, <1>3

(* Type correctness for every value of the constants: amounts stay natural   *)
(* numbers, and a receivable's lock is held exactly by the transaction that  *)
(* has written its amount.                                                   *)
THEOREM CeilingsTypeOK == Spec => []TypeOK
<1>1. IInv => TypeOK
  <2> SUFFICES ASSUME IInv PROVE TypeOK
    OBVIOUS
  <2>1. ASSUME NEW c \in Receivables PROVE applied[c] \in Nat
    <3> DEFINE S == {i \in Active(row, "alloc") : row[i].rec = c}
               f == [i \in S |-> row[i].amount]
    <3>1. row \in [Rows -> Row] /\ S \in SUBSET Rows
      BY DEF IInv, TablesOK, Active
    <3>2. IsFiniteSet(S) /\ f \in [S -> Nat]
      BY <3>1, AmountsAreNat
    <3>3. SumFunction(f) \in Nat
      <4> HIDE DEF S, f
      <4> QED BY <3>2, SumFacts
    <3> QED BY <3>3 DEF IInv, BalanceIntegrity, SumOnReceivable, SumOf
  <2>2. applied \in [Receivables -> Nat]
    BY <2>1 DEF IInv, TablesOK
  <2>3. ASSUME NEW t \in Txs
        PROVE  /\ tx[t].pc \in {"idle", "run", "sync", "commit"} /\ tx[t].ops \in 0 .. MaxOps
               /\ DOMAIN tx[t].applied = {c \in Receivables : lock[c] = t}
               /\ \A i \in DOMAIN tx[t].wrote : tx[t].wrote[i] \in Row
    BY Zenon DEF IInv, TxOK, Writes
  <2> QED BY <2>2, <2>3 DEF IInv, TablesOK, TypeOK
<1> QED BY <1>1, InitIInv, NextIInv, PTL DEF Spec

-----------------------------------------------------------------------------
\* Transactions that do not overlap: at most one runs, and what its deferred
\* checks saw is what it commits.
SInv ==
    /\ IInv /\ NoOverAllocation /\ RefundCeiling
    /\ \A t, u \in Txs : tx[t].pc # "idle" /\ tx[u].pc # "idle" => t = u
    /\ \A t \in Txs : tx[t].pc = "commit" => check_r2(t) /\ check_r6(t)

\* Rows that differ only off a kind have the same sum of that kind.
LEMMA KindKeeps ==
    ASSUME NEW a, NEW b, NEW k, DOMAIN a = DOMAIN b,
           \A i \in DOMAIN a : a[i] = b[i] \/ (  (a[i].state = "active" => a[i].kind # k)
                                               /\ (b[i].state = "active" => b[i].kind # k))
    PROVE  SumOf(a, Active(a, k)) = SumOf(b, Active(b, k))
<1>1. Active(a, k) = Active(b, k) /\ \A i \in Active(a, k) : a[i] = b[i]
  BY DEF Active
<1>2. [i \in Active(a, k) |-> a[i].amount] = [i \in Active(b, k) |-> b[i].amount]
  BY <1>1
<1> QED BY <1>2 DEF SumOf

\* The refunds alone are no more than the refunds and the allocations.
LEMMA RefundsWithinAll ==
    ASSUME NEW a \in [Rows -> Row]
    PROVE  /\ SumOf(a, Active(a, "refund")) \in Nat /\ CommittedAgainstPayment(a) \in Nat
           /\ SumOf(a, Active(a, "refund")) <= CommittedAgainstPayment(a)
<1> DEFINE S == Active(a, "alloc") \cup Active(a, "refund")
           T == Active(a, "refund")
           f == [i \in S |-> a[i].amount]
<1>1. S \in SUBSET Rows /\ T \in SUBSET S
  BY DEF Active
<1>2. IsFiniteSet(S) /\ f \in [S -> Nat]
  BY <1>1, AmountsAreNat, SMTT(20)
<1>3. [i \in T |-> f[i]] = [i \in T |-> a[i].amount]
  BY <1>1
<1>4. SumFunction(f) \in Nat /\ SumFunction([i \in T |-> f[i]]) \in Nat /\ SumFunction([i \in T |-> f[i]]) <= SumFunction(f)
  <2> HIDE DEF S, T, f
  <2> QED BY <1>1, <1>2, SumFacts, SMTT(20)
<1> QED BY <1>3, <1>4 DEF SumOf, CommittedAgainstPayment

\* The steps of one transaction.
StepOf(t) ==
    \/ \E i \in Rows, m \in Amounts : RefundReservation(t, i, m) \/ \E c \in Receivables : Allocate(t, i, c, m)
    \/ \E i \in Rows : ReverseAllocation(t, i)
    \/ SyncReceivable(t) \/ DeferredTriggers(t) \/ Commit(t) \/ Rollback(t)

\* A transaction that takes a step runs before or after it.
LEMMA StepsRun ==
    ASSUME IInv, NEW t \in Txs, StepOf(t)
    PROVE  /\ tx[t].pc # "idle" \/ tx'[t].pc # "idle"
           /\ \A u \in Txs \ {t} : tx'[u] = tx[u]
           /\ tx'[t].pc = "commit" => DeferredTriggers(t)
<1>0. t \in DOMAIN tx /\ DOMAIN tx[t] = Fields /\ DOMAIN tx = Txs
  BY DEF IInv, TablesOK, TxOK
<1>1. ASSUME NEW i, NEW r, Write(t, i, r)
      PROVE  tx'[t].pc \in {"sync", "run"} /\ \A u \in Txs \ {t} : tx'[u] = tx[u]
  BY <1>0, <1>1 DEF Write, Fields
<1>2. ASSUME Abort(t) PROVE tx'[t].pc = "idle" /\ \A u \in Txs \ {t} : tx'[u] = tx[u]
  BY <1>0, <1>2 DEF Abort, NoTxn
<1>3. CASE SyncReceivable(t)
  BY <1>0, <1>2, <1>3, Zenon DEF SyncReceivable, Fields
<1>4. CASE DeferredTriggers(t)
  BY <1>0, <1>2, <1>4 DEF DeferredTriggers, Fields
<1>5. CASE Commit(t)
  BY <1>0, <1>5 DEF Commit, NoTxn
<1>6. CASE Rollback(t)
  BY <1>2, <1>6 DEF Rollback
<1>7. ASSUME NEW i \in Rows, NEW m \in Amounts, RefundReservation(t, i, m) \/ \E c \in Receivables : Allocate(t, i, c, m)
      PROVE  tx'[t].pc \in {"sync", "run"} /\ \A u \in Txs \ {t} : tx'[u] = tx[u]
  BY <1>1, <1>7, Zenon DEF RefundReservation, Allocate
<1>8. ASSUME NEW i \in Rows, ReverseAllocation(t, i)
      PROVE  tx'[t].pc \in {"sync", "run"} /\ \A u \in Txs \ {t} : tx'[u] = tx[u]
  BY <1>1, <1>8 DEF ReverseAllocation
<1>9. CASE \E i \in Rows, m \in Amounts : RefundReservation(t, i, m) \/ \E c \in Receivables : Allocate(t, i, c, m)
  BY <1>7, <1>9
<1>10. CASE \E i \in Rows : ReverseAllocation(t, i)
  BY <1>8, <1>10
<1> QED BY <1>3, <1>4, <1>5, <1>6, <1>9, <1>10, Zenon DEF StepOf

\* A commit after its own checks keeps the two ceilings of the payment.
LEMMA CommitFits ==
    ASSUME SInv, NEW t \in Txs, Commit(t)
    PROVE  NoOverAllocation' /\ RefundCeiling'
<1> DEFINE v == View(t)
           w == tx[t].wrote
<1>1. TxOK(t) /\ TablesOK /\ check_r2(t) /\ check_r6(t) /\ row' = v
  BY DEF SInv, IInv, Commit
<1>2. DOMAIN v = Rows /\ DOMAIN row = Rows /\ \A i \in Rows : v[i] = IF i \in DOMAIN w THEN w[i] ELSE row[i]
  BY <1>1 DEF View, Overlay, TablesOK
<1>3. \A i \in DOMAIN w : i \in Rows /\ w[i] \in Row
      /\ (row[i].state = "active" => row[i].kind = "alloc" /\ w[i].kind = "alloc")
  <2> SUFFICES ASSUME NEW i \in DOMAIN w
               PROVE  i \in Rows /\ w[i] \in Row /\ (row[i].state = "active" => row[i].kind = "alloc" /\ w[i].kind = "alloc")
    OBVIOUS
  <2>1. i \in Rows /\ Writes(w[i], i) /\ row[i] \in Row
    BY <1>1 DEF TxOK, TablesOK
  <2> QED BY <2>1 DEF Writes, Row
<1>4. v \in [Rows -> Row]
  <2>1. \A i \in Rows : v[i] \in Row
    BY <1>1, <1>2, <1>3 DEF TablesOK
  <2>2. v = [i \in Rows |-> v[i]]
    BY <1>1 DEF View, Overlay, TablesOK
  <2> QED BY <2>1, <2>2, Zenon
<1>5. \A i \in DOMAIN w : w[i].kind \in {"alloc", "refund"}
  BY <1>3 DEF Row
<1>6. ASSUME \A i \in DOMAIN w : w[i].kind = "refund" PROVE SumOf(v, Active(v, "alloc")) = SumOf(row, Active(row, "alloc"))
  <2> HIDE DEF v, w
  <2>1. \A i \in DOMAIN v : v[i] = row[i] \/ (  (v[i].state = "active" => v[i].kind # "alloc")
                                               /\ (row[i].state = "active" => row[i].kind # "alloc"))
    BY <1>2, <1>3, <1>6
  <2> QED BY <1>2, <2>1, KindKeeps
<1>7. ASSUME \A i \in DOMAIN w : w[i].kind = "alloc" PROVE SumOf(v, Active(v, "refund")) = SumOf(row, Active(row, "refund"))
  <2> HIDE DEF v, w
  <2>1. \A i \in DOMAIN v : v[i] = row[i] \/ (  (v[i].state = "active" => v[i].kind # "refund")
                                               /\ (row[i].state = "active" => row[i].kind # "refund"))
    BY <1>2, <1>3, <1>7
  <2> QED BY <1>2, <2>1, KindKeeps
<1>8. SumOf(v, Active(v, "alloc")) <= Confirmed
  <2>1. CASE \E i \in DOMAIN w : w[i].kind = "alloc"
    BY <1>1, <2>1 DEF check_r2
  <2>2. CASE ~\E i \in DOMAIN w : w[i].kind = "alloc"
    BY <1>5, <1>6, <2>2 DEF SInv, NoOverAllocation
  <2> QED BY <2>1, <2>2
<1>9. SumOf(v, Active(v, "refund")) <= Confirmed
  <2>1. CASE \E i \in DOMAIN w : w[i].kind = "refund"
    <3>1. CommittedAgainstPayment(v) <= Confirmed
      BY <1>1, <2>1 DEF check_r6
    <3>2. /\ SumOf(v, Active(v, "refund")) \in Nat /\ CommittedAgainstPayment(v) \in Nat
          /\ SumOf(v, Active(v, "refund")) <= CommittedAgainstPayment(v)
      <4> HIDE DEF v
      <4> QED BY <1>4, RefundsWithinAll
    <3> QED BY <3>1, <3>2, CeilingsAssumption
  <2>2. CASE ~\E i \in DOMAIN w : w[i].kind = "refund"
    BY <1>5, <1>7, <2>2 DEF SInv, RefundCeiling
  <2> QED BY <2>1, <2>2
<1> QED BY <1>1, <1>8, <1>9 DEF NoOverAllocation, RefundCeiling

\* Every step of a serial execution.
LEMMA NextSInv == SInv /\ [Next /\ OneAtATime]_vars => SInv'
<1>1. ASSUME SInv, Next, OneAtATime PROVE SInv'
  <2>1. IInv /\ IInv'
    BY <1>1, NextIInv DEF SInv
  <2>2. PICK t \in Txs : StepOf(t)
    BY <1>1 DEF Next, StepOf
  <2>3. /\ tx[t].pc # "idle" \/ tx'[t].pc # "idle"
        /\ \A u \in Txs \ {t} : tx'[u] = tx[u]
        /\ tx'[t].pc = "commit" => DeferredTriggers(t)
    BY <2>1, <2>2, StepsRun
  <2>4. ASSUME NEW u \in Txs, tx'[u].pc = "commit" PROVE check_r2(u)' /\ check_r6(u)'
    <3>1. u = t
      BY <1>1, <2>3, <2>4 DEF SInv, OneAtATime
    <3>2. DeferredTriggers(t) /\ tx'[t].pc # "idle"
      BY <2>3, <2>4, <3>1
    <3>3. check_r2(t) /\ check_r6(t) /\ UNCHANGED row /\ tx' = [tx EXCEPT ![t].pc = "commit"]
      BY <2>1, <3>2 DEF DeferredTriggers, Abort, NoTxn, IInv, TablesOK
    <3>4. tx'[t].wrote = tx[t].wrote
      BY <2>1, <3>3 DEF IInv, TablesOK, TxOK, Fields
    <3>5. View(t)' = View(t)
      BY <3>3, <3>4 DEF View
    <3>6. check_r2(t)'
      BY <3>3, <3>4, <3>5 DEF check_r2
    <3>7. check_r6(t)'
      BY <3>3, <3>4, <3>5 DEF check_r6, CommittedAgainstPayment
    <3> QED BY <3>1, <3>6, <3>7
  <2>5. NoOverAllocation' /\ RefundCeiling'
    <3>1. CASE row' = row
      BY <1>1, <3>1 DEF SInv, NoOverAllocation, RefundCeiling
    <3>2. CASE row' # row
      BY <1>1, <3>2, OnlyCommitsWrite, CommitFits
    <3> QED BY <3>1, <3>2
  <2> QED BY <1>1, <2>1, <2>4, <2>5 DEF SInv, OneAtATime
<1>2. ASSUME SInv, UNCHANGED vars PROVE SInv'
  <2>1. UNCHANGED row /\ UNCHANGED tx /\ IInv'
    BY <1>2, NextIInv DEF vars, SInv
  <2>2. \A t \in Txs : (check_r2(t) => check_r2(t)') /\ (check_r6(t) => check_r6(t)')
    BY <2>1 DEF check_r2, check_r6, View, CommittedAgainstPayment
  <2>3. NoOverAllocation' /\ RefundCeiling'
    BY <1>2, <2>1 DEF SInv, NoOverAllocation, RefundCeiling
  <2> QED BY <1>2, <2>1, <2>2, <2>3 DEF SInv
<1> QED BY <1>1, <1>2

\* The two ceilings of the payment hold before anything is posted.
LEMMA InitSInv == Init => SInv
<1> SUFFICES ASSUME Init PROVE SInv
  OBVIOUS
<1>1. ASSUME NEW k PROVE SumOf(row, Active(row, k)) = 0
  <2>1. Active(row, k) = {}
    BY DEF Init, Active, NoRow
  <2>2. DOMAIN [i \in Active(row, k) |-> row[i].amount] = {}
    BY <2>1
  <2> QED BY <2>2, EmptySum, Zenon DEF SumOf
<1>2. NoOverAllocation /\ RefundCeiling
  BY <1>1, CeilingsAssumption DEF NoOverAllocation, RefundCeiling
<1>3. \A t \in Txs : tx[t].pc = "idle"
  BY DEF Init, NoTxn
<1> QED BY <1>2, <1>3, InitIInv DEF SInv

(* R2 and R6 for any rows and amounts, when transactions do not overlap: the *)
(* active allocations of a payment, and its refunds, fit what it confirmed.  *)
THEOREM SerialCeilings == SerialSpec => [](NoOverAllocation /\ RefundCeiling)
<1>1. SInv => NoOverAllocation /\ RefundCeiling
  BY DEF SInv
<1> QED BY <1>1, InitSInv, NextSInv, PTL DEF SerialSpec
================================================================================
