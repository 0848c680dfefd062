------------------------------- MODULE FundsChain ------------------------------
(***************************************************************************)
(* The chain payment -> match -> allocations -> refund over the public     *)
(* functions of the lanes, wired as settleConfirmed of                     *)
(* src/adapters/daraja/simulator.ts wires them: a confirmed payment is     *)
(* matched, planned by the engine, and each row is reserved on the payment *)
(* and applied to its receivable; unmatched money parks on the customer    *)
(* and is allocated later.  Rows are reversed one at a time.               *)
(***************************************************************************)
EXTENDS MoneyLanes

CONSTANTS Ps,          \* payments
          Rs,          \* receivables, in the order of their due dates
          Original,    \* what each receivable is for
          Explains,    \* the receivables each payment's references name
          Customer,    \* where unmatched money parks
          Confirmable, \* the amounts a success callback may carry
          Refundable,  \* the amounts a refund may be reserved for
          MaxRows      \* bound: rows of the allocation log

VARIABLES payments, receivables,
          rows,       \* the allocation log
          matches     \* of each payment: "none", "matched" or "reversed"

vars == <<payments, receivables, rows, matches>>

Init ==
    /\ payments = [p \in Ps |-> initiated(0)]
    /\ receivables = [r \in Rs |-> [Absent EXCEPT !.state = "open", !.original = Original[r]]]
    /\ rows = <<>>
    /\ matches = [p \in Ps |-> "none"]

SetPayment(p, v) == payments' = [payments EXCEPT ![p] = v]

AwaitConfirmation(p) ==
    /\ mayAwaitConfirmation(payments[p])
    /\ SetPayment(p, awaitConfirmation(payments[p]))
    /\ UNCHANGED <<receivables, rows, matches>>

FailPayment(p) ==
    /\ mayFailPayment(payments[p])
    /\ SetPayment(p, failPayment(payments[p]))
    /\ UNCHANGED <<receivables, rows, matches>>

ReversePayment(p) ==
    /\ mayReversePayment(payments[p])
    /\ SetPayment(p, reversePayment(payments[p]))
    /\ UNCHANGED <<receivables, rows, matches>>

--------------------------------------------------------------------------------
(* The views the engine asks for: the debts that can still take money, each with its     *)
(* outstanding balance (AllocatableReceivable).                                          *)
ViewsOf(ids) ==
    LET live == {r \in ids : receivables[r].state \in LIVE}
    IN  [k \in 1..Cardinality(live) |->
            LET r == CHOOSE x \in live : Cardinality({y \in live : y < x}) = k - 1
            IN  [id |-> r, currency |-> "KES", balance |-> balanceOf(receivables[r]), due |-> r]]

(* The rows reserved on the payment in order, and applied to their receivables. *)
Reserved(payment, plan) ==
    FoldLeft(LAMBDA p, leg : recordAllocationReservation(p, leg.amount), payment, plan)

Applied(plan) ==
    [r \in Rs |-> LET legs == SelectSeq(plan, LAMBDA l : l.id = r)
                  IN  IF legs = <<>> THEN receivables[r]
                      ELSE applyAllocation(receivables[r], legs[1].amount)]

(* One execution against the payment as it stands; nothing of it happens if a leg throws. *)
Execute(p, payment, available, ids, strategy) ==
    LET plan == planWithStrategy(strategy, [amount |-> available, currency |-> "KES"], ViewsOf(ids), <<>>)
    IN  /\ plan.ok /\ Len(rows) + Len(plan.value) <= MaxRows
        /\ TotalOf(plan.value) <= available
        /\ plan.value # <<>> => mayRecordAllocationReservation(payment, TotalOf(plan.value))
        /\ rows' = rows \o executeAllocation(rows, p, plan.value)
        /\ SetPayment(p, Reserved(payment, plan.value))
        /\ receivables' = Applied(plan.value)

(* A success callback: the payment is confirmed and, when it is news, settled at once. *)
ConfirmPayment(p, amount) ==
    LET confirmed == confirmPayment(payments[p], amount)
    IN /\ mayConfirmPayment(payments[p], amount)
       /\ IF payments[p].state = "confirmed" THEN UNCHANGED vars
          ELSE IF Explains[p] = {}
          THEN SetPayment(p, identifyPayment(confirmed, Customer)) /\ UNCHANGED <<receivables, rows, matches>>
          ELSE /\ mayRecordMatch(confirmed)
               /\ Execute(p, confirmed, confirmed.confirmed, Explains[p], "fifo")
               /\ matches' = [matches EXCEPT ![p] = "matched"]

(* Unapplied money of a payment is allocated later, by the engine's default or pro-rata. *)
AllocateLater(p, strategy) ==
    /\ Landed(payments[p]) /\ unappliedMinorOf(payments[p]) > 0
    /\ Execute(p, payments[p], unappliedMinorOf(payments[p]), Rs, strategy)
    /\ UNCHANGED matches

ReverseAllocation(n) ==
    /\ mayReverse(rows[n]) /\ Len(rows) < MaxRows
    /\ rows' = reverseAllocation(rows, n)
    /\ UNCHANGED <<payments, receivables, matches>>

RecordRefundReservation(p, amount) ==
    /\ mayRecordRefundReservation(payments[p], amount)
    /\ SetPayment(p, recordRefundReservation(payments[p], amount))
    /\ UNCHANGED <<receivables, rows, matches>>

ReverseMatch(p) ==
    /\ matches[p] = "matched"
    /\ matches' = [matches EXCEPT ![p] = "reversed"]
    /\ UNCHANGED <<payments, receivables, rows>>

Next ==
    \/ \E p \in Ps :
          \/ AwaitConfirmation(p) \/ FailPayment(p) \/ ReversePayment(p) \/ ReverseMatch(p)
          \/ \E a \in Confirmable : ConfirmPayment(p, a)
          \/ \E s \in {"fifo", "pro_rata"} : AllocateLater(p, s)
          \/ \E a \in Refundable : RecordRefundReservation(p, a)
    \/ \E n \in DOMAIN rows : ReverseAllocation(n)

Spec == Init /\ [][Next]_vars

--------------------------------------------------------------------------------
OriginalRows(p) == SelectSeq(rows, LAMBDA r : r.source = p /\ r.reversalOf = 0)

TypeOK ==
    /\ Len(rows) <= MaxRows
    /\ \A p \in Ps : payments[p].state \in PaymentStates /\ matches[p] \in {"none", "matched", "reversed"}
    /\ \A r \in Rs : receivables[r].applied \in 0..receivables[r].original

(* R2 and R6 over the whole chain: what a payment's rows moved and what was refunded of  *)
(* it never exceed what landed, its state tells which, and money that was allocated is   *)
(* never reversed.                                                                       *)
NothingSpentTwice ==
    \A p \in Ps :
       LET pay == payments[p] IN
       /\ TotalOf(OriginalRows(p)) = pay.allocated
       /\ pay.allocated + pay.refunded <= pay.confirmed
       /\ pay.state \in {"initiated", "pending_confirmation", "failed", "confirmed", "unapplied", "reversed"}
             => pay.allocated = 0
       /\ pay.state = "allocated" => unappliedMinorOf(pay) = 0
       /\ pay.state = "partially_allocated" => pay.allocated > 0

(* Money that reached a receivable came from the rows: for every receivable, what was    *)
(* applied is the sum of the rows of all payments, reversed since or not.                *)
AppliedCameFromRows ==
    \A r \in Rs :
       receivables[r].applied = TotalOf(SelectSeq(rows, LAMBDA x : x.id = r /\ x.reversalOf = 0))

(* R3: a row is reversed exactly when one later row compensates it, a compensating row   *)
(* is never reversed, and rows of one source are numbered in the order they were made.   *)
ReversalsPairUp ==
    /\ \A n \in DOMAIN rows :
          /\ rows[n].reversalOf = 0 =>
                (rows[n].reversed <=> Cardinality({m \in DOMAIN rows : rows[m].reversalOf = n}) = 1)
          /\ rows[n].reversalOf # 0 => ~rows[n].reversed /\ rows[rows[n].reversalOf].amount = rows[n].amount
    /\ \A n, m \in DOMAIN rows :
          (n < m /\ rows[n].source = rows[m].source /\ rows[n].reversalOf = 0 /\ rows[m].reversalOf = 0)
             => rows[n].seq < rows[m].seq

(* The log only grows; the only field of a row that ever changes is its stamp, once.     *)
AppendOnly ==
    [][/\ Len(rows) <= Len(rows')
       /\ \A n \in DOMAIN rows : rows'[n] = rows[n] \/ (rows'[n] = [rows[n] EXCEPT !.reversed = TRUE]
                                                          /\ rows'[Len(rows')].reversalOf = n)]_vars

================================================================================
