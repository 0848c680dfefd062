----------------------------- MODULE MoneyLanes ------------------------------
(***************************************************************************)
(* The functions of the money lanes, as operators without state: the split *)
(* of an amount, the payment, the receivable and its invoice, the planning *)
(* of an allocation.  A function that may throw has a guard mayX, which    *)
(* holds where it does not throw, and X, what it returns.  Amounts are     *)
(* minor units.                                                            *)
(***************************************************************************)
EXTENDS Integers, Sequences, SequencesExt, Folds, FiniteSets

CONSTANTS Scale,      \* the precision of a scaled weight
          Den,        \* the denominator of the weights
          Nobody      \* no customer

(***************************************************************************)
(* The largest-remainder split of Money.Allocate (backend-go/pkg/money,    *)
(* src/domain/shared/money.ts).  A weight is the fraction n / Den; Scale   *)
(* stands for the 1e9 by which the code scales a float weight before it    *)
(* rounds it to an integer.                                                *)
(***************************************************************************)

Ok(v) == [ok |-> TRUE, value |-> v, code |-> "none"]
Err(code) == [ok |-> FALSE, value |-> 0, code |-> code]

SumOf(seq) == FoldSeq(LAMBDA x, y : x + y, 0, seq)

(* Math.round(w * 1e9) of the weight n / Den. *)
scaledWeight(n) == (2 * n * Scale + Den) \div (2 * Den)

(* Allocate that bumps the slots in index order. *)
BumpOrderByIndex(rem) == SetToSortSeq(DOMAIN rem, LAMBDA i, j : i < j)

BumpOrder(rem) ==
    SetToSortSeq(DOMAIN rem, LAMBDA i, j : rem[i] > rem[j] \/ (rem[i] = rem[j] /\ i < j))

AllocateParts(amount, weights) ==
    LET sumW == scaledWeight(SumOf(weights))
        base == [i \in DOMAIN weights |-> (amount * scaledWeight(weights[i])) \div sumW]
        rem == [i \in DOMAIN weights |-> (amount * scaledWeight(weights[i])) % sumW]
        leftover == amount - SumOf(base)
        bumped == {BumpOrder(rem)[i] : i \in {n \in DOMAIN weights : n <= leftover}}
    IN  [i \in DOMAIN weights |-> IF i \in bumped THEN base[i] + 1 ELSE base[i]]

Allocate(amount, weights) ==
    IF weights = <<>> THEN Err("ALLOCATION_EMPTY")
    ELSE IF SumOf(weights) <= 0 \/ scaledWeight(SumOf(weights)) = 0 THEN Err("ALLOCATION_WEIGHTS_SUM_ZERO")
    ELSE Ok(AllocateParts(amount, weights))

--------------------------------------------------------------------------------
(***************************************************************************)
(* The payment lane (src/domain/payments: payment.ts, reconciliation.ts).  *)
(* The append-only reservation rows are kept as their sums: allocated and  *)
(* refunded.                                                               *)
(***************************************************************************)

TERMINAL_STATES == {"failed", "reversed", "refunded"}
CONFIRMED_FAMILY ==
    {"confirmed", "partially_allocated", "allocated", "unapplied", "partially_refunded", "refunded"}
PaymentStates == {"initiated", "pending_confirmation"} \cup TERMINAL_STATES \cup CONFIRMED_FAMILY

(* A payment as intake creates it. *)
initiated(requested) ==
    [state |-> "initiated", requested |-> requested, confirmed |-> 0, allocated |-> 0, refunded |-> 0,
     customer |-> Nobody]

committedOf(p) == p.allocated + p.refunded

unappliedMinorOf(p) == IF committedOf(p) >= p.confirmed THEN 0 ELSE p.confirmed - committedOf(p)

--------------------------------------------------------------------------------
mayAwaitConfirmation(p) == p.state = "initiated"
awaitConfirmation(p) == [p EXCEPT !.state = "pending_confirmation"]

(* A replay of the amount already confirmed is accepted and changes nothing. *)
mayConfirmPayment(p, amount) ==
    p.state = "pending_confirmation" \/ (p.state = "confirmed" /\ amount = p.confirmed)
confirmPayment(p, amount) ==
    IF p.state = "confirmed" THEN p ELSE [p EXCEPT !.state = "confirmed", !.confirmed = amount]

(* A replay of a failure is accepted and changes nothing. *)
mayFailPayment(p) == p.state \in {"initiated", "pending_confirmation", "failed"}
failPayment(p) == [p EXCEPT !.state = "failed"]

mayReversePayment(p) == p.state = "confirmed"
reversePayment(p) == [p EXCEPT !.state = "reversed"]

identifyPayment(p, customer) == [p EXCEPT !.state = "unapplied", !.customer = customer]

Landed(p) == p.state \in CONFIRMED_FAMILY \ TERMINAL_STATES

mayRecordAllocationReservation(p, amount) ==
    amount > 0 /\ Landed(p) /\ committedOf(p) + amount <= p.confirmed
recordAllocationReservation(p, amount) ==
    [p EXCEPT !.allocated = @ + amount,
              !.state = IF committedOf(p) + amount = p.confirmed THEN "allocated" ELSE "partially_allocated"]

mayRecordRefundReservation(p, amount) ==
    amount > 0 /\ Landed(p) /\ committedOf(p) + amount <= p.confirmed
recordRefundReservation(p, amount) == [p EXCEPT !.refunded = @ + amount]

(* A match may be recorded of landed money; it points at the payment and moves nothing. *)
mayRecordMatch(p) == Landed(p)

--------------------------------------------------------------------------------
(***************************************************************************)
(* The receivable and its invoice (src/domain/receivables: receivable.ts,  *)
(* invoice.ts), in one currency, so that the CURRENCY_MISMATCH guards pass *)
(* here; reasons and approvers are given.                                  *)
(***************************************************************************)

LIVE == {"open", "partially_paid"}
TERMINAL == {"settled", "recovered", "uncollectible", "voided"}
ReceivableStates == {"absent", "draft", "written_off"} \cup LIVE \cup TERMINAL

(* Nobody's receivable: the id has not been used. *)
Absent == [state |-> "absent", original |-> 0, applied |-> 0, overdue |-> FALSE]

balanceOf(r) == r.original - r.applied

--------------------------------------------------------------------------------
(* The invoice: status, total and the id in its one receivable slot (0: none). *)

createInvoice == [status |-> "draft", total |-> 0, receivableId |-> 0]

mayAddInvoiceLine(inv, amount) == inv.status = "draft" /\ amount > 0
addInvoiceLine(inv, amount) == [inv EXCEPT !.total = @ + amount]

mayIssueInvoice(inv) == inv.status = "draft"
issueInvoice(inv) == [inv EXCEPT !.status = "issued"]

mayMarkInvoiceSent(inv) == inv.status = "issued"
markInvoiceSent(inv) == [inv EXCEPT !.status = "sent"]

mayVoidInvoice(inv) == inv.status \in {"issued", "sent"}
voidInvoice(inv) == [inv EXCEPT !.status = "voided"]

--------------------------------------------------------------------------------
(* Opening. *)

buildReceivable(inv, state) == [Absent EXCEPT !.state = state, !.original = inv.total]

mayDraftReceivableFor(inv) == inv.status = "draft" /\ inv.receivableId = 0
takeSlot(inv, id) == [inv EXCEPT !.receivableId = id]

(* paired: the draft that shares the invoice's slot is passed in, to be moved to open. *)
mayOpenReceivable(inv, id, r, paired) ==
    /\ inv.status = "issued" /\ inv.total > 0
    /\ IF paired THEN /\ r.state = "draft" /\ r.original = inv.total
                      /\ inv.receivableId \in {0, id}
                 ELSE inv.receivableId = 0

openReceivable(inv, r, paired) ==
    IF paired THEN [r EXCEPT !.state = "open"] ELSE buildReceivable(inv, "open")

--------------------------------------------------------------------------------
(* The life of the debt. *)

mayApplyAllocation(r, amount) ==
    amount > 0 /\ r.state \in LIVE \cup {"written_off"} /\ amount <= balanceOf(r)

applyAllocation(r, amount) ==
    LET applied == r.applied + amount
    IN  CASE r.state = "written_off" -> [r EXCEPT !.applied = applied, !.state = "recovered"]
          [] r.state # "written_off" /\ applied = r.original ->
                [r EXCEPT !.applied = applied, !.state = "settled", !.overdue = FALSE]
          [] OTHER -> [r EXCEPT !.applied = applied, !.state = "partially_paid"]

mayMarkOverdue(r, now, dueDate) == r.state \in LIVE /\ ~r.overdue /\ now > dueDate
markOverdue(r) == [r EXCEPT !.overdue = TRUE]

mayWriteOff(r) == r.state \in LIVE /\ r.overdue
writeOff(r) == [r EXCEPT !.state = "written_off"]

mayMarkUncollectible(r) == r.state \in LIVE /\ r.overdue
markUncollectible(r) == [r EXCEPT !.state = "uncollectible"]

mayVoidReceivable(r) == r.state = "open" /\ r.applied = 0
voidReceivable(r) == [r EXCEPT !.state = "voided", !.overdue = FALSE]

--------------------------------------------------------------------------------
(***************************************************************************)
(* The allocation lane (src/domain/allocation): the three strategies that  *)
(* plan a split, and the rows the engine appends and reverses.             *)
(*                                                                         *)
(* A view of a receivable is [id, currency, balance, due]; funds are       *)
(* [amount, currency].  A plan is a sequence of legs [id, amount] and the  *)
(* outcome of planning is Ok(plan) or the code the function throws.        *)
(***************************************************************************)

Leg(id, amount) == [id |-> id, amount |-> amount]
TotalOf(legs) == SumOf([i \in DOMAIN legs |-> legs[i].amount])

assertSingleCurrency(funds, views) == \A i \in DOMAIN views : views[i].currency = funds.currency

assertNoDuplicates(views) == \A i, j \in DOMAIN views : views[i].id = views[j].id => i = j

(* What a plan is refused for before any strategy looks at it. *)
Refusal(funds, views) ==
    IF ~assertSingleCurrency(funds, views) THEN "CURRENCY_MISMATCH"
    ELSE IF ~assertNoDuplicates(views) THEN "ALLOCATION_DUPLICATE_RECEIVABLE"
    ELSE "none"

--------------------------------------------------------------------------------
(* The strategies. *)

byDueDate(a, b) == a.due < b.due \/ (a.due = b.due /\ a.id < b.id)

Take(remaining, balance) == IF balance < remaining THEN balance ELSE remaining

(* The walk: take what is left, up to the balance, until nothing is left. *)
Walk(funds, queue) ==
    LET step(acc, v) ==
            IF acc.remaining = 0 \/ v.balance = 0 THEN acc
            ELSE LET take == Take(acc.remaining, v.balance)
                 IN  [remaining |-> acc.remaining - take, legs |-> Append(acc.legs, Leg(v.id, take))]
    IN  FoldLeft(step, [remaining |-> funds.amount, legs |-> <<>>], queue).legs

allocateOldestFirst(funds, views) ==
    IF Refusal(funds, views) # "none" THEN Err(Refusal(funds, views))
    ELSE Ok(Walk(funds, SortSeq(views, byDueDate)))

(* The first declaration, in the order declared, that cannot be honoured; then the total. *)
DeclarationRefusal(funds, views, declared) ==
    LET BadAt(d) == CASE ~\E i \in DOMAIN views : views[i].id = d.id -> "ALLOCATION_UNKNOWN_RECEIVABLE"
                      [] (\E i \in DOMAIN views : views[i].id = d.id) /\ d.currency # funds.currency -> "CURRENCY_MISMATCH"
                      [] \E i \in DOMAIN views : /\ views[i].id = d.id /\ d.currency = funds.currency
                                                 /\ d.amount > views[i].balance ->
                            "ALLOCATION_EXCEEDS_BALANCE"
                      [] OTHER -> "none"
        bad == SelectSeq([k \in DOMAIN declared |-> BadAt(declared[k])], LAMBDA c : c # "none")
    IN  IF bad # <<>> THEN Head(bad)
        ELSE IF TotalOf(declared) > funds.amount THEN "ALLOCATION_EXCEEDS_AVAILABLE"
        ELSE "none"

allocateExplicit(funds, views, declared) ==
    IF Refusal(funds, views) # "none" THEN Err(Refusal(funds, views))
    ELSE IF DeclarationRefusal(funds, views, declared) # "none"
    THEN Err(DeclarationRefusal(funds, views, declared))
    ELSE LET positive == SortSeq(SelectSeq(declared, LAMBDA d : d.amount > 0), LAMBDA a, b : a.id < b.id)
         IN  Ok([k \in DOMAIN positive |-> Leg(positive[k].id, positive[k].amount)])

Positive(views) == SortSeq(SelectSeq(views, LAMBDA v : v.balance > 0), LAMBDA a, b : a.id < b.id)

allocateProRata(funds, views) ==
    LET positive == Positive(views)
        balances == [i \in DOMAIN positive |-> positive[i].balance]
        Legs(parts) == SelectSeq([i \in DOMAIN positive |-> Leg(positive[i].id, parts[i])],
                                 LAMBDA l : l.amount > 0)
    IN  IF Refusal(funds, views) # "none" THEN Err(Refusal(funds, views))
        ELSE IF positive = <<>> THEN Ok(<<>>)
        ELSE IF funds.amount >= SumOf(balances) THEN Ok(Legs(balances))
        ELSE Ok(Legs(AllocateParts(funds.amount, balances)))

planWithStrategy(strategy, funds, views, declared) ==
    CASE strategy = "fifo"     -> allocateOldestFirst(funds, views)
      [] strategy = "pro_rata" -> allocateProRata(funds, views)
      [] strategy = "explicit" -> allocateExplicit(funds, views, declared)

--------------------------------------------------------------------------------
(* Rows: [source, id, amount, seq, reversed, reversalOf], the row's own key being   *)
(* its place in the log; reversalOf = 0 for a row that compensates none.            *)

isActive(row) == ~row.reversed /\ row.reversalOf = 0

nextSequenceNo(rows, source) ==
    1 + FoldSeq(LAMBDA r, max : IF r.source = source /\ r.seq > max THEN r.seq ELSE max, 0, rows)

(* The rows executeAllocation appends for a plan, after the rows already there. *)
executeAllocation(rows, source, plan) ==
    LET base == nextSequenceNo(rows, source)
    IN  [k \in DOMAIN plan |->
            [source |-> source, id |-> plan[k].id, amount |-> plan[k].amount, seq |-> base + k - 1,
             reversed |-> FALSE, reversalOf |-> 0]]

mayReverse(row) == ~row.reversed /\ row.reversalOf = 0

(* The log after reverseAllocation of row n: the original stamped, the compensating row *)
(* appended under the original's own sequence number.                                   *)
reverseAllocation(rows, n) ==
    Append([rows EXCEPT ![n].reversed = TRUE], [rows[n] EXCEPT !.reversalOf = n])
================================================================================
