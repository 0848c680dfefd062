---------------------------- MODULE ReceivableLane -----------------------------
(***************************************************************************)
(* One invoice and the receivables that may be drafted or opened for it,   *)
(* driven through every function of the lane in every order, and the late  *)
(* fees that accrue on them (late-fee.ts, with the int64 port of its       *)
(* amount in backend-go/internal/scheduler/latefee.go).                    *)
(***************************************************************************)
EXTENDS MoneyLanes

CONSTANTS Ids,        \* receivable ids a caller may pass
          Amounts,    \* line and allocation amounts
          DueDate,
          MaxTotal,   \* bound: the total of the invoice
          MaxTime,    \* bound: the clock
          DAY_MS,     \* the length of a day
          Policies,   \* late fee policies: [kind, flat, bps, cap, grace], {} for an absent field
          Periods,    \* the period keys a caller may pass
          FeeBase,    \* 10000: the basis points of a whole
          MAX_SAFE,   \* the largest amount an event may carry
          MaxInt,     \* the largest int64
          MaxFees     \* bound: the fees

--------------------------------------------------------------------------------
(* Late fee policies and amounts. *)

validateLateFeePolicy(p) ==
    /\ p.kind \in {"flat", "percent"} /\ {} \in {p.flat, p.bps}
    /\ (IF p.kind = "flat" THEN p.flat ELSE p.bps) # {}
    /\ \A n \in p.flat \cup p.bps \cup p.cap \cup {p.grace} : n >= 0

wholeDaysLate(t) == IF t > DueDate THEN (t - DueDate) \div DAY_MS ELSE 0

The(field) == CHOOSE n \in field : TRUE
Capped(p, n) == IF p.cap # {} /\ n > The(p.cap) THEN The(p.cap) ELSE n

feeAmountOf(p, balance) ==
    Capped(p, IF p.kind = "flat" THEN The(p.flat) ELSE (balance * The(p.bps)) \div FeeBase)

(* The port multiplies in int64, and its division rounds towards zero. *)
Int64(n) == ((n + MaxInt + 1) % (2 * (MaxInt + 1))) - (MaxInt + 1)
Quotient(n, d) == IF n < 0 THEN -((-n) \div d) ELSE n \div d
FeeAmountOf(p, balance) ==
    Capped(p, IF p.kind = "flat" THEN The(p.flat) ELSE Quotient(Int64(balance * The(p.bps)), FeeBase))

(* A fee on whatever is still owed, conceded or not. *)
ChargeableIfOwed(r, p, t) == /\ r.overdue \/ t > DueDate
                             /\ wholeDaysLate(t) > p.grace /\ balanceOf(r) > 0

(* chargeableBalance: is anything still chargeable? *)
Chargeable(r, p, t) ==
    /\ r.state \in {"open", "partially_paid"}
    /\ r.overdue \/ t > DueDate
    /\ wholeDaysLate(t) > p.grace
    /\ balanceOf(r) > 0

buildFeeRow(i, r, p, period, t) ==
    LET balance == IF Chargeable(r, p, t) THEN balanceOf(r) ELSE 0
    IN  [receivable |-> i, period |-> period, policy |-> p, balance |-> balance,
         amount |-> IF balance = 0 THEN 0 ELSE feeAmountOf(p, balance), daysLate |-> wholeDaysLate(t)]

--------------------------------------------------------------------------------
VARIABLES invoice, receivables, now,
          fees        \* the fee rows, in the order they accrued

vars == <<invoice, receivables, now, fees>>

Init ==
    /\ invoice = createInvoice
    /\ receivables = [i \in Ids |-> Absent]
    /\ now = 0
    /\ fees = <<>>

Become(i, r) == receivables' = [receivables EXCEPT ![i] = r] /\ UNCHANGED <<invoice, now>>

AddInvoiceLine(a) ==
    /\ mayAddInvoiceLine(invoice, a) /\ invoice.total + a <= MaxTotal
    /\ invoice' = addInvoiceLine(invoice, a)
    /\ UNCHANGED <<receivables, now>>

InvoiceStep ==
    /\ \/ mayIssueInvoice(invoice) /\ invoice' = issueInvoice(invoice)
       \/ mayMarkInvoiceSent(invoice) /\ invoice' = markInvoiceSent(invoice)
       \/ mayVoidInvoice(invoice) /\ invoice' = voidInvoice(invoice)
    /\ UNCHANGED <<receivables, now>>

DraftReceivable(i) ==
    /\ mayDraftReceivableFor(invoice)
    /\ receivables' = [receivables EXCEPT ![i] = buildReceivable(invoice, "draft")]
    /\ invoice' = takeSlot(invoice, i)
    /\ UNCHANGED now

(* The caller passes the draft it has under that id, or none. *)
OpenReceivable(i, paired) ==
    /\ paired <=> receivables[i].state # "absent"
    /\ mayOpenReceivable(invoice, i, receivables[i], paired)
    /\ receivables' = [receivables EXCEPT ![i] = openReceivable(invoice, receivables[i], paired)]
    /\ invoice' = takeSlot(invoice, i)
    /\ UNCHANGED now

ApplyAllocation(i, a) ==
    mayApplyAllocation(receivables[i], a) /\ Become(i, applyAllocation(receivables[i], a))

MarkOverdue(i) ==
    mayMarkOverdue(receivables[i], now, DueDate) /\ Become(i, markOverdue(receivables[i]))

WriteOff(i) == mayWriteOff(receivables[i]) /\ Become(i, writeOff(receivables[i]))

MarkUncollectible(i) ==
    mayMarkUncollectible(receivables[i]) /\ Become(i, markUncollectible(receivables[i]))

VoidReceivable(i) == mayVoidReceivable(receivables[i]) /\ Become(i, voidReceivable(receivables[i]))

Tick == now < MaxTime /\ now' = now + 1 /\ UNCHANGED <<invoice, receivables>>

Posted(i, period) == {k \in DOMAIN fees : fees[k].receivable = i /\ fees[k].period = period}

(* A period that was charged is answered without a new row, from the rows or the keys the  *)
(* caller passes; every refusal leaves everything as it is.                                *)
accrueLateFee(i, p, period) ==
    LET row == buildFeeRow(i, receivables[i], p, period, now)
    IN  /\ Len(fees) < MaxFees /\ receivables[i].state # "absent"
        /\ validateLateFeePolicy(p) /\ Posted(i, period) = {}
        /\ Chargeable(receivables[i], p, now)
        /\ \A n \in {row.amount, row.balance} \cup p.flat : n <= MAX_SAFE
        /\ fees' = Append(fees, row)
        /\ UNCHANGED <<invoice, receivables, now>>

LaneNext ==
    \/ \E a \in Amounts : AddInvoiceLine(a)
    \/ InvoiceStep
    \/ \E i \in Ids :
          \/ DraftReceivable(i)
          \/ \E paired \in BOOLEAN : OpenReceivable(i, paired)
          \/ \E a \in Amounts : ApplyAllocation(i, a)
          \/ MarkOverdue(i) \/ WriteOff(i) \/ MarkUncollectible(i) \/ VoidReceivable(i)
    \/ Tick

Next ==
    \/ LaneNext /\ UNCHANGED fees
    \/ \E i \in Ids, p \in Policies, period \in Periods : accrueLateFee(i, p, period)

Spec == Init /\ [][Next]_vars

--------------------------------------------------------------------------------
Opened == {i \in Ids : receivables[i].state \notin {"absent", "draft"}}

TypeOK ==
    /\ invoice.status \in {"draft", "issued", "sent", "voided"} /\ invoice.total \in 0..MaxTotal
    /\ now \in 0..MaxTime
    /\ \A i \in Ids : /\ receivables[i].state \in ReceivableStates
                      /\ receivables[i].applied \in 0..receivables[i].original

(* Exactly one receivable per invoice (receivable.ts, header): the slot names the only   *)
(* receivable there is, and once opened it is for what the invoice totals, sent or       *)
(* voided since or not.                                                                  *)
OneReceivablePerInvoice ==
    /\ \A i \in Ids : receivables[i].state # "absent" => invoice.receivableId = i
    /\ \A i \in Opened : receivables[i].original = invoice.total /\ invoice.total > 0

(* R1 on the receivable's side: the state tells what is owed.  Money is applied to a     *)
(* debt only while something is owed, and a settled debt owes nothing.                   *)
StateTellsBalance ==
    \A i \in Opened :
       LET r == receivables[i]
       IN  CASE r.state \in {"open", "voided"} -> r.applied = 0
             [] r.state = "partially_paid"     -> r.applied > 0 /\ balanceOf(r) > 0
             [] r.state = "settled"            -> balanceOf(r) = 0
             [] r.state = "recovered"          -> r.applied > 0
             [] OTHER                          -> balanceOf(r) > 0

(* A debt is given up only after its due date and only after it was flagged, an ended    *)
(* debt never changes again, and applied money is never taken back.                      *)
DecisionsAreFinal ==
    [][\A i \in Ids :
          LET r == receivables[i] IN
          /\ r.state \in TERMINAL => receivables'[i] = r
          /\ i \in Opened => receivables'[i].original = r.original
          /\ receivables'[i].applied >= r.applied
          /\ receivables'[i].state \in {"written_off", "uncollectible"} /\ r.state # receivables'[i].state
                => r.overdue /\ now > DueDate]_vars

(* H4: a period is charged once per receivable, only after its grace, and every fee      *)
(* stays within its policy: not above the cap, never more than the rate of what was owed *)
(* then.  A later fee is never charged on more than an earlier one (accrueLateFee).      *)
FeesAreWarranted ==
    \A k \in DOMAIN fees :
       LET fee == fees[k] IN
       /\ Posted(fee.receivable, fee.period) = {k}
       /\ fee.daysLate > fee.policy.grace /\ fee.balance > 0
       /\ fee.balance <= receivables[fee.receivable].original
       /\ \A n \in fee.policy.cap \cup fee.policy.flat : fee.amount <= n
       /\ \A n \in fee.policy.bps : fee.amount * FeeBase <= n * fee.balance
       /\ \A j \in 1..k : fees[j].receivable = fee.receivable =>
             fees[j].balance >= fee.balance /\ fees[j].daysLate <= fee.daysLate

(* A re-run that knows only the keys answers with a marker recomputed from the present   *)
(* debt: under the policy of the first run it never names more than was charged, and     *)
(* nothing once the debt is no longer chargeable (accrueLateFee's already_accrued).      *)
MarkerNamesNoMore ==
    \A k \in DOMAIN fees :
       LET fee == fees[k]
           marker == buildFeeRow(fee.receivable, receivables[fee.receivable], fee.policy, fee.period, now)
       IN  /\ marker.amount <= fee.amount /\ marker.balance <= fee.balance
           /\ receivables[fee.receivable].state \in TERMINAL => marker.amount = 0

(* The int64 port charges what the lane charges as long as the product fits its word,    *)
(* and where it wraps it refuses (money.New, below zero) or charges less, never more.    *)
PortNeverOvercharges ==
    \A i \in Ids, p \in Policies :
       LET r == receivables[i] IN
       (validateLateFeePolicy(p) /\ Chargeable(r, p, now)) =>
          /\ FeeAmountOf(p, balanceOf(r)) <= feeAmountOf(p, balanceOf(r))
          /\ (\A n \in p.bps : n * balanceOf(r) <= MaxInt) => FeeAmountOf(p, balanceOf(r)) = feeAmountOf(p, balanceOf(r))

================================================================================
