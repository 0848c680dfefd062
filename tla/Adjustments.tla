------------------------------ MODULE Adjustments ------------------------------
(***************************************************************************)
(* The adjustments lane (src/domain/adjustments): a credit note, the       *)
(* customer's credit balance it may be routed to, and refunds of a payment *)
(* whose confirmed funds are Confirmed.  Each action is one function of    *)
(* the lane and, where its result is a movement or a funding row, the      *)
(* append its caller is told to make.  Reasons and requesters are given.   *)
(***************************************************************************)
EXTENDS Naturals, Sequences, SequencesExt, FiniteSetsExt

CONSTANTS Total,       \* the credit note's total
          Confirmed,   \* what the payment behind the refunds landed
          Amounts, Refunds, Refs, \* amounts; refund ids; Daraja B2C references
          MaxMoves     \* bound: movements of the credit balance

VARIABLES note,       \* [state, applications, routings]: the amounts applied and routed
          movements,  \* the customer's log: [kind, amount]
          refunds     \* [state, total, ref, funding]

vars == <<note, movements, refunds>>

SumOf(seq) == FoldLeft(LAMBDA acc, x : acc + x, 0, seq)
NoRefund == [state |-> "absent", total |-> 0, ref |-> "none", funding |-> <<>>]

Init ==
    /\ note = [state |-> "draft", applications |-> <<>>, routings |-> <<>>]
    /\ movements = <<>>
    /\ refunds = [f \in Refunds |-> NoRefund]

--------------------------------------------------------------------------------
(* The credit note. *)

appliedOf(n) == SumOf(n.applications)
creditedOf(n) == SumOf(n.routings)

unappliedOf(n) == Total - (appliedOf(n) + creditedOf(n))

StateAfter(left) == IF left = 0 THEN "fully_applied" ELSE "partially_applied"

IssueCreditNote ==
    /\ note.state = "draft"
    /\ note' = [note EXCEPT !.state = "issued"]
    /\ UNCHANGED <<movements, refunds>>

(* The R7 guard looks at the applications; the subtraction that follows throws when the  *)
(* routed value leaves too little.                                                       *)
ApplyCreditNote(a) ==
    /\ note.state \in {"issued", "partially_applied"}
    /\ a > 0 /\ appliedOf(note) + a <= Total /\ a <= unappliedOf(note)
    /\ note' = [note EXCEPT !.applications = Append(@, a), !.state = StateAfter(unappliedOf(note) - a)]
    /\ UNCHANGED <<movements, refunds>>

VoidCreditNote ==
    /\ note.state = "issued" /\ note.applications = <<>>
    /\ note' = [note EXCEPT !.state = "voided"]
    /\ UNCHANGED <<movements, refunds>>

(* With consent; the movement it returns is appended to the customer's log. *)
ApplyExcessToCreditBalance(a) ==
    /\ note.state \notin {"draft", "voided"} /\ Len(movements) < MaxMoves
    /\ a > 0 /\ unappliedOf(note) > 0 /\ a <= unappliedOf(note)
    /\ note' = [note EXCEPT !.routings = Append(@, a), !.state = StateAfter(unappliedOf(note) - a)]
    /\ movements' = Append(movements, [kind |-> "credit_note_excess", amount |-> a])
    /\ UNCHANGED <<refunds>>

--------------------------------------------------------------------------------
(* The credit balance. *)

MovedBy(kinds) ==
    SumOf([i \in DOMAIN movements |-> IF movements[i].kind \in kinds THEN movements[i].amount ELSE 0])
Increases == MovedBy({"overpayment", "credit_note_excess"})
Decreases == MovedBy({"applied_to_receivable"})

availableOf == Increases - Decreases

RecordOverpayment(a) ==
    /\ a > 0 /\ Len(movements) < MaxMoves
    /\ movements' = Append(movements, [kind |-> "overpayment", amount |-> a])
    /\ UNCHANGED <<note, refunds>>

ApplyCreditBalance(a) ==
    /\ a > 0 /\ a <= availableOf /\ Len(movements) < MaxMoves
    /\ movements' = Append(movements, [kind |-> "applied_to_receivable", amount |-> a])
    /\ UNCHANGED <<note, refunds>>

--------------------------------------------------------------------------------
(* Refunds. *)

SetRefund(f, r) == refunds' = [refunds EXCEPT ![f] = r] /\ UNCHANGED <<note, movements>>

(* What the caller computes from the payment snapshot: confirmed less every refund ever  *)
(* requested of it (payment.ts keeps the reservation of a rejected one).                 *)
RefundedSoFar == FoldSet(LAMBDA f, acc : acc + refunds[f].total, 0, Refunds)
Ceiling == Confirmed - RefundedSoFar

mayRequestRefund(a) == a > 0 /\ a <= Ceiling

RequestRefund(f, a) ==
    /\ refunds[f] = NoRefund /\ mayRequestRefund(a)
    /\ SetRefund(f, [NoRefund EXCEPT !.state = "requested", !.total = a])

Decide(f, verdict) ==
    /\ refunds[f].state = "requested"
    /\ SetRefund(f, [refunds[f] EXCEPT !.state = verdict])

(* Funding rows sum to the total exactly; a credit_balance row needs consent. *)
AllocateRefundFunds(f, fromBalance) ==
    /\ refunds[f].state # "absent" /\ refunds[f].funding = <<>> /\ fromBalance <= refunds[f].total
    /\ SetRefund(f, [refunds[f] EXCEPT !.funding = <<refunds[f].total - fromBalance, fromBalance>>])

mayStartProcessing(r, ref) == r.state = "approved" \/ (r.state = "failed" /\ r.ref # ref)

StartRefundProcessing(f, ref) ==
    /\ mayStartProcessing(refunds[f], ref)
    /\ SetRefund(f, [refunds[f] EXCEPT !.state = "processing", !.ref = ref])

FinishRefund(f, outcome) ==
    /\ refunds[f].state = "processing"
    /\ SetRefund(f, [refunds[f] EXCEPT !.state = outcome])

Next ==
    \/ IssueCreditNote \/ VoidCreditNote
    \/ \E a \in Amounts :
          ApplyCreditNote(a) \/ ApplyExcessToCreditBalance(a) \/ RecordOverpayment(a) \/ ApplyCreditBalance(a)
    \/ \E f \in Refunds :
          \/ \E a \in Amounts : RequestRefund(f, a)
          \/ \E v \in {"approved", "rejected"} : Decide(f, v)
          \/ \E a \in Amounts \cup {0} : AllocateRefundFunds(f, a)
          \/ \E ref \in Refs : StartRefundProcessing(f, ref)
          \/ \E o \in {"completed", "failed"} : FinishRefund(f, o)

Spec == Init /\ [][Next]_vars

--------------------------------------------------------------------------------
TypeOK ==
    /\ note.state \in {"draft", "issued", "partially_applied", "fully_applied", "voided"}
    /\ unappliedOf(note) \in 0..Total
    /\ \A f \in Refunds : refunds[f].state \in {"absent", "requested", "approved", "rejected",
                                                "processing", "completed", "failed"}

(* R7: applications and routings share one total, the state tells what is left of it,    *)
(* and a voided note gave nothing.                                                       *)
NoteStateTellsValue ==
    /\ note.state = "fully_applied" <=> unappliedOf(note) = 0
    /\ note.state \in {"draft", "issued", "voided"} <=> unappliedOf(note) = Total

(* The excess a note says it routed is the excess the customer's log received, and the   *)
(* log never pays out more than it took in (credit-balance.ts, CREDIT_BALANCE_CORRUPT).  *)
CreditBalanceCovered ==
    /\ MovedBy({"credit_note_excess"}) = creditedOf(note)
    /\ \A n \in 0..Len(movements) :
          LET upTo(kinds) == SumOf([i \in 1..n |-> IF movements[i].kind \in kinds THEN movements[i].amount ELSE 0])
          IN  upTo({"applied_to_receivable"}) <= upTo({"overpayment", "credit_note_excess"})

(* R6: what was paid back, however requests, decisions and retries interleave, never     *)
(* exceeds what the payment landed.                                                      *)
RefundsWithinCeiling ==
    FoldSet(LAMBDA f, acc : acc + refunds[f].total, 0, {f \in Refunds : refunds[f].state = "completed"}) <= Confirmed

(* A refund that failed is sent again only under a reference other than the one that     *)
(* failed last (startRefundProcessing, REFUND_EXTERNAL_REF_REUSED).  The refund keeps no *)
(* other: a reference of an earlier attempt may come back, against refund.ts:45.         *)
RetryUsesAnotherRef ==
    [][\A f \in Refunds :
          refunds[f].state = "failed" /\ refunds'[f].state = "processing" => refunds'[f].ref # refunds[f].ref]_vars

================================================================================
