--------------------------- MODULE IdempotentIntake ---------------------------
(***************************************************************************)
(* What the payment intake promises (R9, docs/07-invariants.md): requests  *)
(* that name the same fund create it once.  Every other one is answered    *)
(* with the fund that exists, refused because it carries other money, or   *)
(* fails without an effect.                                                *)
(***************************************************************************)
EXTENDS FiniteSets

CONSTANTS Requests,
          Channel, Ref, Key, Money,  \* the fields of each request
          NoRef

VARIABLES payments,  \* the requests that created a payment
          outcome    \* the answer each request got

SameRef(r, p) == Channel[r] = Channel[p] /\ Ref[r] = Ref[p]
SameKey(r, p) == Key[r] = Key[p]
Conflicts(r, p) == Ref[r] = Ref[p] \/ SameKey(r, p)

\* A key also names the payments that another bearer of the key was answered with.
Names(r, p) ==
    \/ SameRef(r, p) \/ SameKey(r, p)
    \/ \E q \in Requests : SameKey(q, r) /\ SameRef(q, p)

Without(verdict) == [verdict |-> verdict, payment |-> NoRef]
With(verdict, p) == [verdict |-> verdict, payment |-> p]

Init == payments = {} /\ outcome = [r \in Requests |-> Without("pending")]

Answer(r, a) == outcome[r] = Without("pending") /\ outcome' = [outcome EXCEPT ![r] = a]

\* The answer to a request that took effect may still be lost.
Create(r) ==
    /\ \A p \in payments : ~Conflicts(r, p)
    /\ payments' = payments \cup {r}
    /\ Answer(r, With("new", r)) \/ Answer(r, Without("failed"))

Replay(r) ==
    /\ \E p \in payments : Names(r, p) /\ Money[p] = Money[r] /\ Answer(r, With("duplicate", p))
    /\ UNCHANGED payments

Refuse(r) ==
    /\ \E p \in payments : Names(r, p) /\ Money[p] # Money[r]
    /\ Answer(r, Without("refused"))
    /\ UNCHANGED payments

Fail(r) == Answer(r, Without("failed")) /\ UNCHANGED payments

\* The reference is taken by another channel's payment: uq_payments_org_external_ref
\* keeps the new one out, and no probe of this channel finds the old one.
Clash(r) ==
    /\ \E p \in payments : Ref[p] = Ref[r] /\ Channel[p] # Channel[r]
    /\ Answer(r, Without("internal"))
    /\ UNCHANGED payments

Next == \E r \in Requests : Create(r) \/ Replay(r) \/ Refuse(r) \/ Fail(r) \/ Clash(r)

Spec == Init /\ [][Next]_<<payments, outcome>>
================================================================================
