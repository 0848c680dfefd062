-------------------------------- MODULE Disputes --------------------------------
(***************************************************************************)
(* The disputes lane (src/domain/disputes): the registry of an             *)
(* organisation's disputes, their lifecycle, the facts they emit and the   *)
(* pause policy that collections automation consults.                      *)
(***************************************************************************)
EXTENDS Naturals, SequencesExt

CONSTANTS Orgs, Receivables,
          MaxDisputes,   \* bound on the registry
          MaxHistory     \* bound on the steps of a dispute

VARIABLES reg,      \* the registry: sequence of disputes
          facts,    \* the event stream: dispute.* facts in order
          ownerOf   \* the organisation of each receivable

vars == <<reg, facts, ownerOf>>

DISPUTE_TRANSITIONS ==
    [opened            |-> {"investigating", "cancelled"},
     investigating     |-> {"awaiting_customer", "awaiting_business", "resolved", "rejected", "cancelled"},
     awaiting_customer |-> {"investigating", "resolved", "rejected", "cancelled"},
     awaiting_business |-> {"investigating", "resolved", "rejected", "cancelled"},
     resolved |-> {}, rejected |-> {}, cancelled |-> {}]

OPEN_DISPUTE_STATES == {"opened", "investigating", "awaiting_customer", "awaiting_business"}
isDisputeOpen(status) == status \in OPEN_DISPUTE_STATES
Outcomes == {"none", "credit_note", "write_off"}

Init ==
    /\ reg = <<>> /\ facts = <<>>
    /\ ownerOf \in [Receivables -> Orgs]

--------------------------------------------------------------------------------
InOrg(org) == {i \in DOMAIN reg : reg[i].org = org}

(* Sequence newer than the organisation's latest; one open dispute per receivable. *)
mayOpen(org, r, n) ==
    /\ \A i \in InOrg(org) : reg[i].sequence < n
    /\ \A i \in DOMAIN reg : reg[i].receivable = r => ~isDisputeOpen(reg[i].status)

openDispute(r, n) ==
    /\ Len(reg) < MaxDisputes /\ mayOpen(ownerOf[r], r, n)
    /\ reg' = Append(reg, [org |-> ownerOf[r], receivable |-> r, sequence |-> n, status |-> "opened",
                           outcome |-> "null", closed |-> FALSE, history |-> <<>>])
    /\ facts' = Append(facts, [name |-> "dispute.opened", receivable |-> r])
    /\ UNCHANGED ownerOf

mayMove(i, to) == to \in DISPUTE_TRANSITIONS[reg[i].status]

FactOf(to) == CASE to = "resolved" -> "dispute.resolved" [] to = "rejected" -> "dispute.rejected"
                [] to = "cancelled" -> "dispute.cancelled" [] OTHER -> "dispute.statusChanged"

transitionDispute(i, to, outcome) ==
    /\ Len(reg[i].history) < MaxHistory /\ mayMove(i, to)
    /\ outcome = "none" \/ to = "resolved"
    /\ reg' = [reg EXCEPT ![i].status = to, ![i].outcome = IF to = "resolved" THEN outcome ELSE @,
                          ![i].closed = (DISPUTE_TRANSITIONS[to] = {}),
                          ![i].history = Append(@, [from |-> reg[i].status, to |-> to])]
    /\ facts' = Append(facts, [name |-> FactOf(to), receivable |-> reg[i].receivable])
    /\ UNCHANGED ownerOf

--------------------------------------------------------------------------------
(* The pause policy over the projected facts of one receivable. *)
toDisputeFacts(r) == {reg[i].status : i \in {j \in DOMAIN reg : reg[j].receivable = r}}

automatedCollectionAllowed(r) == \A status \in toDisputeFacts(r) : ~isDisputeOpen(status)

collectionsHoldFor(r) == ~automatedCollectionAllowed(r)

Next ==
    \/ \E r \in Receivables, n \in 1..MaxDisputes : openDispute(r, n)
    \/ \E i \in DOMAIN reg, to \in DOMAIN DISPUTE_TRANSITIONS, o \in Outcomes : transitionDispute(i, to, o)

--------------------------------------------------------------------------------
TypeOK ==
    /\ Len(reg) <= MaxDisputes
    /\ \A i \in DOMAIN reg : /\ reg[i].status \in DOMAIN DISPUTE_TRANSITIONS
                             /\ reg[i].outcome \in Outcomes \cup {"null"}
                             /\ reg[i].closed = ~isDisputeOpen(reg[i].status)

(* The facts consumers see pause and resume each receivable in turn: it is held exactly  *)
(* while the last fact about it is not a resume fact, and never paused twice.            *)
FactsTellTheHold ==
    \A r \in Receivables :
        LET mine == SelectSeq(facts, LAMBDA f : f.receivable = r)
            resumes == {"dispute.resolved", "dispute.rejected", "dispute.cancelled"}
        IN  /\ collectionsHoldFor(r) <=> (mine # <<>> /\ Last(mine).name \notin resumes)
            /\ \A k \in DOMAIN mine :
                  mine[k].name = "dispute.opened" <=> (k = 1 \/ mine[k - 1].name \in resumes)

(* Numbers are unique and rise within an organisation, whichever the receivables and     *)
(* however long earlier disputes stay open; a second organisation does not disturb them. *)
NumbersRise ==
    \A i, j \in DOMAIN reg : i < j /\ reg[i].org = reg[j].org => reg[i].sequence < reg[j].sequence

(* No outcome without an investigation, and every wait is left through investigating or  *)
(* an outcome (dispute.ts: "Deliberately NOT legal").                                    *)
OutcomeWasInvestigated ==
    \A i \in DOMAIN reg :
        LET h == reg[i].history
            waits == {"awaiting_customer", "awaiting_business"}
        IN  /\ reg[i].status \in {"resolved", "rejected"} => \E k \in DOMAIN h : h[k].to = "investigating"
            /\ \A k \in DOMAIN h : ~(h[k].from \in waits /\ h[k].to \in waits)
            /\ \A k \in DOMAIN h : k > 1 => h[k].from = h[k - 1].to

================================================================================
