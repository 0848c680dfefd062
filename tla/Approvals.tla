------------------------------- MODULE Approvals -------------------------------
(***************************************************************************)
(* The maker-checker lane (src/domain/approvals): the organisation's       *)
(* policies decide whether an operation needs approval and under which     *)
(* gate, and one ApprovalRequest goes through opening, submission, the     *)
(* checkers' decisions, expiry, withdrawal and application.  A refused     *)
(* call returns the unchanged request, so only its guard is modelled.      *)
(***************************************************************************)
EXTENDS Integers, Sequences, SequencesExt, FiniteSets

CONSTANTS Catalogue, \* policies: [id, op, threshold, currency, roles, quorum]; threshold -1: catch-all
          Operations,  \* what may be asked: [op, amount, currency]; amount -1: none
          Actors, Roles,
          TTL,         \* ttlDays of every policy, in clock units
          MaxTime      \* bound on the clock

(* A gate names at least one role and no more checkers than roles. *)
assertApprovalPolicy(p) ==
    p.threshold \in Nat \cup {-1} /\ p.roles # {} /\ p.quorum \in 1..Cardinality(p.roles)

VARIABLES policies,  \* the organisation's set, in some order
          operation, \* what the maker wants to do
          request,   \* the ApprovalRequest
          events,    \* the lane's events, in order
          now

vars == <<policies, operation, request, events, now>>

NoPolicy == [id |-> "none", op |-> "none", threshold |-> -1, currency |-> "none", roles |-> {}, quorum |-> 0]
NoRequest == [state |-> "absent", requester |-> "none", policy |-> NoPolicy,
              createdAt |-> 0, expiresAt |-> 0, decisions |-> <<>>]

AMOUNT_REQUIRED_OPERATIONS == {"refund", "write_off"}

--------------------------------------------------------------------------------
(* No two gates of an operation are the same, and ids are unique. *)
assertPolicySet(set) ==
    /\ \A i \in DOMAIN set : assertApprovalPolicy(set[i])
    /\ \A i, j \in DOMAIN set : i # j =>
        /\ set[i].id # set[j].id
        /\ <<set[i].op, set[i].threshold, set[i].currency>> # <<set[j].op, set[j].threshold, set[j].currency>>

Qualifies(p, o) ==
    /\ p.op = o.op
    /\ p.threshold = -1 \/ (o.amount # -1 /\ o.currency = p.currency /\ o.amount >= p.threshold)

(* The highest threshold wins, the catch-all counting as the lowest. *)
winner(set, o) ==
    FoldLeft(LAMBDA best, p : IF Qualifies(p, o) /\ (best = NoPolicy \/ p.threshold > best.threshold) THEN p ELSE best,
             NoPolicy, set)

(* Does the operation need approval?  An amount that must be there and is not throws. *)
evaluateApprovalRequirement(set, o) ==
    IF o.op \in AMOUNT_REQUIRED_OPERATIONS /\ o.amount = -1 THEN "throws"
    ELSE IF \E i \in DOMAIN set : Qualifies(set[i], o) THEN "requires" ELSE "exempt"

Init ==
    /\ policies \in {s \in UNION {[1..n -> Catalogue] : n \in 0..Cardinality(Catalogue)} : assertPolicySet(s)}
    /\ operation \in Operations
    /\ request = NoRequest
    /\ events = <<>>
    /\ now = 1

--------------------------------------------------------------------------------
Tick == now < MaxTime /\ now' = now + 1 /\ UNCHANGED <<policies, operation, request, events>>

Emit(names) == events' = events \o [i \in DOMAIN names |-> [name |-> names[i], at |-> now]]

(* The clock is read for the aggregate and again for the event. *)
openApprovalRequest(maker) ==
    /\ request = NoRequest /\ evaluateApprovalRequirement(policies, operation) = "requires"
    /\ now + TTL < MaxTime
    /\ request' = [NoRequest EXCEPT !.state = "drafted", !.requester = maker, !.createdAt = now,
                                    !.policy = winner(policies, operation), !.expiresAt = now + TTL]
    /\ now' \in {now, now + 1}
    /\ events' = <<[name |-> "requestCreated", at |-> now']>>
    /\ UNCHANGED <<policies, operation>>

Rotted == now > request.expiresAt

submitApprovalRequest ==
    /\ request.state = "drafted" /\ ~Rotted
    /\ request' = [request EXCEPT !.state = "pending"]
    /\ UNCHANGED <<policies, operation, events, now>>

(* stateRefusalFor that trusts the sweep to have run. *)
decidableUntilSwept == request.state = "pending"

decidable == request.state = "pending" /\ ~Rotted

(* Self-approval, then roles, then duplicates are refused. *)
mayApprove(who, held) ==
    /\ who # request.requester
    /\ request.policy.roles \cap held # {}
    /\ \A i \in DOMAIN request.decisions : request.decisions[i].approver # who

quorumMet(n) == n >= request.policy.quorum

approve(who, held) ==
    /\ decidable /\ mayApprove(who, held)
    /\ LET decisions == Append(request.decisions, [approver |-> who, roles |-> request.policy.roles \cap held, at |-> now])
           met == quorumMet(Len(decisions))
       IN  /\ request' = [request EXCEPT !.decisions = decisions, !.state = IF met THEN "approved" ELSE @]
           /\ Emit(IF met THEN <<"quorumMet", "approved">> ELSE <<>>)
    /\ UNCHANGED <<policies, operation, now>>

reject ==
    /\ decidable
    /\ request' = [request EXCEPT !.state = "rejected"] /\ Emit(<<"rejected">>)
    /\ UNCHANGED <<policies, operation, now>>

expireApprovalRequest ==
    /\ request.state = "pending" /\ Rotted
    /\ request' = [request EXCEPT !.state = "expired"] /\ Emit(<<"expired">>)
    /\ UNCHANGED <<policies, operation, now>>

(* Only the requester withdraws, and only what is still decidable. *)
transitionApproval(who) ==
    /\ decidable /\ who = request.requester
    /\ request' = [request EXCEPT !.state = "cancelled"] /\ Emit(<<"cancelled">>)
    /\ UNCHANGED <<policies, operation, now>>

mayApply == request.state = "approved"

markApplied ==
    /\ mayApply
    /\ request' = [request EXCEPT !.state = "applied"] /\ Emit(<<"applied">>)
    /\ UNCHANGED <<policies, operation, now>>

Next ==
    \/ Tick \/ submitApprovalRequest \/ reject \/ expireApprovalRequest \/ markApplied
    \/ \E who \in Actors :
          \/ openApprovalRequest(who) \/ transitionApproval(who)
          \/ \E held \in SUBSET Roles : approve(who, held)

Spec == Init /\ [][Next]_vars

--------------------------------------------------------------------------------
Count(name) == Cardinality({i \in DOMAIN events : events[i].name = name})

TypeOK ==
    /\ request.state \in {"absent", "drafted", "pending", "approved", "rejected", "expired", "cancelled", "applied"}
    /\ Len(request.decisions) <= request.policy.quorum
    /\ now \in 1..MaxTime

(* evaluateApprovalRequirement: whatever the order of the set, the request is governed   *)
(* by the highest threshold its amount reaches, at the threshold included, and opened    *)
(* against a catch-all only when no threshold of its currency is reached.                *)
GovernedByStrictestGate ==
    request # NoRequest =>
        /\ request.policy \in Range(policies) /\ request.policy.op = operation.op
        /\ \A p \in Range(policies) :
              (p.op = operation.op /\ p.currency = operation.currency /\ operation.amount >= p.threshold)
                 => request.policy.threshold >= p.threshold
        /\ request.policy.threshold # -1 =>
              request.policy.currency = operation.currency /\ request.policy.threshold <= operation.amount

(* Maker-checker: an approved or applied request was approved by as many different       *)
(* actors as its gate demands, none of them the maker, each holding a required role,     *)
(* each within the time to live.                                                         *)
FourEyes ==
    request.state \in {"approved", "applied"} =>
        /\ Cardinality({d.approver : d \in Range(request.decisions)}) >= request.policy.quorum
        /\ \A d \in Range(request.decisions) :
              d.approver # request.requester /\ d.roles # {} /\ d.roles \subseteq request.policy.roles
              /\ d.at <= request.expiresAt

(* The events tell the state: quorumMet and approved together exactly once when the      *)
(* quorum was crossed, applied only after them, and one ending at most.                  *)
EventsTellState ==
    /\ Count("quorumMet") = Count("approved")
    /\ Count("approved") = (IF request.state \in {"approved", "applied"} THEN 1 ELSE 0)
    /\ Count("applied") = (IF request.state = "applied" THEN 1 ELSE 0)
    /\ Count("rejected") + Count("expired") + Count("cancelled")
         = (IF request.state \in {"rejected", "expired", "cancelled"} THEN 1 ELSE 0)

================================================================================
