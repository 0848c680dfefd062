------------------------------- MODULE CaseLane --------------------------------
(***************************************************************************)
(* The collections lane's own promise (src/domain/collections/case.ts and  *)
(* actions.ts): each operation is a pure function on one case aggregate,   *)
(* so it happens in one step and its guards see the current aggregate.     *)
(* CollectionsCases, the transactional port, is compared with it.          *)
(***************************************************************************)
EXTENDS Naturals, Sequences

CONSTANTS Cases, Receivables

VARIABLE lane   \* the aggregates, with the events each has emitted

NoCase == [status |-> "none", priority |-> "normal", receivableIds |-> {},
           actions |-> <<>>, history |-> <<>>, priorityChanges |-> <<>>, events |-> <<>>]

CASE_PRIORITY_RANK == [low |-> 0, normal |-> 1, high |-> 2, urgent |-> 3]

CASE_TRANSITIONS == [open |-> {"in_progress"}, in_progress |-> {"resolved", "closed_inactive"},
                     resolved |-> {}, closed_inactive |-> {}]

CASE_STATUSES == DOMAIN CASE_TRANSITIONS
OUTBOUND_ACTION_TYPES == {"sms", "whatsapp"}
CASE_ACTION_TYPES == OUTBOUND_ACTION_TYPES \cup {"call", "letter", "fieldVisit", "escalation"}

isCaseOpen(status) == status \in {"open", "in_progress"}

openCaseCoverageOf ==
    UNION {lane[c].receivableIds : c \in {d \in Cases : isCaseOpen(lane[d].status)}}

EventOf(to) == [resolved |-> <<"case.resolved">>, closed_inactive |-> <<"case.closed">>,
                in_progress |-> <<>>, open |-> <<>>][to]

NeedsConsent(type, source) == type \in OUTBOUND_ACTION_TYPES /\ source = "automated"

LaneInit == lane = [c \in Cases |-> NoCase]

openCase(c, receivableIds, priority) ==
    /\ lane[c] = NoCase
    /\ receivableIds # {}
    /\ receivableIds \cap openCaseCoverageOf = {}
    /\ lane' = [lane EXCEPT ![c] = [@ EXCEPT !.status = "open", !.priority = priority,
                                             !.receivableIds = receivableIds,
                                             !.events = <<"case.opened">>]]

transitionCase(c, to) ==
    /\ lane[c].status \in CASE_STATUSES
    /\ to \in CASE_TRANSITIONS[lane[c].status]
    /\ lane' = [lane EXCEPT ![c] = [@ EXCEPT !.status = to,
                                             !.history = Append(@, <<lane[c].status, to>>),
                                             !.events = @ \o EventOf(to)]]

escalateCase(c, to) ==
    /\ isCaseOpen(lane[c].status)
    /\ CASE_PRIORITY_RANK[to] > CASE_PRIORITY_RANK[lane[c].priority]
    /\ lane' = [lane EXCEPT ![c] = [@ EXCEPT !.priority = to,
                                             !.priorityChanges = Append(@, <<lane[c].priority, to>>),
                                             !.events = Append(@, "case.escalated")]]

recordAction(c, type, source, consentRef, done) ==
    /\ isCaseOpen(lane[c].status)
    /\ NeedsConsent(type, source) => consentRef
    /\ lane' = [lane EXCEPT ![c] = [@ EXCEPT
                  !.actions = Append(@, [type |-> type, source |-> source,
                                         consentRef |-> consentRef, done |-> done]),
                  !.events = Append(@, "case.actionRecorded")]]

(* tryRecordAction's refusal: only the compliance event is emitted. *)
dunningBlockedNoConsent(c) ==
    /\ isCaseOpen(lane[c].status)
    /\ lane' = [lane EXCEPT ![c].events = Append(@, "collections.dunningBlockedNoConsent")]

completeAction(c, i) ==
    /\ isCaseOpen(lane[c].status)
    /\ ~ lane[c].actions[i].done
    /\ lane' = [lane EXCEPT ![c].actions[i].done = TRUE]

LaneNext ==
    \E c \in Cases :
       \/ \E rs \in SUBSET Receivables, p \in DOMAIN CASE_PRIORITY_RANK : openCase(c, rs, p)
       \/ \E to \in CASE_STATUSES : transitionCase(c, to)
       \/ \E to \in DOMAIN CASE_PRIORITY_RANK : escalateCase(c, to)
       \/ \E type \in CASE_ACTION_TYPES, source \in {"automated", "manual"}, ref, done \in BOOLEAN :
             recordAction(c, type, source, ref, done)
       \/ dunningBlockedNoConsent(c)
       \/ \E i \in DOMAIN lane[c].actions : completeAction(c, i)

LaneSpec == LaneInit /\ [][LaneNext]_lane
================================================================================
