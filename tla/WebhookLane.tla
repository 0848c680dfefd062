------------------------------ MODULE WebhookLane ------------------------------
(***************************************************************************)
(* The webhook lane (src/domain/webhooks): an endpoint and its             *)
(* subscriptions, plans made from it, deliveries queued from plans and     *)
(* attempted down the retry ladder, and the consumer's verification        *)
(* ledger.  A plan is a value: it may be queued after the endpoint changed. *)
(***************************************************************************)
EXTENDS Integers, Sequences, FiniteSets

CONSTANTS EventTypes,     \* <<context, name>> pairs
          Patterns,       \* <<context, name>> or <<context, "*">>
          KnownPrefixes,  \* KNOWN_EVENT_PREFIXES
          Ladder,         \* retry backoffs
          MaxSkew,        \* verification skew window
          MaxPlans,       \* bound on the plans made and not queued
          MaxDeliveries   \* bound on the queue

VARIABLES status,      \* of the endpoint
          subscribed,  \* its patterns
          plans,       \* plans made and not queued: [event, at]
          queue,       \* sequence of deliveries
          sent,        \* requests the consumer may receive: [delivery, age]
          ledger       \* VerificationLedger, one entry per decision taken

vars == <<status, subscribed, plans, queue, sent, ledger>>

Init == /\ status = "active" /\ subscribed = {} /\ plans = {} /\ queue = <<>>
        /\ sent = {} /\ ledger = <<>>

--------------------------------------------------------------------------------
endpointOnly == UNCHANGED <<plans, queue, sent, ledger>>

pauseEndpoint == status = "active" /\ status' = "paused" /\ UNCHANGED subscribed /\ endpointOnly
resumeEndpoint == status = "paused" /\ status' = "active" /\ UNCHANGED subscribed /\ endpointOnly
revokeEndpoint == status # "revoked" /\ status' = "revoked" /\ UNCHANGED subscribed /\ endpointOnly

parseSubscriptionPattern(p) == p[1] \in KnownPrefixes

addSubscription(p) ==
    /\ parseSubscriptionPattern(p) /\ p \notin subscribed
    /\ subscribed' = subscribed \cup {p} /\ UNCHANGED status /\ endpointOnly

(* Whole-segment wildcard, or equality. *)
matchesSubscription(pattern, type) ==
    IF pattern[2] = "*" THEN pattern[1] = type[1] ELSE pattern = type

mayPlan(type) == status = "active" /\ \E p \in subscribed : matchesSubscription(p, type)

planDelivery(type) ==
    /\ mayPlan(type) /\ Cardinality(plans) < MaxPlans
    /\ plans' = plans \cup {[event |-> type, status |-> status, held |-> subscribed]}
    /\ UNCHANGED <<status, subscribed, queue, sent, ledger>>

Terminal == {"delivered", "deadLettered"}

(* The first look for an active delivery taken at `queued` only. *)
duplicateQueued(type) == \E i \in DOMAIN queue : queue[i].event = type /\ queue[i].status = "queued"

activeDuplicate(type) == \E i \in DOMAIN queue : queue[i].event = type /\ queue[i].status \notin Terminal

enqueueDelivery(plan) ==
    /\ Len(queue) < MaxDeliveries /\ ~activeDuplicate(plan.event)
    /\ queue' = Append(queue, [event |-> plan.event, status |-> "queued", attempts |-> 0,
                               backoff |-> 0, waited |-> 0, log |-> <<>>])
    /\ plans' = plans \ {plan} /\ UNCHANGED <<status, subscribed, sent, ledger>>

isDeliveryDue(d) == d.status = "queued" /\ d.waited >= d.backoff

(* beginAttempt, by the worker that found the delivery due: signed now and sent. *)
beginAttempt(i) ==
    /\ isDeliveryDue(queue[i]) /\ queue' = [queue EXCEPT ![i].status = "delivering"]
    /\ sent' = sent \cup {[delivery |-> i, age |-> 0]}
    /\ UNCHANGED <<status, subscribed, plans, ledger>>

recordable(d) == d.status = "delivering"

willRetry(attemptNo) == attemptNo <= Len(Ladder)

backoff(attemptNo) == Ladder[attemptNo]

recordAttemptOutcome(i, outcome) ==
    LET d == queue[i]  n == d.attempts + 1
        logged == [d EXCEPT !.attempts = n, !.log = Append(@, [outcome |-> outcome, after |-> d.waited]),
                               !.waited = 0]
    IN  /\ recordable(d)
        /\ queue' = [queue EXCEPT ![i] =
                CASE outcome = "success" -> [logged EXCEPT !.status = "delivered"]
                  [] outcome = "failure" /\ willRetry(n) ->
                        [logged EXCEPT !.status = "queued", !.backoff = backoff(n)]
                  [] OTHER -> [logged EXCEPT !.status = "deadLettered"]]
        /\ UNCHANGED <<status, subscribed, plans, sent, ledger>>

(* How a request reaches the consumer: as it was signed, or damaged on its way. *)
Arrivals == {"intact", "header garbled", "payload changed"}

verifySignature(req, arrived) ==
    CASE arrived = "header garbled" -> "MALFORMED"
      [] arrived # "header garbled" /\ req.age > MaxSkew -> "STALE_TIMESTAMP"
      [] arrived = "payload changed" /\ req.age <= MaxSkew -> "MISMATCH"
      [] OTHER -> "VERIFIED"

Known(i) == \E e \in DOMAIN ledger : ledger[e].delivery = i

firstSight(i) == ~Known(i)

(* The consumer receives a request, at any later time and any number of times. *)
verifyDeliverySignature(req, arrived) ==
    /\ IF firstSight(req.delivery)
       THEN ledger' = Append(ledger, [delivery |-> req.delivery, decision |-> verifySignature(req, arrived)])
       ELSE UNCHANGED ledger
    /\ UNCHANGED <<status, subscribed, plans, queue, sent>>

(* Time passes; waits and ages stop counting once every comparison is decided. *)
Tick ==
    LET longest == Ladder[Len(Ladder)]
        upTo(n, most) == IF n < most THEN n + 1 ELSE most
    IN  /\ queue' = [i \in DOMAIN queue |-> [queue[i] EXCEPT !.waited = upTo(@, longest)]]
        /\ sent' = {[r EXCEPT !.age = upTo(@, MaxSkew + 1)] : r \in sent}
        /\ UNCHANGED <<status, subscribed, plans, ledger>>

AttemptStep(i) ==
    beginAttempt(i) \/ \E o \in {"success", "failure"} : recordAttemptOutcome(i, o)

WorkerStep == \/ \E plan \in plans : enqueueDelivery(plan)
              \/ \E i \in DOMAIN queue : AttemptStep(i)

Next == \/ pauseEndpoint \/ resumeEndpoint \/ revokeEndpoint
        \/ \E p \in Patterns : addSubscription(p)
        \/ \E t \in EventTypes : planDelivery(t)
        \/ WorkerStep
        \/ \E req \in sent, arrived \in Arrivals : verifyDeliverySignature(req, arrived)
        \/ Tick

Spec == Init /\ [][Next]_vars

--------------------------------------------------------------------------------
(* Types of the endpoint, the queue and the ledger. *)
TypeOK ==
    /\ status \in {"active", "paused", "revoked"} /\ subscribed \subseteq Patterns
    /\ \A i \in DOMAIN queue : /\ queue[i].status \in Terminal \cup {"queued", "delivering"}
                               /\ queue[i].attempts \in 0..(Len(Ladder) + 1)
    /\ \A e \in DOMAIN ledger : ledger[e].delivery \in DOMAIN queue

(* attempts.ts, planDelivery: a plan, the only thing that can be queued, was   *)
(* made while the endpoint was active and held a pattern whose context is      *)
(* exactly the event's.                                                        *)
PlannedWasWanted ==
    \A plan \in plans :
        /\ plan.status = "active"
        /\ \E p \in plan.held : p = plan.event \/ (p[2] = "*" /\ p[1] = plan.event[1])

(* enqueueDelivery, "the queue never double-sends": never two deliveries of an *)
(* event to the endpoint that are both still to be attempted.                  *)
OneActivePerEvent ==
    \A i, j \in DOMAIN queue :
        (queue[i].event = queue[j].event /\ {queue[i].status, queue[j].status} \cap Terminal = {}) => i = j

(* recordAttemptOutcome: the append-only log tells the delivery - its length   *)
(* the attempts, its last entry the outcome - and two attempts are as far      *)
(* apart as the ladder says.                                                   *)
LogTellsDelivery ==
    \A i \in DOMAIN queue : LET d == queue[i]  n == Len(d.log) IN
        /\ d.attempts = n
        /\ d.status = "delivered" <=> (n > 0 /\ d.log[n].outcome = "success")
        /\ d.status = "deadLettered" => n = Len(Ladder) + 1
        /\ \A k \in 1..(n - 1) : d.log[k].outcome = "failure" /\ d.log[k + 1].after >= Ladder[k]

(* signing.ts, "a replay returns the SAME decision": a delivery has one        *)
(* decision, whenever and however often its requests arrive.                   *)
OneDecisionPerDelivery ==
    \A e, f \in DOMAIN ledger : ledger[e].delivery = ledger[f].delivery => e = f

(* attempts.ts, the bounded ladder: with the worker and the clock running,     *)
(* every delivery is delivered or dead-lettered.                               *)
DeliveriesEnd ==
    \A i \in 1..MaxDeliveries :
        i \in DOMAIN queue ~> (i \in DOMAIN queue /\ queue[i].status \in Terminal)

================================================================================
