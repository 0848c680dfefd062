-------------------------------- MODULE Promises --------------------------------
(***************************************************************************)
(* One promise to pay (src/domain/promises/promise.ts) and the dunning of  *)
(* its subject, anchored at the promised date.  A desk activates, settles, *)
(* cancels; a sweep breaks or expires; a dunning tick sends what is due.   *)
(***************************************************************************)
EXTENDS Integers, Sequences, SequencesExt

CONSTANTS Ladder,      \* sequence of [key, dayOffset, requiresConsent]
          TicksPerDay, EscalationAfterDays,
          Amounts, PromisedDates, GraceDays,
          MaxTime      \* bound on the clock

--------------------------------------------------------------------------------
(* The dunning engine (dunning.ts): which ladder steps are due, which of them the *)
(* consent gate lets through, when an unanswered step escalates.  Instants are    *)
(* ticks, TicksPerDay to a UTC day.                                               *)

(* DUNNING_LADDER_INVALID otherwise. *)
assertLadder ==
    /\ Ladder # <<>>
    /\ \A i, j \in DOMAIN Ladder : i < j => Ladder[i].key # Ladder[j].key /\ Ladder[i].dayOffset <= Ladder[j].dayOffset

utcDaysBetween(from, to) == (to \div TicksPerDay) - (from \div TicksPerDay)

dueSteps(now, dueDate, sent) ==
    SelectSeq(Ladder, LAMBDA s : s.key \notin sent /\ utcDaysBetween(dueDate, now) >= s.dayOffset)

evaluateDunningSend(s, consentRef) == ~s.requiresConsent \/ consentRef

orchestrateDunning(now, dueDate, sent, consentRef) ==
    LET due == dueSteps(now, dueDate, sent)
    IN  [sends   |-> SelectSeq(due, LAMBDA s : evaluateDunningSend(s, consentRef)),
         blocked |-> SelectSeq(due, LAMBDA s : ~evaluateDunningSend(s, consentRef))]

(* -1 stands for null. *)
escalationDue(now, lastSendAt, lastResponseAt) ==
    lastSendAt >= 0 /\ lastResponseAt < lastSendAt /\ utcDaysBetween(lastSendAt, now) >= EscalationAfterDays

--------------------------------------------------------------------------------
VARIABLES p, now, events, sent, log, lastSendAt, lastResponseAt, answered

dunningVars == <<sent, log, lastSendAt, lastResponseAt, answered>>
vars == <<p, now, events, dunningVars>>

Terminal == {"fulfilled", "broken", "cancelled", "expired"}

PROMISE_TRANSITIONS ==
    [created |-> {"pending", "cancelled", "expired"},
     pending |-> {"partially_fulfilled", "fulfilled", "broken", "cancelled", "expired"},
     partially_fulfilled |-> {"fulfilled", "broken", "cancelled"},
     fulfilled |-> {}, broken |-> {}, cancelled |-> {}, expired |-> {}]

createPromise(amount, promised, ref) ==
    [amount |-> amount, promised |-> promised, consentRef |-> ref, status |-> "created",
     settled |-> 0, at |-> 0]

Init ==
    /\ now = 0
    /\ \E a \in Amounts, d \in PromisedDates, ref \in BOOLEAN :
          p = createPromise(a, d, ref)
    /\ events = <<"promise.created">>
    /\ sent = {} /\ log = <<>> /\ lastSendAt = -1 /\ lastResponseAt = -1 /\ answered = FALSE

Emit(names) == events' = events \o names
Lifecycle == UNCHANGED <<now, dunningVars>>

--------------------------------------------------------------------------------
(* The generic door: pending and cancelled are its only targets. *)
transitionPromise(to) ==
    /\ to \in PROMISE_TRANSITIONS[p.status]
    /\ to \in {"pending", "cancelled"}
    /\ p' = [p EXCEPT !.status = to, !.at = now]
    /\ Emit(<<IF to = "pending" THEN "promise.activated" ELSE "promise.cancelled">>)
    /\ Lifecycle

maySettle(a) == p.status \in {"pending", "partially_fulfilled"} /\ p.settled + a <= p.amount

applySettlement(a) ==
    /\ maySettle(a)
    /\ LET total == p.settled + a IN
       /\ p' = [p EXCEPT !.settled = total, !.at = IF total = p.amount THEN now ELSE @,
                         !.status = IF total = p.amount THEN "fulfilled" ELSE "partially_fulfilled"]
       /\ Emit(<<IF total = p.amount THEN "promise.fulfilled" ELSE "promise.partiallyFulfilled">>)
    /\ Lifecycle

mayBreak == p.status \in {"pending", "partially_fulfilled"} /\ now > p.promised /\ p.settled < p.amount

markPromiseBroken ==
    /\ mayBreak
    /\ p' = [p EXCEPT !.status = "broken", !.at = now]
    /\ Emit(<<"promise.broken", "collections.promiseBroken">>)
    /\ Lifecycle

mayExpire == /\ p.status \in {"created", "pending"}
             /\ now >= p.promised + GraceDays * TicksPerDay /\ p.settled = 0

expirePromise ==
    /\ mayExpire
    /\ p' = [p EXCEPT !.status = "expired", !.at = now]
    /\ Emit(<<"promise.expired">>)
    /\ Lifecycle

--------------------------------------------------------------------------------
(* The scheduled tick: every send is dispatched and its key recorded. *)
DunningTick ==
    LET plan == orchestrateDunning(now, p.promised, sent, p.consentRef)
    IN  /\ assertLadder /\ plan.sends # <<>>
        /\ sent' = sent \cup {s.key : s \in Range(plan.sends)}
        /\ log' = log \o [i \in DOMAIN plan.sends |-> [step |-> plan.sends[i], at |-> now]]
        /\ lastSendAt' = now /\ answered' = FALSE
        /\ UNCHANGED <<p, now, events, lastResponseAt>>

CustomerResponds ==
    /\ ~answered /\ lastSendAt >= 0
    /\ lastResponseAt' = now /\ answered' = TRUE
    /\ UNCHANGED <<p, now, events, sent, log, lastSendAt>>

dunningEscalatedEvent ==
    /\ escalationDue(now, lastSendAt, lastResponseAt)
    /\ ~Contains(events, "dunning.escalated")   \* bound: one escalation
    /\ Emit(<<"dunning.escalated">>)
    /\ UNCHANGED <<p, now, dunningVars>>

Tick == now < MaxTime /\ now' = now + 1 /\ UNCHANGED <<p, events, dunningVars>>

Next ==
    \/ \E to \in DOMAIN PROMISE_TRANSITIONS : transitionPromise(to)
    \/ \E a \in 1..2 : applySettlement(a)
    \/ markPromiseBroken \/ expirePromise
    \/ DunningTick \/ CustomerResponds \/ dunningEscalatedEvent \/ Tick

Spec == Init /\ [][Next]_vars

--------------------------------------------------------------------------------
Count(name) == Len(SelectSeq(events, LAMBDA e : e = name))

TypeOK ==
    /\ p.status \in DOMAIN PROMISE_TRANSITIONS /\ p.settled \in 0..p.amount /\ p.amount \in Amounts
    /\ now \in 0..MaxTime
    /\ sent \subseteq {s.key : s \in Range(Ladder)}
    /\ lastSendAt \in -1..now /\ lastResponseAt \in -1..now

(* Across settlements, breaks, expiries and cancellations in any order: the status says  *)
(* what was covered and when, and the collections trigger goes out exactly for the       *)
(* promises that broke (promise.ts: applySettlement, markPromiseBroken, expirePromise).  *)
StatusTellsCoverage ==
    /\ (p.status = "fulfilled") <=> (p.settled = p.amount)
    /\ p.status \in {"created", "pending", "expired"} => p.settled = 0
    /\ p.status = "partially_fulfilled" => p.settled \in 1..(p.amount - 1)
    /\ p.status = "broken" => p.at > p.promised
    /\ p.status = "expired" => p.at >= p.promised + GraceDays * TicksPerDay
    /\ Count("collections.promiseBroken") = IF p.status = "broken" THEN 1 ELSE 0
    /\ Count("promise.fulfilled") = IF p.status = "fulfilled" THEN 1 ELSE 0

(* A late payment never rewrites a broken, expired or cancelled promise: nothing leaves  *)
(* a terminal state and no lifecycle event follows it.                                   *)
TerminalIsFinal == [][p.status \in Terminal => p' = p]_vars

(* However many ticks run and however late they start: every ladder step is sent at most *)
(* once, in ladder order, not before its day, and a gated one only with a reference.     *)
SendsFollowLadder ==
    /\ sent = {log[i].step.key : i \in DOMAIN log}
    /\ \A i, j \in DOMAIN log : i < j => /\ log[i].step.key # log[j].step.key
                                         /\ log[i].step.dayOffset <= log[j].step.dayOffset
    /\ \A i \in DOMAIN log : /\ utcDaysBetween(p.promised, log[i].at) >= log[i].step.dayOffset
                             /\ log[i].step.requiresConsent => p.consentRef

(* No escalation over a customer who answered the last send.                             *)
EscalatesOnlyUnanswered ==
    [][Count("dunning.escalated")' > Count("dunning.escalated") => ~answered]_vars

(* Every promise ends: a promise nobody settles or cancels is broken or expired.         *)
PromiseResolved == p.status \in Terminal

================================================================================
