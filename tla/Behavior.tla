-------------------------------- MODULE Behavior --------------------------------
(***************************************************************************)
(* The behaviour lane (src/domain/behavior): the profile of a customer as  *)
(* of an instant, the anomalies in their facts, the drift between two      *)
(* profiles, and the events that tell of each.  Pure functions: an adapter *)
(* hands in the facts, and a caller keeps the profiles.                    *)
(*                                                                         *)
(* A fact is [kind, id, ref, at, due, tag, amount]:                        *)
(*   payment        settled at `at`, against `due`, tag partial or whole   *)
(*   promise        to pay by `due`, decided at `at`, tag the outcome      *)
(*   dispute        opened at `at`, resolved at `due`                      *)
(*   communication  on channel `ref`, sent at `at`, tag the direction      *)
(*   allocation     applied at `at`                                        *)
(* A statistic that may be null is a set of at most one number; rates and  *)
(* their thresholds are in ten-thousandths, the rounding of round4.        *)
(***************************************************************************)
EXTENDS Integers, Sequences, SequencesExt, FiniteSetsExt, Functions

CONSTANTS Customers,
          Arrivals,    \* the facts the adapter may project
          Moments,     \* the instants a caller asks about
          Rules,       \* anomaly thresholds, overrides applied
          Limits,      \* drift thresholds, overrides applied
          DAY_MS, MAX_SAFE,
          MaxFacts, MaxKept, MaxTold

VARIABLES facts,   \* Customers -> the bundle of facts
          kept,    \* the profiles built so far
          told     \* the events

vars == <<facts, kept, told>>

Null == -1
BEHAVIOR_FACT_KINDS == {"payment", "promise", "dispute", "communication", "allocation"}
Init == facts = [c \in Customers |-> <<>>] /\ kept = <<>> /\ told = <<>>

Of(bundle, kind) == SelectSeq(bundle, LAMBDA f : f.kind = kind)
Seen(bundle, kind, asOf) == SelectSeq(bundle, LAMBDA f : f.kind = kind /\ f.at <= asOf)
Tagged(s, tag) == SelectSeq(s, LAMBDA f : f.tag = tag)
EvidenceRef(f) == [kind |-> f.kind, id |-> f.id]
Refs(s) == [i \in DOMAIN s |-> EvidenceRef(s[i])]
Ascending(sample) == SortSeq(sample, LAMBDA a, b : a < b)
Sum(s) == FoldSeq(LAMBDA x, y : x + y, 0, s)
Ratio(n, d) == IF d = 0 THEN {} ELSE {[n |-> n, d |-> d]}

--------------------------------------------------------------------------------
(* profile.ts *)

assertPositiveMinorAmount(amount) == amount \in 1 .. MAX_SAFE
assertPaymentFact(f) == f.tag \in {"partial", "whole"} /\ assertPositiveMinorAmount(f.amount)
assertPromiseFact(f) == f.tag \in {"kept", "broken", "expired", "pending"} /\ (f.tag = "pending" <=> f.at = Null)
assertCommunicationFact(f) == f.ref # "" /\ f.tag \in {"inbound", "outbound"}

(* One malformed row refuses the whole bundle. *)
normalizeFacts(bundle) ==
    \A i \in DOMAIN bundle :
        LET f == bundle[i]
        IN  CASE f.kind = "payment" -> assertPaymentFact(f)
              [] f.kind = "promise" -> assertPromiseFact(f)
              [] f.kind = "communication" -> assertCommunicationFact(f)
              [] f.kind = "allocation" -> assertPositiveMinorAmount(f.amount)
              [] f.kind = "dispute" -> TRUE

(* Calendar days: a tick across midnight is a day. *)
utcDaysBetween(from, to) == (to \div DAY_MS) - (from \div DAY_MS)

DaysToPay(payments) == [i \in DOMAIN payments |-> utcDaysBetween(payments[i].due, payments[i].at)]

(* The upper middle of an even sample. *)
UpperMedian(sample) ==
    LET s == Ascending(sample)  n == Len(s)
    IN  IF n = 0 THEN {} ELSE {2 * s[n \div 2 + 1]}

(* In halves. *)
medianOf(sample) ==
    LET s == Ascending(sample)  n == Len(s)
    IN  IF n = 0 THEN {} ELSE {s[(n + 1) \div 2] + s[n \div 2 + 1]}

(* In tenths, at q tenths: between the ranks on either side of (n - 1) * q. *)
percentileOf(sample, q) ==
    LET s == Ascending(sample)
        h == (Len(s) - 1) * q
        lo == h \div 10 + 1
        hi == lo + (IF h % 10 = 0 THEN 0 ELSE 1)
    IN  IF s = <<>> THEN {} ELSE {10 * s[lo] + (h % 10) * (s[hi] - s[lo])}

PaymentCadenceStats(settled) ==
    LET days == DaysToPay(settled)
    IN  [count |-> Len(settled),
         minDaysToPay |-> IF days = <<>> THEN {} ELSE {Ascending(days)[1]},
         medianDaysToPay |-> medianOf(days),
         p90DaysToPay |-> percentileOf(days, 9),
         onTimeCount |-> Len(SelectSeq(days, LAMBDA d : d <= 0)),
         lateCount |-> Len(SelectSeq(days, LAMBDA d : d > 0)),
         partialCount |-> Len(Tagged(settled, "partial")),
         evidence |-> Refs(settled)]

Decided(bundle, asOf) == SelectSeq(Of(bundle, "promise"), LAMBDA p : p.tag # "pending" /\ p.at <= asOf)

PromiseReliability(promises, decided) ==
    [keptCount |-> Len(Tagged(decided, "kept")), brokenCount |-> Len(Tagged(decided, "broken")),
     expiredCount |-> Len(Tagged(decided, "expired")), pendingCount |-> Len(promises) - Len(decided),
     decidedCount |-> Len(decided), reliabilityRate |-> Ratio(Len(Tagged(decided, "kept")), Len(decided)),
     evidence |-> Refs(decided)]

DisputeHistory(known, asOf) ==
    LET open == SelectSeq(known, LAMBDA d : d.due = Null \/ d.due > asOf)
    IN  [totalCount |-> Len(known), resolvedCount |-> Len(known) - Len(open), openCount |-> Len(open),
         currentlyOpen |-> open # <<>>, evidence |-> Refs(known)]

CommunicationResponsiveness(sent) ==
    LET Channels == {sent[i].ref : i \in DOMAIN sent}
        inbound == Len(Tagged(sent, "inbound"))
        On(c, tag) == Len(SelectSeq(sent, LAMBDA m : m.ref = c /\ m.tag = tag))
    IN  [byChannel |-> [c \in Channels |-> [inbound |-> On(c, "inbound"), outbound |-> On(c, "outbound")]],
         inboundTotal |-> inbound, outboundTotal |-> Len(sent) - inbound,
         responseRate |-> Ratio(inbound, Len(sent)), evidence |-> Refs(sent)]

AllocationSummary(applied) ==
    [count |-> Len(applied), totalAmountMinor |-> Sum([i \in DOMAIN applied |-> applied[i].amount]),
     evidence |-> Refs(applied)]

(* A resolved dispute contributes its resolution too, whenever that is. *)
lastActivityAt(settled, decided, known, sent, applied) ==
    LET At(s) == {s[i].at : i \in DOMAIN s}
        resolutions == {known[i].due : i \in DOMAIN known} \ {Null}
        all == UNION {At(settled), At(decided), At(known), resolutions, At(sent), At(applied)}
    IN  IF all = {} THEN {} ELSE {Max(all)}

mayBuildBehaviorProfile(bundle, asOf) ==
    normalizeFacts(bundle) /\ AllocationSummary(Seen(bundle, "allocation", asOf)).totalAmountMinor <= MAX_SAFE

buildBehaviorProfile(c, bundle, asOf) ==
    LET settled == Seen(bundle, "payment", asOf)
        decided == Decided(bundle, asOf)
        known == Seen(bundle, "dispute", asOf)
        sent == Seen(bundle, "communication", asOf)
        applied == Seen(bundle, "allocation", asOf)
    IN  [customerId |-> c, asOf |-> asOf,
         paymentCadence |-> PaymentCadenceStats(settled),
         promiseReliability |-> PromiseReliability(Of(bundle, "promise"), decided),
         disputeHistory |-> DisputeHistory(known, asOf),
         communications |-> CommunicationResponsiveness(sent),
         allocations |-> AllocationSummary(applied),
         lastActivityAt |-> lastActivityAt(settled, decided, known, sent, applied)]

--------------------------------------------------------------------------------
(* anomaly.ts *)

DayFields == {"cadenceWindowDays", "cadenceMinBaseline", "cadenceMinRecent", "cadenceTriggerDays", "cadenceMediumDays",
              "cadenceHighDays", "promiseMinStreak", "promiseStreakHigh", "partialWindowDays", "partialMinPayments",
              "silenceGraceDays", "silenceMediumDays", "silenceHighDays", "disputeWindowDays", "disputeSpikeMin",
              "disputeSpikeHigh"}

(* BEHAV_THRESHOLD_INVALID otherwise. *)
assertThresholds(t) ==
    /\ \A d \in DayFields : t[d] > 0
    /\ t.partialMinRate \in 0 .. 10000 /\ t.partialRateIncrease \in 0 .. 10000
    /\ t.cadenceTriggerDays < t.cadenceMediumDays /\ t.cadenceMediumDays < t.cadenceHighDays
    /\ t.silenceGraceDays < t.silenceMediumDays /\ t.silenceMediumDays < t.silenceHighDays
    /\ t.disputeSpikeMin < t.disputeSpikeHigh

pickSeverity(value, high, medium) ==
    IF value >= high THEN "high" ELSE IF value >= medium THEN "medium" ELSE "low"

severityRank == [low |-> 0, medium |-> 1, high |-> 2]

(* The thresholds a rule reads. *)
ReadBy ==
    [cadence_deterioration |-> {"cadenceWindowDays", "cadenceMinBaseline", "cadenceMinRecent", "cadenceTriggerDays",
                                "cadenceMediumDays", "cadenceHighDays"},
     promise_break_after_streak |-> {"promiseMinStreak", "promiseStreakHigh"},
     partial_payment_pattern |-> {"partialWindowDays", "partialMinRate", "partialRateIncrease", "partialMinPayments"},
     silence_after_promise |-> {"silenceGraceDays", "silenceMediumDays", "silenceHighDays"},
     dispute_spike |-> {"disputeWindowDays", "disputeSpikeMin", "disputeSpikeHigh"}]
thresholdsOf(t, type) == Restrict(t, ReadBy[type])

pick(c, severity, t, type, evidence, measured) ==
    [customerId |-> c, type |-> type, severity |-> severity, evidence |-> Refs(evidence), measured |-> measured,
     thresholds |-> thresholdsOf(t, type)]

Before(s, instant) == SelectSeq(s, LAMBDA f : f.at <= instant)
After(s, instant) == SelectSeq(s, LAMBDA f : f.at > instant)

(* Each detector answers with the anomalies it found.  A median is in halves of a day. *)
detectCadenceDeterioration(c, bundle, asOf, t) ==
    LET start == asOf - t.cadenceWindowDays * DAY_MS
        settled == Seen(bundle, "payment", asOf)
        recent == After(settled, start)
        baseline == Before(settled, start)
        was == CHOOSE m \in medianOf(DaysToPay(baseline)) : TRUE
        is == CHOOSE m \in medianOf(DaysToPay(recent)) : TRUE
    IN  IF Len(baseline) < t.cadenceMinBaseline \/ Len(recent) < t.cadenceMinRecent
           \/ is - was < 2 * t.cadenceTriggerDays
        THEN <<>>
        ELSE <<pick(c, pickSeverity(is - was, 2 * t.cadenceHighDays, 2 * t.cadenceMediumDays), t,
                    "cadence_deterioration", baseline \o recent,
                    <<was, is, is - was, Len(baseline), Len(recent)>>)>>

(* The decided promises in the order of their decisions, ties as they came in. *)
InDecisionOrder(decided) ==
    LET order == SetToSortSeq(DOMAIN decided, LAMBDA i, j : decided[i].at < decided[j].at
                                                            \/ (decided[i].at = decided[j].at /\ i < j))
    IN  [k \in DOMAIN order |-> decided[order[k]]]

(* The run of kept promises just before the last one. *)
StreakBeforeLast(s) ==
    LET n == Len(s) - 1
    IN  Max({k \in 0 .. n : \A i \in n - k + 1 .. n : s[i].tag = "kept"})

detectPromiseBreakAfterStreak(c, bundle, asOf, t) ==
    LET s == InDecisionOrder(Decided(bundle, asOf))
        streak == StreakBeforeLast(s)
    IN  IF s = <<>> THEN <<>>
        ELSE IF Last(s).tag # "broken" \/ streak < t.promiseMinStreak THEN <<>>
        ELSE <<pick(c, IF streak >= t.promiseStreakHigh THEN "high" ELSE "medium", t, "promise_break_after_streak",
                    <<Last(s)>> \o SubSeq(s, Len(s) - streak, Len(s) - 1), <<streak, Last(s).at>>)>>

detectPartialPaymentPattern(c, bundle, asOf, t) ==
    LET start == asOf - t.partialWindowDays * DAY_MS
        settled == Seen(bundle, "payment", asOf)
        recent == After(settled, start)
        baseline == Before(settled, start)
        nr == Len(recent)
        nb == Len(baseline)
        pr == Len(Tagged(recent, "partial"))
        pb == Len(Tagged(baseline, "partial"))
    IN  IF nr < t.partialMinPayments \/ nb < t.partialMinPayments
           \/ 10000 * (pr * nb - pb * nr) < t.partialRateIncrease * nr * nb
           \/ 10000 * pr < t.partialMinRate * nr
        THEN <<>>
        ELSE <<pick(c, IF pr = nr THEN "medium" ELSE "low", t, "partial_payment_pattern",
                    Tagged(baseline, "partial") \o recent, <<pb, nb, pr, nr>>)>>

Silent(bundle, p, asOf) ==
    /\ ~\E i \in DOMAIN bundle : /\ bundle[i].kind = "communication" /\ bundle[i].tag = "inbound"
                                 /\ bundle[i].at > p.due /\ bundle[i].at <= asOf
    /\ ~\E i \in DOMAIN bundle : /\ bundle[i].kind = "payment"
                                 /\ bundle[i].at > p.due /\ bundle[i].at <= asOf

detectSilenceAfterPromise(c, bundle, asOf, t) ==
    LET pending == SortSeq(Tagged(Of(bundle, "promise"), "pending"),
                           LAMBDA a, b : a.due < b.due \/ (a.due = b.due /\ a.id < b.id))
        quiet == SelectSeq(pending, LAMBDA p : /\ utcDaysBetween(p.due, asOf) >= t.silenceGraceDays
                                               /\ Silent(bundle, p, asOf))
    IN  [i \in DOMAIN quiet |->
            LET past == utcDaysBetween(quiet[i].due, asOf)
            IN  pick(c, pickSeverity(past, t.silenceHighDays, t.silenceMediumDays), t, "silence_after_promise",
                     <<quiet[i]>>, <<past, quiet[i].due>>)]

detectDisputeSpike(c, bundle, asOf, t) ==
    LET inWindow == After(Seen(bundle, "dispute", asOf), asOf - t.disputeWindowDays * DAY_MS)
        n == Len(inWindow)
    IN  IF n < t.disputeSpikeMin THEN <<>>
        ELSE <<pick(c, IF n >= t.disputeSpikeHigh THEN "high" ELSE "medium", t, "dispute_spike", inWindow,
                    <<n, t.disputeWindowDays>>)>>

detectAnomalies(c, bundle, asOf, t) ==
    detectCadenceDeterioration(c, bundle, asOf, t) \o detectPromiseBreakAfterStreak(c, bundle, asOf, t)
        \o detectPartialPaymentPattern(c, bundle, asOf, t) \o detectSilenceAfterPromise(c, bundle, asOf, t)
        \o detectDisputeSpike(c, bundle, asOf, t)

--------------------------------------------------------------------------------
(* drift.ts *)

TRAJECTORY_DIMENSIONS == {"payment_cadence", "promise_reliability", "disputes", "responsiveness"}
ImprovesBy == [payment_cadence |-> "down", promise_reliability |-> "up", disputes |-> "down", responsiveness |-> "up"]

assertLimits(limits) == \A d \in TRAJECTORY_DIMENSIONS : limits[d] > 0

(* What a profile says in a dimension; nothing where it has no history. *)
Metric(p, dimension) ==
    CASE dimension = "payment_cadence" -> {[n |-> m, d |-> 2] : m \in p.paymentCadence.medianDaysToPay}
      [] dimension = "promise_reliability" -> p.promiseReliability.reliabilityRate
      [] dimension = "disputes" -> {[n |-> p.disputeHistory.openCount, d |-> 1]}
      [] dimension = "responsiveness" -> p.communications.responseRate

round4(n, d) == (20000 * n + d) \div (2 * d)
Delta(before, after) == {round4(a.n * b.d - b.n * a.d, a.d * b.d) : b \in before, a \in after}

(* A change short of the threshold, either way, is no change; so is no history. *)
classifyDelta(delta, threshold, improvingDirection) ==
    LET rise == \E x \in delta : x >= threshold
        fall == \E x \in delta : x <= -threshold
    IN  IF ~rise /\ ~fall THEN "stable"
        ELSE IF rise = (improvingDirection = "up") THEN "improving" ELSE "deteriorating"

DimensionTrajectory(before, after, dimension, limits) ==
    LET delta == Delta(Metric(before, dimension), Metric(after, dimension))
    IN  [trajectory |-> classifyDelta(delta, limits[dimension], ImprovesBy[dimension]), delta |-> delta,
         threshold |-> limits[dimension]]

mayCompareProfiles(before, after, limits) ==
    before.customerId = after.customerId /\ before.asOf <= after.asOf /\ assertLimits(limits)

WorstOf(verdicts) ==
    IF "deteriorating" \in verdicts THEN "deteriorating" ELSE IF "improving" \in verdicts THEN "improving" ELSE "stable"

compareProfiles(before, after, limits) ==
    LET dimensions == [d \in TRAJECTORY_DIMENSIONS |-> DimensionTrajectory(before, after, d, limits)]
    IN  [customerId |-> after.customerId, beforeAsOf |-> before.asOf, afterAsOf |-> after.asOf,
         overall |-> WorstOf({dimensions[d].trajectory : d \in TRAJECTORY_DIMENSIONS}), dimensions |-> dimensions,
         reasons |-> {d \in TRAJECTORY_DIMENSIONS : dimensions[d].trajectory # "stable"}]

--------------------------------------------------------------------------------
(* events.ts *)

build(name, aggregateId, payload) == [name |-> name, aggregateId |-> aggregateId, payload |-> payload]

countEvidence(p) ==
    Len(p.paymentCadence.evidence) + Len(p.promiseReliability.evidence) + Len(p.disputeHistory.evidence)
        + Len(p.communications.evidence) + Len(p.allocations.evidence)

profileBuiltEvent(p) ==
    build("behavior.profileBuilt", p.customerId,
          [asOf |-> p.asOf, paymentCount |-> p.paymentCadence.count, medianDaysToPay |-> p.paymentCadence.medianDaysToPay,
           onTimeCount |-> p.paymentCadence.onTimeCount, lateCount |-> p.paymentCadence.lateCount,
           partialCount |-> p.paymentCadence.partialCount, promiseKeptCount |-> p.promiseReliability.keptCount,
           promiseBrokenCount |-> p.promiseReliability.brokenCount,
           promiseExpiredCount |-> p.promiseReliability.expiredCount,
           promisePendingCount |-> p.promiseReliability.pendingCount,
           promiseReliabilityRate |-> p.promiseReliability.reliabilityRate,
           disputeTotalCount |-> p.disputeHistory.totalCount, disputeOpenCount |-> p.disputeHistory.openCount,
           currentlyOpen |-> p.disputeHistory.currentlyOpen, inboundTotal |-> p.communications.inboundTotal,
           outboundTotal |-> p.communications.outboundTotal, responseRate |-> p.communications.responseRate,
           allocationCount |-> p.allocations.count, totalAllocatedMinor |-> p.allocations.totalAmountMinor,
           lastActivityAt |-> p.lastActivityAt, evidenceCount |-> countEvidence(p)])

trajectoryChangedEvent(report, previousOverall) ==
    build("behavior.trajectoryChanged", report.customerId,
          [from |-> previousOverall, to |-> report.overall, beforeAsOf |-> report.beforeAsOf,
           afterAsOf |-> report.afterAsOf, dimensions |-> report.dimensions, reasons |-> report.reasons])

anomalyDetectedEvent(anomaly) == build("behavior.anomalyDetected", anomaly.customerId, anomaly)

--------------------------------------------------------------------------------
(* The adapter: a fact it had not projected, or one it projects again as it is now (a *)
(* promise decided, a dispute resolved).                                              *)
SameFact(f, g) == f.kind = g.kind /\ f.id = g.id

Project(c) ==
    /\ \E f \in Arrivals :
          IF \E i \in DOMAIN facts[c] : SameFact(facts[c][i], f)
          THEN \E i \in DOMAIN facts[c] :
                  /\ SameFact(facts[c][i], f)
                  /\ \/ facts[c][i].kind = "promise" /\ facts[c][i].tag = "pending"
                     \/ facts[c][i].kind = "dispute" /\ facts[c][i].due = Null
                  /\ facts' = [facts EXCEPT ![c][i] = f]
          ELSE Len(facts[c]) < MaxFacts /\ facts' = [facts EXCEPT ![c] = Append(@, f)]
    /\ UNCHANGED <<kept, told>>

(* The caller. *)
Build(c) ==
    \E asOf \in Moments :
        LET p == buildBehaviorProfile(c, facts[c], asOf)
        IN  /\ mayBuildBehaviorProfile(facts[c], asOf) /\ Len(kept) < MaxKept /\ Len(told) < MaxTold
            /\ kept' = Append(kept, p) /\ told' = Append(told, profileBuiltEvent(p))
            /\ UNCHANGED facts

(* A verdict is told only where it differs from the one told before. *)
Overall(c) ==
    LET changes == SelectSeq(told, LAMBDA e : e.name = "behavior.trajectoryChanged" /\ e.aggregateId = c)
    IN  IF changes = <<>> THEN "stable" ELSE Last(changes).payload.to

Compare ==
    \E i, j \in DOMAIN kept, limits \in Limits :
        LET report == compareProfiles(kept[i], kept[j], limits)
        IN  /\ mayCompareProfiles(kept[i], kept[j], limits) /\ Len(told) < MaxTold
            /\ report.overall # Overall(report.customerId)
            /\ told' = Append(told, trajectoryChangedEvent(report, Overall(report.customerId)))
            /\ UNCHANGED <<facts, kept>>

Watch(c) ==
    \E asOf \in Moments, t \in Rules :
        /\ assertThresholds(t) /\ normalizeFacts(facts[c])
        /\ LET found == detectAnomalies(c, facts[c], asOf, t)
           IN  /\ found # <<>> /\ Len(told) + Len(found) <= MaxTold
               /\ told' = told \o [i \in DOMAIN found |-> anomalyDetectedEvent(found[i])]
        /\ UNCHANGED <<facts, kept>>

Next == Compare \/ \E c \in Customers : Project(c) \/ Build(c) \/ Watch(c)
Spec == Init /\ [][Next]_vars

--------------------------------------------------------------------------------
(* Type correctness: bundles hold the adapter's facts, events name their customer. *)
TypeOK ==
    /\ facts \in [Customers -> Seq(Arrivals)] /\ \A f \in Arrivals : f.kind \in BEHAVIOR_FACT_KINDS
    /\ \A i \in DOMAIN kept : kept[i].customerId \in Customers /\ kept[i].asOf \in Moments
    /\ \A i \in DOMAIN told : told[i].aggregateId \in Customers

(* The bundle as it stood at an instant: what came later is not there, what was decided or *)
(* resolved later is not yet decided or resolved.                                         *)
AsItStood(bundle, asOf) ==
    LET past == SelectSeq(bundle, LAMBDA f : f.kind = "promise" \/ f.at <= asOf)
    IN  [i \in DOMAIN past |->
            LET f == past[i]
            IN  CASE f.kind = "promise" /\ f.at > asOf -> [f EXCEPT !.at = Null, !.tag = "pending"]
                  [] f.kind = "dispute" /\ f.due > asOf -> [f EXCEPT !.due = Null]
                  [] OTHER -> f]

(* A profile is of its instant (buildBehaviorProfile, "Facts observed after `asOf` are       *)
(* invisible"): built later, with the facts that came since, it says what it would have said *)
(* then.  lastActivityAt is left out: it takes a dispute's later resolution in.             *)
ProfileIsOfItsTime ==
    \A c \in Customers, asOf \in Moments :
        LET Of1(bundle) == [buildBehaviorProfile(c, bundle, asOf) EXCEPT !.lastActivityAt = {}]
        IN  mayBuildBehaviorProfile(facts[c], asOf) =>
                /\ mayBuildBehaviorProfile(AsItStood(facts[c], asOf), asOf)
                /\ Of1(facts[c]) = Of1(AsItStood(facts[c], asOf))

(* So are the anomalies: the detectors, run later for the same instant, find what they would *)
(* have found then.  Bundles with a promise decided since are left out: the silence rule     *)
(* takes a promise for decided from the moment its outcome is known.                         *)
WatchIsOfItsTime ==
    \A c \in Customers, asOf \in Moments, t \in Rules :
        /\ assertThresholds(t) /\ normalizeFacts(facts[c])
        /\ ~\E i \in DOMAIN facts[c] : facts[c][i].kind = "promise" /\ facts[c][i].at > asOf
        => detectAnomalies(c, facts[c], asOf, t) = detectAnomalies(c, AsItStood(facts[c], asOf), asOf, t)

(* The numbers of a profile are those of the facts it cites: every payment is on time or     *)
(* late, every decided promise counted once, every message on one channel, and the median    *)
(* and the ninetieth percentile lie where order statistics lie.                              *)
ProfileAddsUp ==
    \A k \in DOMAIN kept :
        LET p == kept[k]
            c == p.paymentCadence
            r == p.promiseReliability
            m == p.communications
            cited == {c.evidence[i].id : i \in DOMAIN c.evidence}
            paid == SelectSeq(facts[p.customerId], LAMBDA f : f.kind = "payment" /\ f.id \in cited)
            days == DaysToPay(paid)
            Half(S) == 2 * Cardinality(S) >= Len(days)
        IN  /\ c.onTimeCount + c.lateCount = c.count /\ c.count = Len(paid) /\ c.partialCount <= c.count
            /\ r.keptCount + r.brokenCount + r.expiredCount = r.decidedCount
            /\ p.disputeHistory.resolvedCount + p.disputeHistory.openCount = p.disputeHistory.totalCount
            /\ m.inboundTotal + m.outboundTotal = Len(m.evidence)
            /\ MapThenSumSet(LAMBDA ch : m.byChannel[ch].inbound, DOMAIN m.byChannel) = m.inboundTotal
            /\ MapThenSumSet(LAMBDA ch : m.byChannel[ch].outbound, DOMAIN m.byChannel) = m.outboundTotal
            /\ \A x \in c.medianDaysToPay :
                  /\ Half({i \in DOMAIN days : 2 * days[i] <= x}) /\ Half({i \in DOMAIN days : 2 * days[i] >= x})
                  /\ \A y \in c.p90DaysToPay, z \in c.minDaysToPay :
                        /\ 2 * z <= x /\ 5 * x <= y
                        /\ \A i \in DOMAIN days : z <= days[i]
                        /\ \E i \in DOMAIN days : 10 * days[i] >= y

(* The order in which the adapter lists the facts decides nothing: neither the numbers of a  *)
(* profile nor the anomalies, but for promises decided at the same instant.                  *)
OrderIsNoise ==
    \A c \in Customers, asOf \in Moments :
        LET flip == Reverse(facts[c])
            NoOrder(s) == {s[i] : i \in DOMAIN s}
            P(b) == LET p == buildBehaviorProfile(c, b, asOf)
                    IN  [p EXCEPT !.paymentCadence.evidence = NoOrder(@), !.promiseReliability.evidence = NoOrder(@),
                                  !.disputeHistory.evidence = NoOrder(@), !.communications.evidence = NoOrder(@),
                                  !.allocations.evidence = NoOrder(@)]
            Findings(b, t) == LET found == detectAnomalies(c, b, asOf, t)
                              IN  [i \in DOMAIN found |-> [found[i] EXCEPT !.evidence = NoOrder(@)]]
            ties == \E i, j \in DOMAIN facts[c] : /\ i # j /\ facts[c][i].kind = "promise" /\ facts[c][j].kind = "promise"
                                                  /\ facts[c][i].at = facts[c][j].at /\ facts[c][i].at # Null
        IN  mayBuildBehaviorProfile(facts[c], asOf) =>
                /\ P(facts[c]) = P(flip)
                /\ ~ties => \A t \in Rules : assertThresholds(t) => Findings(facts[c], t) = Findings(flip, t)

(* An anomaly rests on the facts it cites: over those alone the detectors find it again, at  *)
(* the same severity.  The partial-payment rule is left out: it cites of the baseline only   *)
(* the partial payments.                                                                     *)
EvidenceSuffices ==
    \A c \in Customers, asOf \in Moments, t \in Rules :
        assertThresholds(t) /\ normalizeFacts(facts[c]) =>
            LET found == detectAnomalies(c, facts[c], asOf, t)
            IN  \A i \in DOMAIN found :
                    LET cited == SelectSeq(facts[c], LAMBDA f : \E k \in DOMAIN found[i].evidence :
                                                                    found[i].evidence[k] = EvidenceRef(f))
                        again == detectAnomalies(c, cited, asOf, t)
                    IN  found[i].type # "partial_payment_pattern" => \E k \in DOMAIN again : again[k] = found[i]

(* Silence only deepens: while nothing is heard and nothing is paid, a silent promise stays  *)
(* reported, at a severity that never drops.                                                 *)
SilenceDeepens ==
    \A c \in Customers, t \in Rules, from, to \in Moments :
        assertThresholds(t) /\ normalizeFacts(facts[c]) /\ from <= to =>
            LET was == detectSilenceAfterPromise(c, facts[c], from, t)
                is == detectSilenceAfterPromise(c, facts[c], to, t)
                quiet == ~\E i \in DOMAIN facts[c] : /\ facts[c][i].kind \in {"payment", "communication"}
                                                     /\ facts[c][i].at > from /\ facts[c][i].at <= to
            IN  quiet => \A i \in DOMAIN was : \E k \in DOMAIN is :
                            /\ is[k].evidence = was[i].evidence
                            /\ severityRank[is[k].severity] >= severityRank[was[i].severity]

(* Drift is a comparison: a profile has not drifted from itself, and what improved one way   *)
(* round deteriorated the other way round.                                                   *)
DriftIsComparison ==
    \A i, j \in DOMAIN kept, limits \in Limits :
        assertLimits(limits) =>
            LET there == compareProfiles(kept[i], kept[j], limits).dimensions
                back == compareProfiles(kept[j], kept[i], limits).dimensions
            IN  /\ compareProfiles(kept[i], kept[i], limits).overall = "stable"
                /\ \A d \in TRAJECTORY_DIMENSIONS :
                      there[d].trajectory = "improving" <=> back[d].trajectory = "deteriorating"

(* The events tell what happened: a profile event counts the evidence behind its numbers, a  *)
(* trajectory event has a change to tell and no deterioration it passes over, an anomaly     *)
(* event meets the thresholds it carries.                                                    *)
EventsTell ==
    \A i \in DOMAIN told :
        LET e == told[i].payload
        IN  CASE told[i].name = "behavior.profileBuilt" ->
                    e.evidenceCount = e.paymentCount + e.promiseKeptCount + e.promiseBrokenCount + e.promiseExpiredCount
                                        + e.disputeTotalCount + e.inboundTotal + e.outboundTotal + e.allocationCount
              [] told[i].name = "behavior.trajectoryChanged" ->
                    /\ e.from # e.to /\ e.beforeAsOf <= e.afterAsOf
                    /\ (e.to = "deteriorating") <=> \E d \in e.reasons : e.dimensions[d].trajectory = "deteriorating"
                    /\ \A d \in e.reasons : \E x \in e.dimensions[d].delta :
                          x >= e.dimensions[d].threshold \/ -x >= e.dimensions[d].threshold
              [] told[i].name = "behavior.anomalyDetected" -> e.evidence # <<>>
================================================================================
