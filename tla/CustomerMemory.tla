---------------------------- MODULE CustomerMemory -----------------------------
(***************************************************************************)
(* Customer financial memory (domain/memory): normalised facts arrive, in  *)
(* any order and possibly twice; a snapshot at a point in time turns those *)
(* of each customer into claims with the evidence they were computed from; *)
(* two memories of a customer are compared, and a significant change is    *)
(* told.  Ids are the fact's place in the order of first arrival, evidence *)
(* is a set, and a fraction is a pair [n, d].                              *)
(***************************************************************************)
EXTENDS Integers, Sequences, FiniteSets, SequencesExt, FiniteSetsExt

CONSTANTS Arrivals,       \* the facts that may arrive, without their eventId
          Moments,        \* the points in time a snapshot may be taken for
          Limits,         \* the thresholds a comparison may be asked with
          CURRENCIES, DAY_MS, MAX_SAFE, MaxFacts, MaxKept, MaxTold

VARIABLES history,        \* the facts as the caller presents them
          kept,           \* memories taken, each with the length of the history it saw
          told            \* the events emitted

vars == <<history, kept, told>>

MEMORY_FACT_TYPES ==
    {"invoice_issued", "payment_received", "allocation_applied", "receivable_opened", "receivable_settled",
     "promise_outcome", "message_exchanged", "consent_changed", "dispute_opened", "dispute_resolved"}

(* The fields each type's branch of assertMemoryFacts looks at; `ref` is the id or channel  *)
(* the fact is about ("null" where that is allowed), `tag` its outcome, direction or status.*)
MoneyTypes == {"invoice_issued", "payment_received", "allocation_applied", "receivable_opened"}
Tags == [promise_outcome |-> {"kept", "broken", "expired"}, message_exchanged |-> {"inbound", "outbound"},
         consent_changed |-> {"granted", "revoked"}]
ValidFact(f) ==
    /\ f.type \in MEMORY_FACT_TYPES
    /\ f.type # "payment_received" => f.ref # "null"
    /\ f.type \in MoneyTypes => f.currency \in CURRENCIES /\ f.amountMinor \in 0..MAX_SAFE
    /\ f.type \in DOMAIN Tags => f.tag \in Tags[f.type]

assertMemoryFacts(facts) ==
    /\ \A k \in DOMAIN facts : ValidFact(facts[k])
    /\ \A j, k \in DOMAIN facts : facts[j].eventId = facts[k].eventId => j = k

wholeDaysBetween(from, to) == Max({0, (to - from) \div DAY_MS})

AGING_BUCKETS == {"0-30", "31-60", "61-90", "90+"}
agingBucketFor(days) ==
    CASE days <= 30 -> "0-30" [] days \in 31..60 -> "31-60" [] days \in 61..90 -> "61-90" [] OTHER -> "90+"

Ascending(values) == SortSeq(values, LAMBDA a, b : a < b)
medianOf(values) ==
    LET sorted == Ascending(values)
        mid == Len(values) \div 2
    IN  IF Len(values) % 2 = 1 THEN [n |-> sorted[mid + 1], d |-> 1] ELSE [n |-> sorted[mid] + sorted[mid + 1], d |-> 2]
(* The p-th percentile, p in percent: the value of rank ceil(p * n), kept within 1..n. *)
nearestRankPercentile(values, p) ==
    LET rank == (p * Len(values) + 99) \div 100
    IN  Ascending(values)[Min({Max({rank, 1}), Len(values)})]

(* The places of the facts of a type about `ref`, and the earliest and latest of some      *)
(* places: `at` decides, the array order breaks ties.                                      *)
Places(facts, type, ref) == {k \in DOMAIN facts : facts[k].type = type /\ facts[k].ref = ref}
Earliest(facts, places) ==
    CHOOSE k \in places : \A j \in places : facts[k].at < facts[j].at \/ (facts[k].at = facts[j].at /\ k <= j)
LastPlace(facts, places) == Max(places)   \* a mutant of Latest
Latest(facts, places) ==
    CHOOSE k \in places : \A j \in places : facts[k].at > facts[j].at \/ (facts[k].at = facts[j].at /\ k >= j)
Refs(facts, type) == {facts[k].ref : k \in {j \in DOMAIN facts : facts[j].type = type}}
OfType(facts, type) == SelectSeq(facts, LAMBDA f : f.type = type)
Ids(facts, places) == {facts[k].eventId : k \in places}
Column(facts, Field(_)) == [k \in DOMAIN facts |-> Field(facts[k])]
AllIds(facts) == Ids(facts, DOMAIN facts)

(* Each builder returns its claim, as a set with one element, or nothing. *)
buildCadenceClaim(facts, asOf) ==
    LET issue(f) == facts[Earliest(facts, Places(facts, "invoice_issued", f.ref))]
        paid == SelectSeq(facts, LAMBDA f : f.type = "payment_received" /\ f.ref \in Refs(facts, "invoice_issued"))
        days == [k \in DOMAIN paid |-> wholeDaysBetween(issue(paid[k]).at, paid[k].at)]
    IN  IF paid = <<>> THEN {}
        ELSE {[value |-> [sampleCount |-> Len(days), minDaysToPay |-> Min(ToSet(days)),
                          medianDaysToPay |-> medianOf(days), p90DaysToPay |-> nearestRankPercentile(days, 90)],
               computedFrom |-> AllIds(paid) \cup {issue(f).eventId : f \in ToSet(paid)}, asOf |-> asOf]}

SizeBand(amounts) ==
    [count |-> Len(amounts), minMinor |-> Min(ToSet(amounts)), p25Minor |-> nearestRankPercentile(amounts, 25),
     medianMinor |-> medianOf(amounts), p75Minor |-> nearestRankPercentile(amounts, 75), maxMinor |-> Max(ToSet(amounts))]
buildSizeBandsClaim(facts, asOf) ==
    LET paid == OfType(facts, "payment_received")
        amounts(c) == Column(SelectSeq(paid, LAMBDA f : f.currency = c), LAMBDA f : f.amountMinor)
    IN  IF paid = <<>> THEN {}
        ELSE {[value |-> [c \in {f.currency : f \in ToSet(paid)} |-> SizeBand(amounts(c))],
               computedFrom |-> AllIds(paid), asOf |-> asOf]}

buildReliabilityClaim(facts, asOf) ==
    LET outcomes == OfType(facts, "promise_outcome")
        count(tag) == Len(SelectSeq(outcomes, LAMBDA f : f.tag = tag))
    IN  IF outcomes = <<>> THEN {}
        ELSE {[value |-> [kept |-> count("kept"), broken |-> count("broken"), expired |-> count("expired"),
                          rate |-> [n |-> count("kept"), d |-> Len(outcomes)]],
               computedFrom |-> AllIds(outcomes), asOf |-> asOf]}

buildChannelClaim(facts, asOf) ==
    LET used == OfType(facts, "message_exchanged")
        asked == Refs(facts, "consent_changed")
        deciding(c) == facts[Latest(facts, Places(facts, "consent_changed", c))]
        count(c, tag) == Len(SelectSeq(used, LAMBDA f : f.ref = c /\ f.tag = tag))
    IN  IF used = <<>> /\ asked = {} THEN {}
        ELSE {[value |-> [channels |-> [c \in Refs(used, "message_exchanged") |->
                                           [inbound |-> count(c, "inbound"), outbound |-> count(c, "outbound")]],
                          consent |-> [c \in asked \cup Refs(used, "message_exchanged") |->
                                           IF c \in asked THEN deciding(c).tag ELSE "none"]],
               computedFrom |-> AllIds(used) \cup {deciding(c).eventId : c \in asked}, asOf |-> asOf]}

(* The loop over the facts knows a receivable from its first receivable_opened on: what      *)
(* comes before that in the array is not attributed to it.  A settlement, or allocations     *)
(* that reach the amount, leave no balance.                                                  *)
Opening(facts, r) == Min(Places(facts, "receivable_opened", r))
Attributed(facts, type, r) == {k \in Places(facts, type, r) : k > Opening(facts, r)}
Balance(facts, r) ==
    LET raw == facts[Opening(facts, r)].amountMinor
                   - MapThenSumSet(LAMBDA k : facts[k].amountMinor, Attributed(facts, "allocation_applied", r))
    IN  IF Attributed(facts, "receivable_settled", r) # {} \/ raw <= 0 THEN 0 ELSE raw
Known(facts, currency) ==
    {r \in Refs(facts, "receivable_opened") : facts[Opening(facts, r)].currency = currency}
Bucket(facts, r, asOf) == agingBucketFor(wholeDaysBetween(facts[Opening(facts, r)].dueDate, asOf))
sumMinor(facts, receivables) == MapThenSumSet(LAMBDA r : Balance(facts, r), receivables)
Exposure(facts, c, asOf) ==
    LET open == {r \in Known(facts, c) : Balance(facts, r) > 0}
        aged(b) == {r \in open : Bucket(facts, r, asOf) = b}
    IN  [openReceivables |-> Cardinality(open), openMinor |-> sumMinor(facts, open),
         aging |-> [b \in AGING_BUCKETS |-> [count |-> Cardinality(aged(b)), amountMinor |-> sumMinor(facts, aged(b))]]]
buildExposureClaim(facts, asOf) ==
    LET known == Refs(facts, "receivable_opened")
        closings(r) == Attributed(facts, "receivable_settled", r)
        closing(r) == IF closings(r) = {} THEN {} ELSE {Earliest(facts, closings(r))}
    IN  IF known = {} THEN {}
        ELSE {[value |-> [c \in {facts[Opening(facts, r)].currency : r \in known} |-> Exposure(facts, c, asOf)],
               computedFrom |-> UNION {Ids(facts, {Opening(facts, r)} \cup closing(r)
                                                      \cup Attributed(facts, "allocation_applied", r)) : r \in known},
               asOf |-> asOf]}
(* sumMinor throws when an open total is past the safe integers. *)
Overflows(facts) == \E c \in CURRENCIES : sumMinor(facts, Known(facts, c)) > MAX_SAFE

buildDisputeClaim(facts, asOf) ==
    LET opened == Refs(facts, "dispute_opened")
        resolved == Refs(facts, "dispute_resolved")
        firsts(type, refs) == {Min(Places(facts, type, d)) : d \in refs}
    IN  IF opened \cup resolved = {} THEN {}
        ELSE {[value |-> [opened |-> Cardinality(opened), resolved |-> Cardinality(resolved),
                          currentlyOpen |-> Cardinality(opened \ resolved)],
               computedFrom |-> Ids(facts, firsts("dispute_opened", opened) \cup firsts("dispute_resolved", resolved)),
               asOf |-> asOf]}

MEMORY_CLAIMS == {"cadence", "sizeBands", "reliability", "channels", "exposure", "disputes"}
CLAIM_BUILDERS(facts, asOf) ==
    [cadence |-> buildCadenceClaim(facts, asOf), sizeBands |-> buildSizeBandsClaim(facts, asOf),
     reliability |-> buildReliabilityClaim(facts, asOf), channels |-> buildChannelClaim(facts, asOf),
     exposure |-> buildExposureClaim(facts, asOf), disputes |-> buildDisputeClaim(facts, asOf)]

(* The facts of a customer that a snapshot at asOf sees. *)
Visible(facts, customer, asOf) == SelectSeq(facts, LAMBDA f : f.at <= asOf /\ f.customerId = customer)
customersAt(facts, asOf) == {f.customerId : f \in {g \in ToSet(facts) : g.at <= asOf}}
CustomerMemoryOf(facts, customer, asOf) ==
    LET own == Visible(facts, customer, asOf)
    IN  [customerId |-> customer, asOf |-> asOf, claims |-> CLAIM_BUILDERS(own, asOf), factCount |-> Len(own)]
SnapshotThrows(facts, asOf) ==
    ~assertMemoryFacts(facts) \/ \E c \in customersAt(facts, asOf) : Overflows(Visible(facts, c, asOf))
memorySnapshot(facts, asOf) ==
    IF SnapshotThrows(facts, asOf) THEN {} ELSE {CustomerMemoryOf(facts, c, asOf) : c \in customersAt(facts, asOf)}

--------------------------------------------------------------------------------
(* A dimension's direction: a change of nothing, or of less than the threshold, is silent. *)
Opposite == [improving |-> "deteriorating", deteriorating |-> "improving", stable |-> "stable"]
classify(before, after, threshold, upMeans) ==
    LET delta == after.n * before.d - before.n * after.d
        scale == after.d * before.d
    IN  IF delta = 0 \/ Max({delta, -delta}) * threshold.d < threshold.n * scale THEN "stable"
        ELSE IF delta > 0 THEN upMeans ELSE Opposite[upMeans]

resolveDiffThresholds(limits) == \A key \in DOMAIN limits : limits[key].n >= 0

claimOf(memory, name) == memory.claims[name]
unionEvidence(before, after, name) ==
    UNION {c.computedFrom : c \in claimOf(before, name) \cup claimOf(after, name)}
Whole(n) == [n |-> n, d |-> 1]
openMinor(memory, currency) ==
    Whole(MapThenSumSet(LAMBDA c : IF currency \in DOMAIN c.value THEN c.value[currency].openMinor ELSE 0,
                        claimOf(memory, "exposure")))
currentlyOpen(memory) == Whole(MapThenSumSet(LAMBDA c : c.value.currentlyOpen, claimOf(memory, "disputes")))

Change(dimension, direction, currency, evidence) ==
    [dimension |-> dimension, direction |-> direction, currency |-> currency, computedFrom |-> evidence]
(* Two claims that both exist are compared by a metric; one missing makes them stable. *)
compareBoth(before, after, name, Metric(_), threshold, upMeans) ==
    LET b == claimOf(before, name)  a == claimOf(after, name)
    IN  IF b = {} \/ a = {} THEN "stable"
        ELSE classify(Metric((CHOOSE c \in b : TRUE).value), Metric((CHOOSE c \in a : TRUE).value), threshold, upMeans)
changes(before, after, limits) ==
    LET currencies == UNION {DOMAIN c.value : c \in claimOf(before, "exposure") \cup claimOf(after, "exposure")}
        both(name) == unionEvidence(before, after, name)
    IN  {Change("payment_cadence",
                compareBoth(before, after, "cadence", LAMBDA v : v.medianDaysToPay, limits.cadence, "deteriorating"),
                "", both("cadence")),
         Change("promise_reliability",
                compareBoth(before, after, "reliability", LAMBDA v : v.rate, limits.reliability, "improving"),
                "", both("reliability")),
         Change("disputes", classify(currentlyOpen(before), currentlyOpen(after), limits.disputes, "deteriorating"),
                "", both("disputes"))}
        \cup {Change("exposure", classify(openMinor(before, c), openMinor(after, c), limits.exposure, "deteriorating"),
                     c, both("exposure")) : c \in currencies}
Significant(before, after, limits) == {c \in changes(before, after, limits) : c.direction # "stable"}

memoryEvent(name, memory, payload) ==
    [name |-> name, aggregateId |-> memory.customerId, asOf |-> memory.asOf, payload |-> payload]
snapshotTakenEvent(memory) ==
    memoryEvent("memory.snapshotTaken", memory,
                [claims |-> {n \in MEMORY_CLAIMS : claimOf(memory, n) # {}}, factCount |-> memory.factCount])
BehaviorChanged(before, after, limits) ==
    LET significant == Significant(before, after, limits)
    IN  memoryEvent("memory.behaviorChanged", after,
                    [changes |-> {[dimension |-> c.dimension, direction |-> c.direction, currency |-> c.currency] :
                                     c \in significant},
                     evidenceRefs |-> UNION {c.computedFrom : c \in significant}])

--------------------------------------------------------------------------------
Init == history = <<>> /\ kept = <<>> /\ told = <<>>

(* The adapter hands over one more fact, late or in time; or one it handed over before. *)
Arrive(f) ==
    /\ Len(history) < MaxFacts
    /\ history' = Append(history, f @@ [eventId |-> Len(history) + 1])
    /\ UNCHANGED <<kept, told>>
Redeliver(k) ==
    /\ Len(history) < MaxFacts
    /\ history' = Append(history, history[k])
    /\ UNCHANGED <<kept, told>>

Remember(asOf) ==
    /\ Len(kept) < MaxKept /\ Len(told) < MaxTold
    /\ \E memory \in memorySnapshot(history, asOf) :
          /\ kept' = Append(kept, [memory |-> memory, saw |-> Len(history)])
          /\ told' = Append(told, snapshotTakenEvent(memory))
    /\ UNCHANGED history

diffProfiles(i, j, limits) ==
    LET before == kept[i].memory  after == kept[j].memory
    IN  /\ before.customerId = after.customerId /\ resolveDiffThresholds(limits)
        /\ Significant(before, after, limits) # {}
        /\ Len(told) < MaxTold
        /\ told' = Append(told, BehaviorChanged(before, after, limits))
        /\ UNCHANGED <<history, kept>>

Next ==
    \/ \E f \in Arrivals : Arrive(f)
    \/ \E k \in DOMAIN history : Redeliver(k)
    \/ \E asOf \in Moments : Remember(asOf)
    \/ \E i, j \in DOMAIN kept, limits \in Limits : diffProfiles(i, j, limits)

Spec == Init /\ [][Next]_vars

--------------------------------------------------------------------------------
Values(facts, asOf) == [n \in MEMORY_CLAIMS |-> {c.value : c \in CLAIM_BUILDERS(facts, asOf)[n]}]
Seen(k) == SubSeq(history, 1, kept[k].saw)

(* claims.ts: "computedFrom lists the exact evidence anchors ... a reviewer can pull those   *)
(* events and re-derive the number".  Rebuilding a claim from its evidence alone, whatever   *)
(* else the history held, gives the same value and asks for all of that evidence.            *)
ClaimsRederive ==
    \A k \in DOMAIN kept : \A n \in MEMORY_CLAIMS : \A c \in claimOf(kept[k].memory, n) :
        CLAIM_BUILDERS(SelectSeq(Seen(k), LAMBDA f : f.eventId \in c.computedFrom), c.asOf)[n] = {c}

(* Evidence is the customer's own and not later than asOf (snapshot.ts), and a fact that     *)
(* arrives twice is never counted: the history is refused whole (MEM_FACT_DUPLICATE_EVENT_ID).*)
EvidenceIsOwn ==
    \A k \in DOMAIN kept :
        LET memory == kept[k].memory
        IN  /\ memory.factCount <= Cardinality(AllIds(Seen(k)))
            /\ \A n \in MEMORY_CLAIMS : \A c \in claimOf(memory, n) :
                  /\ c.computedFrom # {}
                  /\ \A id \in c.computedFrom : \E f \in ToSet(Seen(k)) :
                        f.eventId = id /\ f.customerId = memory.customerId /\ f.at <= memory.asOf

(* claims.ts resolves facts about the same thing by `at`: two neighbours of the array with   *)
(* different times can change places without changing any claim's value, unless one of them  *)
(* is the opening of the receivable the other is about (that one is resolved by place).      *)
Swapped(facts, k) == [facts EXCEPT ![k] = facts[k + 1], ![k + 1] = facts[k]]
PresentationIsNoise ==
    \A k \in 1..(Len(history) - 1) : \A asOf \in Moments : \A c \in customersAt(history, asOf) :
        LET f == history[k]  g == history[k + 1]
        IN  f.at # g.at /\ ("receivable_opened" \in {f.type, g.type} => f.ref # g.ref)
                => Values(Visible(Swapped(history, k), c, asOf), asOf) = Values(Visible(history, c, asOf), asOf)

(* The aging of the open receivables adds up to what is open, and no more is open than was   *)
(* opened (buildExposureClaim); the statistics of a claim are in order.                      *)
ClaimsAddUp ==
    \A k \in DOMAIN kept :
        LET claims == kept[k].memory.claims
        IN  /\ \A c \in claims.exposure : \A ccy \in DOMAIN c.value :
                  LET e == c.value[ccy]
                  IN  /\ e.openMinor = MapThenSumSet(LAMBDA b : e.aging[b].amountMinor, AGING_BUCKETS)
                      /\ e.openReceivables = MapThenSumSet(LAMBDA b : e.aging[b].count, AGING_BUCKETS)
                      /\ e.openMinor \in 0..MAX_SAFE
                      /\ e.openMinor = 0 <=> e.openReceivables = 0
            /\ \A c \in claims.sizeBands : \A ccy \in DOMAIN c.value :
                  LET b == c.value[ccy]
                  IN  /\ b.minMinor <= b.p25Minor /\ b.p25Minor * b.medianMinor.d <= b.medianMinor.n
                      /\ b.medianMinor.n <= b.p75Minor * b.medianMinor.d /\ b.p75Minor <= b.maxMinor
            /\ \A c \in claims.cadence :
                  LET v == c.value
                  IN  /\ v.minDaysToPay * v.medianDaysToPay.d <= v.medianDaysToPay.n
                      /\ v.medianDaysToPay.n <= v.p90DaysToPay * v.medianDaysToPay.d
            /\ \A c \in claims.disputes : c.value.currentlyOpen >= c.value.opened - c.value.resolved

(* diff.ts: a memory compared with itself changes nothing, comparing the other way round     *)
(* turns every direction, and what is told is a change of that customer resting on facts.    *)
ChangesAreReal ==
    /\ \A i, j \in DOMAIN kept, limits \in Limits :
          LET before == kept[i].memory  after == kept[j].memory
              turned == {[c EXCEPT !.direction = Opposite[c.direction]] : c \in changes(before, after, limits)}
          IN  /\ Significant(before, before, limits) = {}
              /\ changes(after, before, limits) = turned
    /\ \A k \in DOMAIN told :
          /\ \E i \in DOMAIN kept : kept[i].memory.customerId = told[k].aggregateId /\ kept[i].memory.asOf = told[k].asOf
          /\ told[k].name = "memory.behaviorChanged" =>
                told[k].payload.changes # {} /\ told[k].payload.evidenceRefs \subseteq AllIds(history)
================================================================================
