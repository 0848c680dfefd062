----------------------------- MODULE CrossBorder -------------------------------
(***************************************************************************)
(* Cross-border transfers (src/domain/crossborder) and the FX kernel       *)
(* (src/domain/shared/fx.ts): corridors with bounds, rails and fees, rate  *)
(* tables with validity windows, quotes that live for a while, and the     *)
(* intent that freezes a quote and carries it to a rail.                   *)
(*                                                                         *)
(* The functions are pure; the state is what their caller keeps: the       *)
(* corridors (registering again replaces one), the rate table in force,    *)
(* the quotes issued, the intents, the submissions, and the events told    *)
(* about each intent.  An instant of a rate row is its text and the moment *)
(* it names: the table is sorted and compared by text, the active row is   *)
(* found by moment, and an offset makes the two orders differ.             *)
(***************************************************************************)
EXTENDS Integers, Sequences, SequencesExt, FiniteSets

CONSTANTS CorridorIds,    \* [org, source, dest]: what the id is seeded from
          Terms,          \* [min, max, rails, flat, bps] a corridor is registered with
          Tables,         \* the rate tables, sequences of rows
          Orgs, Intents, Amounts, Keys, Rails, Ttls,
          Snapshots,      \* [base, quote, num, den] of fx.ts
          MaxSafe,        \* the largest safe integer of an event payload
          MaxQuotes, MaxReplays, MaxTime,
          None

VARIABLES corridors, table, quotes, intents, submissions, told, posting, now

state == <<corridors, table, quotes, intents, submissions, told, posting, now>>

INTENT_TRANSITIONS ==
    [drafted    |-> {"quoted", "cancelled"},
     quoted     |-> {"authorized", "cancelled", "expired"},
     authorized |-> {"submitted", "cancelled", "expired"},
     submitted  |-> {"settled", "failed", "cancelled"},
     settled |-> {}, cancelled |-> {}, expired |-> {}, failed |-> {}]

Ended == {"settled", "cancelled", "expired", "failed"}
canTransition(from, to) == to \in INTENT_TRANSITIONS[from]

minorToNumber(n) == n <= MaxSafe    \* the payload accepts the amount

--------------------------------------------------------------------------------
(* Ratios and bankers' rounding. *)

divideBankers(p, q) ==
    LET whole == p \div q
        twice == 2 * (p % q)
    IN  IF twice > q THEN whole + 1
        ELSE IF twice < q THEN whole
        ELSE IF whole % 2 = 0 THEN whole ELSE whole + 1

MAX_FEE_BPS == 10000

DEFAULT_MINOR_SCALES == [UGX |-> 0, KES |-> 2, USD |-> 2]

(* toMinorUnits, and a schedule of the domain's ranges. *)
validateFeeSchedule(t) == t.flat >= 0 /\ t.bps \in 0 .. MAX_FEE_BPS

computeFeeBreakdown(t, amount) ==
    LET bpsMinor == divideBankers(amount * t.bps, 10000)
    IN  [flat |-> t.flat, bpsMinor |-> bpsMinor, total |-> t.flat + bpsMinor, bps |-> t.bps]

Ratio(num, den, gap) ==
    IF gap >= 0 THEN [num |-> num * 10 ^ gap, den |-> den] ELSE [num |-> num, den |-> den * 10 ^ (-gap)]

appliedRatio(row) ==
    Ratio(row.num, row.den, DEFAULT_MINOR_SCALES[row.dest] - DEFAULT_MINOR_SCALES[row.source])

convertWithRatio(amount, r) == divideBankers(amount * r.num, r.den)

--------------------------------------------------------------------------------
(* The rate table.  A row is [row, source, dest, num, den, from, to]; an open row's `to`  *)
(* is None.                                                                               *)

rateRow(r) ==
    /\ r.source # r.dest
    /\ r.num > 0 /\ r.den > 0
    /\ r.to # None => r.to.text >= r.from.text

OfPair(rows, source, dest) == SelectSeq(rows, LAMBDA r : r.source = source /\ r.dest = dest)

Overlap(prev, next) == prev.to = None \/ next.from.text <= prev.to.text

validateRateTable(rows) ==
    /\ \A i \in DOMAIN rows : rateRow(rows[i])
    /\ \A i \in DOMAIN rows :
          LET sorted == SetToSortSeq({j \in DOMAIN rows : rows[j].source = rows[i].source /\ rows[j].dest = rows[i].dest},
                           LAMBDA a, b : \/ rows[a].from.text < rows[b].from.text
                                         \/ rows[a].from.text = rows[b].from.text /\ rows[a].row < rows[b].row)
          IN  \A k \in 2 .. Len(sorted) : ~Overlap(rows[sorted[k - 1]], rows[sorted[k]])

ActiveAt(r, t) == r.from.at <= t /\ (r.to = None \/ t <= r.to.at)

(* The rows in force; findActiveRateRow returns one only when it is alone. *)
findActiveRateRow(rows, source, dest, t) ==
    SelectSeq(OfPair(rows, source, dest), LAMBDA r : ActiveAt(r, t))

--------------------------------------------------------------------------------
(* Corridors. *)

registerCorridor(id, t) ==
    /\ id.source # id.dest
    /\ t.min >= 1 /\ t.min <= t.max
    /\ t.rails # {}
    /\ validateFeeSchedule(t)
    /\ minorToNumber(t.max) /\ minorToNumber(t.flat)
    /\ corridors' = [corridors EXCEPT ![id] = [terms |-> t, status |-> "active"]]
    /\ UNCHANGED <<table, quotes, intents, submissions, told, posting, now>>

suspendCorridor(id) ==
    /\ corridors[id] # None /\ corridors[id].status = "active"
    /\ corridors' = [corridors EXCEPT ![id].status = "suspended"]
    /\ UNCHANGED <<table, quotes, intents, submissions, told, posting, now>>

assertCorridorLive(id) == corridors[id] # None /\ corridors[id].status = "active"

assertAmountWithinCorridor(id, amount) == amount \in corridors[id].terms.min .. corridors[id].terms.max

(* The operator's feed publishes another table. *)
PublishRates(rows) ==
    /\ rows # table
    /\ table' = rows
    /\ UNCHANGED <<corridors, quotes, intents, submissions, told, posting, now>>

--------------------------------------------------------------------------------
(* Quotes.  The id is seeded from the corridor, the amount and the instant. *)

quoteOf(id, amount, ttl, row) ==
    LET fee == computeFeeBreakdown(corridors[id].terms, amount)
        ratio == appliedRatio(row)
    IN  [id |-> [corridor |-> id, amount |-> amount, issuedAt |-> now], corridor |-> id, amount |-> amount,
         fee |-> fee, debit |-> amount + fee.total, credit |-> convertWithRatio(amount, ratio),
         rate |-> ratio, row |-> row.row, expires |-> now + ttl]

quote(id, amount, ttl) ==
    /\ Cardinality(quotes) < MaxQuotes
    /\ assertCorridorLive(id)
    /\ assertAmountWithinCorridor(id, amount)
    /\ ttl >= 1
    /\ validateRateTable(table)
    /\ LET active == findActiveRateRow(table, id.source, id.dest, now)
       IN  /\ Len(active) = 1
           /\ quotes' = quotes \cup {quoteOf(id, amount, ttl, active[1])}
    /\ UNCHANGED <<corridors, table, intents, submissions, told, posting, now>>

isQuoteExpired(q) == now >= q.expires
assertQuoteUsable(q) == ~isQuoteExpired(q)

(* The problems of a quote's legs: none when it reconciles. *)
reconcileQuoteLegs(q) ==
    {p \in {"fee", "debit", "credit"} :
        \/ p = "fee" /\ q.fee.flat + q.fee.bpsMinor # q.fee.total
        \/ p = "debit" /\ q.amount + q.fee.total # q.debit
        \/ p = "credit" /\ convertWithRatio(q.amount, q.rate) # q.credit}

--------------------------------------------------------------------------------
(* Intents. *)

Tell(i, name, q) == told' = [told EXCEPT ![i] = Append(@, [name |-> name, debit |-> q.debit, credit |-> q.credit])]

Moves(i, status) == intents' = [intents EXCEPT ![i].status = status]

draftIntent(i, id, org, amount) ==
    /\ intents[i] = None
    /\ assertCorridorLive(id)
    /\ assertAmountWithinCorridor(id, amount)
    /\ intents' = [intents EXCEPT ![i] = [status |-> "drafted", org |-> org, corridor |-> id, amount |-> amount,
                                         quote |-> None, rail |-> None]]
    /\ UNCHANGED <<corridors, table, quotes, submissions, told, posting, now>>

attachQuote(i, q) ==
    /\ intents[i].status = "drafted"
    /\ q.corridor.org = intents[i].org
    /\ q.corridor = intents[i].corridor
    /\ q.amount = intents[i].amount
    /\ assertQuoteUsable(q)
    /\ intents' = [intents EXCEPT ![i].status = "quoted", ![i].quote = q]
    /\ UNCHANGED <<corridors, table, quotes, submissions, told, posting, now>>

(* The event's payload is built before anything is returned: an amount it cannot carry    *)
(* refuses the authorization.                                                             *)
authorizeIntent(i) ==
    /\ intents[i].status = "quoted"
    /\ assertQuoteUsable(intents[i].quote)
    /\ minorToNumber(intents[i].quote.debit) /\ minorToNumber(intents[i].quote.credit)
    /\ Moves(i, "authorized")
    /\ Tell(i, "authorized", intents[i].quote)
    /\ UNCHANGED <<corridors, table, quotes, submissions, posting, now>>

Prior(i, key) == {s \in submissions : s.intent = i /\ s.key = key}

(* A replay of a key answers with the first submission and touches nothing; the stored    *)
(* rail is trimmed and the replayed one is not, so a padded rail is a conflict.           *)
replaySubmit(i, key, rail, padded) ==
    /\ \E s \in Prior(i, key) :
          /\ s.rail = rail /\ ~padded
          /\ s.quote = intents[i].quote.id
          /\ s.debit = intents[i].quote.debit /\ s.credit = intents[i].quote.credit
    /\ Len(SelectSeq(told[i], LAMBDA e : e.name = "replay")) < MaxReplays
    /\ Tell(i, "replay", intents[i].quote)
    /\ UNCHANGED <<corridors, table, quotes, intents, submissions, posting, now>>

(* The submission and the intent handed to a rail. *)
HandOver(i, key, rail) ==
    /\ Prior(i, key) = {}
    /\ assertCorridorLive(intents[i].corridor)
    /\ rail \in corridors[intents[i].corridor].terms.rails
    /\ assertQuoteUsable(intents[i].quote)
    /\ submissions' = submissions \cup {[intent |-> i, key |-> key, rail |-> rail, quote |-> intents[i].quote.id,
                                         debit |-> intents[i].quote.debit, credit |-> intents[i].quote.credit, at |-> now]}
    /\ intents' = [intents EXCEPT ![i].status = "submitted", ![i].rail = rail]
    /\ Tell(i, "submitted", intents[i].quote)
    /\ UNCHANGED <<corridors, table, quotes, posting, now>>

(* Submitting again what is already with a rail. *)
SubmitAgain(i, key, rail) == intents[i].status \in {"authorized", "submitted"} /\ HandOver(i, key, rail)

submitIntent(i, key, rail) == intents[i].status = "authorized" /\ HandOver(i, key, rail)

(* The fees recomputed from the corridor as it is now must be the frozen ones, when the   *)
(* corridor is given; so must the realized amounts, when the rail reports them.           *)
settleIntent(i, checked, realizedDebit, realizedCredit) ==
    LET q == intents[i].quote
    IN  /\ intents[i].status = "submitted"
        /\ checked => computeFeeBreakdown(corridors[intents[i].corridor].terms, intents[i].amount) = q.fee
        /\ realizedDebit \in {None, q.debit}
        /\ realizedCredit \in {None, q.credit}
        /\ Moves(i, "settled")
        /\ Tell(i, "settled", q)
        /\ UNCHANGED <<corridors, table, quotes, submissions, posting, now>>

NoTerms == [debit |-> 0, credit |-> 0]

cancelIntent(i) ==
    /\ canTransition(intents[i].status, "cancelled")
    /\ Moves(i, "cancelled")
    /\ Tell(i, "cancelled", NoTerms)
    /\ UNCHANGED <<corridors, table, quotes, submissions, posting, now>>

failIntent(i) ==
    /\ canTransition(intents[i].status, "failed")
    /\ Moves(i, "failed")
    /\ Tell(i, "failed", NoTerms)
    /\ UNCHANGED <<corridors, table, quotes, submissions, posting, now>>

expireIfDue(i) ==
    /\ intents[i].quote # None
    /\ canTransition(intents[i].status, "expired")
    /\ now >= intents[i].quote.expires
    /\ Moves(i, "expired")
    /\ UNCHANGED <<corridors, table, quotes, submissions, told, posting, now>>

--------------------------------------------------------------------------------
(* FX settlement of a receivable (fx.ts). *)

Bridges(s, from, to) == {s.base, s.quote} = {from, to}

directionOf(s, from) == IF s.base = from THEN "base_to_quote" ELSE "quote_to_base"

(* The scale gap taken the same way in both directions. *)
OneWayRatio(s, direction) ==
    LET gap == DEFAULT_MINOR_SCALES[s.quote] - DEFAULT_MINOR_SCALES[s.base]
    IN  IF direction = "base_to_quote" THEN Ratio(s.num, s.den, gap) ELSE Ratio(s.den, s.num, gap)

snapshotRatio(s, direction) ==
    LET gap == DEFAULT_MINOR_SCALES[s.quote] - DEFAULT_MINOR_SCALES[s.base]
    IN  IF direction = "base_to_quote" THEN Ratio(s.num, s.den, gap) ELSE Ratio(s.den, s.num, -gap)

fxRateSnapshot(s) == s.base # s.quote /\ s.num > 0 /\ s.den > 0

convert(amount, from, s) == convertWithRatio(amount, snapshotRatio(s, directionOf(s, from)))

postRealizedGainLoss(s, settlement, carrying, from, to) ==
    LET converted == convert(settlement, from, s)
    IN  /\ from # to
        /\ fxRateSnapshot(s) /\ Bridges(s, from, to)
        /\ posting' = [snapshot |-> s, from |-> from, settlement |-> settlement, carrying |-> carrying,
                       converted |-> converted, event |-> converted # carrying,
                       gain |-> IF converted > carrying THEN converted - carrying ELSE 0,
                       loss |-> IF converted < carrying THEN carrying - converted ELSE 0]
        /\ UNCHANGED <<corridors, table, quotes, intents, submissions, told, now>>

Tick ==
    /\ now < MaxTime
    /\ now' = now + 1
    /\ UNCHANGED <<corridors, table, quotes, intents, submissions, told, posting>>

--------------------------------------------------------------------------------
Init ==
    /\ corridors = [id \in CorridorIds |-> None]
    /\ table = <<>>
    /\ quotes = {} /\ submissions = {}
    /\ intents = [i \in Intents |-> None]
    /\ told = [i \in Intents |-> <<>>]
    /\ posting = None
    /\ now = 0

Pricing ==
    \/ \E id \in CorridorIds : \/ \E t \in Terms : registerCorridor(id, t)
                              \/ suspendCorridor(id)
                              \/ \E a \in Amounts, ttl \in Ttls : quote(id, a, ttl)
    \/ \E rows \in Tables : PublishRates(rows)

(* What a rail may report: nothing, the quoted amount, or another. *)
Realized(i, leg) ==
    {None} \cup (IF intents[i].quote = None THEN {} ELSE {intents[i].quote[leg], intents[i].quote[leg] + 1})

IntentStep(i) ==
    \/ \E q \in quotes : attachQuote(i, q)
    \/ authorizeIntent(i)
    \/ \E k \in Keys, r \in Rails : submitIntent(i, k, r) \/ (\E padded \in BOOLEAN : replaySubmit(i, k, r, padded))
    \/ \E checked \in BOOLEAN, d \in Realized(i, "debit"), c \in Realized(i, "credit") : settleIntent(i, checked, d, c)
    \/ cancelIntent(i) \/ failIntent(i) \/ expireIfDue(i)

Transfers ==
    \E i \in Intents :
       \/ \E id \in CorridorIds, org \in Orgs, a \in Amounts : draftIntent(i, id, org, a)
       \/ intents[i] # None /\ IntentStep(i)

Settlement ==
    \E s \in Snapshots, from, to \in DOMAIN DEFAULT_MINOR_SCALES, a, c \in Amounts : postRealizedGainLoss(s, a, c, from, to)

Next == Pricing \/ Transfers \/ Settlement \/ Tick

Spec == Init /\ [][Next]_state

--------------------------------------------------------------------------------
TypeOK ==
    /\ \A i \in Intents : intents[i] # None => intents[i].status \in DOMAIN INTENT_TRANSITIONS
    /\ \A q \in quotes : q.debit \in Nat /\ q.credit \in Nat
    /\ now \in 0 .. MaxTime

IsNearestEven(p, q, r) ==
    LET off == IF p >= q * r THEN p - q * r ELSE q * r - p
    IN  2 * off <= q /\ (2 * off = q => r % 2 = 0)

(* A transfer is handed to a rail at most once, whatever keys it is submitted under and   *)
(* however its corridor changes, before its quote runs out and for the organisation the   *)
(* corridor belongs to; only transfers handed over settle or fail, and an expired one was *)
(* never handed over (intent.ts submitIntent, expireIfDue).                               *)
OneMovementPerIntent ==
    \A i \in Intents : intents[i] # None =>
       LET sent == {s \in submissions : s.intent = i}
       IN  /\ Cardinality(sent) <= 1
           /\ intents[i].status \in {"submitted", "settled", "failed"} => sent # {}
           /\ sent # {} => intents[i].status \notin {"drafted", "quoted", "authorized", "expired"}
           /\ \A s \in sent : s.at < intents[i].quote.expires /\ intents[i].corridor.org = intents[i].org

(* What every event of a transfer tells is what the customer was quoted: the amount and   *)
(* the fee rounded half to even are debited, the amount at the quoted ratio rounded half  *)
(* to even is credited, and a corridor whose fees or rates change in between changes      *)
(* neither (quote.ts, intent.ts settleIntent).                                            *)
MovesWhatWasQuoted ==
    /\ \A q \in quotes :
          /\ reconcileQuoteLegs(q) = {}
          /\ IsNearestEven(q.amount * q.fee.bps, 10000, q.debit - q.amount - q.fee.flat)
          /\ IsNearestEven(q.amount * q.rate.num, q.rate.den, q.credit)
    /\ \A i \in Intents : \A n \in DOMAIN told[i] :
          told[i][n].name \in {"authorized", "submitted", "settled", "replay"} =>
             /\ intents[i].quote \in quotes
             /\ [debit |-> told[i][n].debit, credit |-> told[i][n].credit]
                   = [debit |-> intents[i].quote.debit, credit |-> intents[i].quote.credit]

(* A table accepted by validateRateTable whose instants are all in one zone never offers  *)
(* two rows at once: comparing each row with the next in order of their start is enough   *)
(* (quote.ts validateRateTable, findActiveRateRow).                                       *)
RatesAreUnambiguous ==
    LET instants == {table[k].from : k \in DOMAIN table} \cup {table[k].to : k \in {j \in DOMAIN table : table[j].to # None}}
        oneZone == \A x \in instants : x.text = x.at
    IN  oneZone /\ validateRateTable(table) =>
           \A t \in 0 .. MaxTime : \A c \in CorridorIds : Len(findActiveRateRow(table, c.source, c.dest, t)) <= 1

(* A settlement's gain or loss is the exact difference between what was carried and what  *)
(* arrived, told when there is one; converting back at the same snapshot returns to the   *)
(* settled amount within the two roundings; and the corridor's conversion of the same     *)
(* pair agrees with the kernel's (fx.ts postRealizedGainLoss, convert; quote.ts).         *)
GainLossBalances ==
    posting # None =>
       LET s == posting.snapshot
           to == IF s.base = posting.from THEN s.quote ELSE s.base
           r == snapshotRatio(s, directionOf(s, posting.from))
           back == convert(posting.converted, to, s)
           off == IF back > posting.settlement THEN back - posting.settlement ELSE posting.settlement - back
       IN  /\ posting.carrying + posting.gain - posting.loss = posting.converted
           /\ posting.event <=> posting.gain + posting.loss > 0
           /\ 2 * r.num * off <= r.num + r.den
           /\ s.base = posting.from =>
                 posting.converted = convertWithRatio(posting.settlement,
                    appliedRatio([num |-> s.num, den |-> s.den, source |-> s.base, dest |-> s.quote]))

(* Frozen means frozen (intent.ts): a quote attached to an intent is never exchanged, an  *)
(* ended intent never moves again, every move is one of INTENT_TRANSITIONS, and neither a *)
(* submission nor a told event is taken back.                                             *)
FrozenStep ==
    /\ submissions \subseteq submissions'
    /\ \A i \in Intents : intents[i] # None =>
          /\ intents[i].quote # None => intents'[i].quote = intents[i].quote
          /\ intents'[i].status # intents[i].status => canTransition(intents[i].status, intents'[i].status)
          /\ IsPrefix(told[i], told'[i])
================================================================================
