--------------------------- MODULE AnalyticsIngester ---------------------------
(***************************************************************************)
(* The analytics ingester (backend-go/internal/analytics): batches of      *)
(* relay envelopes are deduplicated, appended to an org's log and to the   *)
(* event_fact ledger, folded in canonical (created_at, eventId) order and  *)
(* emitted as projection rows into ReplacingMergeTree(computed_at) tables. *)
(* The consumer redelivers, splits, reorders and repeats at will; the      *)
(* driver may fail at any statement; the process may restart at any time.  *)
(* Evidence lists are sets, ratios are their two sides, a day has DayLen   *)
(* instants.                                                               *)
(***************************************************************************)
EXTENDS Integers, Sequences, FiniteSets, FiniteSetsExt, SequencesExt, TLC

CONSTANTS Streams,     \* sets of producers' events: [id, org, at, name, inv, rec, cur, amount, rest, due]
          DayLen, Window, MonthDays, BucketDays,   \* instants in a day; 30; days in a month; 30
          MaxBatch, MaxLog, MaxWork,               \* bounds; MaxWork: the stream's events and its faults
          Fuels, Plenty   \* the statements the driver executes before it fails; more than any batch has

VARIABLES stream,      \* the events that get published
          logs,        \* orgState.log, by org
          seen,        \* the at-least-once dedupe
          ledger,      \* event_fact FINAL
          tables,      \* the four projections FINAL: key -> [row, computed_at]
          emitted,     \* history: an org's last emission completed
          offered,     \* history: the events ever delivered
          acked,       \* history: the events of batches that returned no error
          faults       \* failures of the driver and events repeated in a batch so far

vars == <<stream, logs, seen, ledger, tables, emitted, offered, acked, faults>>

MaxFaults == MaxWork - Cardinality(stream)
Orgs == {e.org : e \in stream}
Currencies == {e.cur : e \in {f \in stream : f.name = "invoiceIssued"}}
Receivables == {e.rec : e \in {f \in stream : f.name = "opened"}}

dayKey(at) == at \div DayLen
Days == {dayKey(e.at) : e \in stream}
cohortMonthStartDay(day) == (day \div MonthDays) * MonthDays

canonicalLess(a, b) == a.at < b.at \/ (a.at = b.at /\ a.id < b.id)

appendOnly(log, batch) == log \o batch

upsertLog(log, batch) == SortSeq(log \o batch, canonicalLess)

--------------------------------------------------------------------------------
(* The fold. *)

NoState == [ok |-> TRUE, invoices |-> <<>>, voided |-> {}, book |-> <<>>, curs |-> {}, days |-> {},
            billed |-> [cd \in Currencies \X Days |-> 0], collected |-> [rd \in Receivables \X Days |-> 0],
            broken |-> [d \in Days |-> 0]]

Known(f, x) == x \in DOMAIN f

invoiceIssued(s, e, day) ==
    IF Known(s.invoices, e.inv) THEN s
    ELSE LET t == [s EXCEPT !.invoices = @ @@ (e.inv :> [cur |-> e.cur, day |-> day, total |-> e.amount]),
                            !.days = @ \cup {day}]
         IN  IF e.inv \in s.voided THEN t
             ELSE [t EXCEPT !.billed[e.cur, day] = @ + e.amount, !.curs = @ \cup {e.cur}]

invoiceVoided(s, e, day) ==
    LET t == [s EXCEPT !.voided = @ \cup {e.inv}, !.days = @ \cup {day}]
    IN  IF ~Known(s.invoices, e.inv) THEN t
        ELSE LET inv == s.invoices[e.inv] IN [t EXCEPT !.billed[inv.cur, inv.day] = @ - inv.total]

opened(s, e, day) ==
    IF Known(s.book, e.rec) THEN [s EXCEPT !.ok = FALSE]
    ELSE [s EXCEPT !.days = @ \cup {day},
                   !.book = @ @@ (e.rec :> [inv |-> e.inv, original |-> e.amount, due |-> e.due, openedDay |-> day,
                                            cur |-> IF Known(s.invoices, e.inv) THEN s.invoices[e.inv].cur ELSE "",
                                            transitions |-> <<[day |-> day, balance |-> e.amount]>>])]

(* partiallySettled, settled, writtenOff, recovered: an unknown receivable is skipped.     *)
Settle(s, e, day) ==
    IF ~Known(s.book, e.rec) THEN s
    ELSE LET balance == Last(s.book[e.rec].transitions).balance
             paid == CASE e.name = "settled" -> balance [] e.name = "writtenOff" -> 0 [] OTHER -> e.amount
             left == IF e.name = "partiallySettled" THEN e.rest ELSE 0
             t == [s EXCEPT !.collected[e.rec, day] = @ + paid, !.days = @ \cup {day}]
         IN  IF e.name = "recovered" THEN t
             ELSE [t EXCEPT !.book[e.rec].transitions = Append(@, [day |-> day, balance |-> left])]

apply(s, e) ==
    LET day == dayKey(e.at)
    IN  CASE ~s.ok -> s
          [] s.ok /\ e.name = "invoiceIssued" -> invoiceIssued(s, e, day)
          [] s.ok /\ e.name = "invoiceVoided" -> invoiceVoided(s, e, day)
          [] s.ok /\ e.name = "opened" -> opened(s, e, day)
          [] s.ok /\ e.name \in {"partiallySettled", "settled", "writtenOff", "recovered"} -> Settle(s, e, day)
          [] s.ok /\ e.name = "promiseBroken" -> [s EXCEPT !.broken[day] = @ + 1]
          [] OTHER -> s                     \* overdue and the catalog's other events: ledger only

refold(log) == FoldLeft(apply, NoState, log)

lastArrived(log, batch) == Last(batch).at

watermark(log, batch) == Last(log).at

--------------------------------------------------------------------------------
(* The emission: one statement per row, in this order. *)

SumOver(S, f(_)) == MapThenSumSet(f, S)

currencies(s) == (s.curs \cup {s.book[r].cur : r \in DOMAIN s.book}) \ {""}
Members(s, cur) == {r \in DOMAIN s.book : s.book[r].cur = cur /\ s.book[r].inv \notin s.voided}
receivablesAt(s, cur, day) == {r \in Members(s, cur) : s.book[r].openedDay <= day}
balanceAsOf(entry, day) == Last(SelectSeq(entry.transitions, LAMBDA tr : tr.day <= day)).balance
billedTrailing(s, cur, day) == SumOver({d \in Days : d \in (day - Window + 1) .. day}, LAMBDA d : s.billed[cur, d])
collectedInWindow(s, r, from, to) == SumOver({d \in Days : d \in from .. to}, LAMBDA d : s.collected[r, d])

DaysOverdue(due, day) == IF day < due THEN 0 ELSE day - due
AgingBucketFor(late) == IF late = 0 THEN 0 ELSE IF late > 3 * BucketDays THEN 4 ELSE ((late - 1) \div BucketDays) + 1

Live(s, cur, day) == {r \in receivablesAt(s, cur, day) : balanceAsOf(s.book[r], day) # 0}

emitDSO(s, o, cur, day) ==
    <<[key |-> <<"dso", o, cur, day>>,
       row |-> [ar |-> SumOver(Live(s, cur, day), LAMBDA r : balanceAsOf(s.book[r], day)),
                zero |-> Cardinality(receivablesAt(s, cur, day) \ Live(s, cur, day)),
                billed |-> billedTrailing(s, cur, day), refs |-> Live(s, cur, day)]]>>

emitAging(s, o, cur, day) ==
    [i \in 1 .. 5 |->
        LET refs == {r \in Live(s, cur, day) : AgingBucketFor(DaysOverdue(s.book[r].due, day)) = i - 1}
        IN  [key |-> <<"aging", o, cur, day, i - 1>>,
             row |-> [amount |-> SumOver(refs, LAMBDA r : balanceAsOf(s.book[r], day)), refs |-> refs]]]

emitEffectiveness(s, o, cur, day) ==
    LET from == day - Window + 1
    IN  <<[key |-> <<"effectiveness", o, cur, day>>,
           row |-> [collected |-> SumOver(Members(s, cur), LAMBDA r : collectedInWindow(s, r, from, day)),
                    billed |-> billedTrailing(s, cur, day),
                    broken |-> SumOver({d \in Days : d \in from .. day}, LAMBDA d : s.broken[d])]]>>

emitCohort(s, o, month, cur) ==
    LET members == {r \in Members(s, cur) : cohortMonthStartDay(s.book[r].openedDay) = month}
        points == {0} \cup {d - month : d \in {d \in Days : d >= month /\ \E r \in members : s.collected[r, d] > 0}}
        order == SetToSortSeq(points, <)
        upTo(p) == SumOver(members, LAMBDA r : collectedInWindow(s, r, month, month + p))
    IN  [i \in 1 .. Cardinality(points) |->
            [key |-> <<"cohort", o, cur, month, order[i]>>,
             row |-> [collected |-> upTo(order[i]), original |-> SumOver(members, LAMBDA r : s.book[r].original)]]]

emitCohorts(s, o) ==
    LET cohorts == {<<cohortMonthStartDay(s.book[r].openedDay), s.book[r].cur>> :
                        r \in UNION {Members(s, cur) : cur \in Currencies}}
        order == SetToSortSeq(cohorts, LAMBDA c, d : c[1] < d[1])
    IN  FlattenSeq([i \in DOMAIN order |-> emitCohort(s, o, order[i][1], order[i][2])])

(* Days ascending, currencies within a day, then the cohorts. *)
emitProjections(s, o) ==
    LET days == SetToSortSeq(s.days, <)
        curs == SetToSeq(currencies(s))
        daily(day) == FlattenSeq([j \in 1 .. Len(curs) |->
                          emitDSO(s, o, curs[j], day) \o emitAging(s, o, curs[j], day) \o emitEffectiveness(s, o, curs[j], day)])
    IN  FlattenSeq([i \in 1 .. Len(days) |-> daily(days[i])]) \o emitCohorts(s, o)

(* ReplacingMergeTree(computed_at), read FINAL: the newest version of a key, the later of equals. *)
Upsert(t, stmts, version) ==
    LET new == {stmts[i] : i \in DOMAIN stmts}
        wins == {w \in new : ~(Known(t, w.key) /\ t[w.key].computed_at > version)}
        won == {w.key : w \in wins}
    IN  [k \in DOMAIN t \cup won |->
            IF k \in won THEN [row |-> (CHOOSE w \in wins : w.key = k).row, computed_at |-> version] ELSE t[k]]

--------------------------------------------------------------------------------
(* The cycles.  `run` threads the ingester's state, the store and `fuel`, the statements   *)
(* the driver will still execute, through the orgs of a batch; the first error ends it.    *)

Start(fuel) == [ok |-> TRUE, fuel |-> fuel, logs |-> logs, seen |-> seen, ledger |-> ledger, tables |-> tables,
                emitted |-> emitted]

(* 4. Re-fold and re-emit; a failing statement leaves the ones before it in the tables. *)
foldAndEmit(run, o, batch) ==
    LET log == run.logs[o]
        s == refold(log)
        stmts == emitProjections(s, o)
        done == SubSeq(stmts, 1, IF run.fuel < Len(stmts) THEN run.fuel ELSE Len(stmts))
    IN  IF ~run.ok \/ ~s.ok THEN [run EXCEPT !.ok = FALSE, !.emitted[o] = FALSE]
        ELSE [run EXCEPT !.ok = Len(done) = Len(stmts), !.emitted[o] = Len(done) = Len(stmts),
                         !.fuel = @ - Len(done), !.tables = Upsert(@, done, watermark(log, batch))]

appendFacts(run, events) ==
    LET done == {i \in DOMAIN events : i <= run.fuel}
    IN  [run EXCEPT !.ok = done = DOMAIN events, !.fuel = @ - Cardinality(done),
                    !.ledger = @ \cup {events[i] : i \in done}]

markSeen(run, events) == [run EXCEPT !.seen = IF run.ok THEN @ \cup ToSet(events) ELSE @]

ingestMarkedFirst(run, o, events) ==
    LET marked == [run EXCEPT !.seen = @ \cup ToSet(events), !.logs[o] = upsertLog(@, events)]
    IN  foldAndEmit(appendFacts(marked, SortSeq(events, canonicalLess)), o, events)

ingestOrg(run, o, events) ==
    LET logged == [run EXCEPT !.logs[o] = upsertLog(@, events)]
    IN  markSeen(foldAndEmit(appendFacts(logged, SortSeq(events, canonicalLess)), o, events), events)

rebuildOrg(run, o, events) ==
    foldAndEmit([run EXCEPT !.logs[o] = upsertLog(<<>>, events), !.seen = @ \cup ToSet(events)], o, events)

(* Orgs in order; an org after a failed one is not reached. *)
OrgOrder == SetToSortSeq(Orgs, LAMBDA a, b : a < b)
ByOrg(events, o) == SelectSeq(events, LAMBDA e : e.org = o)

OverOrgs(step(_, _, _), run, events) ==
    FoldLeft(LAMBDA r, o : IF r.ok /\ ByOrg(events, o) # <<>> THEN step(r, o, ByOrg(events, o)) ELSE r, run, OrgOrder)

MayFail == IF faults < MaxFaults THEN Fuels \cup {Plenty} ELSE {Plenty}

Finish(run, fuel, repeats) ==
    /\ UNCHANGED stream /\ logs' = run.logs /\ seen' = run.seen /\ ledger' = run.ledger /\ tables' = run.tables /\ emitted' = run.emitted
    /\ faults' = faults + repeats + (IF fuel = Plenty THEN 0 ELSE 1)

(* One delivered batch, in any order, with events possibly repeated in it. *)
IngestBatch ==
    \E batch \in UNION {kSubset(n, stream) : n \in 1 .. MaxBatch}, fuel \in MayFail : \E again \in SUBSET batch :
        /\ faults + Cardinality(again) + (IF fuel = Plenty THEN 0 ELSE 1) <= MaxFaults
        /\ LET fresh == SelectSeq(SetToSeq(batch) \o SetToSeq(again), LAMBDA e : e \notin seen)
               run == OverOrgs(ingestOrg, Start(fuel), fresh)
           IN  /\ \A o \in Orgs : Len(logs[o]) + Len(ByOrg(fresh, o)) <= MaxLog
               /\ Finish(run, fuel, Cardinality(again))
               /\ offered' = offered \cup batch
               /\ acked' = IF run.ok THEN acked \cup batch ELSE acked

RebuildFromLedger ==
    \E fuel \in MayFail :
        /\ Finish(OverOrgs(rebuildOrg, [Start(fuel) EXCEPT !.logs = [o \in Orgs |-> <<>>], !.seen = {}], SetToSeq(ledger)), fuel, 0)
        /\ UNCHANGED <<offered, acked>>

(* The process restarts with nothing in memory. *)
New ==
    /\ logs' = [o \in Orgs |-> <<>>] /\ seen' = {}
    /\ UNCHANGED <<stream, ledger, tables, emitted, offered, acked, faults>>

Init ==
    /\ stream \in Streams
    /\ logs = [o \in Orgs |-> <<>>] /\ seen = {} /\ ledger = {} /\ tables = <<>>
    /\ emitted = [o \in Orgs |-> FALSE] /\ offered = {} /\ acked = {} /\ faults = 0

Next == IngestBatch \/ RebuildFromLedger \/ New

Spec == Init /\ [][Next]_vars

--------------------------------------------------------------------------------
(* The figures as the facts state them, with no fold, log or order of arrival.           *)

Named(events, names) == {e \in events : e.name \in names}
Billing(events, cur) ==
    {e \in Named(events, {"invoiceIssued"}) : e.cur = cur /\ ~\E v \in Named(events, {"invoiceVoided"}) : v.inv = e.inv}
Opening(events, cur) ==
    {e \in Named(events, {"opened"}) :
        \E i \in Billing(events, cur) : i.inv = e.inv /\ canonicalLess(i, e)}
Statements(events, r) ==
    {e \in Named(events, {"opened", "partiallySettled", "settled", "writtenOff"}) :
        /\ e.rec = r.rec
        /\ e = r \/ canonicalLess(r, e)}
Stated(e) == CASE e.name = "opened" -> e.amount [] e.name = "partiallySettled" -> e.rest [] OTHER -> 0
LatestOf(S) == CHOOSE e \in S : \A f \in S \ {e} : canonicalLess(f, e)
BalanceOn(events, r, day) == Stated(LatestOf({e \in Statements(events, r) : dayKey(e.at) <= day}))
PaidBy(events, r, e) ==
    IF e.name = "settled" THEN Stated(LatestOf({f \in Statements(events, r) : canonicalLess(f, e)})) ELSE e.amount
Paid(events, r, from, to) ==
    SumOver({e \in Named(events, {"partiallySettled", "settled", "recovered"}) :
                e.rec = r.rec /\ canonicalLess(r, e) /\ dayKey(e.at) \in from .. to},
            LAMBDA e : PaidBy(events, r, e))

Owing(events, cur, day) == {r \in Opening(events, cur) : dayKey(r.at) <= day /\ BalanceOn(events, r, day) # 0}
Billed(events, cur, from, to) == SumOver({e \in Billing(events, cur) : dayKey(e.at) \in from .. to}, LAMBDA e : e.amount)

(* What is owed, by whom and since when. *)
BalanceTells(events, key, row) ==
    LET cur == key[3]
        day == key[4]
        owed(S) == SumOver(S, LAMBDA r : BalanceOn(events, r, day))
        cohort == {r \in Opening(events, cur) : cohortMonthStartDay(dayKey(r.at)) = day}
    IN  CASE key[1] = "dso" ->
               row.ar = owed(Owing(events, cur, day)) /\ row.refs = {r.rec : r \in Owing(events, cur, day)}
          [] key[1] = "aging" ->
               row.amount = owed({r \in Owing(events, cur, day) : AgingBucketFor(DaysOverdue(r.due, day)) = key[5]})
          [] key[1] = "cohort" -> row.original = SumOver(cohort, LAMBDA r : r.amount)
          [] OTHER -> TRUE

(* What was billed, collected and broken over a time. *)
FlowTells(events, key, row) ==
    LET cur == key[3]
        day == key[4]
        from == day - Window + 1
        cohort == {r \in Opening(events, cur) : cohortMonthStartDay(dayKey(r.at)) = day}
    IN  CASE key[1] = "dso" -> row.billed = Billed(events, cur, from, day)
          [] key[1] = "effectiveness" ->
               /\ row.collected = SumOver(Opening(events, cur), LAMBDA r : Paid(events, r, from, day))
               /\ row.billed = Billed(events, cur, from, day)
               /\ row.broken = Cardinality({e \in Named(events, {"promiseBroken"}) : dayKey(e.at) \in from .. day})
          [] key[1] = "cohort" -> row.collected = SumOver(cohort, LAMBDA r : Paid(events, r, day, day + key[5]))
          [] OTHER -> TRUE

Of(events, o) == {e \in events : e.org = o}

(* What was delivered of the org has reached the ledger (the consumer redelivered what     *)
(* failed), the org's log holds the ledger's events and its last emission completed.       *)
Whole(o) == emitted[o] /\ Of(offered, o) \subseteq ledger /\ ToSet(logs[o]) = Of(ledger, o)

(* Events the log holds more than once: redelivered to the process in which they failed,   *)
(* or repeated in a batch.                                                                 *)
Repeated(o) == {logs[o][i] : i \in {i \in DOMAIN logs[o] : \E j \in 1 .. (i - 1) : logs[o][j] = logs[o][i]}}

(* emit.go: "replays byte-identical regardless of batching", and ingester.go:86-88,        *)
(* "redelivery re-ingests them harmlessly" - whatever was redelivered, reordered, repeated,*)
(* lost to a failed statement or forgotten by a restart before, once an org is whole every *)
(* row its log yields stands in the tables, what is owed is what the ledger's facts say,   *)
(* and every figure of money has a row.  Two things the code does not keep.  What was      *)
(* billed, collected and broken is right unless the log repeats an event whose effect adds *)
(* up (a void, a partial settlement, a recovery, a broken promise): it counts twice until  *)
(* a restart or a rebuild; a repeated opening lets no emission complete.  And no other row *)
(* is left in the tables, as emit.go:16-18 says ("no stale keys survive"), except rows of  *)
(* a cohort that has lost members to a void.                                               *)
TablesTellLedger ==
    \A o \in Orgs : Whole(o) =>
        LET events == Of(ledger, o)
            now == emitProjections(refold(logs[o]), o)
            addsUp == Named(Repeated(o), {"invoiceVoided", "partiallySettled", "recovered", "promiseBroken"})
            left == {k \in DOMAIN tables : k[2] = o} \ {now[i].key : i \in DOMAIN now}
        IN  /\ Named(Repeated(o), {"opened"}) = {}
            /\ \A i \in DOMAIN now :
                  /\ Known(tables, now[i].key)
                  /\ tables[now[i].key].row = now[i].row
                  /\ BalanceTells(events, now[i].key, now[i].row)
                  /\ addsUp = {} => FlowTells(events, now[i].key, now[i].row)
            /\ \A k \in left : k[1] = "cohort" /\ Named(events, {"invoiceVoided"}) # {}
            /\ \A cur \in Currencies : \A e \in Billing(events, cur) \cup Opening(events, cur) :
                   Known(tables, <<"dso", o, cur, dayKey(e.at)>>)

(* IngestBatch: "Events of an org whose processing fails are NOT marked seen" - an event   *)
(* that would be dropped as a duplicate, or whose batch was acknowledged, is in the        *)
(* ledger, so no failure and no restart loses it.                                          *)
AcknowledgedIsKept == acked \cup seen \subseteq ledger

TypeOK ==
    /\ logs \in [Orgs -> Seq(stream)] /\ seen \subseteq stream /\ ledger \subseteq stream
    /\ \A k \in DOMAIN tables : tables[k].computed_at \in {e.at : e \in stream}
    /\ emitted \in [Orgs -> BOOLEAN] /\ faults \in 0 .. MaxFaults
================================================================================
