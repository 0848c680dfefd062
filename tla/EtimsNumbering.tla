---------------------------- MODULE EtimsNumbering -----------------------------
(***************************************************************************)
(* Invoice numbers for the tax authority: the numbering service of         *)
(* src/domain/consent/etims.ts over the sequence source of                 *)
(* src/adapters/etims, which hands numbers out of locally stacked bands    *)
(* and asks the authority (KRA) for more.  One process: reserve runs to    *)
(* its end, refill awaits the answer between reading the checkpoint and    *)
(* writing it, so callers interleave there.  An invoice number is the pair *)
(* of its year and sequence.  Of the audit trail the model keeps what      *)
(* tells where numbers went: the reserved and the burned ranges.           *)
(***************************************************************************)
EXTENDS Integers, Sequences, SequencesExt, FiniteSets, FiniteSetsExt

CONSTANTS Callers,            \* who may have a refill under way
          bandSize, lowWatermark, maxReservation,   \* EtimsConfig
          ETIMS_MAX_SEQUENCE,
          FirstYear, LastYear,   \* bound: the years the clock passes through
          Overlapping            \* may numbers be reserved while a refill waits for its answer?

VARIABLES year,         \* of the clock
          checkpoint,   \* the stored SequenceCheckpoint
          refills,      \* by caller: what its refill read before it began to wait, and the answer
          trail,        \* the ReservationAuditTrail
          granted,      \* external: the bands KRA ever granted, in order
          issued,       \* history: the invoice numbers handed out, in order
          lost          \* history: the numbers reserved and never handed out, or burned without evidence

vars == <<year, checkpoint, refills, trail, granted, issued, lost>>

EMPTY_CHECKPOINT == [year |-> 0, next |-> 0, bands |-> <<>>]
Idle == [waiting |-> FALSE, read |-> EMPTY_CHECKPOINT, year |-> 0, answer |-> 0]
NoAnswer == 0
Refusal == -1   \* KRA's refusal or a malformed answer; anything above 0 is the index of a grant

validateCheckpoint(c) ==
    IF c.bands = <<>> THEN c = EMPTY_CHECKPOINT
    ELSE /\ \A i \in DOMAIN c.bands : /\ c.bands[i].from \in 1..ETIMS_MAX_SEQUENCE
                                      /\ c.bands[i].to \in c.bands[i].from..ETIMS_MAX_SEQUENCE
         /\ \A i \in 2..Len(c.bands) : c.bands[i].from = c.bands[i - 1].to + 1
         /\ c.next \in c.bands[1].from..(c.bands[1].to + 1)

stockOf(c) == IF c.bands = <<>> THEN 0 ELSE Last(c.bands).to - c.next + 1

Event(kind, band, from, to) == [kind |-> kind, band |-> band, from |-> from, to |-> to]

(* An audit write may fail, which ends the call; what was saved before it stays. *)
appendOrThrow(events) == trail' = trail \/ trail' = trail \cup events

(* The tail of the active band and the queued bands, one event each, in order: a failing  *)
(* write leaves the ones before it.                                                       *)
BurnEvents(c) ==
    LET left == SelectSeq(c.bands, LAMBDA b : b.to >= c.next)
    IN  [i \in DOMAIN left |-> Event("burned", left[i].id, Max({c.next, left[i].from}), left[i].to)]

Numbers(y, events) == {y} \X UNION {e.from..e.to : e \in events}

burnSilently(c, written) == checkpoint' = EMPTY_CHECKPOINT /\ UNCHANGED <<trail, lost>>   \* Mutant: no evidence.

burnStaleYear(c, written) ==
    LET events == BurnEvents(c)
    IN  /\ checkpoint' = EMPTY_CHECKPOINT
        /\ trail' = trail \cup Range(SubSeq(events, 1, written))
        /\ lost' = lost \cup Numbers(c.year, Range(SubSeq(events, written + 1, Len(events))))

Stale(c, now) == c.year # 0 /\ c.year # now
Aligned(c, now) == c.year = now /\ c.bands # <<>>

(* The configurations the process starts with. *)
etimsConfigFromEnv ==
    /\ {bandSize, lowWatermark, maxReservation} \subseteq Nat \ {0}
    /\ maxReservation <= bandSize /\ lowWatermark <= bandSize

Init ==
    /\ etimsConfigFromEnv
    /\ year = FirstYear /\ checkpoint = EMPTY_CHECKPOINT
    /\ refills = [r \in Callers |-> Idle]
    /\ trail = {} /\ granted = <<>> /\ issued = <<>> /\ lost = {}

Tick == year < LastYear /\ year' = year + 1 /\ UNCHANGED <<checkpoint, refills, trail, granted, issued, lost>>

--------------------------------------------------------------------------------
(* The checkpoint after `count` numbers; an exactly drained stack keeps its last band. *)
ConsumedShort(c, count) == [c EXCEPT !.next = @ + count - 1]   \* Mutant: the last number is not counted.

Consumed(c, count) ==
    LET next == c.next + count
        remaining == SelectSeq(c.bands, LAMBDA b : b.to >= next)
    IN  [c EXCEPT !.next = next, !.bands = IF remaining = <<>> THEN <<Last(c.bands)>> ELSE remaining]

(* The source at clock year `now`.  A crash or a failing audit write after the save loses  *)
(* the numbers, which the service would have stamped with `stamp`.                         *)
reserve(count, now, stamp) ==
    LET c == checkpoint
        numbers == [i \in 1..count |-> <<stamp, c.next + i - 1>>]
        event == Event("reserved", c.bands[1].id, c.next, c.next + count - 1)
    IN  \/ /\ Stale(c, now) /\ UNCHANGED <<refills, issued>>
           /\ \E k \in 0..Len(BurnEvents(c)) : burnStaleYear(c, k)
        \/ /\ c.bands = <<>> \/ (Aligned(c, now) /\ stockOf(c) < count)
           /\ UNCHANGED <<checkpoint, refills, trail, issued, lost>>
        \/ /\ Aligned(c, now) /\ stockOf(c) >= count
           /\ checkpoint' = Consumed(c, count)
           /\ \/ /\ trail' = trail \cup {event}
                 /\ issued' = issued \o numbers /\ UNCHANGED <<refills, lost>>
              \/ /\ appendOrThrow({event})
                 /\ lost' = lost \cup Range(numbers) /\ UNCHANGED issued
                 /\ refills' \in {refills, [r \in Callers |-> Idle]}

(* The service reads the clock for the stamp, then the source reads it again: a new year   *)
(* may begin in between.                                                                   *)
reserveInvoiceNumbers(count) ==
    /\ Overlapping \/ \A r \in Callers : ~refills[r].waiting
    /\ year' \in {year, year + 1} \cap FirstYear..LastYear
    /\ reserve(count, year', year) /\ UNCHANGED granted

--------------------------------------------------------------------------------
(* refill up to its await.  A stack above the watermark needs no band: no change. *)
refill(r) ==
    /\ ~refills[r].waiting /\ UNCHANGED <<year, granted, issued>>
    /\ \/ /\ Stale(checkpoint, year)
          /\ \/ /\ \E k \in 0..(Len(BurnEvents(checkpoint)) - 1) : burnStaleYear(checkpoint, k)
                /\ UNCHANGED refills
             \/ /\ burnStaleYear(checkpoint, Len(BurnEvents(checkpoint)))
                /\ refills' = [refills EXCEPT ![r] = [Idle EXCEPT !.waiting = TRUE, !.year = year]]
       \/ /\ ~Stale(checkpoint, year) /\ ~(Aligned(checkpoint, year) /\ stockOf(checkpoint) > lowWatermark)
          /\ refills' = [refills EXCEPT ![r] = [Idle EXCEPT !.waiting = TRUE, !.read = checkpoint, !.year = year]]
          /\ UNCHANGED <<checkpoint, trail, lost>>

(* KRA refuses, repeats a band it granted for the year, or grants the next one, which may *)
(* be a fragment of what was asked for.                                                   *)
KraAnswers(r) ==
    /\ refills[r].waiting /\ refills[r].answer = NoAnswer
    /\ UNCHANGED <<year, checkpoint, trail, issued, lost>>
    /\ \/ /\ \E a \in {Refusal} \cup {i \in DOMAIN granted : granted[i].year = refills[r].year} :
                refills' = [refills EXCEPT ![r].answer = a]
          /\ UNCHANGED granted
       \/ LET from == 1 + Max({0} \cup {g.to : g \in {h \in Range(granted) : h.year = refills[r].year}})
          IN  \E size \in {1, bandSize} :
                 /\ from + size - 1 <= ETIMS_MAX_SEQUENCE
                 /\ granted' = Append(granted, [id |-> Len(granted) + 1, year |-> refills[r].year,
                                                from |-> from, to |-> from + size - 1])
                 /\ refills' = [refills EXCEPT ![r].answer = Len(granted) + 1]

(* The door from the wire: a refusal, anything malformed and a fragment are refused alike; *)
(* so is an answer that never reached the client.                                          *)
parseVsdcBandGrantResponse(a) == a > 0 /\ granted[a].to - granted[a].from + 1 = bandSize
registerSequenceBand(a, reached) == reached /\ parseVsdcBandGrantResponse(a)

expectedFrom(f) == IF Aligned(f.read, f.year) THEN Last(f.read.bands).to + 1 ELSE 1

Activated(f, band) ==
    IF Aligned(f.read, f.year)
      THEN [f.read EXCEPT !.bands = Append(SelectSeq(@, LAMBDA b : b.to >= f.read.next), band)]
      ELSE [year |-> f.year, next |-> band.from, bands |-> <<band>>]

(* refill after its await, on an answer or on the network's error, which may hide a grant:  *)
(* a refusal, a band it holds already and one that would leave a gap change nothing.        *)
RefillResumes(r, reached) ==
    LET f == refills[r]
        band == [id |-> f.answer, from |-> granted[f.answer].from, to |-> granted[f.answer].to]
    IN  /\ f.waiting /\ refills' = [refills EXCEPT ![r] = Idle]
        /\ UNCHANGED <<year, trail, granted, issued, lost>>
        /\ IF /\ registerSequenceBand(f.answer, reached) /\ band.from = expectedFrom(f)
              /\ ~(Aligned(f.read, f.year) /\ \E b \in Range(f.read.bands) : b.id = band.id)
             THEN checkpoint' = Activated(f, band) ELSE UNCHANGED checkpoint

(* The process restarts: the checkpoint is what it was, no refill waits any more. *)
Crash ==
    /\ \E r \in Callers : refills[r].waiting
    /\ refills' = [r \in Callers |-> Idle]
    /\ UNCHANGED <<year, checkpoint, trail, granted, issued, lost>>

Next ==
    \/ Tick \/ Crash
    \/ \E count \in 1..maxReservation : reserveInvoiceNumbers(count)
    \/ \E r \in Callers : refill(r) \/ KraAnswers(r) \/ \E reached \in BOOLEAN : RefillResumes(r, reached)

Spec == Init /\ [][Next]_vars
--------------------------------------------------------------------------------
TypeOK ==
    /\ year \in FirstYear..LastYear /\ \A i \in DOMAIN issued : issued[i] \in (FirstYear..LastYear) \X (1..ETIMS_MAX_SEQUENCE)
    /\ \A r \in Callers : refills[r].answer \in {NoAnswer, Refusal} \cup DOMAIN granted

(* No invoice number is handed out twice: etims.ts, "Uniqueness within (and across) bursts *)
(* comes from the sequence source", and source.ts, a crash "can never double-issue one".   *)
NeverDoubleIssued == \A i, j \in DOMAIN issued : issued[i] = issued[j] => i = j

(* "Outages never create gaps": the numbers of the year below the next one are those that *)
(* were handed out, in rising order, and those a crash or a failing audit write lost.     *)
(* (A refill that resumes in the next year may bring burned stock of the last one back;   *)
(* none of it is handed out.)                                                             *)
GaplessNumbering ==
    /\ \A i \in 1..(Len(issued) - 1) : \/ issued[i][1] < issued[i + 1][1]
                                       \/ issued[i][1] = issued[i + 1][1] /\ issued[i][2] < issued[i + 1][2]
    /\ Range(issued) \cap lost = {}
    /\ Aligned(checkpoint, year) =>
          {n \in Range(issued) \cup lost : n[1] = checkpoint.year} = {checkpoint.year} \X (1..(checkpoint.next - 1))

(* The year of a number is the one its band was granted for, whenever the year turned, and *)
(* a number the trail tells burned is never handed out.                                   *)
NumbersAreGranted ==
    /\ \A n \in Range(issued) : \E g \in Range(granted) : g.year = n[1] /\ n[2] \in g.from..g.to
    /\ \A e \in trail : e.kind = "burned" =>
          Range(issued) \cap ({granted[e.band].year} \X (e.from..e.to)) = {}

(* "no path may silently drop a band" (burnStaleYear): a number that was in stock stays    *)
(* there until it is handed out or the trail tells it burned; what a crash or a failing    *)
(* audit write took is lost for good.                                                     *)
Accounted == Range(issued) \cup lost
             \cup {checkpoint.year} \X UNION {Max({checkpoint.next, b.from})..b.to : b \in Range(checkpoint.bands)}
             \cup UNION {Numbers(granted[e.band].year, {e}) : e \in {x \in trail : x.kind = "burned"}}

(* A refill resumes over a checkpoint that another one saved since it read its own. *)
StaleResume ==
    \E r \in Callers : /\ refills[r].waiting /\ ~refills'[r].waiting
                       /\ checkpoint # refills[r].read

(* The source never locks itself out: it accepts every checkpoint it saves, and holds      *)
(* nothing that was not granted for the checkpoint's year.                                *)
CheckpointStaysValid ==
    /\ validateCheckpoint(checkpoint)
    /\ \A b \in Range(checkpoint.bands) : granted[b.id].year = checkpoint.year /\ granted[b.id].from = b.from /\ granted[b.id].to = b.to
================================================================================
