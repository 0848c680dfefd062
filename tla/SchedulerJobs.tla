----------------------------- MODULE SchedulerJobs -----------------------------
(***************************************************************************)
(* The interval scheduler (backend-go/internal/scheduler): dunning, late   *)
(* fees and aging snapshots.  Each process runs each job on a ticker.  A   *)
(* cycle runs under a session-level advisory lock, scans a bounded batch,  *)
(* decides on what it read and performs every effect as one transaction    *)
(* that claims a key first-write-wins and appends the outbox event.        *)
(*                                                                         *)
(* Receivables and orgs are numbered in id order.  Instants are whole UTC  *)
(* days; a due date is a midnight.  The grants are those of the one        *)
(* consent-gated channel of the ladder.                                    *)
(***************************************************************************)
EXTENDS Integers, FiniteSets, Sequences, SequencesExt, FiniteSetTheorems, TLAPS

CONSTANTS Runners,      \* one per process and job
          JobOf,        \* the job of each runner
          ProcessOf,    \* the process of each runner
          PoolSize,     \* the connections of a process's pool
          Receivables, DueDay,
          Flagged,      \* the receivables whose stored overdue flag is set
          Orgs,
          DunningLadder, \* steps [key, dayOffset, requiresConsent]
          GraceDays,    \* the late fee policy's grace window
          PeriodDays,   \* the length of an accrual period
          Batch,        \* Config.Batch: the LIMIT of every scan
          MaxDay,       \* bound: the last day of the model
          MaxChanges,   \* bound: settlements, grants and revocations
          MaxFaults,    \* bound: failed cycles
          MaxLost,      \* bound: lost lock sessions
          NoRunner

ValidateLadder(ladder) ==
    /\ ladder # <<>>
    /\ \A i, j \in DOMAIN ladder :
          i < j => /\ ladder[i].key # ladder[j].key
                   /\ ladder[i].dayOffset <= ladder[j].dayOffset

ASSUME SchedulerAssumption ==
    /\ Receivables \subseteq Nat /\ IsFiniteSet(Receivables)
    /\ Orgs \subseteq Nat /\ IsFiniteSet(Orgs)
    /\ DueDay \in [Receivables -> Int]
    /\ Flagged \subseteq Receivables
    /\ ValidateLadder(DunningLadder)
    /\ GraceDays \in Nat /\ PeriodDays \in Nat \ {0} /\ Batch \in Nat \ {0}
    /\ MaxDay \in Nat /\ MaxChanges \in Nat /\ MaxFaults \in Nat /\ MaxLost \in Nat
    /\ JobOf \in [Runners -> {"dunning", "late_fee", "aging_snapshots"}]
    /\ NoRunner \notin Runners
    /\ DOMAIN ProcessOf = Runners /\ PoolSize \in Nat \ {0}

VARIABLES day,      \* the injected clock
          live,     \* the receivables in open or partially_paid, with a balance
          granted,  \* the receivables whose customer holds an active grant
          lock,     \* the advisory lock of each job: its holder
          runner,   \* each runner's phase and what it has read
          claims,   \* idempotency_keys
          outbox,   \* outbox_events: the key each event was appended under
          changes, faults, lost

vars == <<day, live, granted, lock, runner, claims, outbox, changes, faults, lost>>

Jobs == {"dunning", "late_fee", "aging_snapshots"}
Idle == [pc |-> "idle", now |-> 0, rows |-> <<>>, steps |-> <<>>, consent |-> "unread"]
Step(key) == CHOOSE s \in Range(DunningLadder) : s.key = key
Min2(a, b) == IF a < b THEN a ELSE b
Max2(a, b) == IF a < b THEN b ELSE a

--------------------------------------------------------------------------------
(* What a cycle scans and what it owes a subject. *)

WholeDaysLate(r, now) == Max2(0, now - DueDay[r])

dunningHorizon ==
    1 - Min2(0, DunningLadder[1].dayOffset)

ByDueDate(S) ==
    SetToSortSeq(S, LAMBDA a, b : DueDay[a] < DueDay[b] \/ (DueDay[a] = DueDay[b] /\ a < b))

DunningSubjects(now) ==
    ByDueDate({r \in live : DueDay[r] <= now + dunningHorizon})

OverdueReceivables(now) ==
    ByDueDate({r \in live : r \in Flagged \/ DueDay[r] < now})

SnapshotOrgs == SetToSortSeq(Orgs, LAMBDA a, b : a < b)

Candidates(job, now) ==
    CASE job = "dunning"         -> DunningSubjects(now)
      [] job = "late_fee"        -> OverdueReceivables(now)
      [] job = "aging_snapshots" -> SnapshotOrgs

Limit(rows) == SubSeq(rows, 1, Min2(Batch, Len(rows)))

Key(kind, subject, item) == [kind |-> kind, subject |-> subject, item |-> item]

periodKeyFor(now) == now \div PeriodDays

(* DueSteps that takes a recorded refusal for a sent step. *)
DueStepsRefusedIsSent(r, now) ==
    SelectSeq(DunningLadder,
              LAMBDA s : /\ Key("send", r, s.key) \notin claims
                         /\ Key("blocked", r, s.key) \notin claims
                         /\ now - DueDay[r] >= s.dayOffset)

DueSteps(r, now) ==
    SelectSeq(DunningLadder,
              LAMBDA s : Key("send", r, s.key) \notin claims /\ now - DueDay[r] >= s.dayOffset)

(* AccrueLateFee on a row of the scan: live by the scan, overdue and past grace. *)
AccruableLateFee(r, now) ==
    /\ r \in Flagged \/ now > DueDay[r]
    /\ WholeDaysLate(r, now) > GraceDays

(* The items of one subject's effects, in the order in which they are performed. *)
Items(job, subject, now) ==
    CASE job = "dunning"         -> [i \in DOMAIN DueSteps(subject, now) |-> DueSteps(subject, now)[i].key]
      [] job = "late_fee"        -> IF AccruableLateFee(subject, now) THEN <<periodKeyFor(now)>> ELSE <<>>
      [] job = "aging_snapshots" -> <<now>>

Init ==
    /\ day = 0
    /\ live = Receivables
    /\ granted \in SUBSET Receivables
    /\ lock = [j \in Jobs |-> NoRunner]
    /\ runner = [p \in Runners |-> Idle]
    /\ claims = {}
    /\ outbox = <<>>
    /\ changes = 0
    /\ faults = 0
    /\ lost = 0

--------------------------------------------------------------------------------
(* One guarded cycle. *)

world == <<day, live, granted, changes>>

(* A running cycle keeps the connection of its lock; each of its calls takes another one   *)
(* from the pool of the process, waits while there is none, and gives it back.             *)
FreeConnection(p) ==
    Cardinality({q \in Runners : ProcessOf[q] = ProcessOf[p] /\ runner[q].pc # "idle"}) < PoolSize

(* The cycle is over: the deferred release unlocks what this session still holds. *)
Release(p) ==
    /\ runner' = [runner EXCEPT ![p] = Idle]
    /\ lock' = [lock EXCEPT ![JobOf[p]] = IF @ = p THEN NoRunner ELSE @]

(* tick: the try-lock is won, or the tick is skipped; the job reads the clock once. *)
Tick(p) ==
    /\ runner[p].pc = "idle" /\ FreeConnection(p)
    /\ lock[JobOf[p]] = NoRunner
    /\ lock' = [lock EXCEPT ![JobOf[p]] = p]
    /\ runner' = [runner EXCEPT ![p] = [Idle EXCEPT !.pc = "scan", !.now = day]]
    /\ UNCHANGED <<world, claims, outbox, faults, lost>>

Scan(p) ==
    /\ runner[p].pc = "scan" /\ FreeConnection(p)
    /\ runner' = [runner EXCEPT ![p].pc = "row",
                                ![p].rows = Limit(Candidates(JobOf[p], runner[p].now))]
    /\ UNCHANGED <<world, lock, claims, outbox, faults, lost>>

(* The next subject: the sent steps are read, the pure filter selects the items. *)
NextRow(p) ==
    /\ runner[p].pc = "row"
    /\ runner[p].rows # <<>>
    /\ JobOf[p] # "late_fee" => FreeConnection(p)
    /\ runner' = [runner EXCEPT ![p].pc = "item",
                                ![p].steps = Items(JobOf[p], Head(runner[p].rows), runner[p].now),
                                ![p].consent = "unread"]
    /\ UNCHANGED <<world, lock, claims, outbox, faults, lost>>

Finish(p) ==
    /\ runner[p].pc = "row"
    /\ runner[p].rows = <<>>
    /\ Release(p)
    /\ UNCHANGED <<world, claims, outbox, faults, lost>>

RowDone(p) ==
    /\ runner[p].pc = "item"
    /\ runner[p].steps = <<>>
    /\ runner' = [runner EXCEPT ![p].pc = "row", ![p].rows = Tail(@)]
    /\ UNCHANGED <<world, lock, claims, outbox, faults, lost>>

Gated(p) == JobOf[p] = "dunning" /\ Step(Head(runner[p].steps)).requiresConsent

(* The K2 lookup, made once per channel and subject. *)
ConsentRef(p) ==
    /\ runner[p].pc = "item"
    /\ runner[p].steps # <<>>
    /\ Gated(p) /\ runner[p].consent = "unread" /\ FreeConnection(p)
    /\ runner' = [runner EXCEPT ![p].consent =
                     IF Head(runner[p].rows) \in granted THEN "grant" ELSE "none"]
    /\ UNCHANGED <<world, lock, claims, outbox, faults, lost>>

EvaluateDunningSend(p) == ~Gated(p) \/ runner[p].consent = "grant"

KindOf(p) ==
    CASE JobOf[p] = "dunning"         -> IF EvaluateDunningSend(p) THEN "send" ELSE "blocked"
      [] JobOf[p] = "late_fee"        -> "fee"
      [] JobOf[p] = "aging_snapshots" -> "snapshot"

(* ClaimAndEmit with the claim committed before its event. *)
ClaimAndEmitTwoTx(p) ==
    LET key == Key(KindOf(p), Head(runner[p].rows), Head(runner[p].steps))
    IN  /\ runner[p].pc = "item"
        /\ runner[p].steps # <<>>
        /\ Gated(p) => runner[p].consent # "unread"
        /\ claims' = claims \cup {key}
        /\ \/ /\ key \notin claims
              /\ outbox' = Append(outbox, key)
           \/ UNCHANGED outbox
        /\ runner' = [runner EXCEPT ![p].steps = Tail(@)]
        /\ UNCHANGED <<world, lock, faults, lost>>

(* ClaimAndEmit: the claim and the event are one transaction; a lost claim emits nothing. *)
ClaimAndEmit(p) ==
    LET key == Key(KindOf(p), Head(runner[p].rows), Head(runner[p].steps))
    IN  /\ runner[p].pc = "item"
        /\ runner[p].steps # <<>> /\ FreeConnection(p)
        /\ Gated(p) => runner[p].consent # "unread"
        /\ claims' = claims \cup {key}
        /\ outbox' = IF key \in claims THEN outbox ELSE Append(outbox, key)
        /\ runner' = [runner EXCEPT ![p].steps = Tail(@)]
        /\ UNCHANGED <<world, lock, faults, lost>>

(* A repository call fails, or the process dies: the cycle ends where it is. *)
FailCycle(p) ==
    /\ runner[p].pc # "idle"
    /\ faults < MaxFaults
    /\ Release(p)
    /\ faults' = faults + 1
    /\ UNCHANGED <<world, claims, outbox, lost>>

(* The connection that holds the lock dies; the job runs on over the pool. *)
LoseSession(p) ==
    /\ lock[JobOf[p]] = p
    /\ lost < MaxLost
    /\ lock' = [lock EXCEPT ![JobOf[p]] = NoRunner]
    /\ lost' = lost + 1
    /\ UNCHANGED <<world, runner, claims, outbox, faults>>

--------------------------------------------------------------------------------
(* The rest of the system: time passes, debts are settled, consent changes. *)

NextDay ==
    /\ day < MaxDay
    /\ day' = day + 1
    /\ UNCHANGED <<live, granted, lock, runner, claims, outbox, changes, faults, lost>>

Settle(r) ==
    /\ r \in live
    /\ changes < MaxChanges
    /\ live' = live \ {r}
    /\ changes' = changes + 1
    /\ UNCHANGED <<day, granted, lock, runner, claims, outbox, faults, lost>>

ChangeConsent(r) ==
    /\ changes < MaxChanges
    /\ granted' = IF r \in granted THEN granted \ {r} ELSE granted \cup {r}
    /\ changes' = changes + 1
    /\ UNCHANGED <<day, live, lock, runner, claims, outbox, faults, lost>>

Cycle(p) == Tick(p) \/ Scan(p) \/ NextRow(p) \/ RowDone(p) \/ ConsentRef(p) \/ ClaimAndEmit(p) \/ Finish(p)

Next ==
    \/ \E p \in Runners : Cycle(p) \/ FailCycle(p) \/ LoseSession(p)
    \/ NextDay
    \/ \E r \in Receivables : Settle(r) \/ ChangeConsent(r)

Spec == Init /\ [][Next]_vars

--------------------------------------------------------------------------------
Keys == [kind : {"send", "blocked"}, subject : Receivables, item : {s.key : s \in Range(DunningLadder)}]
        \cup [kind : {"fee"}, subject : Receivables, item : 0 .. MaxDay]
        \cup [kind : {"snapshot"}, subject : Orgs, item : 0 .. MaxDay]

(* Every variable holds a value of its type; only a gated step of a dunning  *)
(* cycle waits for the consent lookup.                                       *)
TypeOK ==
    /\ day \in 0 .. MaxDay
    /\ live \subseteq Receivables /\ granted \subseteq Receivables
    /\ lock \in [Jobs -> Runners \cup {NoRunner}]
    /\ \A p \in Runners :
          /\ runner[p].pc \in {"idle", "scan", "row", "item"}
          /\ runner[p].now \in 0 .. day
          /\ Len(runner[p].rows) <= Batch
          /\ Range(runner[p].rows) \subseteq (IF JobOf[p] = "aging_snapshots" THEN Orgs ELSE Receivables)
          /\ runner[p].pc = "item" => runner[p].rows # <<>>
          /\ runner[p].consent \in {"unread", "grant", "none"}
    /\ claims \subseteq Keys
    /\ \A i \in DOMAIN outbox : outbox[i] \in Keys
    /\ changes \in 0 .. MaxChanges /\ faults \in 0 .. MaxFaults /\ lost \in 0 .. MaxLost

(* "Re-running the same tick can never double an effect" (store.go): every   *)
(* claimed key has exactly one outbox event and every event its claim, also  *)
(* when a lost session lets two processes run the same job.                  *)
OneEventPerClaim ==
    /\ Range(outbox) = claims
    /\ Len(outbox) = Cardinality(claims)

(* DueSteps returns a backlog oldest first: a subject never receives a step  *)
(* before an earlier one that needs no consent, whoever runs the cycles.     *)
LadderInOrder ==
    \A i, j \in DOMAIN DunningLadder : \A r \in Receivables :
       (i < j /\ ~DunningLadder[i].requiresConsent) =>
          \A n \in DOMAIN outbox :
             outbox[n] = Key("send", r, DunningLadder[j].key) =>
                \E m \in 1 .. n : outbox[m] = Key("send", r, DunningLadder[i].key)

(* tick's comment, "no overlap, ever": two cycles of a job overlap only after the       *)
(* connection that held the advisory lock was lost.                                    *)
NoOverlap ==
    \A p, q \in Runners :
       (p # q /\ JobOf[p] = JobOf[q] /\ lost = 0) => "idle" \in {runner[p].pc, runner[q].pc}

(* What a job still owes a subject today. *)
Owed(job, s) ==
    CASE job = "dunning" ->
           /\ s \in live
           /\ \E step \in Range(DunningLadder) :
                 /\ day - DueDay[s] >= step.dayOffset
                 /\ Key("send", s, step.key) \notin claims
                 /\ step.requiresConsent /\ s \notin granted => Key("blocked", s, step.key) \notin claims
      [] job = "late_fee" ->
           s \in live /\ AccruableLateFee(s, day) /\ Key("fee", s, periodKeyFor(day)) \notin claims
      [] job = "aging_snapshots" -> Key("snapshot", s, day) \notin claims

(* A cycle whose next call waits for a connection. *)
Waits(p) ==
    /\ runner[p].pc # "idle" /\ ~FreeConnection(p)
    /\ runner[p].pc = "row" => runner[p].rows # <<>> /\ JobOf[p] # "late_fee"
    /\ runner[p].pc = "item" => runner[p].steps # <<>>

(* Locks hold every connection of the pool and their cycles wait for another. *)
PoolStarved == \E p \in Runners : \A q \in Runners : ProcessOf[q] = ProcessOf[p] => Waits(q)

(* RunDunning, RunLateFee, RunAging: whatever is due within the batch is     *)
(* performed, or its refusal recorded, unless the debt is settled; a refused *)
(* step is sent after a later grant.  Rows stay in the scan when nothing is  *)
(* owed to them any more, so what is behind them waits until they are        *)
(* settled; and as many jobs as connections can stop each other.             *)
DuePerformed ==
    \/ PoolStarved
    \/ \A p \in Runners : \A s \in Range(Limit(Candidates(JobOf[p], day))) : ~Owed(JobOf[p], s)

--------------------------------------------------------------------------------
(* For every set of processes, jobs and targets: an event is told once for *)
(* every claim, and the cycles of a job exclude each other.                *)

\* The claims are the events, told once each.
ClaimsAreEvents ==
    /\ IsFiniteSet(claims)
    /\ outbox \in Seq(claims)
    /\ OneEventPerClaim

\* What appending an event does to the keys told.
LEMMA RangeAppend ==
    ASSUME NEW S, NEW s \in Seq(S), NEW e
    PROVE  Range(Append(s, e)) = Range(s) \cup {e}
<1>1. DOMAIN Append(s, e) = DOMAIN s \cup {Len(s) + 1}
  OBVIOUS
<1>2. \A i \in DOMAIN s : Append(s, e)[i] = s[i]
  OBVIOUS
<1>3. Append(s, e)[Len(s) + 1] = e
  OBVIOUS
<1> QED BY <1>1, <1>2, <1>3 DEF Range

\* A cycle whose lock session was not lost holds its job's advisory lock.
CyclesAreLocked ==
    /\ DOMAIN runner = Runners /\ runner = [p \in Runners |-> runner[p]]
    /\ \A p \in Runners : DOMAIN runner[p] = {"pc", "now", "rows", "steps", "consent"}
    /\ lock \in [Jobs -> Runners \cup {NoRunner}] /\ lost \in Nat
    /\ \A p \in Runners : runner[p].pc # "idle" /\ lost = 0 => lock[JobOf[p]] = p

\* Before the first cycle both invariants hold.
LEMMA InitScheduler == Init => ClaimsAreEvents /\ CyclesAreLocked
<1> SUFFICES ASSUME Init PROVE ClaimsAreEvents /\ CyclesAreLocked
  OBVIOUS
<1>1. ClaimsAreEvents
  <2>1. Range(<<>>) = {} /\ Len(<<>>) = 0
    BY DEF Range
  <2> QED BY <2>1, FS_EmptySet DEF Init, ClaimsAreEvents, OneEventPerClaim
<1>2. CyclesAreLocked
  BY DEF Init, CyclesAreLocked, Idle
<1> QED BY <1>1, <1>2

\* Only ClaimAndEmit touches the claims and the outbox, and it touches both.
LEMMA NextClaims == ClaimsAreEvents /\ [Next]_vars => ClaimsAreEvents'
<1> SUFFICES ASSUME ClaimsAreEvents, [Next]_vars PROVE ClaimsAreEvents'
  OBVIOUS
<1>1. ASSUME NEW p \in Runners, ClaimAndEmit(p) PROVE ClaimsAreEvents'
  <2>1. PICK k : /\ claims' = claims \cup {k}
                 /\ outbox' = IF k \in claims THEN outbox ELSE Append(outbox, k)
    BY <1>1 DEF ClaimAndEmit
  <2>2. CASE k \in claims
    BY <2>1, <2>2, Zenon DEF ClaimsAreEvents, OneEventPerClaim
  <2>3. CASE k \notin claims
    <3>1. outbox' = Append(outbox, k) /\ outbox \in Seq(claims) /\ claims' = claims \cup {k}
      BY <2>1, <2>3 DEF ClaimsAreEvents
    <3>2. outbox' \in Seq(claims') /\ Len(outbox') = Len(outbox) + 1
      BY <3>1
    <3>3. Range(outbox') = claims'
      BY <3>1, RangeAppend DEF ClaimsAreEvents, OneEventPerClaim
    <3>4. IsFiniteSet(claims') /\ Cardinality(claims') = Cardinality(claims) + 1
      BY <2>3, <3>1, FS_AddElement DEF ClaimsAreEvents
    <3> QED BY <3>2, <3>3, <3>4 DEF ClaimsAreEvents, OneEventPerClaim
  <2> QED BY <2>2, <2>3
<1>2. CASE UNCHANGED <<claims, outbox>>
  BY <1>2 DEF ClaimsAreEvents, OneEventPerClaim
<1>3. ASSUME NEW p \in Runners, Cycle(p), ~ClaimAndEmit(p) PROVE UNCHANGED <<claims, outbox>>
  BY <1>3 DEF Cycle, Tick, Scan, NextRow, RowDone, ConsentRef, Finish
<1>4. ASSUME NEW p \in Runners, FailCycle(p) \/ LoseSession(p) PROVE UNCHANGED <<claims, outbox>>
  BY <1>4 DEF FailCycle, LoseSession
<1>5. ASSUME NextDay \/ \E r \in Receivables : Settle(r) \/ ChangeConsent(r) PROVE UNCHANGED <<claims, outbox>>
  BY <1>5 DEF NextDay, Settle, ChangeConsent
<1>6. ASSUME UNCHANGED vars PROVE UNCHANGED <<claims, outbox>>
  BY <1>6 DEF vars
<1> QED BY <1>1, <1>2, <1>3, <1>4, <1>5, <1>6 DEF Next

\* One runner moves: to a phase of its cycle, which it runs under its lock.
LEMMA RunnerMoves ==
    ASSUME CyclesAreLocked, NEW p \in Runners, NEW r,
           runner' = [runner EXCEPT ![p] = r], DOMAIN r = DOMAIN runner[p],
           r.pc # "idle" => runner[p].pc # "idle", UNCHANGED <<lock, lost>>
    PROVE  CyclesAreLocked'
<1>1. DOMAIN runner' = Runners /\ runner' = [q \in Runners |-> runner'[q]]
      /\ \A q \in Runners : runner'[q] = IF q = p THEN r ELSE runner[q]
  BY DEF CyclesAreLocked
<1> QED BY <1>1 DEF CyclesAreLocked

\* A cycle ends: the runner is idle and holds its lock no longer.
LEMMA CycleEnds ==
    ASSUME CyclesAreLocked, NEW p \in Runners, Release(p), UNCHANGED lost
    PROVE  CyclesAreLocked'
<1>1. DOMAIN runner' = Runners /\ runner' = [q \in Runners |-> runner'[q]]
      /\ \A q \in Runners : runner'[q] = IF q = p THEN Idle ELSE runner[q]
  BY DEF CyclesAreLocked, Release
<1>2. Idle.pc = "idle" /\ DOMAIN Idle = {"pc", "now", "rows", "steps", "consent"}
  BY DEF Idle
<1>3. /\ lock' \in [Jobs -> Runners \cup {NoRunner}]
      /\ \A j \in Jobs : lock[j] # p => lock'[j] = lock[j]
  BY Zenon DEF CyclesAreLocked, Release
<1>4. \A q \in Runners : JobOf[q] \in Jobs
  BY SchedulerAssumption DEF Jobs
<1> QED BY <1>1, <1>2, <1>3, <1>4 DEF CyclesAreLocked

\* One step per action: the try-lock of Tick is the only way into a cycle.
LEMMA NextCycles == CyclesAreLocked /\ [Next]_vars => CyclesAreLocked'
<1> SUFFICES ASSUME CyclesAreLocked, [Next]_vars PROVE CyclesAreLocked'
  OBVIOUS
<1>0. \A q \in Runners : JobOf[q] \in Jobs /\ q # NoRunner
  BY SchedulerAssumption DEF Jobs
<1>1. ASSUME NEW p \in Runners, Tick(p) PROVE CyclesAreLocked'
  <2> DEFINE r == [Idle EXCEPT !.pc = "scan", !.now = day]
  <2>1. r.pc = "scan" /\ DOMAIN r = {"pc", "now", "rows", "steps", "consent"}
    BY DEF Idle
  <2>2. runner' = [runner EXCEPT ![p] = r]
    BY <1>1 DEF Tick
  <2> HIDE DEF r
  <2>3. DOMAIN runner' = Runners /\ runner' = [q \in Runners |-> runner'[q]]
        /\ \A q \in Runners : runner'[q] = IF q = p THEN r ELSE runner[q]
    BY <2>2 DEF CyclesAreLocked
  <2>4. /\ lock' \in [Jobs -> Runners \cup {NoRunner}] /\ lock'[JobOf[p]] = p /\ lost' = lost
        /\ lock[JobOf[p]] = NoRunner
        /\ \A j \in Jobs : j # JobOf[p] => lock'[j] = lock[j]
    BY <1>0, <1>1 DEF CyclesAreLocked, Tick
  <2> QED BY <1>0, <2>1, <2>3, <2>4 DEF CyclesAreLocked
<1>2. ASSUME NEW p \in Runners, Scan(p) \/ NextRow(p) \/ RowDone(p) \/ ConsentRef(p) \/ ClaimAndEmit(p)
      PROVE  CyclesAreLocked'
  <2>0. p \in DOMAIN runner /\ DOMAIN runner[p] = {"pc", "now", "rows", "steps", "consent"}
    BY DEF CyclesAreLocked
  <2>1. \E r : runner' = [runner EXCEPT ![p] = r] /\ DOMAIN r = DOMAIN runner[p]
    <3>1. CASE Scan(p)
      <4>1. PICK x : runner' = [runner EXCEPT ![p].pc = "row", ![p].rows = x]
        BY <3>1, Zenon DEF Scan
      <4> DEFINE r == [runner[p] EXCEPT !.pc = "row", !.rows = x]
      <4>2. runner' = [runner EXCEPT ![p] = r] /\ DOMAIN r = DOMAIN runner[p]
        BY <2>0, <4>1, Zenon
      <4> QED BY <4>2, Zenon
    <3>2. CASE NextRow(p)
      <4>1. PICK x : runner' = [runner EXCEPT ![p].pc = "item", ![p].steps = x, ![p].consent = "unread"]
        BY <3>2, Zenon DEF NextRow
      <4> DEFINE r == [runner[p] EXCEPT !.pc = "item", !.steps = x, !.consent = "unread"]
      <4>2. runner' = [runner EXCEPT ![p] = r] /\ DOMAIN r = DOMAIN runner[p]
        BY <2>0, <4>1, Zenon
      <4> QED BY <4>2, Zenon
    <3>3. CASE RowDone(p)
      <4> DEFINE r == [runner[p] EXCEPT !.pc = "row", !.rows = Tail(@)]
      <4>2. runner' = [runner EXCEPT ![p] = r] /\ DOMAIN r = DOMAIN runner[p]
        BY <2>0, <3>3, Zenon DEF RowDone
      <4> QED BY <4>2, Zenon
    <3>4. CASE ConsentRef(p)
      <4>1. PICK x : runner' = [runner EXCEPT ![p].consent = x]
        BY <3>4, Zenon DEF ConsentRef
      <4> DEFINE r == [runner[p] EXCEPT !.consent = x]
      <4>2. runner' = [runner EXCEPT ![p] = r] /\ DOMAIN r = DOMAIN runner[p]
        BY <2>0, <4>1
      <4> QED BY <4>2, Zenon
    <3>5. CASE ClaimAndEmit(p)
      <4> DEFINE r == [runner[p] EXCEPT !.steps = Tail(@)]
      <4>2. runner' = [runner EXCEPT ![p] = r] /\ DOMAIN r = DOMAIN runner[p]
        BY <2>0, <3>5 DEF ClaimAndEmit
      <4> QED BY <4>2, Zenon
    <3> QED BY <1>2, <3>1, <3>2, <3>3, <3>4, <3>5
  <2>2. runner[p].pc # "idle" /\ UNCHANGED <<lock, lost>>
    BY <1>2 DEF Scan, NextRow, RowDone, ConsentRef, ClaimAndEmit
  <2> QED BY <2>1, <2>2, RunnerMoves, Zenon
<1>3. ASSUME NEW p \in Runners, Finish(p) \/ FailCycle(p) PROVE CyclesAreLocked'
  BY <1>3, CycleEnds DEF Finish, FailCycle
<1>4. ASSUME NEW p \in Runners, LoseSession(p) PROVE CyclesAreLocked'
  <2>1. lost' \in Nat /\ lost' # 0 /\ runner' = runner
    BY <1>4 DEF LoseSession, CyclesAreLocked
  <2>2. lock' \in [Jobs -> Runners \cup {NoRunner}]
    BY <1>4, Zenon DEF LoseSession, CyclesAreLocked
  <2> QED BY <2>1, <2>2 DEF CyclesAreLocked
<1>5. CASE UNCHANGED <<lock, runner, lost>>
  BY <1>5 DEF CyclesAreLocked
<1>6. ASSUME NextDay \/ \E r \in Receivables : Settle(r) \/ ChangeConsent(r) PROVE UNCHANGED <<lock, runner, lost>>
  BY <1>6 DEF NextDay, Settle, ChangeConsent
<1>7. ASSUME UNCHANGED vars PROVE UNCHANGED <<lock, runner, lost>>
  BY <1>7 DEF vars
<1> QED BY <1>1, <1>2, <1>3, <1>4, <1>5, <1>6, <1>7 DEF Next, Cycle

(* "Re-running the same tick can never double an effect": every claimed key  *)
(* has exactly one outbox event and every event its claim, for any number of *)
(* processes and any number of lost lock sessions.                           *)
THEOREM OneEffectPerClaim == Spec => []OneEventPerClaim
<1>1. ClaimsAreEvents => OneEventPerClaim
  BY DEF ClaimsAreEvents
<1> QED BY <1>1, InitScheduler, NextClaims, PTL DEF Spec

(* "No overlap, ever" for any number of processes: two cycles of one job run *)
(* at a time only after the connection holding the advisory lock was lost.   *)
THEOREM CyclesOfAJobExclude == Spec => []NoOverlap
<1>1. CyclesAreLocked => NoOverlap
  BY DEF CyclesAreLocked, NoOverlap
<1> QED BY <1>1, InitScheduler, NextCycles, PTL DEF Spec
================================================================================
