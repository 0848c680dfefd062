# A TLA+ model of Fuatilia

Fuatilia tracks what customers owe a business, takes their M-Pesa payments, allocates
them, and follows up what stays unpaid. The repository holds two implementations of one
domain:

- a **TypeScript kernel** (`src/src/domain/*`): pure functions from an aggregate and a
  command to a new aggregate and its events, one directory ("lane") per subject, with an
  injected clock; and the **adapters** around it (`src/src/adapters/*`): stores,
  message providers, the HTTP API, the tax authority's numbering client, the Daraja
  simulator;
- a **Go production kernel** (`src/backend-go`): HTTP transport, application services,
  PostgreSQL repositories, three worker loops (the outbox relay, the webhook worker and
  the scheduler) and the analytics ingester;
- the **PostgreSQL schema** (`src/db/migrations`), where several of the invariants R1-R10
  of `docs/07-invariants.md` live as constraints and deferred triggers.

The modules here are translated from that code. Every definition that models code is
listed with its lines in `PROJECT.json` under `map`; the text below says how the pieces
fit, what is checked, what is proved and what is left out.

## 1. The parts and how they interact

    rail --callback--> transport/callbacks.go --> application/stk.go --> payments, ledger, outbox
                                 ^                         |
    execute push --> daraja client (in-flight slot) --> stk_initiations
    HTTP intake --> application/payments.go --> idempotency registry, payments
    allocations, refunds --> rows + deferred triggers (0006, 0007)
    case commands --> application/collections.go --> cases, action log, outbox
    scheduler (advisory lock per job) --> claims + outbox
    outbox --> relay --> broker;   webhook_deliveries --> webhook worker --> endpoint
    broker --> analytics ingester --> event_fact ledger, projection tables
    HTTP API (access, routes, paging) --> TypeScript lanes --> file-backed or PostgreSQL-backed store
    invoices --> numbering service --> checkpoint <-- refill <-- tax authority

Almost everything that is hard to test sits on an arrow: two workers on one table, a
process that dies between two transactions, a message sent before its row is marked, a
row read before its lock is taken, a queue that is drained behind an `await`.

## 2. Modules

One module per component. `X <- Y` in the last column: the module uses another one.

| Module | Code | State and actions |
| --- | --- | --- |
| OutboxRelay | internal/outbox, infra/outbox.go | Rows, row and advisory locks, relays with a program counter per statement of `drainOrg`; append, select, publish, mark, poison, commit, crash, shutdown, operator replay |
| OutboxRelayDuplicates | | The account of sends that bounds the relay's duplicates, and its theorem |
| WebhookDelivery | internal/webhooks, 0012 | Delivery rows with remaining time to due and age of the claim; workers claim, resolve keys, post, record; lease expiry, crash, graceful stop |
| WebhookLane | domain/webhooks | Endpoint life cycle, subscriptions, plans, queue, attempts, the receiver's signature check and replay window |
| DarajaSettlement | transport/callbacks.go, application/stk.go, payments.go, daraja/intake.go, repositories | One action per transaction of a callback handler, rail redelivery, operator confirmation, handler death |
| PaymentIntake | application/payments.go, services.go, pkg/idempotency | Probes, claim, insert, race fallback and the hot cache, with waiting on uncommitted unique keys |
| IdempotentIntake | same | Abstract promise: create, replay, refuse or fail in one step. PaymentIntake refines it |
| StkPush | daraja/client.go, stk.go, application/stk.go | Executions in several processes, in-flight slots, token, retries, the record after the answer |
| StkAttempt | domain/collections/stk | Proposal, policy gate, approval, initiation, callback, expiry sweep. `<- Consent` |
| MoneyCeilings | 0004, 0006, 0007, repositories/payments.go | Transactions with their own uncommitted rows, receivable row locks, deferred R1, R2 and R6 checks at commit |
| MoneyLanes | the payments, allocation and receivables lanes | Guards and results of the lanes' functions and the strategies, as operators |
| FundsChain | those lanes as daraja/simulator.ts chains them | One payment, its matches, allocation rows and receivables `<- MoneyLanes` |
| ReceivableLane | domain/receivables, scheduler/latefee.go | One invoice, its receivables, overdue, write-off, concession; late fee policies, markers and amounts beside their int64 port `<- MoneyLanes` |
| Adjustments | domain/adjustments | Credit note, credit balance log, refunds |
| PaymentLinks | domain/paymentlinks | Links of each configuration, redemption, expiry |
| MoneyKernel | pkg/money/money.go, domain/shared/money.ts | Arithmetic at a word width, text, largest remainder |
| CrossBorder | domain/crossborder, shared/fx.ts | Corridors, fees, rates, quotes that lapse; intents from draft to settlement under idempotency keys |
| CustomerMemory | domain/memory | Claims from facts in any order of presentation, snapshots, changes between two |
| Behavior | domain/behavior | Profiles, drift and anomalies over every small history, with exact fractions |
| SchedulerJobs | internal/scheduler | Tick, advisory lock on a pooled connection, scan, per-row claim and emit; dunning, late fee and aging jobs |
| PaymentPlans | scheduler/plans.go, store.go, domain/receivables/payment-plan.ts | The plan job against payments |
| LedgerJournal | domain/ledger | Movements, postings, replays, reversals and corrections, reports and reconciliation drift |
| Consent | domain/consent | Guard, trail and export; grants and revocations in any order |
| CommsDelivery | domain/communications, adapters/comm-* | Queueing, screening, wire calls under leases, the classification of the three providers |
| Promises | domain/promises | Promise life cycle and ladder ticks |
| UssdSession | domain/ussd | Menus and their checks, sessions with history, budget and expiry, the three flows |
| Disputes | domain/disputes | Registry, life cycle, hold |
| CollectionsCasesProofs | | Inductive invariant and theorems about CollectionsCases |
| CollectionsCases | application/collections.go, repositories/cases.go, 0009 | Read, lock, validate and write steps of each command in concurrent transactions; the R8 index and its trigger |
| CaseLane | domain/collections/case.ts, actions.ts | The lane's operations on an aggregate, as the specification CollectionsCases implements |
| CaseSequences | adapters/persistence/pg/resourcestore.ts | The block-reserving case-number cursors of several processes through crashes |
| EtimsNumbering | adapters/etims, domain/consent/etims.ts | Reservation, refill cut at its await, year-end burn, lost and repeated answers, restart, the audit of both |
| Approvals | domain/approvals | Gates, request life cycle, four eyes, expiry |
| ActionDecisions | domain/policy, domain/nba | Rule sets, precedence, decisions and their replay; features, guards and ranking of next actions |
| ApiResources | adapters/http | Routes of payments, refunds, cases and the ledger; kernel answers; cursors and pages |
| Access | domain/auth, adapters/http authentication | Roles, grants, sessions and keys asked at every instant |
| AuditChain | domain/audit | Append, hash chain, redaction, damage, verification, query |
| FileAuthStore | adapters/persistence/filestore.ts, journal.ts, replay.ts | Write chain, fsync, snapshot steps, load of a new or a live store, crash |
| PgProjection | adapters/persistence/pg/resourcestore.ts | Projection, write queue, drain loop by continuation, flush, boot of a new or a live store, failed and unanswered COMMIT |
| AnalyticsIngester | backend-go/internal/analytics, db/clickhouse | Batches deduplicated, appended, folded and emitted row by row; failing statements, restart, rebuild from the ledger |

**MC modules and `part`.** Each MC module EXTENDS the component whose assumptions TLC is
to evaluate and INSTANCEs the others with small constants. A variable `part`, chosen at
`Init` and never changed, names the instance that runs; all others keep their initial
state. State spaces therefore add up and do not multiply, and a property of one
component is checked in every state of its instance. Where a component can start in several
states, the parts that do not run are pinned to one (`Quiet` in MCSchedulerJobs). A
property in an MC module that names several components is a conjunction of theirs, one
theme per property.

## 3. Runs

Deadlock is checked in `relay` and `webhooks`, where something can always
happen next (the clock, a poll). The other runs contain lanes that really stop when every
document has reached its end and every bound is used up, so they switch it off; where
stopping would be wrong, a liveness property says so.

| Run | Module | Shows |
| --- | --- | --- |
| relay | OutboxRelay | Two relays, three events of an organisation (one malformed), batch 2, budget 2, one crash or shutdown, one replay |
| webhooks | MCWebhookDelivery | `workers`: lease as short as ResolveConfig admits; `leased`: a lease that outlasts all phases; `lane`: the kernel under every change of the endpoint; `consumer`: the kernel and a receiver of intact, garbled, changed, late and repeated requests; `outbox`: two relays and two events, the first malformed, under fairness |
| settle | MCDarajaSettlement | `settle`: STK results (one success, one failure) with wrong amounts, redelivery, operator, one death; `c2b`: the same on the C2B path; `rail`: C2B alone, under fairness; `intake`: four requests racing over reference and key; `crossed`: one of them from another channel; `push`: three executions in two processes under ten kinds of fault |
| settle_void | MCDarajaSettlement | Finding 1 |
| money | MCMoneyCeilings | `ceilings`, `serial`: two transactions with two writes each; `funds`, `lane`, `late`, `adjust`, `repay`, `links`, `transfer`: the lanes in every order; `plans`, `declared`, `money`, `shares` (fractional weights), `text`, `rates`, `fx`: every small input; `paid`, `owed`, `said` (memory), `habits`, `words`, `drift`, `pair` (behaviour): every small history |
| ceilings_skew | MCMoneyCeilings | Finding 2 |
| lanes | MCSchedulerJobs | `dunning`: two scheduler processes; `fees`: late fees beside aging snapshots, over one connection pool; `pool`: as many jobs as connections; `crowd`: more rows than a batch; `plans`, `ledger`, `desk`, `consent`, `comms`, `refused`, `promise`, `disputes`, `attempt`, `ussd`, `menus` |
| cases | MCCollectionsCases | `r8`, `log`: two workers, interleaved; `serial`: every command one at a time against CaseLane; `numbers`: two processes on one counter; `invoices`, `newyear`: two refills at once, a year that turns; `gates`, `checkers`; `rules`, `replay`, `ranks`; `pay`, `claims`, `walk`, `book`: the HTTP API |
| etims_reissue | EtimsNumbering | Finding 5 |
| stores | MCPgProjection | `pg`: saves, flushes and boots of one store in any order; `files`: the same of the file store, with crashes; `trail`, `query`; `session`, `key`, `grant`; `ingest`: the analytics ingester on three streams of events |
| files_torn | MCPgProjection | Finding 3 |
| pgstore_flush | MCPgProjection | Finding 4 |

### What the properties say

*Outbox.* `PublishedReachedBroker`: a row marked published is on the wire.
`NoDoublePublish` (action): a row is sent only while it is committed as pending and in
the batch of exactly one relay. `DuplicatesBounded`: the broker gets an event at most
budget x (1 + replays) + faults times. `NoOvertaking` (action): when an event is sent,
every older row of its organisation that the batch saw pending is already decided by the
same transaction; a row that a replay held at that moment is the exception SKIP LOCKED
makes.

*Webhooks.* `LadderCountsFailures`: `attempt_count` is the number of failures on record
and only a full ladder dead-letters, even when a lease ran out and two workers carried
the row. `DeliveredWasAcked`:
a delivered row was acknowledged by its endpoint. `LeaseKeepsSingleFlight`: a lease that
outlasts the three phases keeps one worker per delivery. `TerminalFrozen` (action).
`QueueIsFaithful`: the lane's queue holds wanted events, once while live, its log tells
the attempts, and a receiver decides once per
delivery, whatever arrives and how often. `DeliveriesEnd`: every delivery
of an active endpoint ends, in the worker and in the lane, and every appended event ends
published or dead-lettered.

*Settlement.* `LedgerMatchesPayment`: a payment is confirmed exactly when the ledger holds
its entry of that amount. `SettledOnce` (action): a settled payment does not change.
`AcknowledgedMoneyIsReal`, `OneOutcomePerCommand`, `IntakeIsIdempotent` (refinement of
IdempotentIntake, with `outcome` and `payments` mapped to committed rows and given
answers) and `MoneyComesToRest` are described in MCDarajaSettlement.

*Money.* `BalanceIntegrity`: the receivable's `applied_minor` is the sum of its active
rows in every committed state, under interleaved transactions. `MoneyIsConserved`: no
ceiling is passed, one movement per transfer and as quoted, fees warranted by the policy
and never above it in the int64 port. `ArithmeticIsSound`: sums, splits, strategies, FX;
a split by whole weights places every cent, one by fractional weights is off by no more
than the rounding of its weights.
`ClaimsFollowFacts`: memory and behaviour say what their facts say. `HistoryIsFinal`.

*Scheduled lanes.* `OneEventPerClaim`: one outbox event per claim key, whatever happens
to the advisory lock. `ContactFollowsRules`, `RecordsTellOutcome`, `DecidedIsFinal`,
`WhatIsDueHappens`: see MCSchedulerJobs. Where the code does less than one would expect,
the property says how far it goes: an original consent row kept beside its revoked copy
still admits contact, a late fee that is posted shows as drift of just its amount, a
message is on the wire once and once more per crash, a result that entered by the parser
leaves its attempt unresolved, rows behind a full batch wait until the rows of the batch
are settled, and jobs whose locks hold every connection stop each other. Each of these
cases is reached by the run.

*Cases.* `CoverageIsExclusive` (R8), `LogTellsCase`, `ImplementsLane` (the Go service
refines CaseLane when commands do not overlap, except that it completes an action recorded
with its outcome), `CommittedNotReissued` (a process's cursor is past every case stored
before its boot or by itself, in two processes and through crashes, and blocks reserved
one after the other are apart; tax invoice numbers, when nobody reserves while a refill
waits), `NoNumberVanishes` (action: a number of a granted band is handed out, burned on
record or lost to a named fault, or a refill resumes over a checkpoint another one saved
meanwhile), `FourEyes`, `ActionsAreGoverned` (no rule set gets past the
engine's guards, decisions replay, recommendations are allowed ones), `ApiIsFaithful` (no
call ends in a 500, a refused call changes nothing, a paging client misses no row).

*Stores.* `StoreIsFaithful`: what is committed, in flight and queued is what was accepted,
in order, and the projection is what it will come to, unless a boot over the live store
put a stored row over a queued one or pushed the stored events a second time, or a COMMIT
was not answered. `SavesDoNotSit`: an accepted save leaves the queue or
a failure is on record. `FilesSurvive`: numbers ascend, memory shows what was accepted,
and what flush() promised is found by every later boot, but for saves accepted during a
load of the live store and, for the last two, torn lines. `AccessIsCurrent`: who is let
through is backed by records that hold at that instant, and what has ended stays ended.
`LogsTell`: the audit trail names what was done to it, with every combination of expected
length and head; and of the ingester,
`AcknowledgedIsKept` (an event that counts as seen or acknowledged is in the ledger) and
`TablesTellLedger`: once everything delivered of an organisation is in the ledger and in
its log, every projection row says what a definition over the *set* of ledger events says
(open balances, aging, billed and collected windows, cohorts), whatever was reordered,
redelivered, cut off by a failing statement or forgotten by a restart before; the sums
over windows are not claimed while the log repeats an event that adds up, and rows of a
cohort that lost members to a void may be left over. The definition uses neither the fold
nor the order of arrival.

### Bounds

Two of everything that races (relays, workers, handlers, transactions, processes): the
hazards in `PROJECT.json` are each between two actors, or between one actor and a crash.
Three rows or executions where an order matters, so that something lies between the first
and the last. Fault counters (`MaxFaults`, `MaxCrashes`, `MaxLost`, `MaxReplays`,
`MaxDuplicates`) are 1 or 2: one fault at *any* statement reaches the windows between
transactions, and a second one is allowed where recovery itself can be cut short (the file
store). Ladders have one to three rungs, clocks run a little past the last deadline.
Amounts are 1 to 5 minor units, enough for a part, a whole and an excess. MoneyKernel has
a word of 6 bits (5 for the magnitude), so every overflow border is met. Weights are
multiples of 1/`Den` scaled by `Scale`, which stands for the 10^9 of the code: whole
weights in `money` (`Den` 1), and in `shares` fifths scaled by 2, so that most of them are
rounded, up or down, as thirds are by 10^9. Windows of 30 days, months
and aging bands are 1 or 2 days long, so that their borders fall between events; a driver
that fails does so before the first statement, inside the ledger appends and inside the
emission. The scheduler's pool has one connection more than jobs that run at once, and
exactly as many in `pool`; `crowd` has a batch of one for two receivables. The PostgreSQL
store sees three saves after one boot, two with a second boot or one with a third; the
file store two saves, two crashes and any number of loads in a queue of bounded length.
Tax-number bands hold one or two numbers. Symmetry is used only in
runs without liveness (`relay`, `money`, `cases`), over relays, transactions and rows, and
workers; no definition tells those apart.

### Fairness

Weak fairness of every step of a running loop: `Run` in the relay, the webhook worker and
the scheduler polls for ever, a Go handler runs to its return, a JavaScript event loop
runs every continuation, a statement whose lock is free returns. The platform restarts a
stopped worker and the clock advances. The rail redelivers what it has not seen
acknowledged (`settle_void` assumes it redelivers for ever whenever it can). A movement
event is redelivered until it is posted; the sweeps for promises and pushes run. Nobody
is assumed to pay, consent, answer, cancel, confirm or replay, and faults stop because
their counters are bounded: liveness is claimed for "after the last fault".

`WhatIsDueHappens` has the form `[]<>P` for a state predicate P that says "nothing that is
due is left undone": due work appears again whenever the clock moves, so the system must
come back to P, and bounded clocks make that "for ever from some point on".

## 4. Proofs

Proved for every value of the constants, with the inductive invariant of each. Long
developments have a module of their own (OutboxRelayDuplicates, CollectionsCasesProofs); the
others stand at the end of their component's module. The assumptions are the ASSUMEs of
the component, which TLC evaluates in its run: finitely many rows with an order where the
code has one, bounds that are natural numbers, "nobody" values that are nobody. PaymentIntake is
only instantiated, so its theorems carry theirs as the hypothesis `IntakeConstants`.

| Theorem | Says | Checked by run |
| --- | --- | --- |
| RelayTypeOK, AtLeastOnce, OneRelayPerRow, OldestFirst | `Spec => []TypeOK`, `[]PublishedReachedBroker`, `NoDoublePublish`, `NoOvertaking` | relay |
| BoundedDuplicates | `Spec => []DuplicatesBounded` | relay |
| WebhookTypeOK, LadderIsWalkedRungByRung, DeliveredMeansAcked, TerminalRowsAreFrozen | `[]TypeOK`, `[]LadderCountsFailures`, `[]DeliveredWasAcked`, `TerminalFrozen` | webhooks |
| LongLeaseKeepsSingleFlight | `LeaseOutlastsAttempt => (Spec => []SingleFlight)` | webhooks, part `leased` |
| SettlementTypeOK, BooksFollowPayments, PaymentsSettleOnce, AnswersFollowMoney | `[]TypeOK`, `[]LedgerMatchesPayment`, `SettledOnce`, and the three invariants of acknowledged money | settle |
| IntakeRefines, KeysStayBound, OneCommandOnePayment | PaymentIntake implements IdempotentIntake; `KeysAreStable`; `[]SameCommandSamePayment` | settle, parts `intake`, `crossed` |
| BalancesAddUp, PostingsAreAppendOnly, CeilingsTypeOK | `[]BalanceIntegrity` (R1), `AppendOnly` (R3), `[]TypeOK` | money |
| SerialCeilings | `SerialSpec => [](NoOverAllocation /\ RefundCeiling)` (R2, R6) | money, part `serial` |
| OneEffectPerClaim, CyclesOfAJobExclude | `[]OneEventPerClaim`, `[]NoOverlap` | lanes |
| OneOpenCaseAlways, LogTellsCaseAlways | `[]CoverageIsExclusive` (R8), `[]LogTellsCase` | cases |

**Outbox relay.** `PublishedReachedBroker` is not inductive: a relay marks a row in its own
uncommitted copy and the commit makes that copy the row, so the invariant must already
speak of the copies:

    IInv == TypeOK /\ PublishedReachedBroker
            /\ BatchOwned        \* a row of a batch is locked by that relay, pending, and unchanged in its copy
            /\ LocksInBatch      \* a locked row's copy is "published" only if it is on the wire
            /\ MarkAfterSend     \* between send and mark, the row at the head was sent
            /\ BatchHasOrg       \* a running batch has an organisation to go on with
            /\ PendingHasBudget  \* a pending row has attempts left, so the counter stays typed

`BatchOwned` also gives `NoDoublePublish`: two relays with one row in their batches would
both hold its lock.

`NoOvertaking` needs to know what became of the rows a batch has left behind. `OlderDecided`
says that a row the batch saw pending is still in the batch, decided in the relay's own
copy, or younger than all that is left; `AdvisoryHeld`, that a relay with a row lock has the
organisation's advisory lock, so that no other relay takes rows out of that order.

`DuplicatesBounded` follows from an account of sends, kept for every event:

    SendsCounted == Occurrences(e) + Doomed(e) <= Granted + Counted(e) + faults

`Counted` is the attempts in the copy of whoever holds the row (in the row, if nobody does),
with a send not yet marked; `Granted` is a full budget for each finished replay. A crash
takes the uncommitted attempts back and pays with `faults`; a SIGTERM pays at once, while
the rollback comes later, and `Doomed` keeps what it has paid until then. One fault covers
one send of an event because a transaction handles a row once: `WorkNearRow` says that a
copy is at most one attempt ahead of its row. `Counted` never exceeds the budget, which
gives the bound.

**Webhooks.** `RungLeft` says that a row that is not terminal has a rung of the ladder left,
`SuccessWasAcked` that a worker about to record a success has its 2xx; `PhaseBudget` and
`DueIsBounded` bound the clocks, which keeps them typed. Single flight needs more, and more
is assumed: `ClaimIsHeld` says that the row of a worker in flight is `delivering`, with an
age that, together with the time its phase has left, stays within the budgets of the
phases so far. A lease longer than all of them (`LeaseOutlastsAttempt`, true of the
defaults) then outlives every attempt. `ResolveConfig` admits shorter leases; for those the
theorem says nothing, and the part `workers` contains stolen claims.

**Settlement.** `HandlerOK(h)` says what a busy handler can rely on at each place, though what
it read unlocked may be stale: past the claim it carries the journey's money, past the
intake there is a payment, it resolves a success only with the amount asked for confirmed
and acknowledges C2B money only confirmed. That others cannot undo this is `Monotone`, an
action property proved in the same step as the invariant: a claimed journey keeps its
money, a payment stays, a settled one is not written again (`SettledOnce`).

**Intake.** Every statement of a request is shown to be a step of IdempotentIntake or a
stutter, with `payments` (the committed ones) and `outcome` as the abstract state. `RequestOK`
relates the program counter to the uncommitted rows; `Apart` says that uncommitted rows of
two requests never meet in a unique index; `RegistryOK` says that the registry names
committed payments and that the cache, which is written before the commit, names at least
payments its key is entitled to. The proof found an answer the abstraction had left out: a
reference that another channel's payment has taken ends in an internal error
(`Clash`), since the index covers the reference alone and the probe asks for channel and
reference. `OneCommandOnePayment` needs that no key is used for two references. Without it
requests (A, k), (A, k), (B, k), (B, l) can be answered so that the two bearers of (A, k)
get different payments: the first by its own reference, the second by the key that the
payment of B has meanwhile bound.

**Ceilings.** Once its triggers have run a transaction holds the lock of every receivable it
wrote to, and the deferred check still holds when it commits (`TxOK`); what two transactions
wrote is disjoint. So the committed rows of a locked receivable do not move under the
trigger's sum. Sums are `SumFunction` over finite sets; their lemmas go by minimal
counterexample over subsets (`SubsetInduction`), because an induction theorem with an
operator parameter cannot be used. R2 and R6 have no lock and so no inductive invariant for
`Spec` (finding 2); `SerialSpec` adds that transactions do not overlap, and there the check
at commit is the invariant.

**Scheduler.** Claims and outbox change only together, in ClaimAndEmit, so `ClaimsAreEvents`
(the events are the claims, as a set and in number) is inductive. `CyclesAreLocked`: while no
lock session was lost, a running cycle holds the advisory lock of its job.

**Cases.** `CommandOK(w)` says what worker w can rely on at each step of its command: the case
exists, its arguments are of the command's kind, once locked the case stays locked by w, and
what CompleteAction was admitted for is still to be done. `CaseOK(c)` relates the row of c, its
marker, its closing evidence, its log and its events; `MarkersApart` is the unique index;
`LocksOK` says who holds a lock. Nothing is said of the row a command read before its
lock: it may be stale, and the theorems hold all the same. The invariant speaks of the last
entry of a kind by position (`IsLastTo`) and of events that answer entries by an
order-preserving map (`InStep`), which the provers can extend by one element; equal
lengths of filtered sequences they cannot.

Proofs are laid out alike: one lemma per action (`PublishKeeps`, `CommitKeeps`, ...), under
it one step per conjunct the action can disturb, and a last step by temporal logic.

Only model-checked, and why:

- liveness under fairness and everything that needs `ENABLED`;
- what a recursive definition or a fold computes for every input: the splits of MoneyKernel
  and MoneyLanes, the journal's and the ingester's folds, behaviour and memory, chains of
  hashes (induction over data);
- `StoreIsFaithful` of PgProjection, TypeOK and `LadderInOrder` of SchedulerJobs: they are
  about `SelectSeq` and sorted sets, of which the provers know too little;
- the conjunctions of the MC modules (`MoneyIsConserved`, `RecordsTellOutcome`, ...) and the
  lanes they name: sequential code, where small instances reach every case.

## 5. Findings

Five runs check what a comment in the code promises and show the program doing otherwise.

1. `settle_void`: an STK result whose handler died between intake and confirmation is
   acknowledged on every redelivery as a duplicate and never confirmed
   (`application/stk.go:531`, against `transport/callbacks.go:195-199`).
2. `ceilings_skew`: two transactions allocate one payment twice; the deferred trigger
   takes no lock on the payment (`0006_allocations.sql:189`, against lines 5-7).
3. `files_torn`: after a torn line the next entry is glued to the fragment and lost
   although `flush()` resolved for it (`journal.ts:155`, against `filestore.ts:186`).
4. `pgstore_flush`: a save accepted between the end of the drain loop and its
   `finally()` is not awaited by the flush that follows (`pg/resourcestore.ts:575`,
   against line 566).
5. `etims_reissue`: a refill saves the `next` it read before waiting for the tax
   authority; numbers reserved meanwhile are handed out again (`etims/source.ts:530`,
   against `consent/etims.ts:79` and `source.ts:47-49`).

The properties of the passing runs are stated so that these cases are visible as their
conditions: `AckedIsSettled` and `EventuallySettled` hold on the C2B path, R2 and R6 when
transactions do not overlap, `FlushedSurvives` when no line was torn, numbers are unique
when no reservation overlaps a refill.

## 6. Other differences between code and comments met while modelling

No runs of their own; each was seen in a model of the code named, and where a property of
a passing run meets one, the property names it as its exception.

- Relay: the batch runs under the signal context, so a shutdown rolls back marks of sent
  rows (`outbox/relay.go:238`); a row locked by a replay is overtaken (`relay.go:355`).
- Webhook worker: a lease equal to the timeout can run out in flight (`worker.go:115`);
  RecordSuccess does not tell its own claim from a stolen one (`store.go:136`); an
  endpoint disabled after the claim is still posted to (`store.go:78`).
- Webhook lane: a plan made before a revocation is queued after it (`attempts.ts:276`).
- Intake: the hot cache is filled before the commit (`payments.go:166`); the verdict of
  the key claim is dropped (`payments.go:120`); a reference under another channel ends in
  an internal error on every retry (`payments.go:184`).
- STK: the initiation is resolved as failed although an operator confirmed
  (`stk.go:535`); two executions can both prompt (`daraja/stk.go:142`); a failed probe
  counts as "not claimed" (`services.go:91`); a lost answer leaves a prompt without a
  row (`stk.go:346`). In the lane, consent revoked after the gate does not stop the
  prompt (`stk/actions.ts:786`), a callback that came in through the parser leaves the
  attempt open (`actions.ts:1001`; `ParserIntake`), gating again overwrites the state
  (`gate.ts:142`) and
  a clearance of another attempt is accepted (`actions.ts:717`).
- Ceilings: refunds race as allocations do (`payments.go:410`), allocations do not count
  refunds (`0006:199`), `unapplied_minor` is not maintained (`0005:43`).
- Scheduler: a cycle outlives its lost lock (`store.go:528`), sends on stale consent
  (`jobs.go:133`), charges a debt conceded since the scan (`jobs.go:220`), and with more
  overdue rows than a batch the later ones are not charged before the earlier ones are
  settled (`store.go:230`; part `crowd`). With as
  many pooled connections as jobs running at once every job holds its lock's connection
  and waits for a second one (`store.go:528`; part `pool`, the exception `PoolStarved`).
- Late fees: the Go product of two int64 wraps and then undercharges or refuses
  (`latefee.go:180`); the flat amount is checked against the safe integers in the lane only.
- Plans: the default is written without looking at the installment again
  (`store.go:391`); a part payment has no row shape in 0010 (`payment-plan.ts:291`).
- Money: fractional weights whose scaled sum is not the scaled total lose or create cents
  (`shared/money.ts:114`, against "no cent is created or destroyed" at 99; part `shares`
  bounds how many); a pro-rata part may equal its weight (`strategies.ts:187`).
- Receivables: the overdue flag survives a write-off (`receivable.ts:420`); a line added
  after the draft leaves a pair that cannot open (`receivable.ts:137`); reversing an
  allocation returns nothing to payment or receivable (`payment.ts:132`,
  `receivable.ts:256`); a confirmation replayed after allocation is refused
  (`payment.ts:205`).
- Adjustments: a retry may reuse the reference before last (`refund.ts:160`); a refund
  from the credit balance does not debit it (`refund.ts:203`).
- Cases: commands decide on the row read before the lock, so a closed case can move
  again, get entries and be lowered in priority (`collections.go:210, 319, 451`); an
  action recorded with its outcome can be completed again (`cases.go:257`); the view
  does not show completions (`views.go:263`).
- Case numbers: processes that boot beside each other read the same counter and hand out
  the same numbers, and so does a cursor that has left its block (`resourcestore.ts:949`);
  the unique index refuses the second case (part `numbers`, the exception `abreast`).
- Approvals: a draft past its time never ends (`request.ts:742`); one call reads the
  clock twice (`request.ts:510`).
- Audit: two writers on one head break an untouched trail (`record.ts:439`), a key that
  redaction strips goes unseen when it is added to a stored record (`chain.ts:249`),
  growth since an anchor is reported as truncation (`chain.ts:261`).
- Consent, dunning and messages: the un-revoked original row still allows contact when it
  is kept beside its revoked copy (`consent-grant.ts:145`, the exception
  `OriginalKept`); ticks ask neither for a live grant nor for disputes
  (`dunning.ts:218, 290`); a crashed wire call may be repeated (`idempotency.ts:57`); two
  workers may record one refusal twice (`provider.ts:235`); a permanent refusal on a
  later attempt leaves the message queued, and consent is screened after the call
  (`comm-sms/provider.ts:179, 60`); a revocation of another reference is not seen
  (`guard.ts:120`).
- Ledger: a replay is not compared on its accounts, and `entryPosted` carries the first
  line's amount only (`journal.ts`). The matrix has no row for `lateFeeAccrued`, and a fee
  posted under the name its hook describes is in no receivable's balance (`late-fee.ts:306`).
  Unapplied money is reported as drift (`matrix.ts:38`), a credit balance
  application has no row (`matrix.ts:36`), both versions of a reversed entry are summed
  (`accounts.ts:168`).
- Links: two redemptions from one load overshoot the target (`redeem.ts:145`).
- Stores: a save during a snapshot's await is in the snapshot and not in the journal
  (`filestore.ts:164`); `load()` of a live file store drops saves accepted while it reads
  (`filestore.ts:129`), and a snapshot taken then makes later boots skip their lines; a boot
  over a live PostgreSQL store flushes only what is queued when it begins, then puts stored
  rows over saves made since and pushes all stored events again (`resourcestore.ts:556`,
  `977`), where its comment has it that "the reload never rolls back over uncommitted
  work"; an
  unanswered COMMIT stores events twice (`resourcestore.ts:709`); `save_refund` binds
  eight values to seven parameters (`resourcestore.ts:1212`).
- Tax invoice numbers: after a grant whose answer was lost every later grant is refused as
  non-contiguous until it is reconciled by hand, as `etims/source.ts` says; a refill begun
  before New Year can save the burned year's stock again, which is then burned twice; a
  refill that resumes over a checkpoint another refill saved meanwhile drops that band
  (`source.ts:464`, the exception `StaleResume`).
- Memory: a settlement or allocation that precedes its opening in the array is dropped
  although array order is said to break ties only (`claims.ts:196`); an allocation's
  currency is not compared.
- Behaviour: `lastActivityAt` includes a dispute's resolution after `asOf`, and pending
  promises count whatever `asOf` is (`profile.ts`); silence "since it was made" is counted
  from the promised date (`anomaly.ts`); a fact given twice counts twice.
- Cross-border: a replay compares the rail as given with the trimmed one that was stored
  (`intent.ts:463, 502`); the default quote id does not depend on rate and fee; a draft does
  not compare its organisation with the corridor's.
- Access and API: a wildcard role is compared with the granter's permissions by resource,
  not permission by permission (`assignments.ts:182`); the HTTP port saves neither
  a key's `lastUsedAt` nor a session's last touch; the refund
  intent route accepts for a reversed payment what the reservation route refuses; rows may
  be passed over when a listing is sorted by a field that changes while it is read.
- USSD: the screen of a failed flow is not checked against a small budget again.
- Next best action: the plan id is not seeded by signals and policy decisions.
- Analytics: a batch that holds one event twice is not collapsed, and an event whose batch
  failed after `upsertLog` is in the log when it is redelivered to the same process: it is
  then there twice, payments count twice and a repeated `receivable.opened` makes every
  later fold of the organisation fail until a rebuild (`state.go:98`, `ingester.go:141`,
  against "unique by eventId" and "redelivery re-ingests them harmlessly"). Rows computed
  from an event that is not yet in the ledger carry its watermark and outlive a rebuild
  from the ledger, until the event is redelivered or the tables are truncated first, as
  `db/clickhouse/README.md` does. A void, or an issue that turns out to follow its void,
  removes rows of its cohort from later emissions, so those emitted before stay (`emit.go`:
  "a key, once created, always exists").

## 7. Abstractions, and what is not modelled

- Messages, names, tokens, secrets, hashes and documents are model values; a hash is an
  injective function of what it covers. The bytes of signatures, JSON, HTTP, SQL text, logging and
  metrics are left out; where a conversion matters (amounts as text, provider replies,
  event subjects, the answers of the tax authority) it is modelled by what it does.
- Transactions are READ COMMITTED: a statement sees committed rows and its own; row locks
  and unique keys are waited for; deferred triggers run at commit.
- Time is a small counter, or the time left and the age of a claim where only those
  matter (WebhookDelivery). The clocks of processes do not drift against the database.
- Within one transaction of DarajaSettlement and SchedulerJobs the statements are one
  step: their interleavings are covered where they matter, in PaymentIntake,
  MoneyCeilings and CollectionsCases. The ingester is one goroutine: a batch is one step,
  cut off after any number of statements.
- FundsChain chains the lanes the way the Daraja simulator does and adds the lanes'
  other operations in any order.
- Floating-point figures are exact fractions, or the two sides of their ratio.

Not modelled, and why:

- the Go receivables, adjustments and auth services: twins of lanes modelled from
  TypeScript, whose own transactions follow the pattern of CollectionsCases; the R7
  triggers of 0007;
- the events lane, projections and agent: pure functions of their input without state of
  record (the outbox they feed is OutboxRelay; the aging and effectiveness figures are
  modelled from their Go port in AnalyticsIngester);
- intelligence: floating-point forecasts, out of TLC's reach but for their order;
- intake and bank-feed adapters, wire parsing, invoice check characters, templates,
  rationales: conversions of external text that no property here depends on;
- passwords, registration of organisations, receivables and credit-note routes of the
  HTTP adapter, the rate limiter;
- the web front end, scripts, configuration, seed data: no state of record.

`PROJECT.json` lists each under `components` with its sources.

## 8. Plan

Model: the Go receivables and adjustments services with the 0007 credit-note trigger,
composed with MoneyCeilings' transactions; the token buckets of the rate limiter; the
remaining HTTP routes. Compose: scheduler claims with the outbox relay and the ingester
(a claimed event reaches the broker and the ledger), and StkPush with DarajaSettlement (a
push made is a push settled).

Prove: EtimsNumbering, no number handed out twice when reservations do not overlap a refill;
PgProjection, nothing dropped or reordered; CollectionsCases' refinement of CaseLane for
commands that do not overlap.
