---------------------------- MODULE WebhookDelivery ----------------------------
(***************************************************************************)
(* The webhook delivery workers (backend-go/internal/webhooks): several    *)
(* workers claim due rows of webhook_deliveries, POST them outside any     *)
(* transaction and record the outcome on the retry ladder.  A claim is a   *)
(* lease: a row left in `delivering` may be claimed again by a peer.       *)
(*                                                                         *)
(* A delivery is a natural number, its rank in (created_at, id).  Time is  *)
(* relative: a row carries the time left until its next_attempt_at and the *)
(* age of its updated_at, a worker the time left of the context it runs    *)
(* on.  An instant is therefore never bounded, only the distances are.     *)
(***************************************************************************)
EXTENDS Integers, FiniteSets, Sequences, WellFoundedInduction, TLAPS

CONSTANTS Workers, Deliveries,
          Ladder,           \* the backoff after failed attempt 1, 2, ...
          ClaimLease, DeliveryTimeout,
          ErrorBudget,      \* errorBudget: the timeout of key resolution and of a record
          Overdue,          \* bound: how long past its schedule a row is told apart
          MaxFaults,        \* bound: crashes and failed record transactions
          MaxToggles        \* bound: changes of an endpoint's active flag

AssertRetryLadder(ladder) ==
    /\ ladder # <<>>
    /\ \A i \in DOMAIN ladder : ladder[i] > 0
    /\ \A i \in 2 .. Len(ladder) : ladder[i] > ladder[i - 1]

ResolveConfig ==
    /\ DeliveryTimeout >= 0
    /\ ClaimLease >= DeliveryTimeout
    /\ AssertRetryLadder(Ladder)

ASSUME WebhookAssumption ==
    /\ Deliveries \subseteq Nat /\ IsFiniteSet(Deliveries)
    /\ Ladder \in Seq(Nat)
    /\ ClaimLease \in Nat /\ DeliveryTimeout \in Nat /\ ErrorBudget \in Nat
    /\ Overdue \in Nat /\ MaxFaults \in Nat /\ MaxToggles \in Nat
    /\ ResolveConfig

VARIABLES delivery,  \* webhook_deliveries: state, attempt_count, next_attempt_at, updated_at
          active,    \* the deliveries whose endpoint is active
          worker,    \* each worker's phase, claim, remaining context time and outcome
          stopping,  \* the workers whose run context is cancelled (SIGTERM)
          acked,     \* history: the deliveries some POST of which was answered 2xx
          failures,  \* history: the failure records that landed
          faults, toggles

history == <<acked, failures>>
vars == <<delivery, active, worker, stopping, history, faults, toggles>>

MaxAttemptsFor == Len(Ladder) + 1
Terminal == {"delivered", "dead_lettered"}
Idle == [pc |-> "idle", id |-> 0, attemptNo |-> 0, left |-> 0, outcome |-> "none"]
InFlight(w) == worker[w].pc \in {"keys", "post", "record"}

--------------------------------------------------------------------------------
(* The pure ladder (attempts.go) and the claim query (store.go). *)

WillRetry(attemptNo) == attemptNo <= Len(Ladder)

BackoffFor(attemptNo) == IF attemptNo \in DOMAIN Ladder THEN Ladder[attemptNo] ELSE 0

\* Mutant: a lease that is not honoured.
claimDueNoLease ==
    {d \in active : delivery[d].state \in {"queued", "failed", "delivering"} /\ delivery[d].due <= 0}

\* Mutant: a row left in `delivering` is never claimed again.
claimDueNoRecovery ==
    {d \in active : delivery[d].state \in {"queued", "failed"} /\ delivery[d].due <= 0}

claimDueSQL ==
    {d \in active :
        \/ delivery[d].state \in {"queued", "failed"} /\ delivery[d].due <= 0
        \/ delivery[d].state = "delivering" /\ delivery[d].age >= ClaimLease}

Oldest(S) ==
    CHOOSE d \in S : \A e \in S : \/ delivery[d].due < delivery[e].due
                                  \/ delivery[d].due = delivery[e].due /\ d <= e

--------------------------------------------------------------------------------
(* One cycle of a worker. *)

\* The claim transaction: SELECT ... SKIP LOCKED, state -> delivering, COMMIT.
\* Key resolution starts, on a detached context of its own.
ClaimDue(w) ==
    /\ worker[w].pc = "idle" /\ w \notin stopping
    /\ claimDueSQL # {}
    /\ LET d == Oldest(claimDueSQL) IN
       /\ delivery' = [delivery EXCEPT ![d].state = "delivering", ![d].age = 0]
       /\ worker' = [worker EXCEPT ![w] =
              [pc |-> "keys", id |-> d, attemptNo |-> delivery[d].attempts + 1,
               left |-> ErrorBudget, outcome |-> "none"]]
    /\ UNCHANGED <<active, stopping, acked, failures, faults, toggles>>

\* The secret resolves and the envelope is signed, or the attempt has failed.
SecretFor(w) ==
    /\ worker[w].pc = "keys"
    /\ \/ worker' = [worker EXCEPT ![w].pc = "post", ![w].left = DeliveryTimeout]
       \/ worker' = [worker EXCEPT ![w].pc = "record", ![w].left = ErrorBudget,
                                   ![w].outcome = "failure"]
    /\ UNCHANGED <<delivery, active, stopping, history, faults, toggles>>

\* Mutant: a timeout or an error of the transport counts as delivered.
classifyAttemptLenient(answer) == IF answer = "error" THEN "failure" ELSE "success"

classifyAttempt(answer) == IF answer = "2xx" THEN "success" ELSE "failure"

\* The POST returns: a 2xx, another status, or a transport error or timeout.
Deliver(w) ==
    /\ worker[w].pc = "post"
    /\ \E answer \in {"2xx", "error", "timeout"} :
       /\ worker' = [worker EXCEPT ![w].pc = "record", ![w].left = ErrorBudget,
                                   ![w].outcome = classifyAttempt(answer)]
       /\ acked' = IF answer = "2xx" THEN acked \cup {worker[w].id} ELSE acked
    /\ UNCHANGED <<delivery, active, stopping, failures, faults, toggles>>

Finish(w) == worker' = [worker EXCEPT ![w] = Idle]

\* Mutant: the UPDATE has no state predicate.
RecordSuccessUnguarded(w) ==
    /\ worker[w].pc = "record" /\ worker[w].outcome = "success"
    /\ delivery' = [delivery EXCEPT ![worker[w].id] =
           [state |-> "delivered", due |-> 0, age |-> 0, attempts |-> worker[w].attemptNo]]
    /\ Finish(w)
    /\ UNCHANGED <<active, stopping, history, faults, toggles>>

\* The UPDATE is guarded by the state alone; a row that left `delivering` does
\* not match and the outcome is dropped.
RecordSuccess(w) ==
    /\ worker[w].pc = "record" /\ worker[w].outcome = "success"
    /\ LET d == worker[w].id IN
       delivery' = IF delivery[d].state = "delivering"
                   THEN [delivery EXCEPT ![d] = [state |-> "delivered", due |-> 0, age |-> 0,
                                                 attempts |-> worker[w].attemptNo]]
                   ELSE delivery
    /\ Finish(w)
    /\ UNCHANGED <<active, stopping, history, faults, toggles>>

\* Mutant: the record of a lost claim is not recognised by its attempt number.
OwnsAttemptByState(w) == delivery[worker[w].id].state = "delivering"

OwnsAttempt(w) ==
    /\ delivery[worker[w].id].state = "delivering"
    /\ delivery[worker[w].id].attempts = worker[w].attemptNo - 1

\* One transaction: the attempt record and the ladder advance, or nothing.
\* The next attempt is counted from the instant the record was begun.
RecordFailure(w) ==
    /\ worker[w].pc = "record" /\ worker[w].outcome = "failure"
    /\ LET d == worker[w].id
           attemptNo == worker[w].attemptNo
           elapsed == ErrorBudget - worker[w].left
           willRetry == WillRetry(attemptNo)
       IN
       IF OwnsAttempt(w)
       THEN /\ delivery' = [delivery EXCEPT ![d] =
                   [state |-> IF willRetry THEN "failed" ELSE "dead_lettered",
                    attempts |-> attemptNo, age |-> 0,
                    due |-> IF willRetry THEN BackoffFor(attemptNo) - elapsed ELSE 0]]
            /\ failures' = [failures EXCEPT ![d] = @ + 1]
       ELSE UNCHANGED <<delivery, failures>>
    /\ Finish(w)
    /\ UNCHANGED <<active, stopping, acked, faults, toggles>>

--------------------------------------------------------------------------------
(* Faults, shutdown, endpoints and time. *)

\* The process dies in flight, or the record transaction fails: the row stays
\* `delivering` and the worker (restarted, or on its next tick) starts afresh.
Crash(w) ==
    /\ InFlight(w) /\ faults < MaxFaults
    /\ Finish(w)
    /\ faults' = faults + 1
    /\ UNCHANGED <<delivery, active, stopping, history, toggles>>

\* SIGTERM.  The phases of an in-flight delivery run on detached contexts, so
\* only the next claim sees it.
Cancel(w) ==
    /\ w \notin stopping /\ faults < MaxFaults
    /\ stopping' = stopping \cup {w}
    /\ faults' = faults + 1
    /\ UNCHANGED <<delivery, active, worker, history, toggles>>

\* Run returns and the platform starts the worker again.
Restart(w) ==
    /\ w \in stopping /\ ~InFlight(w)
    /\ stopping' = stopping \ {w}
    /\ UNCHANGED <<delivery, active, worker, history, faults, toggles>>

SetActive(d) ==
    /\ toggles < MaxToggles
    /\ active' = IF d \in active THEN active \ {d} ELSE active \cup {d}
    /\ toggles' = toggles + 1
    /\ UNCHANGED <<delivery, worker, stopping, history, faults>>

Later(r) ==
    IF r.state \in Terminal THEN r
    ELSE [r EXCEPT !.due = IF @ > -Overdue THEN @ - 1 ELSE @,
                   !.age = IF r.state = "delivering" /\ @ < ClaimLease THEN @ + 1 ELSE @]

\* No phase outlives its context.
Tick ==
    /\ \A w \in Workers : InFlight(w) => worker[w].left > 0
    /\ delivery' = [d \in Deliveries |-> Later(delivery[d])]
    /\ worker' = [w \in Workers |-> IF InFlight(w) THEN [worker[w] EXCEPT !.left = @ - 1]
                                    ELSE worker[w]]
    /\ UNCHANGED <<active, stopping, history, faults, toggles>>

--------------------------------------------------------------------------------
Init ==
    /\ delivery = [d \in Deliveries |-> [state |-> "queued", attempts |-> 0, due |-> 0, age |-> 0]]
    /\ active = Deliveries
    /\ worker = [w \in Workers |-> Idle]
    /\ stopping = {}
    /\ acked = {}
    /\ failures = [d \in Deliveries |-> 0]
    /\ faults = 0 /\ toggles = 0

RunOnce(w) ==
    ClaimDue(w) \/ SecretFor(w) \/ Deliver(w) \/ RecordSuccess(w) \/ RecordFailure(w)

Next ==
    \/ \E w \in Workers : RunOnce(w) \/ Crash(w) \/ Cancel(w) \/ Restart(w)
    \/ \E d \in Deliveries : SetActive(d)
    \/ Tick

Spec == Init /\ [][Next]_vars

\* Run loops for ever, the platform restarts a stopped worker, time passes.
FairSpec ==
    /\ Spec /\ WF_vars(Tick)
    /\ \A w \in Workers : WF_vars(RunOnce(w)) /\ WF_vars(Restart(w))
--------------------------------------------------------------------------------
Record == [state : {"queued", "failed", "delivering"} \cup Terminal,
           attempts : 0 .. MaxAttemptsFor, due : Int, age : Nat]
Claim == [pc : {"idle", "keys", "post", "record"}, id : Nat, attemptNo : 0 .. MaxAttemptsFor,
          left : Nat, outcome : {"none", "success", "failure"}]

TypeOK ==
    /\ delivery \in [Deliveries -> Record]
    /\ active \subseteq Deliveries
    /\ worker \in [Workers -> Claim]
    /\ \A w \in Workers : InFlight(w) => worker[w].id \in Deliveries /\ worker[w].attemptNo > 0
    /\ stopping \subseteq Workers
    /\ acked \subseteq Deliveries
    /\ failures \in [Deliveries -> Nat]
    /\ faults \in Nat /\ toggles \in Nat

\* "An in-flight delivery must not lose its claim" (ResolveConfig): no two
\* workers carry the same delivery at the same time.
SingleFlight ==
    \A v, w \in Workers : InFlight(v) /\ InFlight(w) /\ v # w => worker[v].id # worker[w].id

\* The ladder is walked rung by rung (RecordFailure): however claims are lost
\* and stolen, attempt_count counts exactly the failures on record, and only
\* a full ladder of them dead-letters.
LadderCountsFailures ==
    \A d \in Deliveries :
        /\ delivery[d].state # "delivered" => delivery[d].attempts = failures[d]
        /\ delivery[d].state = "dead_lettered" => failures[d] = MaxAttemptsFor

\* A row is marked delivered only if some POST of it was answered 2xx, and a
\* row that was marked delivered or dead-lettered never changes again.
DeliveredWasAcked == \A d \in Deliveries : delivery[d].state = "delivered" => d \in acked
TerminalFrozen ==
    [][\A d \in Deliveries : delivery[d].state \in Terminal => delivery'[d] = delivery[d]]_vars

\* Every delivery of an endpoint that stays active ends delivered or
\* dead-lettered, though workers die, stop, time out and steal claims.
EventuallyTerminal ==
    \A d \in Deliveries : <>[](d \in active) => <>(delivery[d].state \in Terminal)

--------------------------------------------------------------------------------
(* For every number of workers and deliveries, every ladder, lease and     *)
(* timeout that ResolveConfig accepts, and any number of crashes: type     *)
(* correctness, the ladder counts the failures on record, only an          *)
(* acknowledged delivery is marked delivered, terminal rows are frozen;    *)
(* and a delivery has one carrier at a time when the lease outlasts the    *)
(* three phases of an attempt.                                             *)

\* A non-empty set of naturals has a least element.
LEMMA LeastNat ==
    ASSUME NEW S \in SUBSET Nat, S # {}
    PROVE  \E x \in S : \A y \in S : x <= y
<1> DEFINE R == OpToRel(<, Nat)
<1>1. IsWellFoundedOn(R, Nat)
  BY NatLessThanWellFounded, Zenon
<1>2. PICK x \in S : \A y \in S : ~(<<y, x>> \in R)
  BY <1>1, WFMin, Zenon
<1>3. \A y \in S : x <= y
  <2> TAKE y \in S
  <2>1. ~(y < x)
    BY <1>2, Zenon DEF OpToRel
  <2> QED BY <2>1
<1> QED BY <1>3

--------------------------------------------------------------------------------
\* The strengthening.  A phase never holds more time than its context was
\* given, so a schedule lies at most a record and the tracked lateness in the
\* past; a row that is not terminal has a rung of the ladder left; and a worker
\* that calls an attempt a success has its 2xx.
PhaseBudget ==
    \A w \in Workers :
        /\ worker[w].pc \in {"keys", "record"} => worker[w].left <= ErrorBudget
        /\ worker[w].pc = "post" => worker[w].left <= DeliveryTimeout

DueIsBounded == \A d \in Deliveries : delivery[d].due >= -(Overdue + ErrorBudget)

RungLeft == \A d \in Deliveries : delivery[d].state \notin Terminal => delivery[d].attempts <= Len(Ladder)

SuccessWasAcked ==
    \A w \in Workers : worker[w].outcome = "success" => InFlight(w) /\ worker[w].id \in acked

IInv == TypeOK /\ PhaseBudget /\ DueIsBounded /\ RungLeft /\ SuccessWasAcked
        /\ LadderCountsFailures /\ DeliveredWasAcked

\* An empty queue satisfies the invariant.
LEMMA InitIInv == Init => IInv
<1> SUFFICES ASSUME Init PROVE IInv
  OBVIOUS
<1> USE WebhookAssumption DEF Init
<1>1. Len(Ladder) \in Nat
  OBVIOUS
<1>2. TypeOK
  BY <1>1 DEF TypeOK, Record, Claim, Idle, InFlight, Terminal, MaxAttemptsFor
<1>3. PhaseBudget /\ DueIsBounded /\ RungLeft /\ SuccessWasAcked
  BY <1>1 DEF PhaseBudget, DueIsBounded, RungLeft, SuccessWasAcked, Idle, Terminal
<1>4. LadderCountsFailures /\ DeliveredWasAcked
  BY <1>1 DEF LadderCountsFailures, DeliveredWasAcked
<1> QED BY <1>2, <1>3, <1>4 DEF IInv

\* The claim query returns a row of its set (ORDER BY next_attempt_at,
\* created_at, id LIMIT 1): a least row exists, in however many.
LEMMA OldestIsMember ==
    ASSUME TypeOK, DueIsBounded, NEW S \in SUBSET Deliveries, S # {}
    PROVE  Oldest(S) \in S
<1> DEFINE K == Overdue + ErrorBudget
           dues == {delivery[d].due + K : d \in S}
<1>0. K \in Nat /\ \A d \in S : delivery[d].due \in Int
  <2>1. \A d \in S : delivery[d] \in Record
    BY DEF TypeOK
  <2> QED BY <2>1, WebhookAssumption DEF Record
<1>1. dues \in SUBSET Nat /\ dues # {}
  <2>1. \A d \in S : delivery[d].due + K \in Nat
    BY <1>0, WebhookAssumption DEF DueIsBounded
  <2> HIDE DEF K
  <2> QED BY <2>1
<1>2. PICK m \in dues : \A n \in dues : m <= n
  BY <1>1, LeastNat, Zenon
<1> DEFINE T == {d \in S : delivery[d].due + K = m}
<1>3. T \in SUBSET Nat /\ T # {}
  BY WebhookAssumption, Zenon
<1>4. PICK d \in T : \A e \in T : d <= e
  BY <1>3, LeastNat, Zenon
<1>5. d \in S
  OBVIOUS
<1>6. \A e \in S : \/ delivery[d].due < delivery[e].due
                   \/ delivery[d].due = delivery[e].due /\ d <= e
  <2> TAKE e \in S
  <2>1. m = delivery[d].due + K /\ m <= delivery[e].due + K
    BY <1>2, <1>4
  <2> HIDE DEF K
  <2>2. CASE delivery[d].due = delivery[e].due
    BY <2>2, <1>4, <2>1
  <2>3. CASE delivery[d].due # delivery[e].due
    BY <1>0, <1>5, <2>1, <2>3
  <2> QED BY <2>2, <2>3
<1> QED BY <1>6 DEF Oldest

\* Every step of a worker, the clock and the producers keeps it.
LEMMA NextIInv == IInv /\ [Next]_vars => IInv'
<1> SUFFICES ASSUME IInv, [Next]_vars PROVE IInv'
  OBVIOUS
<1> USE WebhookAssumption
<1>0. Len(Ladder) \in Nat /\ MaxAttemptsFor = Len(Ladder) + 1
  BY DEF MaxAttemptsFor
<1>a. /\ \A d \in Deliveries : delivery[d] \in Record
      /\ \A w \in Workers : worker[w] \in Claim
  BY DEF IInv, TypeOK
<1>b. /\ \A d \in Deliveries : delivery[d].due \in Int /\ delivery[d].attempts \in Nat
      /\ \A w \in Workers : worker[w].left \in Nat
  BY <1>0, <1>a DEF Record, Claim
<1>1. ASSUME NEW w \in Workers, ClaimDue(w) PROVE IInv'
  <2>1. PICK d \in claimDueSQL :
          /\ delivery' = [delivery EXCEPT ![d].state = "delivering", ![d].age = 0]
          /\ worker' = [worker EXCEPT ![w] =
                 [pc |-> "keys", id |-> d, attemptNo |-> delivery[d].attempts + 1,
                  left |-> ErrorBudget, outcome |-> "none"]]
    <3>1. claimDueSQL \in SUBSET Deliveries /\ claimDueSQL # {}
      BY <1>1 DEF ClaimDue, claimDueSQL, IInv, TypeOK
    <3>2. Oldest(claimDueSQL) \in claimDueSQL
      BY <3>1, OldestIsMember DEF IInv
    <3> QED BY <1>1, <3>2, Zenon DEF ClaimDue
  <2>2. d \in Deliveries /\ delivery[d].state \notin Terminal /\ delivery[d] \in Record
    BY <1>a, <2>1 DEF claimDueSQL, IInv, TypeOK, Terminal
  <2>3. PICK q \in Record :
          /\ delivery' = [delivery EXCEPT ![d] = q]
          /\ q.state = "delivering" /\ q.attempts = delivery[d].attempts /\ q.due = delivery[d].due
    <3> DEFINE q == [delivery[d] EXCEPT !.state = "delivering", !.age = 0]
    <3>1. q \in Record /\ q.state = "delivering" /\ q.attempts = delivery[d].attempts
          /\ q.due = delivery[d].due
      BY <2>2, Zenon DEF Record
    <3>2. delivery' = [delivery EXCEPT ![d] = q]
      BY <2>1, Zenon
    <3> QED BY <3>1, <3>2, Zenon
  <2>4. PICK c \in Claim :
          /\ worker' = [worker EXCEPT ![w] = c]
          /\ c.pc = "keys" /\ c.id = d /\ c.attemptNo > 0 /\ c.left = ErrorBudget /\ c.outcome = "none"
    <3>1. PICK n \in 1 .. MaxAttemptsFor : n = delivery[d].attempts + 1
      BY <1>0, <2>2 DEF Record, IInv, RungLeft
    <3> DEFINE c == [pc |-> "keys", id |-> d, attemptNo |-> n, left |-> ErrorBudget, outcome |-> "none"]
    <3>2. c \in Claim
      BY <1>0, <2>2 DEF Claim
    <3>3. c.pc = "keys" /\ c.id = d /\ c.left = ErrorBudget /\ c.outcome = "none" /\ c.attemptNo > 0
      BY <1>0, <3>1
    <3>4. worker' = [worker EXCEPT ![w] = c]
      BY <2>1, <3>1
    <3> HIDE DEF c
    <3> QED BY <3>2, <3>3, <3>4, Zenon
  <2>5. UNCHANGED <<active, stopping, acked, failures, faults, toggles>>
    BY <1>1 DEF ClaimDue
  <2>6. TypeOK'
    BY <2>2, <2>3, <2>4, <2>5 DEF IInv, TypeOK, InFlight
  <2>7. PhaseBudget' /\ SuccessWasAcked'
    BY <2>4, <2>5 DEF IInv, TypeOK, PhaseBudget, SuccessWasAcked, InFlight
  <2>8. DueIsBounded' /\ RungLeft'
    BY <2>2, <2>3 DEF IInv, TypeOK, DueIsBounded, RungLeft
  <2>9. LadderCountsFailures' /\ DeliveredWasAcked'
    BY <2>2, <2>3, <2>5 DEF IInv, TypeOK, LadderCountsFailures, DeliveredWasAcked, Terminal
  <2> QED BY <2>6, <2>7, <2>8, <2>9 DEF IInv
<1>2. ASSUME NEW w \in Workers, SecretFor(w) PROVE IInv'
  <2>1. PICK c \in Claim :
          /\ worker' = [worker EXCEPT ![w] = c] /\ c.id = worker[w].id /\ c.attemptNo = worker[w].attemptNo
          /\ \/ c.pc = "post" /\ c.left = DeliveryTimeout /\ c.outcome = worker[w].outcome
             \/ c.pc = "record" /\ c.left = ErrorBudget /\ c.outcome = "failure"
    <3>1. CASE worker' = [worker EXCEPT ![w].pc = "post", ![w].left = DeliveryTimeout]
      <4> DEFINE c == [worker[w] EXCEPT !.pc = "post", !.left = DeliveryTimeout]
      <4>1. c \in Claim /\ c.id = worker[w].id /\ c.attemptNo = worker[w].attemptNo
            /\ c.pc = "post" /\ c.left = DeliveryTimeout /\ c.outcome = worker[w].outcome
        BY <1>a, Zenon DEF Claim
      <4>2. worker' = [worker EXCEPT ![w] = c]
        BY <3>1, Zenon
      <4> QED BY <4>1, <4>2, Zenon
    <3>2. CASE worker' = [worker EXCEPT ![w].pc = "record", ![w].left = ErrorBudget, ![w].outcome = "failure"]
      <4> DEFINE c == [worker[w] EXCEPT !.pc = "record", !.left = ErrorBudget, !.outcome = "failure"]
      <4>1. c \in Claim /\ c.id = worker[w].id /\ c.attemptNo = worker[w].attemptNo
            /\ c.pc = "record" /\ c.left = ErrorBudget /\ c.outcome = "failure"
        BY <1>a, Zenon DEF Claim
      <4>2. worker' = [worker EXCEPT ![w] = c]
        BY <3>2, Zenon
      <4> QED BY <4>1, <4>2, Zenon
    <3> QED BY <1>2, <3>1, <3>2 DEF SecretFor
  <2>2. UNCHANGED <<delivery, active, stopping, acked, failures, faults, toggles>> /\ worker[w].pc = "keys"
    BY <1>2 DEF SecretFor, history
  <2>3. TypeOK'
    BY <2>1, <2>2 DEF IInv, TypeOK, InFlight
  <2>4. PhaseBudget' /\ SuccessWasAcked'
    BY <2>1, <2>2 DEF IInv, TypeOK, PhaseBudget, SuccessWasAcked, InFlight
  <2>5. DueIsBounded' /\ RungLeft' /\ LadderCountsFailures' /\ DeliveredWasAcked'
    BY <2>2, Zenon DEF IInv, DueIsBounded, RungLeft, LadderCountsFailures, DeliveredWasAcked
  <2> QED BY <2>3, <2>4, <2>5 DEF IInv
<1>3. ASSUME NEW w \in Workers, Deliver(w) PROVE IInv'
  <2>1. PICK answer \in {"2xx", "error", "timeout"} :
          /\ worker' = [worker EXCEPT ![w].pc = "record", ![w].left = ErrorBudget,
                                      ![w].outcome = classifyAttempt(answer)]
          /\ acked' = IF answer = "2xx" THEN acked \cup {worker[w].id} ELSE acked
    BY <1>3, Zenon DEF Deliver
  <2>2. PICK c \in Claim :
          /\ worker' = [worker EXCEPT ![w] = c] /\ c.id = worker[w].id /\ c.attemptNo = worker[w].attemptNo
          /\ c.pc = "record" /\ c.left = ErrorBudget /\ (c.outcome = "success" => answer = "2xx")
    <3> DEFINE outcome == classifyAttempt(answer)
               c == [worker[w] EXCEPT !.pc = "record", !.left = ErrorBudget, !.outcome = outcome]
    <3>1. outcome \in {"success", "failure"} /\ (outcome = "success" => answer = "2xx")
      BY DEF classifyAttempt
    <3>2. worker' = [worker EXCEPT ![w] = c]
      BY <2>1, Zenon
    <3> HIDE DEF outcome
    <3>3. c \in Claim /\ c.id = worker[w].id /\ c.attemptNo = worker[w].attemptNo
          /\ c.pc = "record" /\ c.left = ErrorBudget /\ c.outcome = outcome
      BY <1>a, <3>1, Zenon DEF Claim
    <3> QED BY <3>1, <3>2, <3>3, Zenon
  <2>4. UNCHANGED <<delivery, active, stopping, failures, faults, toggles>> /\ worker[w].pc = "post"
    BY <1>3 DEF Deliver
  <2>5. worker[w].id \in Deliveries /\ worker[w].attemptNo > 0 /\ acked \subseteq acked'
        /\ acked' \subseteq Deliveries /\ (answer = "2xx" => worker[w].id \in acked')
    BY <2>1, <2>4 DEF IInv, TypeOK, InFlight
  <2>6. TypeOK'
    BY <2>2, <2>4, <2>5 DEF IInv, TypeOK, InFlight
  <2>7. PhaseBudget'
    BY <2>2 DEF IInv, TypeOK, PhaseBudget
  <2>7a. SuccessWasAcked'
    BY <2>2, <2>5, Zenon DEF IInv, TypeOK, SuccessWasAcked, InFlight
  <2>8. DueIsBounded' /\ RungLeft' /\ LadderCountsFailures' /\ DeliveredWasAcked'
    BY <2>4, <2>5 DEF IInv, DueIsBounded, RungLeft, LadderCountsFailures, DeliveredWasAcked
  <2> QED BY <2>6, <2>7, <2>7a, <2>8 DEF IInv
<1>4. ASSUME NEW w \in Workers, RecordSuccess(w) PROVE IInv'
  <2> DEFINE d == worker[w].id
             q == [state |-> "delivered", due |-> 0, age |-> 0, attempts |-> worker[w].attemptNo]
  <2>1. d \in Deliveries /\ d \in acked /\ worker[w].attemptNo \in 0 .. MaxAttemptsFor
    BY <1>a, <1>4 DEF RecordSuccess, IInv, TypeOK, SuccessWasAcked, InFlight, Claim
  <2>2. q \in Record /\ q.state = "delivered" /\ q.due = 0
    BY <2>1 DEF Record, Terminal
  <2>3. delivery' = [delivery EXCEPT ![d] = q] \/ delivery' = delivery
    BY <1>4 DEF RecordSuccess
  <2>4. worker' = [worker EXCEPT ![w] = Idle] /\ UNCHANGED <<active, stopping, acked, failures, faults, toggles>>
    BY <1>4 DEF RecordSuccess, Finish, history
  <2>5. Idle \in Claim /\ Idle.pc = "idle" /\ Idle.outcome = "none"
    BY <1>0 DEF Idle, Claim
  <2> HIDE DEF d, q
  <2>6. TypeOK'
    BY <2>1, <2>2, <2>3, <2>4, <2>5 DEF IInv, TypeOK, InFlight
  <2>7. PhaseBudget' /\ SuccessWasAcked'
    BY <2>4, <2>5 DEF IInv, TypeOK, PhaseBudget, SuccessWasAcked, InFlight
  <2>8. DueIsBounded' /\ RungLeft'
    BY <2>1, <2>2, <2>3 DEF IInv, TypeOK, DueIsBounded, RungLeft, Terminal
  <2>9. LadderCountsFailures' /\ DeliveredWasAcked'
    BY <2>1, <2>2, <2>3, <2>4 DEF IInv, TypeOK, LadderCountsFailures, DeliveredWasAcked
  <2> QED BY <2>6, <2>7, <2>8, <2>9 DEF IInv
<1>5. ASSUME NEW w \in Workers, RecordFailure(w) PROVE IInv'
  <2> DEFINE d == worker[w].id
             attemptNo == worker[w].attemptNo
             elapsed == ErrorBudget - worker[w].left
             retry == WillRetry(attemptNo)
             state == IF retry THEN "failed" ELSE "dead_lettered"
             due == IF retry THEN BackoffFor(attemptNo) - elapsed ELSE 0
             q == [state |-> state, attempts |-> attemptNo, age |-> 0, due |-> due]
  <2>1. d \in Deliveries /\ attemptNo \in 1 .. MaxAttemptsFor /\ elapsed \in 0 .. ErrorBudget
    BY <1>0, <1>a, <1>5 DEF RecordFailure, IInv, TypeOK, PhaseBudget, InFlight, Claim
  <2>2. retry \in BOOLEAN /\ (retry => attemptNo <= Len(Ladder)) /\ (~retry => attemptNo = MaxAttemptsFor)
        /\ BackoffFor(attemptNo) \in Nat
    BY <1>0, <2>1 DEF WillRetry, BackoffFor
  <2>3. \/ delivery' = delivery /\ failures' = failures
        \/ /\ delivery[d].state = "delivering" /\ delivery[d].attempts = attemptNo - 1
           /\ delivery' = [delivery EXCEPT ![d] = q]
           /\ failures' = [failures EXCEPT ![d] = @ + 1]
    BY <1>5 DEF RecordFailure, OwnsAttempt
  <2>4. worker' = [worker EXCEPT ![w] = Idle] /\ UNCHANGED <<active, stopping, acked, faults, toggles>>
    BY <1>5 DEF RecordFailure, Finish
  <2>5. Idle \in Claim /\ Idle.pc = "idle" /\ Idle.outcome = "none"
    BY <1>0 DEF Idle, Claim
  <2> HIDE DEF elapsed, retry, attemptNo
  <2>5a. due \in Int /\ due >= -ErrorBudget
    BY <2>1, <2>2
  <2>5b. \/ state = "failed" /\ attemptNo <= Len(Ladder)
         \/ state = "dead_lettered" /\ attemptNo = MaxAttemptsFor
    BY <2>2
  <2> HIDE DEF due, state
  <2>6. q \in Record /\ q.attempts = attemptNo /\ q.due = due /\ q.state = state
    BY <1>0, <2>1, <2>5a, <2>5b DEF Record, Terminal
  <2> HIDE DEF d, q
  <2>6a. delivery' \in [Deliveries -> Record] /\ failures' \in [Deliveries -> Nat]
    BY <2>1, <2>3, <2>6 DEF IInv, TypeOK
  <2>7. TypeOK'
    BY <2>4, <2>5, <2>6a DEF IInv, TypeOK, InFlight
  <2>8. PhaseBudget' /\ SuccessWasAcked'
    BY <2>4, <2>5 DEF IInv, TypeOK, PhaseBudget, SuccessWasAcked, InFlight
  <2>9. DueIsBounded' /\ RungLeft' /\ LadderCountsFailures' /\ DeliveredWasAcked'
    <3>1. CASE delivery' = delivery /\ failures' = failures
      BY <2>4, <3>1 DEF IInv, DueIsBounded, RungLeft, LadderCountsFailures, DeliveredWasAcked
    <3>2. CASE delivery' # delivery \/ failures' # failures
      <4>1. /\ \A e \in Deliveries : e # d => delivery'[e] = delivery[e] /\ failures'[e] = failures[e]
            /\ delivery'[d] = q /\ failures'[d] = failures[d] + 1
            /\ delivery[d].state = "delivering" /\ delivery[d].attempts = attemptNo - 1
        BY <2>1, <2>3, <3>2 DEF IInv, TypeOK
      <4>2. DueIsBounded'
        BY <1>b, <2>5a, <2>6, <4>1 DEF IInv, DueIsBounded
      <4>2a. RungLeft'
        BY <1>b, <2>5b, <2>6, <4>1 DEF IInv, RungLeft, Terminal
      <4>3. failures[d] = attemptNo - 1
        BY <2>1, <4>1, Zenon DEF IInv, LadderCountsFailures
      <4>4. LadderCountsFailures'
        BY <1>0, <2>1, <2>5b, <2>6, <4>1, <4>3 DEF IInv, LadderCountsFailures
      <4>5. DeliveredWasAcked'
        BY <2>4, <2>5b, <2>6, <4>1 DEF IInv, DeliveredWasAcked
      <4> QED BY <4>2, <4>2a, <4>4, <4>5
    <3> QED BY <3>1, <3>2
  <2> QED BY <2>7, <2>8, <2>9 DEF IInv
<1>6. ASSUME NEW w \in Workers, Crash(w) PROVE IInv'
  <2>1. Idle \in Claim /\ Idle.pc = "idle" /\ Idle.outcome = "none"
    BY <1>0 DEF Idle, Claim
  <2>2. /\ worker' = [worker EXCEPT ![w] = Idle] /\ faults' = faults + 1
        /\ UNCHANGED <<delivery, active, stopping, acked, failures, toggles>>
    BY <1>6 DEF Crash, Finish, history
  <2>3. TypeOK'
    BY <2>1, <2>2 DEF IInv, TypeOK, InFlight
  <2>4. PhaseBudget' /\ SuccessWasAcked'
    BY <2>1, <2>2 DEF IInv, TypeOK, PhaseBudget, SuccessWasAcked, InFlight
  <2>5. DueIsBounded' /\ RungLeft' /\ LadderCountsFailures' /\ DeliveredWasAcked'
    BY <2>2 DEF IInv, DueIsBounded, RungLeft, LadderCountsFailures, DeliveredWasAcked
  <2> QED BY <2>3, <2>4, <2>5 DEF IInv
<1>7. ASSUME (\E w \in Workers : Cancel(w) \/ Restart(w)) \/ (\E d \in Deliveries : SetActive(d)) \/ UNCHANGED vars
      PROVE  IInv'
  <2>1. UNCHANGED <<delivery, worker, acked, failures>> /\ active' \subseteq Deliveries
        /\ stopping' \subseteq Workers /\ faults' \in Nat /\ toggles' \in Nat
    <3>0. ASSUME NEW w \in Workers, Cancel(w) PROVE <2>1
      BY <3>0 DEF Cancel, history, IInv, TypeOK
    <3>1. ASSUME NEW w \in Workers, Restart(w) PROVE <2>1
      BY <3>1 DEF Restart, history, IInv, TypeOK
    <3>2. ASSUME NEW d \in Deliveries, SetActive(d) PROVE <2>1
      BY <3>2 DEF SetActive, history, IInv, TypeOK
    <3>3. CASE UNCHANGED vars
      BY <3>3 DEF vars, history, IInv, TypeOK
    <3> QED BY <1>7, <3>0, <3>1, <3>2, <3>3
  <2>2. TypeOK' /\ PhaseBudget' /\ SuccessWasAcked'
    BY <2>1 DEF IInv, TypeOK, PhaseBudget, SuccessWasAcked, InFlight
  <2>3. DueIsBounded' /\ RungLeft' /\ LadderCountsFailures' /\ DeliveredWasAcked'
    BY <2>1, Zenon DEF IInv, DueIsBounded, RungLeft, LadderCountsFailures, DeliveredWasAcked
  <2> QED BY <2>2, <2>3 DEF IInv
<1>8. ASSUME Tick PROVE IInv'
  <2>1. \A r \in Record : /\ Later(r) \in Record /\ Later(r).state = r.state /\ Later(r).attempts = r.attempts
                          /\ Later(r).due = r.due \/ (r.due > -Overdue /\ Later(r).due = r.due - 1)
    <3> SUFFICES ASSUME NEW r \in Record
                 PROVE  /\ Later(r) \in Record /\ Later(r).state = r.state /\ Later(r).attempts = r.attempts
                        /\ Later(r).due = r.due \/ (r.due > -Overdue /\ Later(r).due = r.due - 1)
      OBVIOUS
    <3>1. CASE r.state \in Terminal
      BY <3>1 DEF Later
    <3>2. CASE r.state \notin Terminal
      <4> DEFINE due == IF r.due > -Overdue THEN r.due - 1 ELSE r.due
                 age == IF r.state = "delivering" /\ r.age < ClaimLease THEN r.age + 1 ELSE r.age
      <4>1. due \in Int /\ age \in Nat /\ (due = r.due \/ (r.due > -Overdue /\ due = r.due - 1))
        BY DEF Record
      <4>2. Later(r) = [r EXCEPT !.due = due, !.age = age]
        BY <3>2 DEF Later
      <4> HIDE DEF due, age
      <4> QED BY <4>1, <4>2, Zenon DEF Record
    <3> QED BY <3>1, <3>2
  <2>2. \A w \in Workers : /\ worker'[w] \in Claim /\ worker'[w].pc = worker[w].pc
                           /\ worker'[w].id = worker[w].id /\ worker'[w].attemptNo = worker[w].attemptNo
                           /\ worker'[w].outcome = worker[w].outcome /\ worker'[w].left <= worker[w].left
    <3> TAKE w \in Workers
    <3>1. CASE InFlight(w)
      <4>1. worker'[w] = [worker[w] EXCEPT !.left = worker[w].left - 1] /\ worker[w].left - 1 \in Nat
        BY <1>8, <1>b, <3>1 DEF Tick
      <4>2. PICK n \in Nat : n = worker[w].left - 1 /\ n <= worker[w].left
        BY <1>b, <4>1
      <4> QED BY <1>a, <4>1, <4>2, Zenon DEF Claim
    <3>2. CASE ~InFlight(w)
      BY <1>8, <1>a, <1>b, <3>2 DEF Tick
    <3> QED BY <3>1, <3>2
  <2>3. /\ delivery' = [d \in Deliveries |-> Later(delivery[d])]
        /\ worker' \in [Workers -> Claim]
        /\ UNCHANGED <<active, stopping, acked, failures, faults, toggles>>
    BY <1>8, <2>2 DEF Tick, history
  <2>3a. delivery' \in [Deliveries -> Record]
    BY <1>a, <2>1, <2>3
  <2>4. TypeOK'
    BY <2>2, <2>3, <2>3a, Zenon DEF IInv, TypeOK, InFlight
  <2>5. PhaseBudget' /\ SuccessWasAcked'
    <3>1. \A w \in Workers : worker'[w].left \in Nat
      BY <2>2 DEF Claim
    <3> QED BY <1>b, <2>2, <2>3, <3>1 DEF IInv, PhaseBudget, SuccessWasAcked, InFlight
  <2>6. DueIsBounded'
    BY <1>a, <1>b, <2>1, <2>3 DEF IInv, DueIsBounded
  <2>6a. RungLeft'
    BY <1>a, <2>1, <2>3 DEF IInv, RungLeft
  <2>7. LadderCountsFailures' /\ DeliveredWasAcked'
    BY <1>a, <2>1, <2>3 DEF IInv, LadderCountsFailures, DeliveredWasAcked
  <2> QED BY <2>4, <2>5, <2>6, <2>6a, <2>7 DEF IInv
<1> QED
  BY <1>1, <1>2, <1>3, <1>4, <1>5, <1>6, <1>7, <1>8 DEF Next, RunOnce

\* Type correctness of the delivery rows, the workers and the histories.
THEOREM WebhookTypeOK == Spec => []TypeOK
<1>1. IInv => TypeOK
  BY DEF IInv
<1> QED BY InitIInv, NextIInv, <1>1, PTL DEF Spec

\* The retry ladder (RecordFailure, attempts.go): attempt_count is the number of
\* failures on record whichever workers lose or steal a claim, and a row is
\* dead-lettered only by a full ladder of them.
THEOREM LadderIsWalkedRungByRung == Spec => []LadderCountsFailures
<1>1. IInv => LadderCountsFailures
  BY DEF IInv
<1> QED BY InitIInv, NextIInv, <1>1, PTL DEF Spec

\* RecordSuccess marks a row delivered only after a POST of it was answered 2xx.
THEOREM DeliveredMeansAcked == Spec => []DeliveredWasAcked
<1>1. IInv => DeliveredWasAcked
  BY DEF IInv
<1> QED BY InitIInv, NextIInv, <1>1, PTL DEF Spec

\* The state predicates of claimDueSQL and of the two record transactions: no
\* step of any worker, of an operator or of the clock changes a terminal row.
THEOREM TerminalRowsAreFrozen == Spec => TerminalFrozen
<1>1. IInv /\ [Next]_vars =>
        [\A d \in Deliveries : delivery[d].state \in Terminal => delivery'[d] = delivery[d]]_vars
  <2> SUFFICES ASSUME IInv, [Next]_vars, NEW d \in Deliveries, delivery[d].state \in Terminal
               PROVE  delivery'[d] = delivery[d]
    OBVIOUS
  <2>1. ASSUME NEW w \in Workers, ClaimDue(w) PROVE delivery'[d] = delivery[d]
    <3>1. claimDueSQL \in SUBSET Deliveries /\ claimDueSQL # {}
      BY <2>1 DEF ClaimDue, claimDueSQL, IInv, TypeOK
    <3>2. Oldest(claimDueSQL) \in claimDueSQL
      BY <3>1, OldestIsMember DEF IInv
    <3>3. Oldest(claimDueSQL) # d
      BY <3>2 DEF claimDueSQL, Terminal
    <3> QED BY <2>1, <3>3 DEF ClaimDue, IInv, TypeOK
  <2>2. ASSUME NEW w \in Workers, RecordSuccess(w) \/ RecordFailure(w) PROVE delivery'[d] = delivery[d]
    <3>1. d = worker[w].id => delivery[worker[w].id].state # "delivering"
      BY DEF Terminal
    <3>2. CASE RecordSuccess(w)
      BY <3>1, <3>2 DEF RecordSuccess, IInv, TypeOK
    <3>3. CASE RecordFailure(w)
      BY <3>1, <3>3 DEF RecordFailure, OwnsAttempt, IInv, TypeOK
    <3> QED BY <2>2, <3>2, <3>3
  <2>3. ASSUME Tick PROVE delivery'[d] = delivery[d]
    BY <2>3, Zenon DEF Tick, Later
  <2> QED
    BY <2>1, <2>2, <2>3, Zenon DEF Next, RunOnce, SecretFor, Deliver, Crash, Cancel, Restart, SetActive, vars
<1> QED BY InitIInv, NextIInv, <1>1, PTL DEF Spec, TerminalFrozen

--------------------------------------------------------------------------------
\* A lease that outlasts an attempt: key resolution and the record take at most
\* an errorBudget each, the POST at most the delivery timeout.  The defaults
\* (2 min against 2 * 10 s + 15 s) satisfy it; ResolveConfig asks for less.
LeaseOutlastsAttempt == ClaimLease > 2 * ErrorBudget + DeliveryTimeout

\* A claim in flight is the row's, and when its phase has run out of time it is
\* no older than the phases so far could make it.
HeldWithin(d, c) ==
    /\ delivery[d].state = "delivering"
    /\ c.pc = "keys" => delivery[d].age + c.left <= ErrorBudget
    /\ c.pc = "post" => delivery[d].age + c.left <= ErrorBudget + DeliveryTimeout
    /\ c.pc = "record" => delivery[d].age + c.left <= 2 * ErrorBudget + DeliveryTimeout

ClaimIsHeld == \A w \in Workers : InFlight(w) => HeldWithin(worker[w].id, worker[w])

LInv == IInv /\ SingleFlight /\ ClaimIsHeld

\* Under a lease longer than an attempt every step keeps the carriers apart.
LEMMA NextLInv == LeaseOutlastsAttempt /\ LInv /\ [Next]_vars => LInv'
<1> SUFFICES ASSUME LeaseOutlastsAttempt, LInv, [Next]_vars PROVE SingleFlight' /\ ClaimIsHeld'
  BY NextIInv DEF LInv
<1> USE WebhookAssumption
<1>a. /\ \A d \in Deliveries : delivery[d] \in Record
      /\ \A w \in Workers : worker[w] \in Claim
      /\ \A w \in Workers : InFlight(w) => worker[w].id \in Deliveries
  BY DEF LInv, IInv, TypeOK
<1>b. /\ \A d \in Deliveries : delivery[d].age \in Nat
      /\ \A w \in Workers : worker[w].left \in Nat
  BY <1>a DEF Record, Claim
<1>c. \A w \in Workers : InFlight(w) => /\ delivery[worker[w].id].state = "delivering"
                                        /\ delivery[worker[w].id].age < ClaimLease
  <2> SUFFICES ASSUME NEW w \in Workers, InFlight(w)
               PROVE  /\ delivery[worker[w].id].state = "delivering"
                      /\ delivery[worker[w].id].age < ClaimLease
    OBVIOUS
  <2>1. delivery[worker[w].id].age \in Nat /\ worker[w].left \in Nat /\ HeldWithin(worker[w].id, worker[w])
    BY <1>a, <1>b, Zenon DEF LInv, ClaimIsHeld
  <2>2. worker[w].pc \in {"keys", "post", "record"}
    BY DEF InFlight
  <2> QED BY <2>1, <2>2, SMTT(30) DEF HeldWithin, LeaseOutlastsAttempt
<1>1. ASSUME NEW w \in Workers, ClaimDue(w) PROVE SingleFlight' /\ ClaimIsHeld'
  <2>1. PICK d \in claimDueSQL :
          /\ delivery' = [delivery EXCEPT ![d].state = "delivering", ![d].age = 0]
          /\ worker' = [worker EXCEPT ![w] =
                 [pc |-> "keys", id |-> d, attemptNo |-> delivery[d].attempts + 1,
                  left |-> ErrorBudget, outcome |-> "none"]]
    <3>1. claimDueSQL \in SUBSET Deliveries /\ claimDueSQL # {}
      BY <1>1 DEF ClaimDue, claimDueSQL, LInv, IInv, TypeOK
    <3>2. Oldest(claimDueSQL) \in claimDueSQL
      BY <3>1, OldestIsMember DEF LInv, IInv
    <3> QED BY <1>1, <3>2, Zenon DEF ClaimDue
  <2>2. d \in Deliveries
    BY <2>1 DEF claimDueSQL, LInv, IInv, TypeOK
  <2>3. \A v \in Workers : InFlight(v) => worker[v].id # d
    <3> SUFFICES ASSUME NEW v \in Workers, InFlight(v), worker[v].id = d PROVE FALSE
      OBVIOUS
    <3>1. delivery[d].state = "delivering" /\ delivery[d].age < ClaimLease /\ delivery[d].age \in Nat
      BY <1>b, <1>c, <2>2
    <3> QED BY <2>1, <3>1 DEF claimDueSQL
  <2>4. /\ \A e \in Deliveries : e # d => delivery'[e] = delivery[e]
        /\ delivery'[d].state = "delivering" /\ delivery'[d].age = 0
    BY <1>a, <2>1, <2>2 DEF LInv, IInv, TypeOK, Record
  <2>5. /\ \A v \in Workers : v # w => worker'[v] = worker[v]
        /\ worker'[w].id = d /\ worker'[w].left = ErrorBudget /\ worker'[w].pc = "keys"
    BY <2>1 DEF LInv, IInv, TypeOK
  <2>6. SingleFlight'
    BY <2>3, <2>5 DEF LInv, SingleFlight, InFlight
  <2>7. ASSUME NEW v \in Workers, InFlight(v)' PROVE HeldWithin(worker[v].id, worker[v])'
    <3>1. CASE v = w
      BY <2>4, <2>5, <3>1 DEF HeldWithin
    <3>2. CASE v # w
      <4>1. worker'[v] = worker[v] /\ InFlight(v) /\ worker[v].id \in Deliveries \ {d}
        BY <1>a, <2>3, <2>5, <2>7, <3>2 DEF InFlight
      <4>2. HeldWithin(worker[v].id, worker[v])
        BY <4>1 DEF LInv, ClaimIsHeld
      <4> QED BY <2>4, <4>1, <4>2, Zenon DEF HeldWithin
    <3> QED BY <3>1, <3>2
  <2> QED BY <2>6, <2>7 DEF ClaimIsHeld
<1>2. ASSUME NEW w \in Workers, SecretFor(w) \/ Deliver(w) PROVE SingleFlight' /\ ClaimIsHeld'
  <2>1. delivery' = delivery /\ InFlight(w)
    BY <1>2 DEF SecretFor, Deliver, InFlight
  <2>2. /\ \A v \in Workers : v # w => worker'[v] = worker[v]
        /\ worker'[w].id = worker[w].id
        /\ \/ worker[w].pc = "keys" /\ worker'[w].pc = "post" /\ worker'[w].left = DeliveryTimeout
           \/ worker[w].pc \in {"keys", "post"} /\ worker'[w].pc = "record" /\ worker'[w].left = ErrorBudget
    BY <1>2, <1>a DEF SecretFor, Deliver, LInv, IInv, TypeOK, Claim
  <2>3. SingleFlight'
    BY <2>1, <2>2 DEF LInv, SingleFlight, InFlight
  <2>4. ASSUME NEW v \in Workers, InFlight(v)' PROVE HeldWithin(worker[v].id, worker[v])'
    <3>1. CASE v # w
      BY <2>1, <2>2, <2>4, <3>1 DEF LInv, ClaimIsHeld, InFlight, HeldWithin
    <3>2. CASE v = w
      <4>1. HeldWithin(worker[w].id, worker[w])
        BY <2>1 DEF LInv, ClaimIsHeld
      <4>2. delivery[worker[w].id].age \in Nat /\ worker[w].left \in Nat
        BY <1>a, <1>b, <2>1, Zenon
      <4>3. /\ worker[w].pc = "keys" => delivery[worker[w].id].age <= ErrorBudget
            /\ worker[w].pc = "post" => delivery[worker[w].id].age <= ErrorBudget + DeliveryTimeout
            /\ delivery[worker[w].id].state = "delivering"
        BY <4>1, <4>2 DEF HeldWithin
      <4>4. PICK n \in Nat : n = delivery[worker[w].id].age
        BY <4>2
      <4>5. CASE worker'[w].pc = "post"
        <5>1. n <= ErrorBudget /\ worker'[w].left = DeliveryTimeout
          BY <2>2, <4>3, <4>4, <4>5
        <5>2. n + DeliveryTimeout <= ErrorBudget + DeliveryTimeout
          BY <5>1
        <5> QED BY <2>1, <2>2, <3>2, <4>3, <4>4, <4>5, <5>1, <5>2 DEF HeldWithin
      <4>6. CASE worker'[w].pc = "record"
        <5>1. n <= ErrorBudget + DeliveryTimeout /\ worker'[w].left = ErrorBudget
          BY <2>2, <4>3, <4>4, <4>6
        <5>2. n + ErrorBudget <= 2 * ErrorBudget + DeliveryTimeout
          BY <5>1
        <5> QED BY <2>1, <2>2, <3>2, <4>3, <4>4, <4>6, <5>1, <5>2 DEF HeldWithin
      <4> QED BY <2>2, <4>5, <4>6
    <3> QED BY <3>1, <3>2
  <2>5. ClaimIsHeld'
    BY <2>4 DEF ClaimIsHeld
  <2> QED BY <2>3, <2>5
<1>3. ASSUME NEW w \in Workers, RecordSuccess(w) \/ RecordFailure(w) \/ Crash(w)
      PROVE  SingleFlight' /\ ClaimIsHeld'
  <2>1. InFlight(w) /\ worker' = [worker EXCEPT ![w] = Idle]
        /\ \A e \in Deliveries : e # worker[w].id => delivery'[e] = delivery[e]
    BY <1>3, <1>a DEF RecordSuccess, RecordFailure, Crash, Finish, InFlight, LInv, IInv, TypeOK
  <2>2. ~InFlight(w)' /\ \A v \in Workers : v # w => worker'[v] = worker[v]
    BY <2>1 DEF InFlight, Idle, LInv, IInv, TypeOK
  <2>3. SingleFlight'
    BY <2>2 DEF LInv, SingleFlight, InFlight
  <2>4. ASSUME NEW v \in Workers, InFlight(v)' PROVE HeldWithin(worker[v].id, worker[v])'
    <3>1. v # w /\ worker'[v] = worker[v] /\ InFlight(v)
      BY <2>2, <2>4 DEF InFlight
    <3>2. worker[v].id # worker[w].id /\ worker[v].id \in Deliveries /\ HeldWithin(worker[v].id, worker[v])
      BY <1>a, <2>1, <3>1 DEF LInv, SingleFlight, ClaimIsHeld
    <3> QED BY <2>1, <3>1, <3>2, Zenon DEF HeldWithin
  <2> QED BY <2>3, <2>4 DEF ClaimIsHeld
<1>4. ASSUME Tick PROVE SingleFlight' /\ ClaimIsHeld'
  <2>1. \A w \in Workers : /\ worker'[w].pc = worker[w].pc /\ worker'[w].id = worker[w].id
                           /\ InFlight(w) => worker'[w].left = worker[w].left - 1
    BY <1>4, <1>a DEF Tick, Claim, InFlight
  <2>2. \A d \in Deliveries : delivery[d].state = "delivering" =>
            /\ delivery'[d].state = "delivering"
            /\ delivery'[d].age \in Nat /\ delivery'[d].age <= delivery[d].age + 1
    <3> SUFFICES ASSUME NEW d \in Deliveries, delivery[d].state = "delivering"
                 PROVE  /\ delivery'[d].state = "delivering"
                        /\ delivery'[d].age \in Nat /\ delivery'[d].age <= delivery[d].age + 1
      OBVIOUS
    <3>1. delivery'[d] = Later(delivery[d]) /\ delivery[d] \in Record
      BY <1>4, <1>a DEF Tick
    <3> QED BY <1>b, <3>1 DEF Later, Record, Terminal
  <2>3. SingleFlight'
    BY <2>1 DEF LInv, SingleFlight, InFlight
  <2>4. ASSUME NEW w \in Workers, InFlight(w) PROVE HeldWithin(worker[w].id, worker[w])'
    <3>1. HeldWithin(worker[w].id, worker[w]) /\ worker[w].id \in Deliveries
      BY <1>a, <2>4 DEF LInv, ClaimIsHeld
    <3>2. /\ delivery'[worker[w].id].state = "delivering"
          /\ delivery'[worker[w].id].age \in Nat /\ delivery[worker[w].id].age \in Nat /\ worker[w].left \in Nat
          /\ delivery'[worker[w].id].age <= delivery[worker[w].id].age + 1
      BY <1>b, <2>2, <3>1, Zenon DEF HeldWithin
    <3>3. PICK m \in Nat, n \in Nat, k \in Nat : m = delivery'[worker[w].id].age
                                                 /\ n = delivery[worker[w].id].age /\ k = worker[w].left
      BY <3>2
    <3>3a. m <= n + 1
      BY <3>2, <3>3
    <3>4. m + (k - 1) <= n + k
      BY <3>3a
    <3>5. worker'[w].pc = worker[w].pc /\ worker'[w].id = worker[w].id /\ worker'[w].left = k - 1
      BY <2>1, <2>4, <3>3
    <3>6. /\ worker[w].pc = "keys" => n + k <= ErrorBudget
          /\ worker[w].pc = "post" => n + k <= ErrorBudget + DeliveryTimeout
          /\ worker[w].pc = "record" => n + k <= 2 * ErrorBudget + DeliveryTimeout
      BY <3>1, <3>3 DEF HeldWithin
    <3>7. /\ worker[w].pc = "keys" => m + (k - 1) <= ErrorBudget
          /\ worker[w].pc = "post" => m + (k - 1) <= ErrorBudget + DeliveryTimeout
          /\ worker[w].pc = "record" => m + (k - 1) <= 2 * ErrorBudget + DeliveryTimeout
      BY <3>4, <3>6
    <3> QED BY <3>2, <3>3, <3>5, <3>7 DEF HeldWithin
  <2>5. ClaimIsHeld'
    BY <2>1, <2>4 DEF ClaimIsHeld, InFlight
  <2> QED BY <2>3, <2>5
<1>5. ASSUME UNCHANGED <<delivery, worker>> PROVE SingleFlight' /\ ClaimIsHeld'
  BY <1>5 DEF LInv, SingleFlight, ClaimIsHeld, InFlight, HeldWithin
<1> QED
  BY <1>1, <1>2, <1>3, <1>4, <1>5 DEF Next, RunOnce, Cancel, Restart, SetActive, vars

\* "An in-flight delivery must not lose its claim": with a lease longer than
\* key resolution, POST and record together, claimDueSQL never hands a delivery
\* to a second worker while the first still carries it.
THEOREM LongLeaseKeepsSingleFlight == LeaseOutlastsAttempt => (Spec => []SingleFlight)
<1>1. Init => LInv
  BY InitIInv DEF LInv, Init, SingleFlight, ClaimIsHeld, InFlight, Idle
<1>2. LInv => SingleFlight
  BY DEF LInv
<1> SUFFICES ASSUME LeaseOutlastsAttempt PROVE Spec => []SingleFlight
  OBVIOUS
<1>3. LInv /\ [Next]_vars => LInv'
  BY NextLInv
<1> QED BY <1>1, <1>2, <1>3, PTL DEF Spec
================================================================================
