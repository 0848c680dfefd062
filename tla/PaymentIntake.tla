----------------------------- MODULE PaymentIntake -----------------------------
(***************************************************************************)
(* The payment intake funnel (backend-go/internal/application/payments.go  *)
(* Intake, services.go): concurrent requests, each a READ COMMITTED        *)
(* transaction of probes, a key claim and an insert, over the unique       *)
(* indexes of payments and idempotency_keys and a process-local cache.     *)
(*                                                                         *)
(* A payment is named by the request whose transaction inserted it.  An    *)
(* insert that meets another transaction's uncommitted row of the same     *)
(* unique key waits for it, as PostgreSQL does.                            *)
(***************************************************************************)
EXTENDS Naturals, FiniteSets, TLAPS

CONSTANTS Requests,
          Channel, Ref, Key, Money,  \* the fields of each request
          NoRef,
          MaxFaults                  \* bound: failed transactions, lost answers, restarts

VARIABLES payments,  \* the committed rows of payments
          keys,      \* the committed rows of idempotency_keys: key -> outcome_ref
          cache,     \* Services.Replays, the process-local hot cache
          pc,        \* where each request is
          target,    \* the payment its transaction is about to answer with
          holds,     \* the uncommitted rows of its transaction: {"key", "payment"}
          outcome,   \* the answer it got
          faults

vars == <<payments, keys, cache, pc, target, holds, outcome, faults>>

Keys == {Key[r] : r \in Requests}
Abstract == INSTANCE IdempotentIntake

SameRef(r, p) == Abstract!SameRef(r, p)
SameKey(r, p) == Abstract!SameKey(r, p)

InTx(r) == pc[r] \in {"probe1", "probe2", "claim", "insert", "commit", "race"}
Answer(r, verdict, p) == outcome' = [outcome EXCEPT ![r] = [verdict |-> verdict, payment |-> p]]
Goto(r, label) == pc' = [pc EXCEPT ![r] = label]

--------------------------------------------------------------------------------
(* The helpers of the funnel. *)

\* The registry behind the hot cache: put-if-absent and look up.
Put(k, p) == [cache EXCEPT ![k] = IF @ = NoRef THEN p ELSE @]
Lookup(k) == cache[k]

rememberReplay(r, p) == cache' = Put(Key[r], p)

lookupIdempotencyKey(r) == IF Lookup(Key[r]) # NoRef THEN Lookup(Key[r]) ELSE keys[Key[r]]

\* The row with the same (channel, externalRef), or else with the same key.
findPriorPayment(r) ==
    LET byRef == {p \in payments : SameRef(r, p)}
        byKey == {p \in payments : SameKey(r, p)}
    IN  IF byRef # {} THEN byRef ELSE byKey

assertDuplicateMoney(r, p) == Money[r] = Money[p]

\* The duplicate path: other money is refused and the transaction rolled back.
ReplayOrRefuse(r, p, label) ==
    IF assertDuplicateMoney(r, p)
    THEN /\ target' = [target EXCEPT ![r] = p]
         /\ Goto(r, label) /\ UNCHANGED <<outcome, holds>>
    ELSE /\ Answer(r, "refused", NoRef) /\ Goto(r, "done")
         /\ holds' = [holds EXCEPT ![r] = {}] /\ UNCHANGED target

--------------------------------------------------------------------------------
(* The statements of one transaction. *)

Intake(r) ==
    /\ pc[r] = "start"
    /\ Goto(r, "probe1")
    /\ UNCHANGED <<payments, keys, cache, target, holds, outcome, faults>>

\* The key may name the original outcome; one that does not resolve is ignored.
Probe1(r) ==
    /\ pc[r] = "probe1"
    /\ LET ref == lookupIdempotencyKey(r) IN
       IF ref \in payments THEN ReplayOrRefuse(r, ref, "commit")
       ELSE Goto(r, "probe2") /\ UNCHANGED <<target, holds, outcome>>
    /\ UNCHANGED <<payments, keys, cache, faults>>

Probe2(r) ==
    /\ pc[r] = "probe2"
    /\ IF findPriorPayment(r) # {}
       THEN \E p \in findPriorPayment(r) : ReplayOrRefuse(r, p, "claim")
       ELSE /\ target' = [target EXCEPT ![r] = r]
            /\ Goto(r, "claim") /\ UNCHANGED <<outcome, holds>>
    /\ UNCHANGED <<payments, keys, cache, faults>>

\* INSERT ... ON CONFLICT DO NOTHING; the callers drop its verdict.
claimIdempotencyKey(r) ==
    /\ pc[r] = "claim"
    /\ \A q \in Requests \ {r} : "key" \in holds[q] => ~SameKey(q, r)
    /\ holds' = [holds EXCEPT ![r] = IF keys[Key[r]] = NoRef THEN @ \cup {"key"} ELSE @]
    /\ IF target[r] = r THEN Goto(r, "insert") /\ UNCHANGED cache
       ELSE Goto(r, "commit") /\ rememberReplay(r, target[r])
    /\ UNCHANGED <<payments, keys, target, outcome, faults>>

\* Mutant: payments has no unique index.
InsertPaymentNoIndex(r) ==
    /\ pc[r] = "insert"
    /\ holds' = [holds EXCEPT ![r] = @ \cup {"payment"}]
    /\ Goto(r, "commit") /\ rememberReplay(r, r)
    /\ UNCHANGED <<payments, keys, target, outcome, faults>>

\* A unique violation rolls the whole transaction back.
InsertPayment(r) ==
    /\ pc[r] = "insert"
    /\ \A q \in Requests \ {r} : "payment" \in holds[q] => ~Abstract!Conflicts(r, q)
    /\ IF \E p \in payments : Abstract!Conflicts(r, p)
       THEN /\ holds' = [holds EXCEPT ![r] = {}]
            /\ Goto(r, "race") /\ UNCHANGED cache
       ELSE /\ holds' = [holds EXCEPT ![r] = @ \cup {"payment"}]
            /\ Goto(r, "commit") /\ rememberReplay(r, r)
    /\ UNCHANGED <<payments, keys, target, outcome, faults>>

\* The loser of the insert race reads again on a fresh transaction.
replayAfterRace(r) ==
    /\ pc[r] = "race"
    /\ IF findPriorPayment(r) # {}
       THEN \E p \in findPriorPayment(r) : ReplayOrRefuse(r, p, "claim")
       ELSE /\ Answer(r, "internal", NoRef)
            /\ Goto(r, "done") /\ UNCHANGED <<target, holds>>
    /\ UNCHANGED <<payments, keys, cache, faults>>

Commit(r) ==
    /\ pc[r] = "commit"
    /\ payments' = IF "payment" \in holds[r] THEN payments \cup {r} ELSE payments
    /\ keys' = IF "key" \in holds[r] THEN [keys EXCEPT ![Key[r]] = target[r]] ELSE keys
    /\ holds' = [holds EXCEPT ![r] = {}]
    /\ Goto(r, "done")
    /\ \/ /\ Answer(r, IF target[r] = r THEN "new" ELSE "duplicate", target[r])
          /\ UNCHANGED faults
       \/ /\ Answer(r, "failed", NoRef) \* the answer is lost after the commit
          /\ faults < MaxFaults /\ faults' = faults + 1
    /\ UNCHANGED <<cache, target>>

--------------------------------------------------------------------------------
(* Faults. *)

\* Mutant: the failed transaction is left open.
AbortLeaky(r) ==
    /\ InTx(r) /\ faults < MaxFaults
    /\ Goto(r, "done") /\ Answer(r, "failed", NoRef)
    /\ faults' = faults + 1
    /\ UNCHANGED <<payments, keys, cache, target, holds>>

\* A statement or the commit fails; PostgreSQL rolls the transaction back.
Abort(r) ==
    /\ InTx(r) /\ faults < MaxFaults
    /\ holds' = [holds EXCEPT ![r] = {}]
    /\ Goto(r, "done") /\ Answer(r, "failed", NoRef)
    /\ faults' = faults + 1
    /\ UNCHANGED <<payments, keys, cache, target>>

\* The process restarts with an empty cache; what was running has failed.
Restart ==
    /\ faults < MaxFaults /\ \A r \in Requests : ~InTx(r)
    /\ cache' = [k \in Keys |-> NoRef]
    /\ faults' = faults + 1
    /\ UNCHANGED <<payments, keys, pc, target, holds, outcome>>

--------------------------------------------------------------------------------
Init ==
    /\ payments = {}
    /\ keys = [k \in Keys |-> NoRef]
    /\ cache = [k \in Keys |-> NoRef]
    /\ pc = [r \in Requests |-> "start"]
    /\ target = [r \in Requests |-> NoRef]
    /\ holds = [r \in Requests |-> {}]
    /\ outcome = [r \in Requests |-> [verdict |-> "pending", payment |-> NoRef]]
    /\ faults = 0

Step(r) ==
    Probe1(r) \/ Probe2(r) \/ claimIdempotencyKey(r) \/ InsertPayment(r)
    \/ replayAfterRace(r) \/ Commit(r)

Next == (\E r \in Requests : Intake(r) \/ Step(r) \/ Abort(r)) \/ Restart

Spec == Init /\ [][Next]_vars

--------------------------------------------------------------------------------
Answers == [verdict : {"pending", "new", "duplicate", "failed", "refused", "internal"},
            payment : Requests \cup {NoRef}]

TypeOK ==
    /\ payments \subseteq Requests
    /\ keys \in [Keys -> Requests \cup {NoRef}]
    /\ cache \in [Keys -> Requests \cup {NoRef}]
    /\ pc \in [Requests -> {"start", "probe1", "probe2", "claim", "insert", "commit",
                            "race", "done"}]
    /\ target \in [Requests -> Requests \cup {NoRef}]
    /\ holds \in [Requests -> SUBSET {"key", "payment"}]
    /\ \A r \in Requests : pc[r] \in {"start", "race", "done"} => holds[r] = {}
    /\ outcome \in [Requests -> Answers]
    /\ faults \in 0 .. MaxFaults

Answered(r) == outcome[r].verdict \in {"new", "duplicate"}

\* R9 (Intake): the funnel implements the idempotent creation of funds, with
\* every crash, race, stale cache entry and lost answer a failure at worst.
ImplementsIntake == Abstract!Spec

\* The same command always gets the same payment, and only one of its bearers
\* is told that it was new.
SameCommandSamePayment ==
    \A r, q \in Requests :
        Answered(r) /\ Answered(q) /\ r # q /\ SameRef(r, q) /\ SameKey(r, q) =>
            /\ outcome[r].payment = outcome[q].payment
            /\ "duplicate" \in {outcome[r].verdict, outcome[q].verdict}

\* A key of the durable registry names a payment that exists, and never
\* another one later (uq_idempotency_keys, first write wins).
KeysAreStable ==
    [][\A k \in Keys : keys[k] # NoRef => keys'[k] = keys[k] /\ keys[k] \in payments]_vars

\* Nobody waits for ever: the lock waits of the claims and the inserts are
\* not circular, so every request is answered.
EveryRequestAnswered ==
    \A r \in Requests : pc[r] = "probe1" ~> pc[r] = "done"

--------------------------------------------------------------------------------
(* For every set of requests, references, keys and amounts: the            *)
(* transactions implement IdempotentIntake, a key once bound stays bound,  *)
(* and one command has one payment.                                        *)

\* What the constants are: NoRef names no request.
IntakeConstants == NoRef \notin Requests /\ MaxFaults \in Nat

\* A bearer of key k is entitled to payment p.
KeyNames(k, p) == \E q \in Requests : Key[q] = k /\ (SameRef(q, p) \/ SameKey(q, p))

\* The committed payment p is what a replay answers request r with.
Replayable(r, p) == p \in payments /\ Money[r] = Money[p] /\ KeyNames(Key[r], p)

\* Where request r stands: what it is about to answer with, what its
\* uncommitted rows exclude, and what it was told.
RequestOK(r) ==
    /\ pc[r] \in {"claim", "insert", "commit"} => target[r] = r \/ Replayable(r, target[r])
    /\ pc[r] = "insert" => target[r] = r
    /\ pc[r] = "commit" => (target[r] = r <=> "payment" \in holds[r])
    /\ "payment" \in holds[r] => pc[r] = "commit" /\ \A p \in payments : ~Abstract!Conflicts(r, p)
    /\ "key" \in holds[r] => keys[Key[r]] = NoRef
    /\ pc[r] = "race" => \E p \in payments : Abstract!Conflicts(r, p)
    /\ r \in payments => pc[r] = "done"
    /\ pc[r] # "done" => outcome[r] = [verdict |-> "pending", payment |-> NoRef]
    /\ outcome[r].verdict = "new" => outcome[r].payment = r /\ r \in payments
    /\ outcome[r].verdict = "duplicate" => Replayable(r, outcome[r].payment)

\* The uncommitted rows of two requests do not meet in a unique index.
Apart(r, q) ==
    r # q => /\ "payment" \in holds[r] /\ "payment" \in holds[q] => ~Abstract!Conflicts(r, q)
             /\ "key" \in holds[r] /\ "key" \in holds[q] => Key[r] # Key[q]

\* The registry and the cache name payments their key is entitled to; the
\* registry only committed ones.
RegistryOK ==
    \A k \in Keys : /\ keys[k] # NoRef => keys[k] \in payments /\ KeyNames(k, keys[k])
                    /\ cache[k] # NoRef => KeyNames(k, cache[k])

\* The unique indexes of payments.
RowsAreUnique == \A p, q \in payments : p # q => ~Abstract!Conflicts(p, q)

IInv == /\ TypeOK /\ RegistryOK /\ RowsAreUnique
        /\ \A r \in Requests : RequestOK(r)
        /\ \A r, q \in Requests : Apart(r, q)

\* What every step is: a step of the abstract intake, and no key rebound.
Refines == [Abstract!Next]_<<payments, outcome>>
KeysKept == \A k \in Keys : keys[k] # NoRef => keys'[k] = keys[k] /\ keys[k] \in payments

\* A request's key is a key.
LEMMA KeyInKeys == \A r \in Requests : Key[r] \in Keys
BY DEF Keys

\* An entitled bearer of a key: the abstract intake names the payment too.
LEMMA KeyNamesNames ==
    ASSUME NEW r \in Requests, NEW p, KeyNames(Key[r], p)
    PROVE  Abstract!Names(r, p)
BY DEF KeyNames, Abstract!Names, SameRef, SameKey, Abstract!SameRef, Abstract!SameKey

\* What findPriorPayment finds is committed and named by the request.
LEMMA FoundIsNamed ==
    ASSUME NEW r \in Requests, NEW p \in findPriorPayment(r)
    PROVE  p \in payments /\ KeyNames(Key[r], p)
BY DEF findPriorPayment, KeyNames

\* Before the first request the invariant holds.
LEMMA InitIInv == IntakeConstants /\ Init => IInv
<1> SUFFICES ASSUME IntakeConstants, Init PROVE IInv
  OBVIOUS
<1>1. TypeOK
  BY DEF IntakeConstants, Init, TypeOK, Answers
<1>2. RegistryOK /\ RowsAreUnique
  BY DEF Init, RegistryOK, RowsAreUnique
<1>3. \A r \in Requests : RequestOK(r)
  BY DEF Init, RequestOK
<1>4. \A r, q \in Requests : Apart(r, q)
  BY DEF Init, Apart
<1> QED BY <1>1, <1>2, <1>3, <1>4 DEF IInv

\* A step of one request that commits nothing.
LEMMA OneRequestMoves ==
    ASSUME IInv, TypeOK', NEW r \in Requests, UNCHANGED <<payments, keys>>,
           \A k \in Keys : cache'[k] # NoRef => KeyNames(k, cache'[k]),
           \A q \in Requests \ {r} : /\ pc'[q] = pc[q] /\ target'[q] = target[q]
                                     /\ holds'[q] = holds[q] /\ outcome'[q] = outcome[q],
           RequestOK(r)', \A q \in Requests : Apart(r, q)'
    PROVE  IInv' /\ KeysKept
<1>1. RegistryOK' /\ RowsAreUnique'
  BY DEF IInv, RegistryOK, RowsAreUnique
<1>2. \A q \in Requests : RequestOK(q)'
  BY DEF IInv, RequestOK, Replayable
<1>3. ASSUME NEW q1 \in Requests, NEW q2 \in Requests PROVE Apart(q1, q2)'
  <2>1. CASE q1 = r
    BY <2>1
  <2>2. CASE q2 = r
    BY <2>2 DEF Apart, Abstract!Conflicts, Abstract!SameKey
  <2>3. CASE q1 # r /\ q2 # r
    BY <2>3 DEF IInv, Apart
  <2> QED BY <2>1, <2>2, <2>3
<1>4. KeysKept
  BY DEF IInv, RegistryOK, KeysKept
<1> QED BY <1>1, <1>2, <1>3, <1>4 DEF IInv

\* A replay or a refusal leaves the request in order, and is one of the abstract
\* intake's steps.
LEMMA ReplayKeeps ==
    ASSUME IntakeConstants, IInv, NEW r \in Requests, NEW p \in payments, KeyNames(Key[r], p),
           pc[r] \in {"probe1", "probe2", "race"}, NEW label \in {"commit", "claim"},
           ReplayOrRefuse(r, p, label), UNCHANGED <<payments, keys, cache, faults>>
    PROVE  IInv' /\ KeysKept /\ Refines
<1>1. p \in Requests /\ p # r /\ "payment" \notin holds[r] /\ RequestOK(r)
  BY DEF IInv, TypeOK, RequestOK
<1>2. \A k \in Keys : cache'[k] # NoRef => KeyNames(k, cache'[k])
  BY DEF IInv, RegistryOK
<1>3. CASE assertDuplicateMoney(r, p)
  <2>1. target' = [target EXCEPT ![r] = p] /\ pc' = [pc EXCEPT ![r] = label] /\ UNCHANGED <<outcome, holds>>
    BY <1>3 DEF ReplayOrRefuse, Goto
  <2>2. TypeOK'
    BY <1>1, <2>1 DEF IInv, TypeOK
  <2>3. pc'[r] = label /\ target'[r] = p /\ \A q \in Requests \ {r} : pc'[q] = pc[q] /\ target'[q] = target[q]
    BY <2>1 DEF IInv, TypeOK
  <2>4. RequestOK(r)'
    BY <1>1, <1>3, <2>1, <2>3 DEF RequestOK, Replayable, assertDuplicateMoney
  <2>5. \A q \in Requests : Apart(r, q)'
    BY <2>1 DEF IInv, Apart
  <2> QED BY <1>2, <2>1, <2>2, <2>3, <2>4, <2>5, OneRequestMoves DEF Refines
<1>4. CASE ~assertDuplicateMoney(r, p)
  <2> DEFINE a == [verdict |-> "refused", payment |-> NoRef]
  <2>1. outcome' = [outcome EXCEPT ![r] = a] /\ pc' = [pc EXCEPT ![r] = "done"]
        /\ holds' = [holds EXCEPT ![r] = {}] /\ UNCHANGED target
    BY <1>4 DEF ReplayOrRefuse, Goto, Answer
  <2>2. a \in Answers /\ a.verdict = "refused"
    BY DEF Answers
  <2>3. outcome[r] = [verdict |-> "pending", payment |-> NoRef]
    BY <1>1 DEF RequestOK
  <2>4. Refines
    <3>1. Abstract!Refuse(r)
      BY <1>4, <2>1, <2>3, KeyNamesNames
      DEF Abstract!Refuse, Abstract!Answer, Abstract!Without, assertDuplicateMoney
    <3> QED BY <3>1 DEF Refines, Abstract!Next
  <2> HIDE DEF a
  <2>5. TypeOK'
    BY <1>1, <2>1, <2>2 DEF IInv, TypeOK
  <2>6. pc'[r] = "done" /\ outcome'[r] = a /\ holds'[r] = {}
        /\ \A q \in Requests \ {r} : pc'[q] = pc[q] /\ outcome'[q] = outcome[q] /\ holds'[q] = holds[q]
    BY <2>1 DEF IInv, TypeOK
  <2>7. RequestOK(r)'
    BY <2>2, <2>6 DEF RequestOK
  <2>8. \A q \in Requests : Apart(r, q)'
    BY <2>6 DEF Apart
  <2> QED BY <1>2, <2>1, <2>4, <2>5, <2>6, <2>7, <2>8, OneRequestMoves
<1> QED BY <1>3, <1>4

\* A request that fails leaves no row behind.
LEMMA FailureKeeps ==
    ASSUME IntakeConstants, IInv, NEW r \in Requests, pc[r] # "done", NEW v \in {"failed", "internal"},
           v = "internal" => \E p \in payments : Ref[p] = Ref[r] /\ Channel[p] # Channel[r],
           Answer(r, v, NoRef), Goto(r, "done"), holds' = [holds EXCEPT ![r] = {}],
           UNCHANGED <<payments, keys, cache, target>>, faults' \in 0 .. MaxFaults
    PROVE  IInv' /\ KeysKept /\ Refines
<1> DEFINE a == [verdict |-> v, payment |-> NoRef]
<1>1. outcome' = [outcome EXCEPT ![r] = a] /\ pc' = [pc EXCEPT ![r] = "done"]
  BY DEF Answer, Goto
<1>2. a \in Answers /\ a.verdict = v
  BY DEF Answers
<1>3. outcome[r] = [verdict |-> "pending", payment |-> NoRef]
  BY DEF IInv, RequestOK
<1>4. Refines
  <2>1. CASE v = "failed"
    <3>1. Abstract!Fail(r)
      BY <1>1, <1>3, <2>1 DEF Abstract!Fail, Abstract!Answer, Abstract!Without
    <3> QED BY <3>1 DEF Refines, Abstract!Next
  <2>2. CASE v = "internal"
    <3>1. Abstract!Clash(r)
      BY <1>1, <1>3, <2>2 DEF Abstract!Clash, Abstract!Answer, Abstract!Without
    <3> QED BY <3>1 DEF Refines, Abstract!Next
  <2> QED BY <2>1, <2>2
<1> HIDE DEF a
<1>5. TypeOK'
  BY <1>1, <1>2 DEF IInv, TypeOK
<1>6. pc'[r] = "done" /\ outcome'[r] = a /\ holds'[r] = {}
      /\ \A q \in Requests \ {r} : pc'[q] = pc[q] /\ outcome'[q] = outcome[q] /\ holds'[q] = holds[q]
  BY <1>1 DEF IInv, TypeOK
<1>7. RequestOK(r)'
  BY <1>2, <1>6 DEF RequestOK
<1>8. \A q \in Requests : Apart(r, q)'
  BY <1>6 DEF Apart
<1>9. \A k \in Keys : cache'[k] # NoRef => KeyNames(k, cache'[k])
  BY DEF IInv, RegistryOK
<1> QED BY <1>4, <1>5, <1>6, <1>7, <1>8, <1>9, OneRequestMoves

\* Commit publishes the rows of one request, which the indexes admit.
LEMMA CommitKeeps ==
    ASSUME IntakeConstants, IInv, NEW r \in Requests, Commit(r)
    PROVE  IInv' /\ KeysKept /\ Refines
<1>1. pc[r] = "commit" /\ RequestOK(r) /\ r \notin payments /\ Key[r] \in Keys /\ target[r] \in Requests
      /\ outcome[r] = [verdict |-> "pending", payment |-> NoRef]
  BY KeyInKeys DEF Commit, IInv, TypeOK, RequestOK, Replayable
<1>2. PICK v \in {"new", "duplicate", "failed"}, x \in Requests \cup {NoRef} :
         /\ outcome' = [outcome EXCEPT ![r] = [verdict |-> v, payment |-> x]]
         /\ v = "new" => x = target[r] /\ target[r] = r
         /\ v = "duplicate" => x = target[r] /\ target[r] # r
         /\ v = "failed" => x = NoRef
         /\ faults' \in 0 .. MaxFaults
  <2>1. CASE Answer(r, IF target[r] = r THEN "new" ELSE "duplicate", target[r]) /\ UNCHANGED faults
    BY <1>1, <2>1, Zenon DEF Answer, IInv, TypeOK
  <2>2. CASE Answer(r, "failed", NoRef) /\ faults < MaxFaults /\ faults' = faults + 1
    <3>1. faults' \in 0 .. MaxFaults
      BY <2>2 DEF IInv, TypeOK, IntakeConstants
    <3> QED BY <2>2, <3>1, Zenon DEF Answer
  <2> QED BY <2>1, <2>2 DEF Commit
<1> DEFINE a == [verdict |-> v, payment |-> x]
<1>3. a \in Answers /\ a.verdict = v /\ a.payment = x /\ outcome' = [outcome EXCEPT ![r] = a]
  BY <1>2 DEF Answers
<1>4. /\ payments' = IF target[r] = r THEN payments \cup {r} ELSE payments
      /\ keys' = IF "key" \in holds[r] THEN [keys EXCEPT ![Key[r]] = target[r]] ELSE keys
      /\ holds' = [holds EXCEPT ![r] = {}] /\ pc' = [pc EXCEPT ![r] = "done"]
      /\ UNCHANGED <<cache, target>>
  BY <1>1 DEF Commit, Goto, RequestOK
<1>5. Refines
  <2>1. CASE target[r] = r
    <3>1. \A p \in payments : ~Abstract!Conflicts(r, p)
      BY <1>1, <2>1 DEF RequestOK
    <3>2. a = Abstract!With("new", r) \/ a = Abstract!Without("failed")
      BY <1>2, <2>1 DEF Abstract!With, Abstract!Without
    <3>3. Abstract!Create(r)
      BY <1>1, <1>3, <1>4, <2>1, <3>1, <3>2, Zenon DEF Abstract!Create, Abstract!Answer, Abstract!Without
    <3> QED BY <3>3 DEF Refines, Abstract!Next
  <2>2. CASE target[r] # r
    <3>1. Replayable(r, target[r]) /\ payments' = payments
      BY <1>1, <1>4, <2>2 DEF RequestOK
    <3>2. CASE v = "failed"
      <4>1. Abstract!Fail(r)
        BY <1>1, <1>2, <3>1, <3>2 DEF Abstract!Fail, Abstract!Answer, Abstract!Without
      <4> QED BY <4>1 DEF Refines, Abstract!Next
    <3>3. CASE v = "duplicate"
      <4>1. target[r] \in payments /\ Abstract!Names(r, target[r]) /\ Money[target[r]] = Money[r]
        BY <3>1, KeyNamesNames DEF Replayable
      <4>2. Abstract!Answer(r, Abstract!With("duplicate", target[r]))
        BY <1>1, <1>2, <3>3, Zenon DEF Abstract!Answer, Abstract!Without, Abstract!With
      <4>3. Abstract!Replay(r)
        BY <3>1, <4>1, <4>2 DEF Abstract!Replay
      <4> QED BY <4>3 DEF Refines, Abstract!Next
    <3> QED BY <1>2, <2>2, <3>2, <3>3
  <2> QED BY <2>1, <2>2
<1> HIDE DEF a
<1>6. /\ pc'[r] = "done" /\ outcome'[r] = a /\ holds'[r] = {}
      /\ \A q \in Requests \ {r} : /\ pc'[q] = pc[q] /\ outcome'[q] = outcome[q]
                                   /\ holds'[q] = holds[q] /\ target'[q] = target[q]
  BY <1>3, <1>4 DEF IInv, TypeOK
<1>7. payments \subseteq payments' /\ payments' \subseteq payments \cup {r} /\ target[r] \in payments'
      /\ (target[r] # r => payments' = payments)
  BY <1>1, <1>4 DEF RequestOK, Replayable
<1>8. TypeOK'
  BY <1>1, <1>2, <1>3, <1>4, <1>7, SMTT(20) DEF IInv, TypeOK
<1>9. KeyNames(Key[r], target[r])
  BY <1>1 DEF RequestOK, Replayable, KeyNames, SameKey, Abstract!SameKey
<1>10. KeysKept
  BY <1>1, <1>4 DEF KeysKept, IInv, TypeOK, RequestOK, RegistryOK
<1>11. RegistryOK'
  <2>1. \A k \in Keys : keys'[k] = keys[k] \/ (k = Key[r] /\ keys'[k] = target[r])
    BY <1>4 DEF IInv, TypeOK
  <2> QED BY <1>4, <1>7, <1>9, <2>1 DEF IInv, RegistryOK
<1>12. RowsAreUnique'
  <2>1. target[r] = r => \A p \in payments : ~Abstract!Conflicts(r, p) /\ ~Abstract!Conflicts(p, r)
    BY <1>1 DEF RequestOK, Abstract!Conflicts, Abstract!SameKey
  <2> QED BY <1>7, <2>1 DEF IInv, RowsAreUnique
<1>13. ASSUME NEW q \in Requests PROVE RequestOK(q)'
  <2>1. CASE q = r
    <3>1. v = "duplicate" => Replayable(r, x)'
      BY <1>1, <1>2, <1>7 DEF RequestOK, Replayable
    <3>2. v = "new" => x = r /\ r \in payments'
      BY <1>2, <1>7
    <3> QED BY <1>3, <1>6, <2>1, <3>1, <3>2 DEF RequestOK
  <2>2. CASE q # r
    <3>1. RequestOK(q) /\ Apart(r, q)
      BY DEF IInv
    <3>2. "payment" \in holds[q] => \A p \in payments' : ~Abstract!Conflicts(q, p)
      BY <1>1, <1>7, <2>2, <3>1 DEF RequestOK, Apart, Abstract!Conflicts, Abstract!SameKey
    <3>3. "key" \in holds[q] => keys'[Key[q]] = NoRef
      BY <1>1, <1>4, <2>2, <3>1, KeyInKeys DEF RequestOK, Apart, IInv, TypeOK
    <3>4. \A p : Replayable(q, p) => Replayable(q, p)'
      BY <1>7 DEF Replayable
    <3>5. q \in payments' => pc'[q] = "done"
      BY <1>6, <1>7, <2>2, <3>1 DEF RequestOK
    <3> QED BY <1>6, <1>7, <2>2, <3>1, <3>2, <3>3, <3>4, <3>5 DEF RequestOK
  <2> QED BY <2>1, <2>2
<1>14. \A q1, q2 \in Requests : Apart(q1, q2)'
  BY <1>6 DEF IInv, Apart
<1> QED BY <1>5, <1>8, <1>10, <1>11, <1>12, <1>13, <1>14 DEF IInv

\* Remembering a payment the key is entitled to keeps the cache in order.
LEMMA PutKeeps ==
    ASSUME IInv, NEW r \in Requests, NEW p \in Requests, KeyNames(Key[r], p), rememberReplay(r, p)
    PROVE  /\ cache' \in [Keys -> Requests \cup {NoRef}]
           /\ \A k \in Keys : cache'[k] # NoRef => KeyNames(k, cache'[k])
<1>1. cache \in [Keys -> Requests \cup {NoRef}] /\ Key[r] \in Keys
  BY KeyInKeys DEF IInv, TypeOK
<1>2. cache' = [cache EXCEPT ![Key[r]] = IF cache[Key[r]] = NoRef THEN p ELSE cache[Key[r]]]
  BY DEF rememberReplay, Put
<1>3. cache' \in [Keys -> Requests \cup {NoRef}]
      /\ \A k \in Keys : cache'[k] = cache[k] \/ (k = Key[r] /\ cache'[k] = p)
  BY <1>1, <1>2
<1> QED BY <1>3 DEF IInv, RegistryOK

\* The cache names payments its keys are entitled to.
LEMMA CacheNames == IInv => \A k \in Keys : cache[k] # NoRef => KeyNames(k, cache[k])
BY DEF IInv, RegistryOK

\* A request that is not answered has no payment yet, and its uncommitted rows
\* are still free to be committed.
LEMMA Unanswered ==
    ASSUME IInv, NEW r \in Requests, pc[r] # "done", UNCHANGED <<payments, keys, outcome>>
    PROVE  /\ payments' = payments /\ r \notin payments'
           /\ outcome'[r] = [verdict |-> "pending", payment |-> NoRef]
           /\ "key" \in holds[r] => keys'[Key[r]] = NoRef
           /\ "payment" \in holds[r] => pc[r] = "commit"
<1>1. RequestOK(r)
  BY DEF IInv
<1>2. /\ r \notin payments /\ outcome[r] = [verdict |-> "pending", payment |-> NoRef]
      /\ "key" \in holds[r] => keys[Key[r]] = NoRef
      /\ "payment" \in holds[r] => pc[r] = "commit"
  BY <1>1, Zenon DEF RequestOK
<1> QED BY <1>2, Zenon

\* Such a request is in order when its place, its target and its uncommitted
\* rows agree.
LEMMA UnderWay ==
    ASSUME NEW r \in Requests, r \notin payments', pc'[r] # "done",
           outcome'[r] = [verdict |-> "pending", payment |-> NoRef],
           pc'[r] \in {"claim", "insert", "commit"} => target'[r] = r \/ Replayable(r, target[r])',
           pc'[r] = "insert" => target'[r] = r,
           pc'[r] = "commit" => (target'[r] = r <=> "payment" \in holds'[r]),
           "payment" \in holds'[r] => pc'[r] = "commit" /\ \A p \in payments' : ~Abstract!Conflicts(r, p),
           "key" \in holds'[r] => keys'[Key[r]] = NoRef,
           pc'[r] = "race" => \E p \in payments' : Abstract!Conflicts(r, p)
    PROVE  RequestOK(r)'
<1>1. outcome'[r].verdict \notin {"new", "duplicate"}
  OBVIOUS
<1> QED BY <1>1, Zenon DEF RequestOK

\* Intake.
LEMMA IntakeKeeps ==
    ASSUME IntakeConstants, IInv, NEW r \in Requests, Intake(r)
    PROVE  IInv' /\ KeysKept /\ Refines
<1>1. pc[r] = "start" /\ pc' = [pc EXCEPT ![r] = "probe1"]
      /\ UNCHANGED <<payments, keys, cache, target, holds, outcome, faults>>
  BY DEF Intake, Goto
<1>2. TypeOK'
  BY <1>1 DEF IInv, TypeOK
<1>3. pc'[r] = "probe1" /\ \A q \in Requests \ {r} : pc'[q] = pc[q]
  BY <1>1 DEF IInv, TypeOK
<1>4. RequestOK(r)' /\ \A q \in Requests : Apart(r, q)'
  BY <1>1, <1>3 DEF IInv, TypeOK, RequestOK, Apart
<1> QED BY CacheNames, <1>1, <1>2, <1>3, <1>4, OneRequestMoves DEF Refines

\* Probe1.
LEMMA Probe1Keeps ==
    ASSUME IntakeConstants, IInv, NEW r \in Requests, Probe1(r)
    PROVE  IInv' /\ KeysKept /\ Refines
<1> DEFINE ref == lookupIdempotencyKey(r)
<1>1. pc[r] = "probe1" /\ UNCHANGED <<payments, keys, cache, faults>>
  BY DEF Probe1
<1>2. CASE ref \in payments
  <2>1. ref # NoRef
    BY <1>2, SMTT(20) DEF IInv, TypeOK, IntakeConstants
  <2>2. KeyNames(Key[r], ref)
    BY <2>1, KeyInKeys DEF IInv, RegistryOK, lookupIdempotencyKey, Lookup
  <2>3. ReplayOrRefuse(r, ref, "commit")
    BY <1>2 DEF Probe1
  <2> HIDE DEF ref
  <2> QED BY <1>1, <1>2, <2>2, <2>3, ReplayKeeps
<1>3. CASE ref \notin payments
  <2>1. pc' = [pc EXCEPT ![r] = "probe2"] /\ UNCHANGED <<target, holds, outcome>>
    BY <1>3 DEF Probe1, Goto
  <2>2. TypeOK'
    BY <1>1, <2>1 DEF IInv, TypeOK
  <2>3. pc'[r] = "probe2" /\ \A q \in Requests \ {r} : pc'[q] = pc[q]
    BY <2>1, SMTT(20) DEF IInv, TypeOK
  <2>4. RequestOK(r)' /\ \A q \in Requests : Apart(r, q)'
    <3>1. RequestOK(r)'
      BY <1>1, <2>1, <2>3, Unanswered, UnderWay
    <3>2. \A q \in Requests : Apart(r, q)'
      BY <2>1 DEF IInv, Apart
    <3> QED BY <3>1, <3>2
  <2> QED BY CacheNames, <1>1, <2>1, <2>2, <2>3, <2>4, OneRequestMoves DEF Refines
<1> QED BY <1>2, <1>3

\* Probe2.
LEMMA Probe2Keeps ==
    ASSUME IntakeConstants, IInv, NEW r \in Requests, Probe2(r)
    PROVE  IInv' /\ KeysKept /\ Refines
<1>1. pc[r] = "probe2" /\ UNCHANGED <<payments, keys, cache, faults>>
  BY SMTT(20) DEF Probe2
<1>2. CASE findPriorPayment(r) # {}
  <2>1. PICK p \in findPriorPayment(r) : ReplayOrRefuse(r, p, "claim")
    BY <1>2 DEF Probe2
  <2> QED BY <1>1, <2>1, FoundIsNamed, ReplayKeeps
<1>3. CASE findPriorPayment(r) = {}
  <2>1. target' = [target EXCEPT ![r] = r] /\ pc' = [pc EXCEPT ![r] = "claim"] /\ UNCHANGED <<outcome, holds>>
    BY <1>3 DEF Probe2, Goto
  <2>2. TypeOK'
    BY <1>1, <2>1 DEF IInv, TypeOK
  <2>3. pc'[r] = "claim" /\ target'[r] = r
        /\ \A q \in Requests \ {r} : pc'[q] = pc[q] /\ target'[q] = target[q]
    BY <2>1, SMTT(20) DEF IInv, TypeOK
  <2>4. RequestOK(r)' /\ \A q \in Requests : Apart(r, q)'
    <3>1. RequestOK(r)'
      BY <1>1, <2>1, <2>3, Unanswered, UnderWay
    <3>2. \A q \in Requests : Apart(r, q)'
      BY <2>1 DEF IInv, Apart
    <3> QED BY <3>1, <3>2
  <2> QED BY CacheNames, <1>1, <2>1, <2>2, <2>3, <2>4, OneRequestMoves DEF Refines
<1> QED BY <1>2, <1>3

\* claimIdempotencyKey.
LEMMA ClaimIdempotencyKeyKeeps ==
    ASSUME IntakeConstants, IInv, NEW r \in Requests, claimIdempotencyKey(r)
    PROVE  IInv' /\ KeysKept /\ Refines
<1>1. pc[r] = "claim" /\ UNCHANGED <<payments, keys, target, outcome, faults>>
      /\ \A q \in Requests \ {r} : "key" \in holds[q] => Key[q] # Key[r]
  BY DEF claimIdempotencyKey, SameKey, Abstract!SameKey
<1>2. PICK H \in SUBSET {"key", "payment"} :
         /\ holds' = [holds EXCEPT ![r] = H] /\ "payment" \notin H
         /\ "key" \in H => keys[Key[r]] = NoRef
  <2> DEFINE H == IF keys[Key[r]] = NoRef THEN holds[r] \cup {"key"} ELSE holds[r]
  <2>1. holds' = [holds EXCEPT ![r] = H]
    BY DEF claimIdempotencyKey
  <2>2. H \in SUBSET {"key", "payment"} /\ "payment" \notin H /\ ("key" \in H => keys[Key[r]] = NoRef)
    BY <1>1 DEF IInv, TypeOK, RequestOK
  <2> QED BY <2>1, <2>2, Zenon
<1>3. PICK s \in {"insert", "commit"} : /\ pc' = [pc EXCEPT ![r] = s] /\ (s = "insert" <=> target[r] = r)
  BY DEF claimIdempotencyKey, Goto
<1>4. target[r] = r \/ Replayable(r, target[r])
  BY <1>1 DEF IInv, RequestOK
<1>5. /\ cache' \in [Keys -> Requests \cup {NoRef}]
      /\ \A k \in Keys : cache'[k] # NoRef => KeyNames(k, cache'[k])
  <2>1. CASE target[r] = r
    <3>1. cache' = cache
      BY <2>1, Zenon DEF claimIdempotencyKey
    <3> QED BY CacheNames, <3>1 DEF IInv, TypeOK
  <2>2. CASE target[r] # r
    BY <1>4, <2>2, PutKeeps DEF claimIdempotencyKey, Replayable, IInv, TypeOK
  <2> QED BY <2>1, <2>2
<1>6. TypeOK'
  BY <1>1, <1>2, <1>3, <1>5 DEF IInv, TypeOK
<1>7. /\ pc'[r] = s /\ holds'[r] = H
      /\ \A q \in Requests \ {r} : pc'[q] = pc[q] /\ holds'[q] = holds[q]
  BY <1>2, <1>3, SMTT(20) DEF IInv, TypeOK
<1>8. RequestOK(r)'
  BY <1>1, <1>2, <1>3, <1>4, <1>7 DEF IInv, RequestOK, Replayable
<1>9. \A q \in Requests : Apart(r, q)'
  BY <1>1, <1>2, <1>7 DEF Apart
<1>10. IInv' /\ KeysKept
  BY <1>1, <1>5, <1>6, <1>7, <1>8, <1>9, OneRequestMoves
<1>11. Refines
  BY <1>1 DEF Refines
<1> QED BY <1>10, <1>11

\* InsertPayment.
LEMMA InsertPaymentKeeps ==
    ASSUME IntakeConstants, IInv, NEW r \in Requests, InsertPayment(r)
    PROVE  IInv' /\ KeysKept /\ Refines
<1>1. pc[r] = "insert" /\ target[r] = r /\ UNCHANGED <<payments, keys, target, outcome, faults>>
      /\ \A q \in Requests \ {r} : "payment" \in holds[q] => ~Abstract!Conflicts(r, q)
  <2>1. RequestOK(r)
    BY DEF IInv
  <2>2. pc[r] = "insert" /\ UNCHANGED <<payments, keys, target, outcome, faults>>
        /\ \A q \in Requests \ {r} : "payment" \in holds[q] => ~Abstract!Conflicts(r, q)
    BY Zenon DEF InsertPayment
  <2>3. target[r] = r
    BY <2>1, <2>2 DEF RequestOK
  <2> QED BY <2>2, <2>3, Zenon
<1>0. /\ payments' = payments /\ target'[r] = r /\ r \notin payments'
      /\ outcome'[r] = [verdict |-> "pending", payment |-> NoRef]
      /\ "key" \in holds[r] => keys'[Key[r]] = NoRef
  BY <1>1, Unanswered
<1>2. CASE \E p \in payments : Abstract!Conflicts(r, p)
  <2>1. holds' = [holds EXCEPT ![r] = {}] /\ pc' = [pc EXCEPT ![r] = "race"] /\ UNCHANGED cache
    BY <1>2 DEF InsertPayment, Goto
  <2>2. TypeOK'
    BY <1>1, <2>1 DEF IInv, TypeOK
  <2>3. /\ pc'[r] = "race" /\ holds'[r] = {}
        /\ \A q \in Requests \ {r} : pc'[q] = pc[q] /\ holds'[q] = holds[q]
    BY <2>1, SMTT(20) DEF IInv, TypeOK
  <2>4. RequestOK(r)' /\ \A q \in Requests : Apart(r, q)'
    <3>1. RequestOK(r)'
      BY <1>0, <1>2, <2>3, UnderWay
    <3>2. \A q \in Requests : Apart(r, q)'
      BY <2>3 DEF Apart
    <3> QED BY <3>1, <3>2
  <2> QED BY CacheNames, <1>1, <2>1, <2>2, <2>3, <2>4, OneRequestMoves DEF Refines
<1>3. CASE ~ \E p \in payments : Abstract!Conflicts(r, p)
  <2>1. /\ holds' = [holds EXCEPT ![r] = holds[r] \cup {"payment"}]
        /\ pc' = [pc EXCEPT ![r] = "commit"] /\ rememberReplay(r, r)
    BY <1>3 DEF InsertPayment, Goto
  <2>2. KeyNames(Key[r], r)
    BY DEF KeyNames, SameKey, Abstract!SameKey
  <2>3. /\ cache' \in [Keys -> Requests \cup {NoRef}]
        /\ \A k \in Keys : cache'[k] # NoRef => KeyNames(k, cache'[k])
    BY <2>1, <2>2, PutKeeps
  <2>4. TypeOK'
    BY <1>1, <2>1, <2>3 DEF IInv, TypeOK
  <2>5. /\ pc'[r] = "commit" /\ holds'[r] = holds[r] \cup {"payment"}
        /\ \A q \in Requests \ {r} : pc'[q] = pc[q] /\ holds'[q] = holds[q]
    BY <2>1, SMTT(20) DEF IInv, TypeOK
  <2>6. RequestOK(r)'
    BY <1>0, <1>3, <2>5, UnderWay
  <2>7. \A q \in Requests : Apart(r, q)'
    BY <1>1, <2>5 DEF IInv, Apart
  <2> QED BY <1>1, <2>3, <2>4, <2>5, <2>6, <2>7, OneRequestMoves DEF Refines
<1> QED BY <1>2, <1>3, SMTT(20)

\* replayAfterRace.
LEMMA ReplayAfterRaceKeeps ==
    ASSUME IntakeConstants, IInv, NEW r \in Requests, replayAfterRace(r)
    PROVE  IInv' /\ KeysKept /\ Refines
<1>1. pc[r] = "race" /\ UNCHANGED <<payments, keys, cache, faults>>
  BY DEF replayAfterRace
<1>2. CASE findPriorPayment(r) # {}
  <2>1. PICK p \in findPriorPayment(r) : ReplayOrRefuse(r, p, "claim")
    BY <1>2 DEF replayAfterRace
  <2> QED BY <1>1, <2>1, FoundIsNamed, ReplayKeeps
<1>3. CASE findPriorPayment(r) = {}
  <2>1. Answer(r, "internal", NoRef) /\ Goto(r, "done") /\ UNCHANGED <<target, holds>>
    BY <1>3 DEF replayAfterRace
  <2>2. holds[r] = {} /\ holds' = [holds EXCEPT ![r] = {}] /\ faults' \in 0 .. MaxFaults
    BY <1>1, <2>1 DEF IInv, TypeOK
  <2>3. PICK p \in payments : Abstract!Conflicts(r, p)
    BY <1>1 DEF IInv, RequestOK
  <2>4. ~SameRef(r, p) /\ ~SameKey(r, p)
    BY <1>3, <2>3 DEF findPriorPayment
  <2>5. Ref[p] = Ref[r] /\ Channel[p] # Channel[r]
    BY <2>3, <2>4 DEF SameRef, SameKey, Abstract!SameRef, Abstract!SameKey, Abstract!Conflicts
  <2> QED BY <1>1, <2>1, <2>2, <2>5, FailureKeeps, Zenon
<1> QED BY <1>2, <1>3

\* Abort.
LEMMA AbortKeeps ==
    ASSUME IntakeConstants, IInv, NEW r \in Requests, Abort(r)
    PROVE  IInv' /\ KeysKept /\ Refines
<1>1. faults' \in 0 .. MaxFaults
  BY DEF Abort, IInv, TypeOK, IntakeConstants
<1>2. pc[r] # "done"
  BY DEF Abort, InTx
<1> QED BY <1>1, <1>2, FailureKeeps, Zenon DEF Abort

\* Restart.
LEMMA RestartKeeps ==
    ASSUME IntakeConstants, IInv, Restart
    PROVE  IInv' /\ KeysKept /\ Refines
<1>1. UNCHANGED <<payments, keys, pc, target, holds, outcome>>
      /\ cache' = [k \in Keys |-> NoRef] /\ faults' \in 0 .. MaxFaults
  BY DEF Restart, IInv, TypeOK, IntakeConstants
<1>2. TypeOK' /\ RegistryOK' /\ RowsAreUnique'
  BY <1>1, SMTT(20) DEF IInv, TypeOK, RegistryOK, RowsAreUnique
<1>3. (\A r \in Requests : RequestOK(r)') /\ \A r, q \in Requests : Apart(r, q)'
  <2>1. ASSUME NEW r \in Requests PROVE RequestOK(r)'
    <3>1. RequestOK(r)
      BY DEF IInv
    <3>2. RequestOK(r)' = RequestOK(r)
      BY <1>1, Zenon DEF RequestOK, Replayable
    <3> QED BY <3>1, <3>2, Zenon
  <2>2. ASSUME NEW r \in Requests, NEW q \in Requests PROVE Apart(r, q)'
    <3>1. Apart(r, q)
      BY DEF IInv
    <3> QED BY <1>1, <3>1, Zenon DEF Apart
  <2> QED BY <2>1, <2>2
<1> QED BY <1>1, <1>2, <1>3 DEF IInv, RegistryOK, KeysKept, Refines

\* Nothing happens.
LEMMA StutterKeeps ==
    ASSUME IntakeConstants, IInv, UNCHANGED vars
    PROVE  IInv' /\ KeysKept /\ Refines
<1>1. TypeOK' /\ RegistryOK' /\ RowsAreUnique'
  BY SMTT(20) DEF vars, IInv, TypeOK, RegistryOK, RowsAreUnique
<1>2. (\A r \in Requests : RequestOK(r)') /\ \A r, q \in Requests : Apart(r, q)'
  <2>1. ASSUME NEW r \in Requests PROVE RequestOK(r)'
    <3>1. RequestOK(r)
      BY DEF IInv
    <3>2. RequestOK(r)' = RequestOK(r)
      BY Zenon DEF vars, RequestOK, Replayable
    <3> QED BY <3>1, <3>2, Zenon
  <2>2. ASSUME NEW r \in Requests, NEW q \in Requests PROVE Apart(r, q)'
    <3>1. Apart(r, q)
      BY DEF IInv
    <3> QED BY <3>1, Zenon DEF vars, Apart
  <2> QED BY <2>1, <2>2
<1> QED BY <1>1, <1>2 DEF vars, IInv, RegistryOK, KeysKept, Refines

\* IInv is inductive, every step is one of the abstract intake's or invisible to
\* it, and no key is rebound.
LEMMA NextIInv == IntakeConstants /\ IInv /\ [Next]_vars => IInv' /\ KeysKept /\ Refines
<1> SUFFICES ASSUME IntakeConstants, IInv, [Next]_vars PROVE IInv' /\ KeysKept /\ Refines
  OBVIOUS
<1>1. ASSUME NEW r \in Requests, Intake(r) PROVE IInv' /\ KeysKept /\ Refines
  BY <1>1, IntakeKeeps
<1>2. ASSUME NEW r \in Requests, Probe1(r) PROVE IInv' /\ KeysKept /\ Refines
  BY <1>2, Probe1Keeps
<1>3. ASSUME NEW r \in Requests, Probe2(r) PROVE IInv' /\ KeysKept /\ Refines
  BY <1>3, Probe2Keeps
<1>4. ASSUME NEW r \in Requests, claimIdempotencyKey(r) PROVE IInv' /\ KeysKept /\ Refines
  BY <1>4, ClaimIdempotencyKeyKeeps
<1>5. ASSUME NEW r \in Requests, InsertPayment(r) PROVE IInv' /\ KeysKept /\ Refines
  BY <1>5, InsertPaymentKeeps
<1>6. ASSUME NEW r \in Requests, replayAfterRace(r) PROVE IInv' /\ KeysKept /\ Refines
  BY <1>6, ReplayAfterRaceKeeps
<1>7. ASSUME NEW r \in Requests, Abort(r) PROVE IInv' /\ KeysKept /\ Refines
  BY <1>7, AbortKeeps
<1>8. ASSUME Restart PROVE IInv' /\ KeysKept /\ Refines
  BY <1>8, RestartKeeps
<1>9. ASSUME UNCHANGED vars PROVE IInv' /\ KeysKept /\ Refines
  BY <1>9, StutterKeeps
<1> QED
  BY <1>1, <1>2, <1>3, <1>4, <1>5, <1>6, <1>7, <1>8, <1>9, CommitKeeps DEF Next, Step

\* Crashes, races, stale cache entries and lost answers included, the funnel
\* does nothing but what the idempotent intake promises (R9): whatever the
\* requests, their references, keys, channels and money.
THEOREM IntakeRefines == IntakeConstants => (Spec => ImplementsIntake)
<1> SUFFICES ASSUME IntakeConstants PROVE Spec => ImplementsIntake
  OBVIOUS
<1>1. Init => IInv /\ Abstract!Init
  BY InitIInv DEF Init, Abstract!Init, Abstract!Without
<1>2. IInv /\ [Next]_vars => IInv' /\ [Abstract!Next]_<<payments, outcome>>
  BY NextIInv DEF Refines
<1> QED BY <1>1, <1>2, PTL DEF Spec, ImplementsIntake, Abstract!Spec

\* A key of the durable registry names a committed payment and keeps naming it.
THEOREM KeysStayBound == IntakeConstants => (Spec => KeysAreStable)
<1> SUFFICES ASSUME IntakeConstants PROVE Spec => KeysAreStable
  OBVIOUS
<1>1. Init => IInv
  BY InitIInv
<1>2. IInv /\ [Next]_vars =>
      IInv' /\ [\A k \in Keys : keys[k] # NoRef => keys'[k] = keys[k] /\ keys[k] \in payments]_vars
  BY NextIInv DEF KeysKept
<1> QED BY <1>1, <1>2, PTL DEF Spec, KeysAreStable

\* Bearers of one reference and one key are answered with one payment, and at
\* most one of them with a new one, provided no key is used for two references.
\* Without the proviso a key bound to an older payment of its other reference
\* answers some of the bearers with that one.
THEOREM OneCommandOnePayment ==
    IntakeConstants /\ (\A r, q \in Requests : SameKey(r, q) => SameRef(r, q))
        => (Spec => []SameCommandSamePayment)
<1> SUFFICES ASSUME IntakeConstants, \A r, q \in Requests : SameKey(r, q) => SameRef(r, q)
             PROVE  Spec => []SameCommandSamePayment
  OBVIOUS
<1>1. Init => IInv
  BY InitIInv
<1>2. IInv /\ [Next]_vars => IInv'
  BY NextIInv
<1>3. IInv => SameCommandSamePayment
  <2> SUFFICES ASSUME IInv, NEW r \in Requests, NEW q \in Requests, Answered(r), Answered(q), r # q,
                      SameRef(r, q), SameKey(r, q)
               PROVE  /\ outcome[r].payment = outcome[q].payment
                      /\ "duplicate" \in {outcome[r].verdict, outcome[q].verdict}
    BY DEF SameCommandSamePayment
  <2>1. ASSUME NEW b \in Requests, Answered(b)
        PROVE  outcome[b].payment \in payments /\ SameRef(b, outcome[b].payment)
               /\ (outcome[b].verdict # "duplicate" => outcome[b].payment = b)
    <3>0. /\ outcome[b].verdict = "new" => outcome[b].payment = b /\ b \in payments
          /\ outcome[b].verdict = "duplicate" => Replayable(b, outcome[b].payment)
      <4>1. RequestOK(b)
        BY DEF IInv
      <4> QED BY <4>1, Zenon DEF RequestOK
    <3>1. CASE outcome[b].verdict = "new"
      BY <3>0, <3>1 DEF SameRef, Abstract!SameRef
    <3>2. CASE outcome[b].verdict = "duplicate"
      <4>1. /\ outcome[b].payment \in payments /\ outcome[b].payment \in Requests
            /\ KeyNames(Key[b], outcome[b].payment)
        BY <3>0, <3>2 DEF IInv, TypeOK, Replayable
      <4>2. SameRef(b, outcome[b].payment)
        BY <4>1 DEF KeyNames, SameRef, SameKey, Abstract!SameRef, Abstract!SameKey
      <4> QED BY <3>2, <4>1, <4>2
    <3> QED BY <2>1, <3>1, <3>2, SMTT(20) DEF Answered
  <2>2. Ref[outcome[r].payment] = Ref[outcome[q].payment]
    BY <2>1 DEF SameRef, Abstract!SameRef
  <2>3. outcome[r].payment = outcome[q].payment
    BY <2>1, <2>2 DEF IInv, RowsAreUnique, Abstract!Conflicts
  <2> QED BY <2>1, <2>3
<1> QED BY <1>1, <1>2, <1>3, PTL DEF Spec
================================================================================
