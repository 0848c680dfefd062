------------------------------ MODULE OutboxRelay ------------------------------
(***************************************************************************)
(* The transactional-outbox relay (backend-go/internal/outbox): several    *)
(* relay processes drain outbox_events into NATS JetStream, one            *)
(* transaction per batch of one organisation, while producers commit new   *)
(* rows and an operator replays old ones.                                  *)
(*                                                                         *)
(* An event is a natural number: its rank in the (created_at, id) order    *)
(* that the batch SELECT sorts by.  created_at is now(), the START of the  *)
(* producer's transaction, so rows may become visible in any order of      *)
(* their ranks.  The wire is every message that reached the broker; the    *)
(* broker's Nats-Msg-Id window only drops repetitions from it, so the      *)
(* order of first occurrences is what consumers see.                       *)
(*                                                                         *)
(* The proofs at the end hold for every number of relays, orgs and events, *)
(* every batch size and attempt budget, and any number of faults and       *)
(* replays: type correctness, at-least-once delivery, no double            *)
(* publication, and oldest first.  OutboxRelayDuplicates builds on them.   *)
(***************************************************************************)
EXTENDS Naturals, FiniteSets, Sequences, FiniteSetTheorems, SequenceTheorems, WellFoundedInduction,
        TLAPS, TLC

CONSTANTS Relays, Orgs, Events,
          OrgOf,          \* the org_id of each event
          WellFormed,     \* the events whose (event_type, version) has a subject
          BatchSize,      \* OUTBOX_BATCH
          MaxAttempts,    \* OUTBOX_MAX_ATTEMPTS
          MaxFaults,      \* bound: crashes and SIGTERMs
          MaxReplays,     \* bound: operator replays
          NoTx, Operator  \* the holder of an unlocked row; the replaying session

ASSUME RelayAssumption ==
    /\ Events \subseteq Nat /\ IsFiniteSet(Events)
    /\ IsFiniteSet(Orgs)
    /\ OrgOf \in [Events -> Orgs]
    /\ WellFormed \subseteq Events
    /\ BatchSize \in Nat \ {0} /\ MaxAttempts \in Nat \ {0}
    /\ MaxFaults \in Nat /\ MaxReplays \in Nat
    /\ NoTx \notin Relays /\ Operator \notin Relays /\ NoTx # Operator

VARIABLES row,       \* outbox_events as committed
          lockedBy,  \* the transaction that holds each row's lock
          advisory,  \* the relay that holds each org's advisory lock
          pc,        \* where each relay is
          todo,      \* the orgs left in each relay's cycle
          batch,     \* the rows of the running batch not handled yet
          snap,      \* history: the org's pending rows when the batch was taken, less the operator's
          work,      \* the row versions each open transaction has written
          cancelled, \* has the relay's run context been cancelled (SIGTERM)?
          replay,    \* the operator's running UPDATE
          wire,      \* the messages that reached the broker, in order
          faults, replays

relayVars == <<advisory, pc, todo, batch, snap, work>>
vars == <<row, lockedBy, relayVars, cancelled, replay, wire, faults, replays>>

Statuses == {"absent", "pending", "published", "poisoned"}
Row == [status : Statuses, attempts : 0 .. MaxAttempts]
Fresh(status) == [status |-> status, attempts |-> 0]
NoWrites == [e \in Events |-> Fresh("absent")]

--------------------------------------------------------------------------------
(* What the SQL statements read. *)

Pending(o) == {e \in Events : OrgOf[e] = o /\ row[e].status = "pending"}

SubjectFor(e) == e \in WellFormed

\* Mutant: one attempt too many.
exhaustsBudgetLate(attempts) == attempts > MaxAttempts

exhaustsBudget(attempts) == attempts >= MaxAttempts

\* Oldest backlog first: the sequences of all orgs that have a pending row,
\* sorted by their oldest one.
candidateOrgs ==
    LET candidates == {o \in Orgs : Pending(o) # {}}
        Older(a, b) == \E e \in Pending(a) : \A f \in Pending(b) : e < f
    IN  {s \in [1 .. Cardinality(candidates) -> candidates] :
            \A i, j \in DOMAIN s : i < j => Older(s[i], s[j])}

\* The first BatchSize rows that the FOR UPDATE SKIP LOCKED scan can lock.
Selected(o) ==
    LET free == {e \in Pending(o) : lockedBy[e] = NoTx}
    IN  {e \in free : Cardinality({f \in free : f < e}) < BatchSize}

First(S) == CHOOSE e \in S : \A f \in S : e <= f

--------------------------------------------------------------------------------
(* A producer's transaction commits: its event becomes visible. *)

AppendOutboxEvent(e) ==
    /\ row[e].status = "absent"
    /\ row' = [row EXCEPT ![e] = Fresh("pending")]
    /\ UNCHANGED <<lockedBy, relayVars, cancelled, replay, wire, faults, replays>>

--------------------------------------------------------------------------------
(* One cycle of a relay. *)

RunOnce(r) ==
    /\ pc[r] = "idle" /\ ~cancelled[r]
    /\ \E s \in candidateOrgs : todo' = [todo EXCEPT ![r] = s]
    /\ pc' = [pc EXCEPT ![r] = "cycle"]
    /\ UNCHANGED <<row, lockedBy, advisory, batch, snap, work, cancelled, replay,
                   wire, faults, replays>>

\* The advisory lock is taken, so the org is skipped for this cycle.
SkipLockedOrg(r) ==
    /\ pc[r] = "cycle" /\ ~cancelled[r] /\ todo[r] # <<>>
    /\ advisory[Head(todo[r])] # NoTx
    /\ todo' = [todo EXCEPT ![r] = Tail(@)]
    /\ UNCHANGED <<row, lockedBy, advisory, pc, batch, snap, work, cancelled, replay,
                   wire, faults, replays>>

\* Mutant: neither the advisory lock nor SKIP LOCKED.
TakeBatchUnlocked(r) ==
    /\ pc[r] = "cycle" /\ ~cancelled[r] /\ todo[r] # <<>>
    /\ LET o == Head(todo[r]) IN
       /\ advisory' = [advisory EXCEPT ![o] = r]
       /\ batch' = [batch EXCEPT ![r] = Pending(o)]
       /\ snap' = [snap EXCEPT ![r] = Pending(o)]
       /\ lockedBy' = [e \in Events |-> IF e \in Pending(o) THEN r ELSE lockedBy[e]]
    /\ work' = [work EXCEPT ![r] = row]
    /\ pc' = [pc EXCEPT ![r] = "batch"]
    /\ UNCHANGED <<row, todo, cancelled, replay, wire, faults, replays>>

\* Begin, the advisory lock and the batch SELECT.
TakeBatch(r) ==
    /\ pc[r] = "cycle" /\ ~cancelled[r] /\ todo[r] # <<>>
    /\ LET o == Head(todo[r]) IN
       /\ advisory[o] = NoTx
       /\ advisory' = [advisory EXCEPT ![o] = r]
       /\ batch' = [batch EXCEPT ![r] = Selected(o)]
       /\ snap' = [snap EXCEPT ![r] = {e \in Pending(o) : lockedBy[e] # Operator}]
       /\ lockedBy' = [e \in Events |-> IF e \in Selected(o) THEN r ELSE lockedBy[e]]
    /\ work' = [work EXCEPT ![r] = row]
    /\ pc' = [pc EXCEPT ![r] = "batch"]
    /\ UNCHANGED <<row, todo, cancelled, replay, wire, faults, replays>>

\* A row without a valid subject is poisoned and its successors go on.
poisonInvalid(r) ==
    /\ pc[r] = "batch" /\ ~cancelled[r] /\ batch[r] # {}
    /\ LET e == First(batch[r]) IN
       /\ ~SubjectFor(e)
       /\ work' = [work EXCEPT ![r][e].status = "poisoned"]
       /\ batch' = [batch EXCEPT ![r] = @ \ {e}]
    /\ UNCHANGED <<row, lockedBy, advisory, pc, todo, snap, cancelled, replay, wire,
                   faults, replays>>

\* Mutant: the row is marked without waiting for the ack.
publishAsync(r) ==
    /\ pc[r] = "batch" /\ ~cancelled[r] /\ batch[r] # {}
    /\ SubjectFor(First(batch[r]))
    /\ wire' \in {wire, Append(wire, First(batch[r]))}
    /\ pc' = [pc EXCEPT ![r] = "mark"]
    /\ UNCHANGED <<row, lockedBy, advisory, todo, batch, snap, work, cancelled, replay,
                   faults, replays>>

\* The broker stored the message and its ack arrived.
publish(r) ==
    /\ pc[r] = "batch" /\ ~cancelled[r] /\ batch[r] # {}
    /\ SubjectFor(First(batch[r]))
    /\ wire' = Append(wire, First(batch[r]))
    /\ pc' = [pc EXCEPT ![r] = "mark"]
    /\ UNCHANGED <<row, lockedBy, advisory, todo, batch, snap, work, cancelled, replay,
                   faults, replays>>

markPublished(r) ==
    /\ pc[r] = "mark" /\ ~cancelled[r]
    /\ LET e == First(batch[r]) IN
       /\ work' = [work EXCEPT ![r][e] = [status |-> "published", attempts |-> @.attempts + 1]]
       /\ batch' = [batch EXCEPT ![r] = @ \ {e}]
    /\ pc' = [pc EXCEPT ![r] = "batch"]
    /\ UNCHANGED <<row, lockedBy, advisory, todo, snap, cancelled, replay, wire, faults,
                   replays>>

\* Mutant: the failed attempt is not counted.
markFailedUncounted(r) ==
    /\ pc[r] = "batch" /\ ~cancelled[r] /\ batch[r] # {}
    /\ SubjectFor(First(batch[r]))
    /\ wire' \in {wire, Append(wire, First(batch[r]))}
    /\ batch' = [batch EXCEPT ![r] = {}]
    /\ UNCHANGED <<row, lockedBy, advisory, pc, todo, snap, work, cancelled, replay,
                   faults, replays>>

\* Mutant: the batch goes on after a failed publish.
markFailedContinue(r) ==
    /\ pc[r] = "batch" /\ ~cancelled[r] /\ batch[r] # {}
    /\ LET e == First(batch[r])
           attempts == work[r][e].attempts + 1
       IN
       /\ SubjectFor(e)
       /\ wire' \in {wire, Append(wire, e)}
       /\ work' = [work EXCEPT ![r][e] =
              [status |-> IF exhaustsBudget(attempts) THEN "poisoned" ELSE @.status,
               attempts |-> attempts]]
       /\ batch' = [batch EXCEPT ![r] = @ \ {e}]
    /\ UNCHANGED <<row, lockedBy, advisory, pc, todo, snap, cancelled, replay, faults,
                   replays>>

\* The publish returned an error; the message may have reached the broker all
\* the same.  The failure is recorded and the rest of the batch is left.
markFailed(r) ==
    /\ pc[r] = "batch" /\ ~cancelled[r] /\ batch[r] # {}
    /\ LET e == First(batch[r])
           attempts == work[r][e].attempts + 1
       IN
       /\ SubjectFor(e)
       /\ wire' \in {wire, Append(wire, e)}
       /\ work' = [work EXCEPT ![r][e] =
              [status |-> IF exhaustsBudget(attempts) THEN "poisoned" ELSE @.status,
               attempts |-> attempts]]
    /\ batch' = [batch EXCEPT ![r] = {}]
    /\ UNCHANGED <<row, lockedBy, advisory, pc, todo, snap, cancelled, replay, faults,
                   replays>>

ReleaseLocks(r) ==
    /\ lockedBy' = [e \in Events |-> IF lockedBy[e] = r THEN NoTx ELSE lockedBy[e]]
    /\ advisory' = [o \in Orgs |-> IF advisory[o] = r THEN NoTx ELSE advisory[o]]
    /\ batch' = [batch EXCEPT ![r] = {}]
    /\ snap' = [snap EXCEPT ![r] = {}]
    /\ work' = [work EXCEPT ![r] = NoWrites]

CommitBatch(r) ==
    /\ pc[r] = "batch" /\ ~cancelled[r] /\ batch[r] = {}
    /\ row' = [e \in Events |-> IF lockedBy[e] = r THEN work[r][e] ELSE row[e]]
    /\ ReleaseLocks(r)
    /\ todo' = [todo EXCEPT ![r] = Tail(@)]
    /\ pc' = [pc EXCEPT ![r] = "cycle"]
    /\ UNCHANGED <<cancelled, replay, wire, faults, replays>>

EndCycle(r) ==
    /\ pc[r] = "cycle" /\ ~cancelled[r] /\ todo[r] = <<>>
    /\ pc' = [pc EXCEPT ![r] = "idle"]
    /\ UNCHANGED <<row, lockedBy, advisory, todo, batch, snap, work, cancelled, replay,
                   wire, faults, replays>>

--------------------------------------------------------------------------------
(* Faults.  The transaction of a relay that dies or loses its connection is *)
(* rolled back by the database.                                             *)

Rollback(r) ==
    /\ ReleaseLocks(r)
    /\ todo' = [todo EXCEPT ![r] = <<>>]
    /\ UNCHANGED <<row, replay, wire, replays>>

Crash(r) ==
    /\ faults < MaxFaults /\ pc[r] \notin {"idle", "stopped"}
    /\ Rollback(r)
    /\ pc' = [pc EXCEPT ![r] = "idle"]
    /\ faults' = faults + 1
    /\ UNCHANGED cancelled

\* SIGTERM cancels the context that every statement of the relay runs on.
Cancel(r) ==
    /\ faults < MaxFaults /\ pc[r] # "stopped" /\ ~cancelled[r]
    /\ cancelled' = [cancelled EXCEPT ![r] = TRUE]
    /\ faults' = faults + 1
    /\ UNCHANGED <<row, lockedBy, relayVars, replay, wire, replays>>

\* The next statement of a cancelled relay fails: publish and markFailed, or
\* markPublished, or Commit return the context's error and the deferred
\* Rollback runs.  Between batches the cycle just ends.
StopCancelled(r) ==
    /\ cancelled[r] /\ pc[r] # "stopped"
    /\ Rollback(r)
    /\ pc' = [pc EXCEPT ![r] = "stopped"]
    /\ UNCHANGED <<cancelled, faults>>

\* The platform starts the worker again.
Restart(r) ==
    /\ pc[r] = "stopped"
    /\ pc' = [pc EXCEPT ![r] = "idle"]
    /\ cancelled' = [cancelled EXCEPT ![r] = FALSE]
    /\ UNCHANGED <<row, lockedBy, advisory, todo, batch, snap, work, replay, wire, faults,
                   replays>>

--------------------------------------------------------------------------------
(* The operator's replay: one UPDATE statement that locks its rows one by  *)
(* one, waiting for those a relay holds, and then commits.                 *)

Requeueable(kind, e) ==
    \/ kind = "poisons" /\ row[e].status = "poisoned"
    \/ kind = "range" /\ row[e].status # "absent"

StartReplay(kind, window) ==
    /\ replay.kind = "none" /\ replays < MaxReplays
    /\ replay' = [kind |-> kind, rows |-> {e \in window : Requeueable(kind, e)}]
    /\ replays' = replays + 1
    /\ UNCHANGED <<row, lockedBy, relayVars, cancelled, wire, faults>>

ReplayPoisons == StartReplay("poisons", Events)

\* A window that does not advance is refused before any statement runs.
ReplayRange(from, to) ==
    /\ from < to
    /\ StartReplay("range", {e \in Events : from <= e /\ e < to})

ReplayLockRow(e) ==
    /\ e \in replay.rows /\ lockedBy[e] = NoTx
    /\ lockedBy' = [lockedBy EXCEPT ![e] = IF Requeueable(replay.kind, e) THEN Operator ELSE @]
    /\ replay' = [replay EXCEPT !.rows = @ \ {e}]
    /\ UNCHANGED <<row, relayVars, cancelled, wire, faults, replays>>

ReplayCommit ==
    /\ replay.kind # "none" /\ replay.rows = {}
    /\ row' = [e \in Events |-> IF lockedBy[e] = Operator THEN Fresh("pending") ELSE row[e]]
    /\ lockedBy' = [e \in Events |-> IF lockedBy[e] = Operator THEN NoTx ELSE lockedBy[e]]
    /\ replay' = [kind |-> "none", rows |-> {}]
    /\ UNCHANGED <<relayVars, cancelled, wire, faults, replays>>

--------------------------------------------------------------------------------
Init ==
    /\ row = NoWrites
    /\ lockedBy = [e \in Events |-> NoTx]
    /\ advisory = [o \in Orgs |-> NoTx]
    /\ pc = [r \in Relays |-> "idle"]
    /\ todo = [r \in Relays |-> <<>>]
    /\ batch = [r \in Relays |-> {}]
    /\ snap = [r \in Relays |-> {}]
    /\ work = [r \in Relays |-> NoWrites]
    /\ cancelled = [r \in Relays |-> FALSE]
    /\ replay = [kind |-> "none", rows |-> {}]
    /\ wire = <<>>
    /\ faults = 0 /\ replays = 0

RelayStep(r) ==
    \/ RunOnce(r) \/ SkipLockedOrg(r) \/ TakeBatch(r) \/ poisonInvalid(r)
    \/ publish(r) \/ markPublished(r) \/ markFailed(r) \/ CommitBatch(r)
    \/ EndCycle(r) \/ StopCancelled(r) \/ Restart(r)

OperatorStep ==
    \/ ReplayPoisons
    \/ \E from, to \in Events : ReplayRange(from, to + 1)
    \/ \E e \in Events : ReplayLockRow(e)
    \/ ReplayCommit

Next ==
    \/ \E e \in Events : AppendOutboxEvent(e)
    \/ \E r \in Relays : RelayStep(r) \/ Crash(r) \/ Cancel(r)
    \/ OperatorStep

Spec == Init /\ [][Next]_vars

\* Run polls for ever and the platform restarts a stopped worker; a replay
\* that was started runs to its commit.
FairSpec ==
    /\ Spec
    /\ \A r \in Relays : WF_vars(RelayStep(r))
    /\ WF_vars(\E e \in Events : ReplayLockRow(e)) /\ WF_vars(ReplayCommit)
--------------------------------------------------------------------------------
TypeOK ==
    /\ row \in [Events -> Row]
    /\ lockedBy \in [Events -> Relays \cup {NoTx, Operator}]
    /\ advisory \in [Orgs -> Relays \cup {NoTx}]
    /\ pc \in [Relays -> {"idle", "cycle", "batch", "mark", "stopped"}]
    /\ todo \in [Relays -> Seq(Orgs)]
    /\ batch \in [Relays -> SUBSET Events]
    /\ snap \in [Relays -> SUBSET Events]
    /\ work \in [Relays -> [Events -> Row]]
    /\ cancelled \in [Relays -> BOOLEAN]
    /\ replay \in [kind : {"none", "poisons", "range"}, rows : SUBSET Events]
    /\ wire \in Seq(Events)
    /\ faults \in 0 .. MaxFaults /\ replays \in 0 .. MaxReplays

OnWire(e) == \E i \in DOMAIN wire : wire[i] = e
Occurrences(e) == Cardinality({i \in DOMAIN wire : wire[i] = e})

\* At-least-once (relay.go drainOrg, publish-then-mark): a row that is
\* committed as published has reached the broker, whatever crashed, was
\* cancelled, failed or was replayed before.
PublishedReachedBroker == \A e \in Events : row[e].status = "published" => OnWire(e)

\* "Two concurrent relays never double-publish" (relay.go): a message is sent
\* only while its row is committed as pending and belongs to the batch of one
\* relay, whose transaction will decide its status.
NoDoublePublish ==
    [][\A e \in Events : wire' = Append(wire, e) =>
          /\ row[e].status = "pending"
          /\ Cardinality({r \in Relays : e \in batch[r]}) = 1]_vars

\* Duplicates are bounded: an event reaches the broker at most MaxAttempts
\* times per lifecycle (a replay starts a new one), and once more for every
\* batch that a crash or a shutdown rolled back.
DuplicatesBounded ==
    \A e \in Events : Occurrences(e) <= MaxAttempts * (1 + replays) + faults

\* Per-org order (drainOrg): when an event is sent, every older row of its org
\* that was pending when the batch was taken is already decided by the same
\* transaction, as published or as poisoned.  The one exception is a row that an
\* operator's replay held at that moment: SKIP LOCKED leaves it out.
NoOvertaking ==
    [][\A r \in Relays : \A e \in batch[r] : wire' = Append(wire, e) =>
          \A f \in snap[r] : f < e =>
              lockedBy[f] = r /\ work[r][f].status \in {"published", "poisoned"}]_vars

\* Every appended event is eventually published or dead-lettered, though
\* relays crash, stop and race, the broker fails and rows are replayed.
EventuallyDecided ==
    \A e \in Events :
        row[e].status = "pending" ~> row[e].status \in {"published", "poisoned"}

--------------------------------------------------------------------------------
\* For TLC: the rows of a single organisation, and the relays are alike.
OneOrg == [e \in Events |-> CHOOSE o \in Orgs : TRUE]
RelaySymmetry == Permutations(Relays)

--------------------------------------------------------------------------------
(* Proofs. *)

\* The batch loop takes the smallest rank that is left; there is one.
LEMMA FirstIsMember ==
    ASSUME NEW S \in SUBSET Nat, S # {}
    PROVE  First(S) \in S /\ \A f \in S : First(S) <= f
<1> DEFINE R == OpToRel(<, Nat)
<1>1. IsWellFoundedOn(R, Nat)
  BY NatLessThanWellFounded, Zenon
<1>2. PICK x \in S : \A y \in S : ~(<<y, x>> \in R)
  BY <1>1, WFMin, Zenon
<1>3. \A y \in S : x <= y
  <2> TAKE y \in S
  <2>1. ~(y < x)
    BY <1>2, Zenon DEF OpToRel
  <2> QED BY <2>1
<1> QED BY <1>3, Zenon DEF First

\* The cycle's list of orgs is a sequence of orgs.
LEMMA CandidateOrgsType == TypeOK => candidateOrgs \subseteq Seq(Orgs)
<1> SUFFICES ASSUME TypeOK, NEW s \in candidateOrgs PROVE s \in Seq(Orgs)
  OBVIOUS
<1> DEFINE C == {o \in Orgs : Pending(o) # {}}
<1>1. IsFiniteSet(C)
  BY FS_Subset, RelayAssumption
<1>2. Cardinality(C) \in Nat
  BY <1>1, FS_CardinalityType
<1>3. s \in [1 .. Cardinality(C) -> C]
  BY DEF candidateOrgs
<1>4. s \in [1 .. Cardinality(C) -> Orgs]
  BY <1>3
<1> HIDE DEF C
<1> QED BY <1>2, <1>4, SeqDef

--------------------------------------------------------------------------------
\* The strengthening.  A row that is still to be handled is locked by its
\* relay, committed as pending and untouched in the relay's transaction; only
\* an open batch holds locks; what a transaction calls published has reached
\* the broker; and a pending row, committed or not, has attempts left.
BatchOwned ==
    \A r \in Relays : \A e \in batch[r] :
        lockedBy[e] = r /\ row[e].status = "pending" /\ work[r][e] = row[e]

LocksInBatch ==
    \A r \in Relays, e \in Events : lockedBy[e] = r =>
        /\ pc[r] \in {"batch", "mark"}
        /\ work[r][e].status = "published" => OnWire(e)
        /\ work[r][e].status = "pending" => work[r][e].attempts < MaxAttempts

MarkAfterSend ==
    \A r \in Relays : pc[r] = "mark" => batch[r] # {} /\ OnWire(First(batch[r]))

BatchHasOrg == \A r \in Relays : pc[r] \in {"batch", "mark"} => todo[r] # <<>>

PendingHasBudget ==
    \A e \in Events : row[e].status = "pending" => row[e].attempts < MaxAttempts

IInv == TypeOK /\ PublishedReachedBroker /\ BatchOwned /\ LocksInBatch
        /\ MarkAfterSend /\ BatchHasOrg /\ PendingHasBudget

\* Before the first row the invariant holds.
LEMMA InitIInv == Init => IInv
BY RelayAssumption DEF Init, IInv, TypeOK, PublishedReachedBroker, BatchOwned, LocksInBatch,
   MarkAfterSend, BatchHasOrg, PendingHasBudget, NoWrites, Fresh, Row, Statuses

\* A message that is sent stays on the wire.
LEMMA WireGrows ==
    ASSUME TypeOK, NEW x \in Events, wire' = Append(wire, x)
    PROVE  /\ wire' \in Seq(Events)
           /\ OnWire(x)'
           /\ \A e \in Events : OnWire(e) => OnWire(e)'
<1>1. wire \in Seq(Events)
  BY DEF TypeOK
<1>2. /\ wire' \in Seq(Events) /\ Len(wire') = Len(wire) + 1
      /\ \A i \in 1 .. Len(wire) : wire'[i] = wire[i]
      /\ wire'[Len(wire) + 1] = x
  BY <1>1
<1>3. DOMAIN wire = 1 .. Len(wire) /\ DOMAIN wire' = 1 .. Len(wire) + 1 /\ Len(wire) \in Nat
  BY <1>1, <1>2
<1> QED BY <1>2, <1>3 DEF OnWire

\* The row a relay handles next is the oldest of its batch.
LEMMA FirstInBatch ==
    ASSUME IInv
    PROVE  \A r \in Relays : batch[r] # {} =>
              /\ First(batch[r]) \in batch[r] /\ First(batch[r]) \in Events
              /\ \A f \in batch[r] : First(batch[r]) <= f
BY RelayAssumption, FirstIsMember, Zenon DEF IInv, TypeOK

\* AppendOutboxEvent.
LEMMA AppendOutboxEventKeeps ==
    ASSUME IInv, NEW e \in Events, AppendOutboxEvent(e)
    PROVE  IInv'
<1> USE RelayAssumption DEF IInv
<1> USE DEF AppendOutboxEvent, relayVars
<1>1. TypeOK'
  BY DEF TypeOK, Row, Statuses, Fresh
<1>2. PublishedReachedBroker' /\ PendingHasBudget'
  BY DEF TypeOK, PublishedReachedBroker, PendingHasBudget, OnWire, Fresh
<1>3. BatchOwned'
  BY DEF TypeOK, BatchOwned, Fresh
<1>4. LocksInBatch' /\ MarkAfterSend' /\ BatchHasOrg'
  BY DEF TypeOK, LocksInBatch, MarkAfterSend, BatchHasOrg, OnWire
<1> QED BY <1>1, <1>2, <1>3, <1>4

\* RunOnce.
LEMMA RunOnceKeeps ==
    ASSUME IInv, NEW r \in Relays, RunOnce(r)
    PROVE  IInv'
<1> USE RelayAssumption DEF IInv
<1> USE DEF RunOnce
<1>1. TypeOK'
  BY CandidateOrgsType DEF TypeOK
<1>2. PublishedReachedBroker' /\ PendingHasBudget'
  BY DEF PublishedReachedBroker, PendingHasBudget, OnWire
<1>3. BatchOwned'
  BY DEF BatchOwned
<1>4. LocksInBatch' /\ MarkAfterSend' /\ BatchHasOrg'
  BY DEF TypeOK, LocksInBatch, MarkAfterSend, BatchHasOrg, OnWire
<1> QED BY <1>1, <1>2, <1>3, <1>4

\* SkipLockedOrg.
LEMMA SkipLockedOrgKeeps ==
    ASSUME IInv, NEW r \in Relays, SkipLockedOrg(r)
    PROVE  IInv'
<1> USE RelayAssumption DEF IInv
<1> USE DEF SkipLockedOrg
<1>1. TypeOK'
  BY CandidateOrgsType DEF TypeOK
<1>2. PublishedReachedBroker' /\ PendingHasBudget'
  BY Zenon DEF PublishedReachedBroker, PendingHasBudget, OnWire
<1>3. BatchOwned'
  BY DEF BatchOwned
<1>4. LocksInBatch' /\ MarkAfterSend' /\ BatchHasOrg'
  BY DEF TypeOK, LocksInBatch, MarkAfterSend, BatchHasOrg, OnWire
<1> QED BY <1>1, <1>2, <1>3, <1>4

\* TakeBatch.
LEMMA TakeBatchKeeps ==
    ASSUME IInv, NEW r \in Relays, TakeBatch(r)
    PROVE  IInv'
<1> USE RelayAssumption DEF IInv
<1> USE DEF TakeBatch
<1>1. Head(todo[r]) \in Orgs
  BY DEF TypeOK
<1>2. Selected(Head(todo[r])) \subseteq {e \in Pending(Head(todo[r])) : lockedBy[e] = NoTx}
       /\ Pending(Head(todo[r])) \subseteq {e \in Events : row[e].status = "pending"}
  BY DEF Selected, Pending
<1>3. TypeOK'
  BY <1>1, <1>2 DEF TypeOK
<1>4. PublishedReachedBroker' /\ PendingHasBudget'
  BY DEF PublishedReachedBroker, PendingHasBudget, OnWire
<1>5. BatchOwned'
  BY <1>2 DEF BatchOwned, TypeOK
<1>6. LocksInBatch'
  BY <1>2 DEF TypeOK, LocksInBatch, PendingHasBudget, OnWire
<1>7. MarkAfterSend' /\ BatchHasOrg'
  BY DEF TypeOK, MarkAfterSend, BatchHasOrg, OnWire
<1> QED BY <1>1, <1>2, <1>3, <1>4, <1>5, <1>6, <1>7

\* poisonInvalid.
LEMMA PoisonInvalidKeeps ==
    ASSUME IInv, NEW r \in Relays, poisonInvalid(r)
    PROVE  IInv'
<1> USE RelayAssumption DEF IInv
<1> USE DEF poisonInvalid
<1> DEFINE e == First(batch[r])
           poisoned == [status |-> "poisoned", attempts |-> work[r][e].attempts]
<1>1. e \in batch[r] /\ e \in Events /\ work[r][e] \in Row
  BY FirstInBatch DEF TypeOK
<1>2. poisoned \in Row /\ [work[r][e] EXCEPT !.status = "poisoned"] = poisoned
  BY <1>1 DEF Row, Statuses
<1>3. work' = [work EXCEPT ![r] = [work[r] EXCEPT ![e] = poisoned]]
  BY <1>1, <1>2, Zenon DEF TypeOK
<1> HIDE DEF poisonInvalid
<1>4. UNCHANGED <<row, lockedBy, advisory, pc, todo, snap, cancelled, replay, wire, faults, replays>>
      /\ batch' = [batch EXCEPT ![r] = @ \ {e}] /\ pc[r] = "batch"
  BY DEF poisonInvalid
<1>5. poisoned.status = "poisoned"
  OBVIOUS
<1> HIDE DEF e, poisoned
<1>6. TypeOK'
  BY <1>1, <1>2, <1>3, <1>4 DEF TypeOK
<1>7. PublishedReachedBroker' /\ PendingHasBudget'
  BY <1>4 DEF PublishedReachedBroker, PendingHasBudget, OnWire
<1>8. BatchOwned'
  BY <1>1, <1>3, <1>4 DEF BatchOwned, TypeOK
<1>9. LocksInBatch'
  BY <1>1, <1>3, <1>4, <1>5 DEF TypeOK, LocksInBatch, OnWire
<1>10. MarkAfterSend' /\ BatchHasOrg'
  BY <1>4, Zenon DEF TypeOK, MarkAfterSend, BatchHasOrg, OnWire
<1> QED BY <1>6, <1>7, <1>8, <1>9, <1>10

\* publish.
LEMMA PublishKeeps ==
    ASSUME IInv, NEW r \in Relays, publish(r)
    PROVE  IInv'
<1> USE RelayAssumption DEF IInv
<1> USE DEF publish
<1>1. wire' \in Seq(Events) /\ OnWire(First(batch[r]))' /\ \A e \in Events : OnWire(e) => OnWire(e)'
  BY FirstInBatch, WireGrows, Zenon
<1>2. TypeOK'
  BY <1>1 DEF TypeOK
<1>3. PublishedReachedBroker' /\ PendingHasBudget'
  BY <1>1 DEF PublishedReachedBroker, PendingHasBudget
<1>4. BatchOwned'
  BY DEF BatchOwned
<1>5. LocksInBatch'
  BY <1>1 DEF TypeOK, LocksInBatch
<1>6. MarkAfterSend' /\ BatchHasOrg'
  BY <1>1, FirstInBatch, Zenon DEF TypeOK, MarkAfterSend, BatchHasOrg
<1> QED BY <1>1, <1>2, <1>3, <1>4, <1>5, <1>6

\* markPublished.
LEMMA MarkPublishedKeeps ==
    ASSUME IInv, NEW r \in Relays, markPublished(r)
    PROVE  IInv'
<1> USE RelayAssumption DEF IInv
<1> DEFINE e == First(batch[r])
           marked == [status |-> "published", attempts |-> work[r][e].attempts + 1]
<1>1. batch[r] # {} /\ OnWire(e)
  BY DEF markPublished, MarkAfterSend
<1>2. e \in batch[r] /\ e \in Events
  BY FirstInBatch, <1>1
<1> HIDE DEF e
<1>3. work[r][e] \in Row /\ work[r][e].status = "pending" /\ work[r][e].attempts < MaxAttempts
  <2>1. work[r][e] \in Row
    BY <1>2 DEF TypeOK
  <2> QED BY <1>2, <2>1 DEF BatchOwned, PendingHasBudget
<1>4. marked \in Row /\ marked.status = "published"
  BY <1>3 DEF Row, Statuses, exhaustsBudget
<1>5. work' = [work EXCEPT ![r] = [work[r] EXCEPT ![e] = marked]]
  BY <1>2 DEF markPublished, TypeOK, e
<1>6. /\ UNCHANGED <<row, lockedBy, advisory, todo, snap, cancelled, replay, faults, replays>>
      /\ batch' = [batch EXCEPT ![r] = batch[r] \ {e}]
      /\ pc[r] \in {"batch", "mark"} /\ pc' = [pc EXCEPT ![r] = "batch"]
  BY DEF markPublished, TypeOK, e
<1>7. wire' \in Seq(Events) /\ \A f \in Events : OnWire(f) => OnWire(f)'
  BY DEF markPublished, TypeOK, OnWire
<1> HIDE DEF marked
<1>8. TypeOK'
  BY <1>2, <1>4, <1>5, <1>6, <1>7 DEF TypeOK
<1>9. PublishedReachedBroker' /\ PendingHasBudget'
  BY <1>6, <1>7, Zenon DEF PublishedReachedBroker, PendingHasBudget
<1>10. BatchOwned'
  BY <1>2, <1>5, <1>6 DEF BatchOwned, TypeOK
<1>11. LocksInBatch'
  BY <1>1, <1>2, <1>4, <1>5, <1>6, <1>7 DEF TypeOK, LocksInBatch
<1>12. MarkAfterSend' /\ BatchHasOrg'
  BY FirstInBatch, <1>6, <1>7, Zenon DEF TypeOK, MarkAfterSend, BatchHasOrg
<1> QED BY <1>8, <1>9, <1>10, <1>11, <1>12

\* markFailed.
LEMMA MarkFailedKeeps ==
    ASSUME IInv, NEW r \in Relays, markFailed(r)
    PROVE  IInv'
<1> USE RelayAssumption DEF IInv
<1> DEFINE e == First(batch[r])
           marked == [status |-> IF exhaustsBudget(work[r][e].attempts + 1)
                                 THEN "poisoned" ELSE work[r][e].status,
                      attempts |-> work[r][e].attempts + 1]
<1>1. batch[r] # {}
  BY DEF markFailed
<1>2. e \in batch[r] /\ e \in Events
  BY FirstInBatch, <1>1
<1> HIDE DEF e
<1>3. work[r][e] \in Row /\ work[r][e].status = "pending" /\ work[r][e].attempts < MaxAttempts
  <2>1. work[r][e] \in Row
    BY <1>2 DEF TypeOK
  <2> QED BY <1>2, <2>1 DEF BatchOwned, PendingHasBudget
<1>4. marked \in Row
  BY <1>3 DEF Row, Statuses, exhaustsBudget
<1>4a. /\ marked.status \in {"pending", "poisoned"}
       /\ marked.status = "pending" => marked.attempts < MaxAttempts
  BY <1>3 DEF Row, Statuses, exhaustsBudget
<1>5. work' = [work EXCEPT ![r] = [work[r] EXCEPT ![e] = marked]]
  BY <1>2 DEF markFailed, TypeOK, e
<1>6. /\ UNCHANGED <<row, lockedBy, advisory, todo, snap, cancelled, replay, faults, replays>>
      /\ batch' = [batch EXCEPT ![r] = {}]
      /\ pc[r] \in {"batch", "mark"} /\ pc' = [pc EXCEPT ![r] = "batch"]
  BY DEF markFailed, TypeOK, e
<1>7. wire' \in Seq(Events) /\ \A f \in Events : OnWire(f) => OnWire(f)'
  BY <1>2, WireGrows, Zenon DEF markFailed, TypeOK, OnWire, e
<1> HIDE DEF marked
<1>8. TypeOK'
  BY <1>2, <1>4, <1>5, <1>6, <1>7 DEF TypeOK
<1>9. PublishedReachedBroker' /\ PendingHasBudget'
  BY <1>6, <1>7 DEF PublishedReachedBroker, PendingHasBudget
<1>10. BatchOwned'
  BY <1>2, <1>5, <1>6 DEF BatchOwned, TypeOK
<1>11. LocksInBatch'
  BY <1>1, <1>2, <1>4, <1>4a, <1>5, <1>6, <1>7 DEF TypeOK, LocksInBatch
<1>12. MarkAfterSend' /\ BatchHasOrg'
  BY FirstInBatch, <1>6, <1>7, Zenon DEF TypeOK, MarkAfterSend, BatchHasOrg
<1> QED BY <1>8, <1>9, <1>10, <1>11, <1>12

\* CommitBatch.
LEMMA CommitBatchKeeps ==
    ASSUME IInv, NEW r \in Relays, CommitBatch(r)
    PROVE  IInv'
<1> USE RelayAssumption DEF IInv
<1> USE DEF CommitBatch, ReleaseLocks
<1>1. TypeOK'
  BY DEF TypeOK, BatchHasOrg, NoWrites, Fresh, Row, Statuses
<1>2. PublishedReachedBroker'
  BY DEF TypeOK, PublishedReachedBroker, LocksInBatch, OnWire
<1>3. PendingHasBudget'
  BY DEF TypeOK, PendingHasBudget, LocksInBatch
<1>4. BatchOwned'
  BY DEF BatchOwned, TypeOK
<1>5. LocksInBatch'
  BY DEF TypeOK, LocksInBatch, OnWire
<1>6. MarkAfterSend' /\ BatchHasOrg'
  BY DEF TypeOK, MarkAfterSend, BatchHasOrg, OnWire
<1> QED BY <1>1, <1>2, <1>3, <1>4, <1>5, <1>6

\* EndCycle.
LEMMA EndCycleKeeps ==
    ASSUME IInv, NEW r \in Relays, EndCycle(r)
    PROVE  IInv'
<1> USE RelayAssumption DEF IInv
<1> USE DEF EndCycle
<1>1. TypeOK'
  BY CandidateOrgsType DEF TypeOK
<1>2. PublishedReachedBroker' /\ PendingHasBudget'
  BY DEF PublishedReachedBroker, PendingHasBudget, OnWire
<1>3. BatchOwned'
  BY DEF BatchOwned
<1>4. LocksInBatch' /\ MarkAfterSend' /\ BatchHasOrg'
  BY DEF TypeOK, LocksInBatch, MarkAfterSend, BatchHasOrg, OnWire
<1> QED BY <1>1, <1>2, <1>3, <1>4

\* Crash.
LEMMA CrashKeeps ==
    ASSUME IInv, NEW r \in Relays, Crash(r)
    PROVE  IInv'
<1> USE RelayAssumption DEF IInv
<1> USE DEF Crash, Rollback, ReleaseLocks
<1>1. TypeOK'
  BY DEF TypeOK, NoWrites, Fresh, Row, Statuses
<1>2. PublishedReachedBroker' /\ PendingHasBudget'
  BY DEF PublishedReachedBroker, PendingHasBudget, OnWire
<1>3. BatchOwned'
  BY DEF BatchOwned, TypeOK
<1>4. LocksInBatch'
  BY DEF TypeOK, LocksInBatch, OnWire
<1>5. MarkAfterSend' /\ BatchHasOrg'
  BY DEF TypeOK, MarkAfterSend, BatchHasOrg, OnWire
<1> QED BY <1>1, <1>2, <1>3, <1>4, <1>5

\* StopCancelled.
LEMMA StopCancelledKeeps ==
    ASSUME IInv, NEW r \in Relays, StopCancelled(r)
    PROVE  IInv'
<1> USE RelayAssumption DEF IInv
<1> USE DEF StopCancelled, Rollback, ReleaseLocks
<1>1. TypeOK'
  BY DEF TypeOK, NoWrites, Fresh, Row, Statuses
<1>2. PublishedReachedBroker' /\ PendingHasBudget'
  BY DEF PublishedReachedBroker, PendingHasBudget, OnWire
<1>3. BatchOwned'
  BY DEF BatchOwned, TypeOK
<1>4. LocksInBatch'
  BY DEF TypeOK, LocksInBatch, OnWire
<1>5. MarkAfterSend' /\ BatchHasOrg'
  BY DEF TypeOK, MarkAfterSend, BatchHasOrg, OnWire
<1> QED BY <1>1, <1>2, <1>3, <1>4, <1>5

\* Cancel.
LEMMA CancelKeeps ==
    ASSUME IInv, NEW r \in Relays, Cancel(r)
    PROVE  IInv'
<1> USE RelayAssumption DEF IInv
<1> USE DEF Cancel, relayVars
<1>1. TypeOK'
  BY DEF TypeOK
<1>2. PublishedReachedBroker' /\ PendingHasBudget' /\ BatchOwned' /\ LocksInBatch' /\ MarkAfterSend' /\ BatchHasOrg'
  BY DEF TypeOK, PublishedReachedBroker, BatchOwned, LocksInBatch, MarkAfterSend, BatchHasOrg, PendingHasBudget, OnWire
<1> QED BY <1>1, <1>2

\* Restart.
LEMMA RestartKeeps ==
    ASSUME IInv, NEW r \in Relays, Restart(r)
    PROVE  IInv'
<1> USE RelayAssumption DEF IInv
<1> USE DEF Restart
<1>1. TypeOK'
  BY CandidateOrgsType DEF TypeOK
<1>2. PublishedReachedBroker' /\ PendingHasBudget'
  BY DEF PublishedReachedBroker, PendingHasBudget, OnWire
<1>3. BatchOwned'
  BY DEF BatchOwned
<1>4. LocksInBatch' /\ MarkAfterSend' /\ BatchHasOrg'
  BY DEF TypeOK, LocksInBatch, MarkAfterSend, BatchHasOrg, OnWire
<1> QED BY <1>1, <1>2, <1>3, <1>4

\* StartReplay.
LEMMA StartReplayKeeps ==
    ASSUME IInv, NEW kind \in {"poisons", "range"}, NEW window \in SUBSET Events, StartReplay(kind, window)
    PROVE  IInv'
<1> USE RelayAssumption DEF IInv
<1> USE DEF StartReplay, relayVars
<1>1. TypeOK'
  <2>1. {e \in window : Requeueable(kind, e)} \in SUBSET Events
    BY Zenon
  <2> QED BY <2>1 DEF TypeOK
<1>2. PublishedReachedBroker' /\ PendingHasBudget' /\ BatchOwned' /\ LocksInBatch' /\ MarkAfterSend' /\ BatchHasOrg'
  BY DEF TypeOK, PublishedReachedBroker, BatchOwned, LocksInBatch, MarkAfterSend, BatchHasOrg, PendingHasBudget, OnWire
<1> QED BY <1>1, <1>2

\* ReplayLockRow.
LEMMA ReplayLockRowKeeps ==
    ASSUME IInv, NEW e \in Events, ReplayLockRow(e)
    PROVE  IInv'
<1> USE RelayAssumption DEF IInv
<1> USE DEF ReplayLockRow, relayVars
<1>1. TypeOK'
  BY Zenon DEF TypeOK
<1>2. PublishedReachedBroker' /\ PendingHasBudget' /\ MarkAfterSend' /\ BatchHasOrg'
  BY DEF TypeOK, PublishedReachedBroker, PendingHasBudget, MarkAfterSend, BatchHasOrg, OnWire
<1>3. BatchOwned'
  BY DEF BatchOwned, TypeOK
<1>4. LocksInBatch'
  BY DEF TypeOK, LocksInBatch, OnWire
<1> QED BY <1>1, <1>2, <1>3, <1>4

\* ReplayCommit.
LEMMA ReplayCommitKeeps ==
    ASSUME IInv, ReplayCommit
    PROVE  IInv'
<1> USE RelayAssumption DEF IInv
<1> USE DEF ReplayCommit, relayVars
<1>1. TypeOK'
  <2>1. Fresh("pending") \in Row
    BY DEF Fresh, Row, Statuses
  <2>2. row' \in [Events -> Row]
    BY <2>1 DEF TypeOK
  <2>3. lockedBy' \in [Events -> Relays \cup {NoTx, Operator}]
    BY DEF TypeOK
  <2>4. replay' \in [kind : {"none", "poisons", "range"}, rows : SUBSET Events]
    OBVIOUS
  <2> QED BY <2>2, <2>3, <2>4, Zenon DEF TypeOK
<1>2. PublishedReachedBroker' /\ PendingHasBudget' /\ MarkAfterSend' /\ BatchHasOrg'
  BY DEF TypeOK, PublishedReachedBroker, PendingHasBudget, MarkAfterSend, BatchHasOrg, OnWire, Fresh
<1>3. BatchOwned'
  BY DEF BatchOwned, TypeOK
<1>4. LocksInBatch'
  BY DEF TypeOK, LocksInBatch, OnWire
<1> QED BY <1>1, <1>2, <1>3, <1>4

\* Every step of a relay, a producer and the operator keeps it.
LEMMA NextIInv == IInv /\ [Next]_vars => IInv'
<1> SUFFICES ASSUME IInv, [Next]_vars PROVE IInv'
  OBVIOUS
<1>1. ASSUME NEW e \in Events, AppendOutboxEvent(e) PROVE IInv'
  BY <1>1, AppendOutboxEventKeeps
<1>2. ASSUME NEW r \in Relays, RunOnce(r) PROVE IInv'
  BY <1>2, RunOnceKeeps
<1>3. ASSUME NEW r \in Relays, SkipLockedOrg(r) PROVE IInv'
  BY <1>3, SkipLockedOrgKeeps
<1>4. ASSUME NEW r \in Relays, TakeBatch(r) PROVE IInv'
  BY <1>4, TakeBatchKeeps
<1>5. ASSUME NEW r \in Relays, poisonInvalid(r) PROVE IInv'
  BY <1>5, PoisonInvalidKeeps
<1>6. ASSUME NEW r \in Relays, publish(r) PROVE IInv'
  BY <1>6, PublishKeeps
<1>7. ASSUME NEW r \in Relays, markPublished(r) PROVE IInv'
  BY <1>7, MarkPublishedKeeps
<1>8. ASSUME NEW r \in Relays, markFailed(r) PROVE IInv'
  BY <1>8, MarkFailedKeeps
<1>9. ASSUME NEW r \in Relays, CommitBatch(r) PROVE IInv'
  BY <1>9, CommitBatchKeeps
<1>10. ASSUME NEW r \in Relays, EndCycle(r) PROVE IInv'
  BY <1>10, EndCycleKeeps
<1>11. ASSUME NEW r \in Relays, Crash(r) PROVE IInv'
  BY <1>11, CrashKeeps
<1>12. ASSUME NEW r \in Relays, StopCancelled(r) PROVE IInv'
  BY <1>12, StopCancelledKeeps
<1>13. ASSUME NEW r \in Relays, Cancel(r) PROVE IInv'
  BY <1>13, CancelKeeps
<1>14. ASSUME NEW r \in Relays, Restart(r) PROVE IInv'
  BY <1>14, RestartKeeps
<1>15. ASSUME NEW kind \in {"poisons", "range"}, NEW window \in SUBSET Events, StartReplay(kind, window) PROVE IInv'
  BY <1>15, StartReplayKeeps
<1>16. ASSUME NEW e \in Events, ReplayLockRow(e) PROVE IInv'
  BY <1>16, ReplayLockRowKeeps
<1>17. ASSUME ReplayCommit PROVE IInv'
  BY <1>17, ReplayCommitKeeps
<1>18. ASSUME UNCHANGED vars PROVE IInv'
  <2>1. UNCHANGED <<row, lockedBy, advisory, pc, todo, batch, snap, work, cancelled, replay, wire, faults, replays>>
    BY <1>18 DEF vars, relayVars
  <2>2. TypeOK' /\ PublishedReachedBroker' /\ MarkAfterSend'
    BY <2>1 DEF IInv, TypeOK, PublishedReachedBroker, MarkAfterSend, OnWire
  <2>3. BatchOwned' /\ BatchHasOrg' /\ PendingHasBudget'
    BY <2>1 DEF IInv, BatchOwned, BatchHasOrg, PendingHasBudget
  <2>4. LocksInBatch'
    BY <2>1 DEF IInv, LocksInBatch, OnWire
  <2> QED BY <2>2, <2>3, <2>4 DEF IInv
<1> QED
  BY <1>1, <1>2, <1>3, <1>4, <1>5, <1>6, <1>7, <1>8, <1>9, <1>10, <1>11, <1>12, <1>13,
     <1>14, <1>15, <1>16, <1>17, <1>18
  DEF Next, RelayStep, OperatorStep, ReplayPoisons, ReplayRange

\* Type correctness of the relay's state.
THEOREM RelayTypeOK == Spec => []TypeOK
<1>1. IInv => TypeOK
  BY DEF IInv
<1> QED BY InitIInv, NextIInv, <1>1, PTL DEF Spec

\* At-least-once (drainOrg, publish-then-mark): no committed row says published
\* unless the broker has stored its message.
THEOREM AtLeastOnce == Spec => []PublishedReachedBroker
<1>1. IInv => PublishedReachedBroker
  BY DEF IInv
<1> QED BY InitIInv, NextIInv, <1>1, PTL DEF Spec

\* Who sends: only a relay, and only the oldest row that is left of its batch.
LEMMA SenderHandlesOldest ==
    ASSUME IInv, [Next]_vars, NEW e \in Events, wire' = Append(wire, e)
    PROVE  \E r \in Relays : e \in batch[r] /\ e = First(batch[r])
<1>1. wire \in Seq(Events) /\ wire' # wire /\ wire'[Len(wire')] = e
  BY DEF IInv, TypeOK
<1>2. PICK r \in Relays : (publish(r) \/ markFailed(r)) /\ wire' = Append(wire, First(batch[r]))
  <2>1. \E r \in Relays : publish(r) \/ markFailed(r)
    BY <1>1, Zenon DEF Next, RelayStep, OperatorStep, ReplayPoisons, ReplayRange, vars,
       AppendOutboxEvent, RunOnce, SkipLockedOrg, TakeBatch, poisonInvalid, markPublished,
       CommitBatch, EndCycle, Crash, Cancel, StopCancelled, Restart, Rollback,
       StartReplay, ReplayLockRow, ReplayCommit
  <2> QED BY <1>1, <2>1 DEF publish, markFailed
<1>3. batch[r] # {} /\ First(batch[r]) \in batch[r] /\ First(batch[r]) \in Events
  BY <1>2, FirstInBatch DEF publish, markFailed
<1> QED BY <1>1, <1>2, <1>3

\* Two relays never publish the same pending row (the advisory lock and the
\* row locks of drainOrg), and no relay publishes a row that is already marked.
THEOREM OneRelayPerRow == Spec => NoDoublePublish
<1>1. IInv /\ [Next]_vars =>
        [\A e \in Events : wire' = Append(wire, e) =>
            /\ row[e].status = "pending"
            /\ Cardinality({r \in Relays : e \in batch[r]}) = 1]_vars
  <2> SUFFICES ASSUME IInv, [Next]_vars, NEW e \in Events, wire' = Append(wire, e)
               PROVE  /\ row[e].status = "pending"
                      /\ Cardinality({r \in Relays : e \in batch[r]}) = 1
    OBVIOUS
  <2>1. PICK r \in Relays : e \in batch[r]
    BY SenderHandlesOldest
  <2>2. row[e].status = "pending" /\ {q \in Relays : e \in batch[q]} = {r}
    BY <2>1 DEF IInv, BatchOwned
  <2> QED BY <2>2, FS_Singleton, Zenon
<1> QED BY InitIInv, NextIInv, <1>1, PTL DEF Spec, NoDoublePublish

\* Order.  A row is locked under its org's advisory lock, and a row the batch saw
\* pending is still to be handled, decided, or younger than all that is left.
AdvisoryHeld == \A r \in Relays, e \in Events : lockedBy[e] = r => advisory[OrgOf[e]] = r

Decided(r, f) == lockedBy[f] = r /\ work[r][f].status \in {"published", "poisoned"}

OlderDecided ==
    \A r \in Relays : \A f \in snap[r] :
        f \in batch[r] \/ Decided(r, f) \/ \A e \in batch[r] : e < f

OInv == AdvisoryHeld /\ OlderDecided

\* Steps that leave the locks and the batches alone keep the order.
LEMMA OrderUntouched ==
    ASSUME OInv, UNCHANGED <<lockedBy, advisory, batch, snap, work>>
    PROVE  OInv'
BY DEF OInv, AdvisoryHeld, OlderDecided, Decided

\* The scan takes the oldest rows: what it leaves is younger than what it takes.
LEMMA SelectedAreOldest ==
    ASSUME NEW o \in Orgs, NEW e \in Selected(o), NEW f \in Pending(o), lockedBy[f] = NoTx, f \notin Selected(o)
    PROVE  e < f
<1> DEFINE free == {g \in Pending(o) : lockedBy[g] = NoTx}
           Below(x) == {g \in free : g < x}
<1>1. free \subseteq Events /\ e \in free /\ f \in free
  BY DEF Selected, Pending
<1>2. Cardinality(Below(e)) < BatchSize /\ ~(Cardinality(Below(f)) < BatchSize)
  BY <1>1 DEF Selected
<1>3. IsFiniteSet(Below(e)) /\ IsFiniteSet(Below(f)) /\ e \in Nat /\ f \in Nat /\ free \subseteq Nat
  BY <1>1, FS_Subset, RelayAssumption, Zenon
<1>4. ASSUME f <= e PROVE FALSE
  <2>1. Below(f) \subseteq Below(e)
    BY <1>3, <1>4
  <2>2. Cardinality(Below(f)) <= Cardinality(Below(e)) /\ Cardinality(Below(f)) \in Nat /\ Cardinality(Below(e)) \in Nat
    BY <1>3, <2>1, FS_Subset, FS_CardinalityType
  <2> QED BY <1>2, <2>2, RelayAssumption
<1> QED BY <1>3, <1>4

\* TakeBatch: under the advisory lock no other relay holds a row of the org.
LEMMA TakeBatchOrdered ==
    ASSUME IInv, OInv, NEW r \in Relays, TakeBatch(r)
    PROVE  OInv'
<1> DEFINE o == Head(todo[r])
<1>1. o \in Orgs
  BY DEF TakeBatch, IInv, TypeOK
<1>2. /\ advisory[o] = NoTx /\ advisory' = [advisory EXCEPT ![o] = r]
      /\ batch' = [batch EXCEPT ![r] = Selected(o)]
      /\ snap' = [snap EXCEPT ![r] = {e \in Pending(o) : lockedBy[e] # Operator}]
      /\ lockedBy' = [e \in Events |-> IF e \in Selected(o) THEN r ELSE lockedBy[e]]
      /\ work' = [work EXCEPT ![r] = row]
  BY DEF TakeBatch
<1> HIDE DEF o
<1>3. \A e \in Selected(o) : e \in Events /\ OrgOf[e] = o /\ lockedBy[e] = NoTx
  BY DEF Selected, Pending
<1>4. \A e \in Events, q \in Relays : lockedBy[e] = q => OrgOf[e] # o /\ OrgOf[e] \in Orgs
  BY <1>2, RelayAssumption DEF OInv, AdvisoryHeld
<1>5. AdvisoryHeld'
  BY <1>1, <1>2, <1>3, <1>4, RelayAssumption DEF AdvisoryHeld, OInv, IInv, TypeOK
<1>6. ASSUME NEW q \in Relays, NEW f \in snap'[q]
      PROVE  f \in batch'[q] \/ Decided(q, f)' \/ \A e \in batch'[q] : e < f
  <2>1. CASE q = r
    <3>1. f \in Pending(o) /\ lockedBy[f] # Operator /\ batch'[q] = Selected(o)
      BY <1>2, <2>1 DEF IInv, TypeOK
    <3>2. f \in Events /\ OrgOf[f] = o
      BY <3>1 DEF Pending
    <3>3. lockedBy[f] = NoTx
      BY <1>4, <3>1, <3>2 DEF IInv, TypeOK
    <3> QED BY <1>1, <3>1, <3>3, SelectedAreOldest
  <2>2. CASE q # r
    <3>1. batch'[q] = batch[q] /\ snap'[q] = snap[q] /\ work'[q] = work[q] /\ f \in Events
      BY <1>2, <2>2 DEF IInv, TypeOK
    <3>2. lockedBy[f] = q => lockedBy'[f] = q
      BY <1>2, <1>3, <3>1, RelayAssumption
    <3> QED BY <3>1, <3>2 DEF OInv, OlderDecided, Decided
  <2> QED BY <2>1, <2>2
<1> QED BY <1>5, <1>6 DEF OInv, OlderDecided

\* poisonInvalid and markPublished decide the oldest row that is left.
LEMMA DecideOrdered ==
    ASSUME IInv, OInv, NEW r \in Relays, poisonInvalid(r) \/ markPublished(r)
    PROVE  OInv'
<1> DEFINE e == First(batch[r])
<1>1. batch[r] # {}
  BY DEF poisonInvalid, markPublished, IInv, MarkAfterSend
<1>2. e \in batch[r] /\ e \in Events /\ lockedBy[e] = r /\ work[r][e] \in Row
  BY <1>1, FirstInBatch DEF IInv, BatchOwned, TypeOK
<1>3. UNCHANGED <<lockedBy, advisory, snap>> /\ batch' = [batch EXCEPT ![r] = @ \ {e}]
  BY DEF poisonInvalid, markPublished
<1>4. /\ work'[r][e].status \in {"published", "poisoned"}
      /\ \A q \in Relays, f \in Events : q # r \/ f # e => work'[q][f] = work[q][f]
  <2>1. PICK new : /\ work' = [work EXCEPT ![r] = [work[r] EXCEPT ![e] = new]]
                   /\ new.status \in {"published", "poisoned"}
    <3>1. CASE poisonInvalid(r)
      <4>1. work' = [work EXCEPT ![r] = [work[r] EXCEPT ![e] = [work[r][e] EXCEPT !.status = "poisoned"]]]
        BY <1>2, <3>1, Zenon DEF poisonInvalid
      <4>2. [work[r][e] EXCEPT !.status = "poisoned"].status = "poisoned"
        BY <1>2 DEF Row
      <4> QED BY <4>1, <4>2, Zenon
    <3>2. CASE markPublished(r)
      <4>1. work' = [work EXCEPT ![r] = [work[r] EXCEPT ![e] =
                        [status |-> "published", attempts |-> work[r][e].attempts + 1]]]
        BY <3>2, Zenon DEF markPublished
      <4>2. [status |-> "published", attempts |-> work[r][e].attempts + 1].status = "published"
        OBVIOUS
      <4> QED BY <4>1, <4>2, Zenon
    <3> QED BY <3>1, <3>2
  <2> QED BY <1>2, <2>1 DEF IInv, TypeOK
<1> HIDE DEF e
<1>5. AdvisoryHeld'
  BY <1>3 DEF OInv, AdvisoryHeld
<1>6. ASSUME NEW q \in Relays, NEW f \in snap'[q]
      PROVE  f \in batch'[q] \/ Decided(q, f)' \/ \A g \in batch'[q] : g < f
  <2>1. f \in snap[q] /\ f \in Events /\ lockedBy' = lockedBy
    BY <1>3 DEF IInv, TypeOK
  <2>2. batch'[q] = IF q = r THEN batch[q] \ {e} ELSE batch[q]
    BY <1>3, Zenon DEF IInv, TypeOK
  <2>3. f \in batch[q] \/ Decided(q, f) \/ \A g \in batch[q] : g < f
    BY <2>1 DEF OInv, OlderDecided
  <2>4. CASE q = r /\ f = e
    BY <1>2, <1>4, <2>1, <2>4 DEF Decided
  <2>5. CASE q # r \/ f # e
    <3>1. Decided(q, f)' <=> Decided(q, f)
      BY <1>4, <2>1, <2>5 DEF Decided
    <3> QED BY <2>2, <2>3, <2>5, <3>1
  <2> QED BY <2>4, <2>5
<1> QED BY <1>5, <1>6 DEF OInv, OlderDecided

\* markFailed leaves the rest of the batch.
LEMMA MarkFailedOrdered ==
    ASSUME IInv, OInv, NEW r \in Relays, markFailed(r)
    PROVE  OInv'
<1>1. UNCHANGED <<lockedBy, advisory, snap>> /\ batch' = [batch EXCEPT ![r] = {}]
  BY DEF markFailed
<1>2. \A q \in Relays : q # r => work'[q] = work[q]
  BY DEF markFailed, IInv, TypeOK
<1>3. AdvisoryHeld'
  BY <1>1 DEF OInv, AdvisoryHeld
<1>4. ASSUME NEW q \in Relays, NEW f \in snap'[q]
      PROVE  f \in batch'[q] \/ Decided(q, f)' \/ \A e \in batch'[q] : e < f
  <2>1. CASE q = r
    BY <1>1, <2>1 DEF IInv, TypeOK
  <2>2. CASE q # r
    <3>1. batch'[q] = batch[q] /\ work'[q] = work[q] /\ lockedBy' = lockedBy /\ f \in snap[q]
      BY <1>1, <1>2, <1>4, <2>2 DEF IInv, TypeOK
    <3>2. f \in batch[q] \/ Decided(q, f) \/ \A e \in batch[q] : e < f
      BY <3>1 DEF OInv, OlderDecided
    <3> QED BY <3>1, <3>2 DEF Decided
  <2> QED BY <2>1, <2>2
<1> QED BY <1>3, <1>4 DEF OInv, OlderDecided

\* Commit and rollback end the batch and its locks together.
LEMMA ReleaseOrdered ==
    ASSUME IInv, OInv, NEW r \in Relays, ReleaseLocks(r)
    PROVE  OInv'
<1>1. AdvisoryHeld'
  BY RelayAssumption DEF ReleaseLocks, OInv, AdvisoryHeld, IInv, TypeOK
<1>2. OlderDecided'
  BY RelayAssumption DEF ReleaseLocks, OInv, OlderDecided, Decided, IInv, TypeOK
<1> QED BY <1>1, <1>2 DEF OInv

\* The operator takes and frees rows no relay holds.
LEMMA OperatorOrdered ==
    ASSUME IInv, OInv, ReplayCommit \/ \E e \in Events : ReplayLockRow(e)
    PROVE  OInv'
<1>1. UNCHANGED <<advisory, batch, snap, work>>
  BY DEF ReplayCommit, ReplayLockRow, relayVars
<1>2. \A e \in Events, r \in Relays : lockedBy'[e] = r <=> lockedBy[e] = r
  <2>1. CASE ReplayCommit
    BY <2>1, RelayAssumption DEF ReplayCommit, IInv, TypeOK
  <2>2. ASSUME NEW x \in Events, ReplayLockRow(x)
        PROVE  \A e \in Events, r \in Relays : lockedBy'[e] = r <=> lockedBy[e] = r
    BY <2>2, RelayAssumption DEF ReplayLockRow, IInv, TypeOK
  <2> QED BY <2>1, <2>2
<1>3. AdvisoryHeld'
  BY <1>1, <1>2 DEF OInv, AdvisoryHeld
<1>4. OlderDecided'
  BY <1>1, <1>2 DEF OInv, OlderDecided, Decided, IInv, TypeOK
<1> QED BY <1>3, <1>4 DEF OInv

\* Every step keeps the order.
LEMMA NextOInv == IInv /\ OInv /\ [Next]_vars => OInv'
<1> SUFFICES ASSUME IInv, OInv, [Next]_vars PROVE OInv'
  OBVIOUS
<1>1. ASSUME NEW r \in Relays, TakeBatch(r) PROVE OInv'
  BY <1>1, TakeBatchOrdered
<1>2. ASSUME NEW r \in Relays, poisonInvalid(r) \/ markPublished(r) PROVE OInv'
  BY <1>2, DecideOrdered
<1>3. ASSUME NEW r \in Relays, markFailed(r) PROVE OInv'
  BY <1>3, MarkFailedOrdered
<1>4. ASSUME NEW r \in Relays, CommitBatch(r) \/ Crash(r) \/ StopCancelled(r) PROVE OInv'
  BY <1>4, ReleaseOrdered DEF CommitBatch, Crash, StopCancelled, Rollback
<1>5. ASSUME ReplayCommit \/ \E e \in Events : ReplayLockRow(e) PROVE OInv'
  BY <1>5, OperatorOrdered
<1>6. ASSUME NEW r \in Relays, RunOnce(r) \/ SkipLockedOrg(r) \/ publish(r) \/ EndCycle(r) \/ Cancel(r) \/ Restart(r)
      PROVE  OInv'
  BY <1>6, OrderUntouched DEF RunOnce, SkipLockedOrg, publish, EndCycle, Cancel, Restart, relayVars
<1>7. ASSUME UNCHANGED relayVars, UNCHANGED lockedBy PROVE OInv'
  BY <1>7, OrderUntouched DEF relayVars
<1>8. ASSUME NEW e \in Events, AppendOutboxEvent(e) PROVE OInv'
  BY <1>7, <1>8 DEF AppendOutboxEvent
<1>9. ASSUME NEW kind, NEW window, StartReplay(kind, window) PROVE OInv'
  BY <1>7, <1>9 DEF StartReplay
<1>10. ASSUME UNCHANGED vars PROVE OInv'
  BY <1>7, <1>10 DEF vars
<1> QED
  BY <1>1, <1>2, <1>3, <1>4, <1>5, <1>6, <1>8, <1>9, <1>10, Zenon
  DEF Next, RelayStep, OperatorStep, ReplayPoisons, ReplayRange

\* Per-org order (drainOrg): when a row is sent, every older row of its org that
\* the batch saw pending is already decided by the same transaction.
THEOREM OldestFirst == Spec => NoOvertaking
<1>1. Init => OInv
  BY RelayAssumption DEF Init, OInv, AdvisoryHeld, OlderDecided
<1>2. IInv /\ OInv /\ [Next]_vars =>
        [\A r \in Relays : \A e \in batch[r] : wire' = Append(wire, e) =>
            \A f \in snap[r] : f < e =>
                lockedBy[f] = r /\ work[r][f].status \in {"published", "poisoned"}]_vars
  <2> SUFFICES ASSUME IInv, OInv, [Next]_vars, NEW r \in Relays, NEW e \in batch[r], wire' = Append(wire, e),
                      NEW f \in snap[r], f < e
               PROVE  Decided(r, f)
    BY DEF Decided
  <2>1. e \in Events /\ f \in Events /\ e \in Nat /\ f \in Nat /\ lockedBy[e] = r
    BY RelayAssumption DEF IInv, TypeOK, BatchOwned
  <2>2. PICK q \in Relays : e \in batch[q] /\ e = First(batch[q])
    BY <2>1, SenderHandlesOldest
  <2>3. q = r
    BY <2>1, <2>2 DEF IInv, BatchOwned
  <2>4. \A g \in batch[r] : e <= g
    BY <2>2, <2>3, FirstInBatch
  <2> QED BY <2>1, <2>4 DEF OInv, OlderDecided
<1> QED BY InitIInv, NextIInv, NextOInv, <1>1, <1>2, PTL DEF Spec, NoOvertaking
================================================================================
