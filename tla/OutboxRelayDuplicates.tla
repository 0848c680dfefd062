------------------------- MODULE OutboxRelayDuplicates -------------------------
(***************************************************************************)
(* The outbox relay's duplicates are bounded, for every value of its       *)
(* constants.  The argument is an account of sends: each send an event got *)
(* is an attempt its row has counted, was rolled back by a fault, or was   *)
(* granted by an operator's replay.  It rests on the invariant IInv of     *)
(* OutboxRelay.                                                            *)
(***************************************************************************)
EXTENDS OutboxRelay

\* Counting.  What an event's row has counted of its sends in this lifecycle, the
\* send that is about to be marked included; whether the transaction that
\* counted them is doomed; and the replays that are over.
Counted(e) ==
    LET r == lockedBy[e]
    IN  IF r \in Relays
        THEN work[r][e].attempts + IF pc[r] = "mark" /\ First(batch[r]) = e THEN 1 ELSE 0
        ELSE row[e].attempts

Doomed(e) == IF lockedBy[e] \in Relays /\ cancelled[lockedBy[e]] THEN 1 ELSE 0

Granted == MaxAttempts * IF replay.kind = "none" THEN replays ELSE replays - 1

WorkNearRow ==
    \A r \in Relays, e \in Events : lockedBy[e] = r =>
        work[r][e].attempts <= row[e].attempts + 1 /\ work[r][e].status # "absent"

AbsentIsFresh == \A e \in Events : row[e].status = "absent" => row[e].attempts = 0

SendsCounted == \A e \in Events : Occurrences(e) + Doomed(e) <= Granted + Counted(e) + faults

ReplayCounted == replay.kind # "none" => replays # 0

CInv == WorkNearRow /\ AbsentIsFresh /\ SendsCounted /\ ReplayCounted

CountsBounded ==
    /\ Granted \in Nat /\ faults \in Nat
    /\ \A e \in Events : /\ Occurrences(e) \in Nat /\ Doomed(e) \in {0, 1}
                         /\ Counted(e) \in 0 .. MaxAttempts

\* Attempts are numbers.
LEMMA AttemptsNat ==
    ASSUME IInv
    PROVE  \A e \in Events : row[e].attempts \in Nat /\ \A r \in Relays : work[r][e].attempts \in Nat
BY RelayAssumption DEF IInv, TypeOK, Row

\* An event occurs finitely often on the wire.
LEMMA OccurrencesFinite ==
    ASSUME TypeOK, NEW e
    PROVE  IsFiniteSet({i \in DOMAIN wire : wire[i] = e}) /\ Occurrences(e) \in Nat
<1> DEFINE At == {i \in DOMAIN wire : wire[i] = e}
<1>1. DOMAIN wire = 1 .. Len(wire) /\ Len(wire) \in Int /\ 1 \in Int
  BY DEF TypeOK
<1>2. IsFiniteSet(1 .. Len(wire))
  BY <1>1, FS_Interval, Zenon
<1>3. At \subseteq 1 .. Len(wire)
  BY <1>1
<1>4. IsFiniteSet(At)
  BY <1>2, <1>3, FS_Subset, Zenon
<1> QED BY <1>4, FS_CardinalityType, Zenon DEF Occurrences

\* What a send does to the count of an event.
LEMMA SendCounts ==
    ASSUME TypeOK, NEW x \in Events, wire' = Append(wire, x)
    PROVE  \A e \in Events : Occurrences(e)' = Occurrences(e) + IF e = x THEN 1 ELSE 0
<1> SUFFICES ASSUME NEW e \in Events
             PROVE  Occurrences(e)' = Occurrences(e) + IF e = x THEN 1 ELSE 0
  OBVIOUS
<1> DEFINE n == Len(wire)
           At == {i \in DOMAIN wire : wire[i] = e}
           AtNext == {i \in DOMAIN wire' : wire'[i] = e}
<1>1. wire \in Seq(Events) /\ n \in Nat /\ DOMAIN wire = 1 .. n
  BY DEF TypeOK
<1>2. DOMAIN wire' = 1 .. n + 1 /\ wire'[n + 1] = x /\ \A i \in 1 .. n : wire'[i] = wire[i]
  BY <1>1
<1>3. IsFiniteSet(At) /\ n + 1 \notin At
  <2>1. IsFiniteSet(At)
    BY OccurrencesFinite, Zenon
  <2>2. n + 1 \notin At
    BY <1>1
  <2> QED BY <2>1, <2>2
<1>4. AtNext = IF e = x THEN At \cup {n + 1} ELSE At
  BY <1>1, <1>2
<1>5. Cardinality(At) \in Nat /\ Cardinality(At \cup {n + 1}) = Cardinality(At) + 1
  BY <1>3, FS_CardinalityType, FS_AddElement, Zenon
<1>6. Cardinality(AtNext) = Cardinality(At) + IF e = x THEN 1 ELSE 0
  <2> HIDE DEF At, AtNext, n
  <2>1. CASE e = x
    BY <1>4, <1>5, <2>1
  <2>2. CASE e # x
    BY <1>4, <1>5, <2>2
  <2> QED BY <2>1, <2>2
<1> QED BY <1>6, Zenon DEF Occurrences

\* The counts are numbers, and no lifecycle counts more than MaxAttempts sends.
LEMMA CountTypes == IInv /\ ReplayCounted => CountsBounded
<1> SUFFICES ASSUME IInv, ReplayCounted PROVE CountsBounded
  OBVIOUS
<1>1. Granted \in Nat /\ faults \in Nat
  <2> DEFINE k == IF replay.kind = "none" THEN replays ELSE replays - 1
  <2>1. k \in Nat /\ MaxAttempts \in Nat /\ faults \in Nat
    BY RelayAssumption DEF IInv, TypeOK, ReplayCounted
  <2> HIDE DEF k
  <2>2. MaxAttempts * k \in Nat
    BY <2>1
  <2> QED BY <2>1, <2>2 DEF Granted, k
<1>2. ASSUME NEW e \in Events PROVE Occurrences(e) \in Nat
  BY OccurrencesFinite DEF IInv
<1>3. ASSUME NEW e \in Events PROVE Doomed(e) \in {0, 1}
  BY DEF Doomed
<1>4. ASSUME NEW e \in Events PROVE Counted(e) \in 0 .. MaxAttempts
  <2>1. CASE lockedBy[e] \notin Relays
    BY <2>1, RelayAssumption DEF Counted, IInv, TypeOK, Row
  <2>2. CASE lockedBy[e] \in Relays
    <3> DEFINE r == lockedBy[e]
    <3>1. work[r][e].attempts \in 0 .. MaxAttempts
      BY <2>2 DEF IInv, TypeOK, Row
    <3>2. pc[r] = "mark" /\ First(batch[r]) = e => work[r][e].attempts < MaxAttempts
      <4> SUFFICES ASSUME pc[r] = "mark", First(batch[r]) = e PROVE work[r][e].attempts < MaxAttempts
        OBVIOUS
      <4>1. e \in batch[r]
        BY <2>2, FirstInBatch DEF IInv, MarkAfterSend
      <4> QED BY <2>2, <4>1 DEF IInv, BatchOwned, PendingHasBudget
    <3> QED BY <2>2, <3>1, <3>2, RelayAssumption DEF Counted
  <2> QED BY <2>1, <2>2
<1> QED BY <1>1, <1>2, <1>3, <1>4 DEF CountsBounded

\* The same after a step.
LEMMA CountTypesNext == IInv' /\ ReplayCounted' => CountsBounded'
BY CountTypes, PTL

\* A step keeps the account when no event gains more than it pays for.
LEMMA AccountKept ==
    ASSUME IInv, IInv', CInv, WorkNearRow', AbsentIsFresh', ReplayCounted',
           \A e \in Events : Occurrences(e)' + Doomed(e)' + Granted + Counted(e) + faults
                              <= Occurrences(e) + Doomed(e) + Granted' + Counted(e)' + faults'
    PROVE  CInv'
<1>1. CountsBounded /\ CountsBounded'
  BY CountTypes, CountTypesNext DEF CInv
<1>2. ASSUME NEW e \in Events
      PROVE  Occurrences(e)' + Doomed(e)' <= Granted' + Counted(e)' + faults'
  <2>1. /\ Occurrences(e) \in Nat /\ Doomed(e) \in Nat /\ Granted \in Nat /\ Counted(e) \in Nat /\ faults \in Nat
        /\ Occurrences(e)' \in Nat /\ Doomed(e)' \in Nat /\ Granted' \in Nat /\ Counted(e)' \in Nat /\ faults' \in Nat
    BY <1>1, RelayAssumption DEF CountsBounded
  <2>2. Occurrences(e) + Doomed(e) <= Granted + Counted(e) + faults
    BY DEF CInv, SendsCounted
  <2> QED BY <2>1, <2>2
<1> QED BY <1>2 DEF CInv, SendsCounted

\* Steps that send nothing, and take neither an attempt nor a replay into account.
LEMMA AccountUntouched ==
    ASSUME IInv, IInv', CInv, WorkNearRow', AbsentIsFresh',
           UNCHANGED <<wire, faults, replays>>, replay'.kind = replay.kind,
           \A e \in Events : Doomed(e)' <= Doomed(e) /\ Counted(e)' = Counted(e)
    PROVE  CInv'
<1>1. ReplayCounted' /\ Granted' = Granted /\ \A e \in Events : Occurrences(e)' = Occurrences(e)
  BY DEF CInv, ReplayCounted, Granted, Occurrences
<1>2. CountsBounded /\ CountsBounded'
  BY <1>1, CountTypes, CountTypesNext DEF CInv
<1>3. ASSUME NEW e \in Events
      PROVE  Occurrences(e)' + Doomed(e)' + Granted + Counted(e) + faults
                <= Occurrences(e) + Doomed(e) + Granted' + Counted(e)' + faults'
  <2>1. /\ Occurrences(e) \in Nat /\ Doomed(e) \in Nat /\ Granted \in Nat /\ Counted(e) \in Nat /\ faults \in Nat
        /\ Doomed(e)' \in Nat
    BY <1>2, RelayAssumption DEF CountsBounded
  <2> QED BY <1>1, <2>1
<1> QED BY <1>1, <1>3, AccountKept

\* The attempts that a transaction has counted and may lose: one.
LEMMA CountedNearRow ==
    ASSUME IInv, CInv
    PROVE  \A e \in Events : Counted(e) <= row[e].attempts + 1
<1> SUFFICES ASSUME NEW e \in Events PROVE Counted(e) <= row[e].attempts + 1
  OBVIOUS
<1>1. row[e].attempts \in Nat
  BY AttemptsNat
<1>2. CASE lockedBy[e] \notin Relays
  BY <1>1, <1>2 DEF Counted
<1>3. CASE lockedBy[e] \in Relays
  <2> DEFINE r == lockedBy[e]
  <2>1. work[r][e].attempts \in Nat /\ work[r][e].attempts <= row[e].attempts + 1
    BY <1>3, RelayAssumption DEF IInv, TypeOK, Row, CInv, WorkNearRow
  <2>2. CASE pc[r] = "mark" /\ First(batch[r]) = e
    <3>1. e \in batch[r]
      BY <1>3, <2>2, FirstInBatch DEF IInv, MarkAfterSend
    <3>2. work[r][e].attempts = row[e].attempts
      BY <1>3, <3>1 DEF IInv, BatchOwned
    <3> QED BY <1>1, <1>3, <2>2, <3>2 DEF Counted
  <2>3. CASE ~(pc[r] = "mark" /\ First(batch[r]) = e)
    BY <1>3, <2>1, <2>3 DEF Counted
  <2> QED BY <2>2, <2>3
<1> QED BY <1>2, <1>3

\* AppendOutboxEvent: an absent row has counted nothing.
LEMMA AppendCounts ==
    ASSUME IInv, IInv', CInv, NEW x \in Events, AppendOutboxEvent(x)
    PROVE  CInv'
<1>1. /\ UNCHANGED <<lockedBy, batch, pc, work, cancelled, replay, wire, faults, replays>>
      /\ row' = [row EXCEPT ![x] = Fresh("pending")] /\ row[x].status = "absent"
  BY DEF AppendOutboxEvent, relayVars
<1>2. \A e \in Events : row'[e].attempts = row[e].attempts
  BY <1>1 DEF CInv, AbsentIsFresh, Fresh, IInv, TypeOK
<1>3. WorkNearRow'
  BY <1>1, <1>2 DEF CInv, WorkNearRow
<1>4. AbsentIsFresh'
  BY <1>1 DEF CInv, AbsentIsFresh, Fresh, IInv, TypeOK
<1>5. \A e \in Events : Doomed(e)' <= Doomed(e) /\ Counted(e)' = Counted(e)
  BY <1>1, <1>2 DEF Doomed, Counted
<1> QED BY <1>1, <1>3, <1>4, <1>5, AccountUntouched

\* Steps of a relay that has no batch open.
LEMMA BetweenBatchesCounts ==
    ASSUME IInv, IInv', CInv, NEW r \in Relays, RunOnce(r) \/ SkipLockedOrg(r) \/ EndCycle(r) \/ Restart(r)
    PROVE  CInv'
<1>1. /\ UNCHANGED <<row, lockedBy, batch, work, replay, wire, faults, replays>>
      /\ pc[r] \notin {"batch", "mark"} /\ \A q \in Relays : q # r => pc'[q] = pc[q] /\ cancelled'[q] = cancelled[q]
  BY DEF RunOnce, SkipLockedOrg, EndCycle, Restart, IInv, TypeOK
<1>2. \A e \in Events : lockedBy[e] # r
  BY <1>1 DEF IInv, LocksInBatch
<1>3. WorkNearRow' /\ AbsentIsFresh'
  BY <1>1 DEF CInv, WorkNearRow, AbsentIsFresh
<1>4. \A e \in Events : Doomed(e)' <= Doomed(e) /\ Counted(e)' = Counted(e)
  BY <1>1, <1>2 DEF Doomed, Counted
<1> QED BY <1>1, <1>3, <1>4, AccountUntouched

\* TakeBatch: the transaction starts from the committed counts.
LEMMA TakeBatchCounts ==
    ASSUME IInv, IInv', CInv, NEW r \in Relays, TakeBatch(r)
    PROVE  CInv'
<1> DEFINE S == Selected(Head(todo[r]))
<1>1. /\ UNCHANGED <<row, cancelled, replay, wire, faults, replays>>
      /\ pc[r] = "cycle" /\ ~cancelled[r] /\ pc' = [pc EXCEPT ![r] = "batch"]
      /\ batch' = [batch EXCEPT ![r] = S]
      /\ lockedBy' = [e \in Events |-> IF e \in S THEN r ELSE lockedBy[e]]
      /\ work' = [work EXCEPT ![r] = row]
  BY DEF TakeBatch
<1>2. \A e \in S : e \in Events /\ lockedBy[e] = NoTx /\ row[e].status = "pending"
  BY DEF Selected, Pending
<1> HIDE DEF S
<1>3. \A e \in Events : lockedBy[e] # r
  BY <1>1 DEF IInv, LocksInBatch
<1>4. \A q \in Relays : q # r => pc'[q] = pc[q] /\ batch'[q] = batch[q] /\ work'[q] = work[q]
  BY <1>1 DEF IInv, TypeOK
<1>5. pc'[r] = "batch" /\ work'[r] = row
  BY <1>1 DEF IInv, TypeOK
<1>6. \A e \in Events : row[e].attempts \in Nat
  BY AttemptsNat
<1>7. WorkNearRow' /\ AbsentIsFresh'
  BY <1>1, <1>2, <1>3, <1>4, <1>5, <1>6 DEF CInv, WorkNearRow, AbsentIsFresh
<1>8. ASSUME NEW e \in Events PROVE Doomed(e)' <= Doomed(e) /\ Counted(e)' = Counted(e)
  <2>1. CASE e \in S
    <3>1. lockedBy'[e] = r /\ lockedBy[e] \notin Relays
      BY <1>1, <1>2, <2>1, RelayAssumption
    <3>2. Doomed(e)' = 0 /\ Doomed(e) = 0
      BY <1>1, <3>1 DEF Doomed
    <3> QED BY <1>1, <1>5, <1>6, <3>1, <3>2 DEF Counted
  <2>2. CASE e \notin S
    BY <1>1, <1>3, <1>4, <2>2 DEF Doomed, Counted
  <2> QED BY <2>1, <2>2
<1> QED BY <1>1, <1>7, <1>8, AccountUntouched

\* poisonInvalid counts nothing: the row was never sent.
LEMMA PoisonInvalidCounts ==
    ASSUME IInv, IInv', CInv, NEW r \in Relays, poisonInvalid(r)
    PROVE  CInv'
<1> DEFINE e == First(batch[r])
           poisoned == [status |-> "poisoned", attempts |-> work[r][e].attempts]
<1>1. e \in batch[r] /\ e \in Events /\ work[r][e] \in Row
  BY FirstInBatch DEF poisonInvalid, IInv, TypeOK
<1>2. [work[r][e] EXCEPT !.status = "poisoned"] = poisoned
  BY <1>1 DEF Row
<1>3. work' = [work EXCEPT ![r] = [work[r] EXCEPT ![e] = poisoned]]
  BY <1>1, <1>2, Zenon DEF IInv, TypeOK, poisonInvalid
<1>4. /\ UNCHANGED <<row, lockedBy, pc, cancelled, replay, wire, faults, replays>>
      /\ batch' = [batch EXCEPT ![r] = @ \ {e}] /\ pc[r] = "batch"
  BY DEF poisonInvalid
<1>5. poisoned.status = "poisoned" /\ poisoned.attempts = work[r][e].attempts
  OBVIOUS
<1> HIDE DEF e, poisoned
<1>6. /\ \A q \in Relays, f \in Events : work'[q][f].attempts = work[q][f].attempts
      /\ \A q \in Relays, f \in Events : work'[q][f].status \in {work[q][f].status, "poisoned"}
      /\ \A q \in Relays : q # r => batch'[q] = batch[q]
  BY <1>1, <1>3, <1>4, <1>5 DEF IInv, TypeOK
<1>7. WorkNearRow' /\ AbsentIsFresh'
  <2>1. row' = row /\ lockedBy' = lockedBy
    BY <1>4
  <2>2. ASSUME NEW q \in Relays, NEW f \in Events, lockedBy'[f] = q
        PROVE  work'[q][f].attempts <= row'[f].attempts + 1 /\ work'[q][f].status # "absent"
    <3>1. work[q][f].attempts <= row[f].attempts + 1 /\ work[q][f].status # "absent"
      BY <2>1, <2>2 DEF CInv, WorkNearRow
    <3> QED BY <1>6, <2>1, <3>1
  <2>3. AbsentIsFresh'
    BY <2>1 DEF CInv, AbsentIsFresh
  <2> QED BY <2>2, <2>3 DEF WorkNearRow
<1>8. \A f \in Events : Doomed(f)' <= Doomed(f) /\ Counted(f)' = Counted(f)
  BY <1>4, <1>6 DEF Doomed, Counted
<1> QED BY <1>4, <1>7, <1>8, AccountUntouched

\* publish: the send is counted before it is marked.
LEMMA PublishCounts ==
    ASSUME IInv, IInv', CInv, NEW r \in Relays, publish(r)
    PROVE  CInv'
<1> DEFINE e == First(batch[r])
<1>1. /\ UNCHANGED <<row, lockedBy, batch, work, cancelled, replay, faults, replays>>
      /\ pc[r] = "batch" /\ pc' = [pc EXCEPT ![r] = "mark"] /\ wire' = Append(wire, e)
      /\ e \in batch[r] /\ e \in Events
  BY FirstInBatch DEF publish
<1>2. lockedBy[e] = r
  BY <1>1 DEF IInv, BatchOwned
<1>3. \A f \in Events : Occurrences(f)' = Occurrences(f) + IF f = e THEN 1 ELSE 0
  BY <1>1, SendCounts DEF IInv
<1>4. pc'[r] = "mark" /\ \A q \in Relays : q # r => pc'[q] = pc[q]
  BY <1>1 DEF IInv, TypeOK
<1>5. \A f \in Events : Doomed(f)' = Doomed(f) /\ Counted(f)' = Counted(f) + IF f = e THEN 1 ELSE 0
  <2> SUFFICES ASSUME NEW f \in Events
               PROVE  Doomed(f)' = Doomed(f) /\ Counted(f)' = Counted(f) + IF f = e THEN 1 ELSE 0
    OBVIOUS
  <2>1. \A q \in Relays : work[q][f].attempts \in Nat
    BY AttemptsNat
  <2>2. row[f].attempts \in Nat
    BY AttemptsNat
  <2>3. Doomed(f)' = Doomed(f)
    BY <1>1 DEF Doomed
  <2>4. CASE lockedBy[f] = r
    BY <1>1, <1>4, <2>1, <2>3, <2>4 DEF Counted
  <2>5. CASE lockedBy[f] # r
    BY <1>1, <1>2, <1>4, <2>1, <2>2, <2>3, <2>5 DEF Counted
  <2> QED BY <2>4, <2>5
<1>6. WorkNearRow' /\ AbsentIsFresh' /\ ReplayCounted' /\ Granted' = Granted /\ faults' = faults
  BY <1>1 DEF CInv, WorkNearRow, AbsentIsFresh, ReplayCounted, Granted
<1>7. CountsBounded
  BY CountTypes DEF CInv
<1> HIDE DEF e
<1>8. ASSUME NEW f \in Events
      PROVE  Occurrences(f)' + Doomed(f)' + Granted + Counted(f) + faults
                <= Occurrences(f) + Doomed(f) + Granted' + Counted(f)' + faults'
  <2>1. Occurrences(f) \in Nat /\ Doomed(f) \in Nat /\ Granted \in Nat /\ Counted(f) \in Nat /\ faults \in Nat
    BY <1>7, RelayAssumption DEF CountsBounded
  <2> QED BY <1>3, <1>5, <1>6, <2>1
<1> QED BY <1>6, <1>8, AccountKept

\* markPublished: the attempt it writes is the send it follows.
LEMMA MarkPublishedCounts ==
    ASSUME IInv, IInv', CInv, NEW r \in Relays, markPublished(r)
    PROVE  CInv'
<1> DEFINE e == First(batch[r])
           marked == [status |-> "published", attempts |-> work[r][e].attempts + 1]
<1>1. batch[r] # {} /\ e \in batch[r] /\ e \in Events
  BY FirstInBatch DEF markPublished, IInv, MarkAfterSend
<1>2. /\ UNCHANGED <<row, lockedBy, cancelled, replay, wire, faults, replays>>
      /\ pc[r] = "mark" /\ pc' = [pc EXCEPT ![r] = "batch"]
      /\ batch' = [batch EXCEPT ![r] = @ \ {e}]
      /\ work' = [work EXCEPT ![r] = [work[r] EXCEPT ![e] = marked]]
  BY <1>1 DEF markPublished, IInv, TypeOK
<1>3. marked.status = "published" /\ marked.attempts = work[r][e].attempts + 1
  OBVIOUS
<1>4. lockedBy[e] = r /\ work[r][e] = row[e] /\ row[e].attempts \in Nat
  <2>1. BatchOwned /\ row[e].attempts \in Nat
    BY <1>1, AttemptsNat DEF IInv
  <2> QED BY <1>1, <2>1, Zenon DEF BatchOwned
<1>5. First(batch[r]) = e
  OBVIOUS
<1> HIDE DEF e, marked
<1>6. /\ pc'[r] = "batch" /\ work'[r][e] = marked
      /\ \A f \in Events : f # e => work'[r][f] = work[r][f]
      /\ \A q \in Relays : q # r => pc'[q] = pc[q] /\ work'[q] = work[q] /\ batch'[q] = batch[q]
  BY <1>1, <1>2 DEF IInv, TypeOK
<1>7. WorkNearRow' /\ AbsentIsFresh'
  <2>1. AbsentIsFresh'
    BY <1>2 DEF CInv, AbsentIsFresh
  <2>2. ASSUME NEW q \in Relays, NEW f \in Events, lockedBy[f] = q
        PROVE  work'[q][f].attempts <= row[f].attempts + 1 /\ work'[q][f].status # "absent"
    <3>1. CASE q = r /\ f = e
      BY <1>3, <1>4, <1>6, <3>1
    <3>2. CASE ~(q = r /\ f = e)
      BY <1>6, <2>2, <3>2 DEF CInv, WorkNearRow
    <3> QED BY <3>1, <3>2
  <2> QED BY <1>2, <2>1, <2>2 DEF WorkNearRow
<1>8. ASSUME NEW f \in Events PROVE Doomed(f)' <= Doomed(f) /\ Counted(f)' = Counted(f)
  <2>1. Doomed(f)' <= Doomed(f)
    BY <1>2 DEF Doomed
  <2>2. CASE f = e
    BY <1>2, <1>3, <1>4, <1>5, <1>6, <2>1, <2>2 DEF Counted
  <2>3. CASE f # e /\ lockedBy[f] = r
    <3>1. work[r][f].attempts \in Nat
      BY AttemptsNat
    <3> QED BY <1>2, <1>5, <1>6, <2>1, <2>3, <3>1 DEF Counted
  <2>4. CASE lockedBy[f] # r
    BY <1>2, <1>6, <2>1, <2>4 DEF Counted
  <2> QED BY <1>4, <2>2, <2>3, <2>4
<1> QED BY <1>2, <1>7, <1>8, AccountUntouched

\* markFailed: at most one send, and one attempt counted.
LEMMA MarkFailedCounts ==
    ASSUME IInv, IInv', CInv, NEW r \in Relays, markFailed(r)
    PROVE  CInv'
<1> DEFINE e == First(batch[r])
           marked == [status |-> IF exhaustsBudget(work[r][e].attempts + 1)
                                 THEN "poisoned" ELSE work[r][e].status,
                      attempts |-> work[r][e].attempts + 1]
<1>1. e \in batch[r] /\ e \in Events
  BY FirstInBatch DEF markFailed
<1>2. /\ UNCHANGED <<row, lockedBy, pc, cancelled, replay, faults, replays>>
      /\ pc[r] = "batch" /\ batch' = [batch EXCEPT ![r] = {}]
      /\ wire' \in {wire, Append(wire, e)}
      /\ work' = [work EXCEPT ![r] = [work[r] EXCEPT ![e] = marked]]
  BY <1>1 DEF markFailed, IInv, TypeOK
<1>3. lockedBy[e] = r /\ work[r][e] = row[e] /\ row[e].status = "pending" /\ row[e].attempts \in Nat
  BY <1>1, AttemptsNat DEF IInv, BatchOwned
<1>4. marked.status # "absent" /\ marked.attempts = work[r][e].attempts + 1
  BY <1>3
<1> HIDE DEF e, marked
<1>5. /\ work'[r][e] = marked
      /\ \A f \in Events : f # e => work'[r][f] = work[r][f]
      /\ \A q \in Relays : q # r => work'[q] = work[q] /\ batch'[q] = batch[q]
  BY <1>1, <1>2 DEF IInv, TypeOK
<1>6. WorkNearRow'
  <2>1. ASSUME NEW q \in Relays, NEW f \in Events, lockedBy[f] = q
        PROVE  work'[q][f].attempts <= row[f].attempts + 1 /\ work'[q][f].status # "absent"
    <3>1. CASE q = r /\ f = e
      BY <1>3, <1>4, <1>5, <3>1
    <3>2. CASE ~(q = r /\ f = e)
      BY <1>5, <2>1, <3>2 DEF CInv, WorkNearRow
    <3> QED BY <3>1, <3>2
  <2> QED BY <1>2, <2>1 DEF WorkNearRow
<1>7. AbsentIsFresh' /\ ReplayCounted' /\ Granted' = Granted /\ faults' = faults
  BY <1>2 DEF CInv, AbsentIsFresh, ReplayCounted, Granted
<1>8. CountsBounded /\ CountsBounded'
  BY <1>7, CountTypes, CountTypesNext DEF CInv
<1>9. \A f \in Events : Occurrences(f)' \in {Occurrences(f), Occurrences(f) + IF f = e THEN 1 ELSE 0}
  <2>1. CASE wire' = wire
    BY <2>1 DEF Occurrences
  <2>2. CASE wire' = Append(wire, e)
    BY <1>1, <2>2, SendCounts DEF IInv
  <2> QED BY <1>2, <2>1, <2>2
<1>10. ASSUME NEW f \in Events PROVE Counted(f)' = Counted(f) + IF f = e THEN 1 ELSE 0
  <2>1. Counted(f) \in Nat
    BY <1>8, RelayAssumption DEF CountsBounded
  <2>2. CASE f = e
    BY <1>2, <1>3, <1>4, <1>5, <2>2 DEF Counted
  <2>3. CASE f # e /\ lockedBy[f] = r
    <3>1. Counted(f)' = Counted(f)
      BY <1>2, <1>5, <2>3 DEF Counted
    <3> QED BY <2>1, <2>3, <3>1
  <2>4. CASE lockedBy[f] # r
    <3>1. Counted(f)' = Counted(f) /\ f # e
      BY <1>2, <1>3, <1>5, <2>4 DEF Counted
    <3> QED BY <2>1, <3>1
  <2> QED BY <2>2, <2>3, <2>4
<1>11. \A f \in Events : Doomed(f)' = Doomed(f)
  BY <1>2 DEF Doomed
<1>12. ASSUME NEW f \in Events
       PROVE  Occurrences(f)' + Doomed(f)' + Granted + Counted(f) + faults
                 <= Occurrences(f) + Doomed(f) + Granted' + Counted(f)' + faults'
  <2>1. Occurrences(f) \in Nat /\ Doomed(f) \in Nat /\ Granted \in Nat /\ Counted(f) \in Nat /\ faults \in Nat
    BY <1>8, RelayAssumption DEF CountsBounded
  <2> QED BY <1>7, <1>9, <1>10, <1>11, <2>1
<1> QED BY <1>6, <1>7, <1>12, AccountKept

\* CommitBatch: the committed counts are those of the transaction.
LEMMA CommitBatchCounts ==
    ASSUME IInv, IInv', CInv, NEW r \in Relays, CommitBatch(r)
    PROVE  CInv'
<1>1. /\ UNCHANGED <<cancelled, replay, wire, faults, replays>>
      /\ pc[r] = "batch" /\ ~cancelled[r]
      /\ row' = [e \in Events |-> IF lockedBy[e] = r THEN work[r][e] ELSE row[e]]
      /\ lockedBy' = [e \in Events |-> IF lockedBy[e] = r THEN NoTx ELSE lockedBy[e]]
  BY DEF CommitBatch, ReleaseLocks
<1>2. \A q \in Relays : q # r => pc'[q] = pc[q] /\ batch'[q] = batch[q] /\ work'[q] = work[q]
  BY DEF CommitBatch, ReleaseLocks, IInv, TypeOK
<1>3. WorkNearRow'
  BY <1>1, <1>2, RelayAssumption DEF CInv, WorkNearRow
<1>4. AbsentIsFresh'
  BY <1>1 DEF CInv, WorkNearRow, AbsentIsFresh
<1>5. ASSUME NEW e \in Events PROVE Doomed(e)' <= Doomed(e) /\ Counted(e)' = Counted(e)
  <2>1. CASE lockedBy[e] = r
    <3>1. lockedBy'[e] \notin Relays /\ row'[e] = work[r][e]
      BY <1>1, <2>1, RelayAssumption
    <3>2. work[r][e].attempts \in Nat
      BY AttemptsNat
    <3>3. Doomed(e)' = 0 /\ Doomed(e) = 0
      BY <1>1, <2>1, <3>1 DEF Doomed
    <3>4. Counted(e)' = work[r][e].attempts
      BY <3>1 DEF Counted
    <3>5. Counted(e) = work[r][e].attempts
      BY <1>1, <2>1, <3>2 DEF Counted
    <3> QED BY <3>3, <3>4, <3>5
  <2>2. CASE lockedBy[e] # r
    <3>1. lockedBy'[e] = lockedBy[e] /\ row'[e] = row[e]
      BY <1>1, <2>2
    <3> QED BY <1>1, <1>2, <2>2, <3>1, SMTT(30) DEF Doomed, Counted
  <2> QED BY <2>1, <2>2
<1> QED BY <1>1, <1>3, <1>4, <1>5, AccountUntouched

\* A rollback loses the count of at most one send; the fault, or the shutdown that
\* doomed the transaction, pays for it.
LEMMA RollbackCounts ==
    ASSUME IInv, IInv', CInv, NEW r \in Relays, Crash(r) \/ StopCancelled(r)
    PROVE  CInv'
<1>1. /\ UNCHANGED <<row, cancelled, replay, wire, replays>>
      /\ lockedBy' = [e \in Events |-> IF lockedBy[e] = r THEN NoTx ELSE lockedBy[e]]
      /\ (faults' = faults + 1 \/ (cancelled[r] /\ faults' = faults))
  BY DEF Crash, StopCancelled, Rollback, ReleaseLocks
<1>2. \A q \in Relays : q # r => pc'[q] = pc[q] /\ batch'[q] = batch[q] /\ work'[q] = work[q]
  BY DEF Crash, StopCancelled, Rollback, ReleaseLocks, IInv, TypeOK
<1>3. WorkNearRow'
  <2> SUFFICES ASSUME NEW q \in Relays, NEW e \in Events, lockedBy'[e] = q
               PROVE  work'[q][e].attempts <= row'[e].attempts + 1 /\ work'[q][e].status # "absent"
    BY DEF WorkNearRow
  <2>1. q # r /\ lockedBy[e] = q /\ work'[q] = work[q] /\ row' = row
    BY <1>1, <1>2, RelayAssumption
  <2> QED BY <2>1 DEF CInv, WorkNearRow
<1>4. AbsentIsFresh' /\ ReplayCounted' /\ Granted' = Granted
  BY <1>1 DEF CInv, AbsentIsFresh, ReplayCounted, Granted
<1>5. CountsBounded
  BY CountTypes DEF CInv
<1>6. \A e \in Events : Occurrences(e)' = Occurrences(e)
  BY <1>1 DEF Occurrences
<1>7. ASSUME NEW e \in Events
      PROVE  Occurrences(e)' + Doomed(e)' + Granted + Counted(e) + faults
                <= Occurrences(e) + Doomed(e) + Granted' + Counted(e)' + faults'
  <2>1. Occurrences(e) \in Nat /\ Doomed(e) \in Nat /\ Granted \in Nat /\ Counted(e) \in Nat /\ faults \in Nat
    BY <1>5, RelayAssumption DEF CountsBounded
  <2>2. CASE lockedBy[e] = r
    <3>1. lockedBy'[e] \notin Relays
      BY <1>1, <2>2, RelayAssumption
    <3>2. Doomed(e)' = 0 /\ Counted(e)' = row[e].attempts
      BY <1>1, <3>1 DEF Doomed, Counted
    <3>3. Counted(e) <= row[e].attempts + 1 /\ row[e].attempts \in Nat
      BY CountedNearRow, AttemptsNat
    <3>4. cancelled[r] => Doomed(e) = 1
      BY <2>2 DEF Doomed
    <3>5. faults' = faults + 1 \/ (Doomed(e) = 1 /\ faults' = faults)
      BY <1>1, <3>4
    <3>6. Granted' = Granted /\ Occurrences(e)' = Occurrences(e)
      BY <1>4, <1>6
    <3> QED BY <2>1, <3>2, <3>3, <3>5, <3>6
  <2>3. CASE lockedBy[e] # r
    <3>1. lockedBy'[e] = lockedBy[e]
      BY <1>1, <2>3
    <3>2. Doomed(e)' = Doomed(e) /\ Counted(e)' = Counted(e)
      BY <1>1, <1>2, <2>3, <3>1 DEF Doomed, Counted
    <3> QED BY <1>1, <1>4, <1>6, <2>1, <3>2
  <2> QED BY <2>2, <2>3
<1> QED BY <1>3, <1>4, <1>7, AccountKept

\* Cancel: the shutdown dooms the rows the relay holds.
LEMMA CancelCounts ==
    ASSUME IInv, IInv', CInv, NEW r \in Relays, Cancel(r)
    PROVE  CInv'
<1>1. UNCHANGED <<row, lockedBy, pc, batch, work, replay, wire, replays>> /\ faults' = faults + 1
  BY DEF Cancel, relayVars
<1>2. WorkNearRow' /\ AbsentIsFresh' /\ ReplayCounted' /\ Granted' = Granted
  BY <1>1 DEF CInv, WorkNearRow, AbsentIsFresh, ReplayCounted, Granted
<1>3. CountsBounded /\ CountsBounded'
  BY <1>2, CountTypes, CountTypesNext DEF CInv
<1>4. \A e \in Events : Occurrences(e)' = Occurrences(e) /\ Counted(e)' = Counted(e)
  BY <1>1 DEF Occurrences, Counted
<1>5. ASSUME NEW e \in Events
      PROVE  Occurrences(e)' + Doomed(e)' + Granted + Counted(e) + faults
                <= Occurrences(e) + Doomed(e) + Granted' + Counted(e)' + faults'
  <2>1. /\ Occurrences(e) \in Nat /\ Doomed(e) \in {0, 1} /\ Granted \in Nat /\ Counted(e) \in Nat /\ faults \in Nat
        /\ Doomed(e)' \in {0, 1}
    BY <1>3, RelayAssumption DEF CountsBounded
  <2> QED BY <1>1, <1>2, <1>4, <2>1
<1> QED BY <1>2, <1>5, AccountKept

\* StartReplay: the lifecycle a replay grants begins when it commits.
LEMMA StartReplayCounts ==
    ASSUME IInv, IInv', CInv, NEW kind \in {"poisons", "range"}, NEW window, StartReplay(kind, window)
    PROVE  CInv'
<1>1. /\ UNCHANGED <<row, lockedBy, pc, batch, work, cancelled, wire, faults>>
      /\ replay.kind = "none" /\ replays' = replays + 1 /\ replays \in Nat
      /\ replay'.kind = kind /\ kind # "none"
  BY RelayAssumption DEF StartReplay, relayVars, IInv, TypeOK
<1>2. WorkNearRow' /\ AbsentIsFresh'
  BY <1>1 DEF CInv, WorkNearRow, AbsentIsFresh
<1>3. ReplayCounted' /\ Granted' = Granted
  <2>1. replays' # 0 /\ replays' - 1 = replays
    BY <1>1
  <2> QED BY <1>1, <2>1 DEF ReplayCounted, Granted
<1>4. CountsBounded
  BY CountTypes DEF CInv
<1>5. \A e \in Events : Occurrences(e)' = Occurrences(e) /\ Counted(e)' = Counted(e) /\ Doomed(e)' = Doomed(e)
  BY <1>1 DEF Occurrences, Counted, Doomed
<1>6. ASSUME NEW e \in Events
      PROVE  Occurrences(e)' + Doomed(e)' + Granted + Counted(e) + faults
                <= Occurrences(e) + Doomed(e) + Granted' + Counted(e)' + faults'
  <2>1. Occurrences(e) \in Nat /\ Doomed(e) \in Nat /\ Granted \in Nat /\ Counted(e) \in Nat /\ faults \in Nat
    BY <1>4, RelayAssumption DEF CountsBounded
  <2> QED BY <1>1, <1>3, <1>5, <2>1
<1> QED BY <1>2, <1>3, <1>6, AccountKept

\* ReplayLockRow takes only rows that no relay holds.
LEMMA ReplayLockRowCounts ==
    ASSUME IInv, IInv', CInv, NEW x \in Events, ReplayLockRow(x)
    PROVE  CInv'
<1>1. /\ UNCHANGED <<row, pc, batch, work, cancelled, wire, faults, replays>>
      /\ lockedBy[x] = NoTx /\ \A e \in Events : lockedBy'[e] # lockedBy[e] => e = x /\ lockedBy'[e] = Operator
  BY DEF ReplayLockRow, relayVars, IInv, TypeOK
<1>2. replay'.kind = replay.kind
  BY DEF ReplayLockRow, IInv, TypeOK
<1>3. WorkNearRow' /\ AbsentIsFresh'
  BY <1>1, RelayAssumption DEF CInv, WorkNearRow, AbsentIsFresh
<1>4. ASSUME NEW e \in Events PROVE Doomed(e)' <= Doomed(e) /\ Counted(e)' = Counted(e)
  <2>1. CASE lockedBy'[e] = lockedBy[e]
    BY <1>1, <2>1 DEF Doomed, Counted
  <2>2. CASE lockedBy'[e] # lockedBy[e]
    <3>1. lockedBy'[e] \notin Relays /\ lockedBy[e] \notin Relays
      BY <1>1, <2>2, RelayAssumption
    <3> QED BY <1>1, <3>1 DEF Doomed, Counted
  <2> QED BY <2>1, <2>2
<1> QED BY <1>1, <1>2, <1>3, <1>4, AccountUntouched

\* ReplayCommit: a row starts again from zero, and the replay grants it as many
\* sends as it can have counted.
LEMMA ReplayCommitCounts ==
    ASSUME IInv, IInv', CInv, ReplayCommit
    PROVE  CInv'
<1>1. /\ UNCHANGED <<pc, batch, work, cancelled, wire, faults, replays>>
      /\ replay.kind # "none" /\ replay'.kind = "none" /\ replays \in Nat \ {0}
      /\ row' = [e \in Events |-> IF lockedBy[e] = Operator THEN Fresh("pending") ELSE row[e]]
      /\ lockedBy' = [e \in Events |-> IF lockedBy[e] = Operator THEN NoTx ELSE lockedBy[e]]
  <2>1. /\ UNCHANGED <<pc, batch, work, cancelled, wire, faults, replays>>
        /\ replay.kind # "none" /\ replay' = [kind |-> "none", rows |-> {}]
        /\ row' = [e \in Events |-> IF lockedBy[e] = Operator THEN Fresh("pending") ELSE row[e]]
        /\ lockedBy' = [e \in Events |-> IF lockedBy[e] = Operator THEN NoTx ELSE lockedBy[e]]
    BY DEF ReplayCommit, relayVars
  <2>2. replays \in Nat \ {0}
    <3>1. replays # 0
      BY <2>1 DEF CInv, ReplayCounted
    <3>2. replays \in 0 .. MaxReplays
      BY DEF IInv, TypeOK
    <3> QED BY <3>1, <3>2, RelayAssumption
  <2>3. replay'.kind = "none"
    BY <2>1
  <2> QED BY <2>1, <2>2, <2>3, Zenon
<1>2. WorkNearRow'
  BY <1>1, RelayAssumption DEF CInv, WorkNearRow
<1>3. AbsentIsFresh'
  BY <1>1 DEF CInv, AbsentIsFresh, Fresh
<1>4. ReplayCounted' /\ Granted' = Granted + MaxAttempts
  <2>1. \A m \in Nat, n \in Nat \ {0} : m * n = m * (n - 1) + m
    OBVIOUS
  <2>2. MaxAttempts * replays = MaxAttempts * (replays - 1) + MaxAttempts
    BY <1>1, <2>1, RelayAssumption
  <2>3. Granted' = MaxAttempts * replays /\ Granted = MaxAttempts * (replays - 1)
    BY <1>1 DEF Granted
  <2> QED BY <1>1, <2>2, <2>3 DEF ReplayCounted
<1>5. CountsBounded /\ CountsBounded'
  BY <1>4, CountTypes, CountTypesNext DEF CInv
<1>6. ASSUME NEW e \in Events PROVE Doomed(e)' = Doomed(e) /\ Occurrences(e)' = Occurrences(e)
  BY <1>1, RelayAssumption DEF Doomed, Occurrences
<1>7. ASSUME NEW e \in Events, lockedBy[e] # Operator PROVE Counted(e)' = Counted(e)
  <2>1. lockedBy'[e] = lockedBy[e] /\ row'[e] = row[e]
    BY <1>1, <1>7
  <2> QED BY <1>1, <2>1 DEF Counted
<1>8. ASSUME NEW e \in Events
      PROVE  Occurrences(e)' + Doomed(e)' + Granted + Counted(e) + faults
                <= Occurrences(e) + Doomed(e) + Granted' + Counted(e)' + faults'
  <2>1. /\ Occurrences(e) \in Nat /\ Doomed(e) \in Nat /\ Granted \in Nat /\ faults \in Nat
        /\ Counted(e) \in Nat /\ Counted(e) <= MaxAttempts /\ Counted(e)' \in Nat /\ MaxAttempts \in Nat
    BY <1>5, RelayAssumption DEF CountsBounded
  <2> QED BY <1>1, <1>4, <1>6, <2>1
<1> QED BY <1>2, <1>3, <1>4, <1>8, AccountKept

\* Every step keeps the account.
LEMMA NextCInv == IInv /\ CInv /\ [Next]_vars => CInv'
<1> SUFFICES ASSUME IInv, CInv, [Next]_vars PROVE CInv'
  OBVIOUS
<1>0. IInv'
  BY NextIInv
<1>1. ASSUME NEW e \in Events, AppendOutboxEvent(e) PROVE CInv'
  BY <1>0, <1>1, AppendCounts
<1>2. ASSUME NEW r \in Relays, RunOnce(r) \/ SkipLockedOrg(r) \/ EndCycle(r) \/ Restart(r) PROVE CInv'
  BY <1>0, <1>2, BetweenBatchesCounts
<1>3. ASSUME NEW r \in Relays, TakeBatch(r) PROVE CInv'
  BY <1>0, <1>3, TakeBatchCounts
<1>4. ASSUME NEW r \in Relays, poisonInvalid(r) PROVE CInv'
  BY <1>0, <1>4, PoisonInvalidCounts
<1>5. ASSUME NEW r \in Relays, publish(r) PROVE CInv'
  BY <1>0, <1>5, PublishCounts
<1>6. ASSUME NEW r \in Relays, markPublished(r) PROVE CInv'
  BY <1>0, <1>6, MarkPublishedCounts
<1>7. ASSUME NEW r \in Relays, markFailed(r) PROVE CInv'
  BY <1>0, <1>7, MarkFailedCounts
<1>8. ASSUME NEW r \in Relays, CommitBatch(r) PROVE CInv'
  BY <1>0, <1>8, CommitBatchCounts
<1>9. ASSUME NEW r \in Relays, Crash(r) \/ StopCancelled(r) PROVE CInv'
  BY <1>0, <1>9, RollbackCounts
<1>10. ASSUME NEW r \in Relays, Cancel(r) PROVE CInv'
  BY <1>0, <1>10, CancelCounts
<1>11. ASSUME NEW kind \in {"poisons", "range"}, NEW window, StartReplay(kind, window) PROVE CInv'
  BY <1>0, <1>11, StartReplayCounts
<1>12. ASSUME NEW e \in Events, ReplayLockRow(e) PROVE CInv'
  BY <1>0, <1>12, ReplayLockRowCounts
<1>13. ASSUME ReplayCommit PROVE CInv'
  BY <1>0, <1>13, ReplayCommitCounts
<1>14. ASSUME UNCHANGED vars PROVE CInv'
  BY <1>14 DEF vars, relayVars, CInv, WorkNearRow, AbsentIsFresh, SendsCounted, ReplayCounted,
     Occurrences, Doomed, Granted, Counted
<1> QED
  BY <1>1, <1>2, <1>3, <1>4, <1>5, <1>6, <1>7, <1>8, <1>9, <1>10, <1>11, <1>12, <1>13, <1>14
  DEF Next, RelayStep, OperatorStep, ReplayPoisons, ReplayRange

\* Duplicates are bounded (exhaustsBudget and the rollback of drainOrg): an event
\* reaches the broker at most MaxAttempts times per lifecycle, and once more for
\* every crash or shutdown, however many relays, rows and replays there are.
THEOREM BoundedDuplicates == Spec => []DuplicatesBounded
<1>1. Init => CInv
  <2> SUFFICES ASSUME Init PROVE CInv
    OBVIOUS
  <2>1. WorkNearRow /\ AbsentIsFresh /\ ReplayCounted
    BY RelayAssumption DEF Init, WorkNearRow, AbsentIsFresh, ReplayCounted, NoWrites, Fresh
  <2>2. CountsBounded
    BY <2>1, InitIInv, CountTypes
  <2>3. ASSUME NEW e \in Events PROVE Occurrences(e) = 0 /\ Doomed(e) = 0
    <3>1. {i \in DOMAIN wire : wire[i] = e} = {}
      BY DEF Init
    <3>2. Occurrences(e) = 0
      BY <3>1, FS_EmptySet, Zenon DEF Occurrences
    <3>3. Doomed(e) = 0
      BY RelayAssumption DEF Init, Doomed
    <3> QED BY <3>2, <3>3
  <2>4. SendsCounted
    <3> SUFFICES ASSUME NEW e \in Events PROVE Occurrences(e) + Doomed(e) <= Granted + Counted(e) + faults
      BY DEF SendsCounted
    <3>1. Granted \in Nat /\ Counted(e) \in Nat /\ faults \in Nat
      BY <2>2, RelayAssumption DEF CountsBounded
    <3> QED BY <2>3, <3>1
  <2> QED BY <2>1, <2>4 DEF CInv
<1>2. IInv /\ CInv => DuplicatesBounded
  <2> SUFFICES ASSUME IInv, CInv, NEW e \in Events
               PROVE  Occurrences(e) <= MaxAttempts * (1 + replays) + faults
    BY DEF DuplicatesBounded
  <2>1. CountsBounded /\ replays \in Nat /\ MaxAttempts \in Nat
    BY CountTypes, RelayAssumption DEF CInv, IInv, TypeOK
  <2>2. Granted <= MaxAttempts * replays
    <3>1. \A m \in Nat, n \in Nat : m * (n - 1) <= m * n
      OBVIOUS
    <3>2. MaxAttempts * (replays - 1) <= MaxAttempts * replays /\ MaxAttempts * replays <= MaxAttempts * replays
      BY <2>1, <3>1
    <3> QED BY <3>2 DEF Granted
  <2>3. MaxAttempts * (1 + replays) = MaxAttempts * replays + MaxAttempts /\ MaxAttempts * replays \in Nat
    BY <2>1
  <2>4. Occurrences(e) + Doomed(e) <= Granted + Counted(e) + faults
    BY DEF CInv, SendsCounted
  <2>5. /\ Occurrences(e) \in Nat /\ Doomed(e) \in Nat /\ Granted \in Nat /\ faults \in Nat
        /\ Counted(e) \in Nat /\ Counted(e) <= MaxAttempts
    BY <2>1 DEF CountsBounded
  <2> QED BY <2>1, <2>2, <2>3, <2>4, <2>5
<1> QED BY InitIInv, NextIInv, NextCInv, <1>1, <1>2, PTL DEF Spec
================================================================================
