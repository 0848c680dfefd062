------------------------------- MODULE AuditChain -------------------------------
(***************************************************************************)
(* The audit lane (src/domain/audit): records are redacted, stamped with   *)
(* the hash of their predecessor and appended to a sink; verifyChain walks *)
(* a trail and queryAuditTrail reads it.  Writers take the head and append *)
(* in two steps.  Storage may damage the trail once, in each way that      *)
(* verifyChain is written to report, and by a forbidden key.  The hash     *)
(* port is injective (a tuple stands for the digest of what it holds); a   *)
(* snapshot is the set of its keys.                                        *)
(***************************************************************************)
EXTENDS Naturals, Sequences, SequencesExt, FiniteSets

CONSTANTS Writers, Ids, Entities,
          Now,       \* the sink's clock
          MaxTrail   \* bound on the trail

VARIABLES trail,   \* the sink's records: [id, at, entity, state, prev, hash]
          head,    \* the predecessor each writer has read; "none" when it holds none
          damage,  \* what storage did to the trail
          anchor   \* the length and head hash of the last external audit; length 0: none

vars == <<trail, head, damage, anchor>>

Keys == {"amount", "pin"}
FORBIDDEN_KEYS == {"pin"}
NoHash == <<>>              \* null prevRecordHash
Malformed == <<"malformed">> \* a recordHash that is no hash string, or no record at all
Forged == <<"forged">>       \* a hash string that is no record's

Init == trail = <<>> /\ head = [w \in Writers |-> [held |-> FALSE, hash |-> NoHash]]
        /\ damage = "none" /\ anchor = [length |-> 0, head |-> NoHash]

--------------------------------------------------------------------------------
redactSnapshot(state) == state \ FORBIDDEN_KEYS

(* H(prevHash || canonical(record)); the record's own hash is left out. *)
chainHash(prev, r) == <<prev, r.id, r.at, r.entity, r.state>>

buildAuditDraft(id, at, entity, state) ==
    [id |-> id, at |-> at, entity |-> entity, state |-> redactSnapshot(state), prev |-> NoHash, hash |-> NoHash]

(* AUDIT_OCCURRED_AT_FUTURE, AUDIT_AUDIT_ID_TAKEN. *)
sinkAccepts(r) == r.at <= Now /\ \A i \in DOMAIN trail : trail[i].id # r.id

ReadHead(w) ==
    /\ ~head[w].held /\ damage = "none"
    /\ head' = [head EXCEPT ![w] = [held |-> TRUE, hash |-> IF trail = <<>> THEN NoHash ELSE Last(trail).hash]]
    /\ UNCHANGED <<trail, damage, anchor>>

appendAuditRecord(w, id, at, entity, state) ==
    /\ head[w].held /\ damage = "none" /\ Len(trail) < MaxTrail
    /\ LET draft == buildAuditDraft(id, at, entity, state)
           linked == [draft EXCEPT !.prev = head[w].hash, !.hash = chainHash(head[w].hash, draft)]
       IN  sinkAccepts(linked) /\ trail' = Append(trail, linked)
    /\ head' = [head EXCEPT ![w].held = FALSE]
    /\ UNCHANGED <<damage, anchor>>

ExternalAudit ==
    /\ damage = "none" /\ trail # <<>>
    /\ anchor' = [length |-> Len(trail), head |-> Last(trail).hash]
    /\ UNCHANGED <<trail, head, damage>>

(* Storage: a field or the hash is mutated in place, a forbidden key appears, a hash is  *)
(* clobbered, a back-link is changed, a record goes missing, two swap, the tail is cut.  *)
Damage(kind, damaged) ==
    /\ damage = "none" /\ damage' = kind /\ trail' = damaged /\ UNCHANGED <<head, anchor>>

Toggle(i, k) == [trail EXCEPT ![i].state = IF k \in @ THEN @ \ {k} ELSE @ \cup {k}]

Corrupt ==
    \/ \E i \in DOMAIN trail, k \in Keys \ FORBIDDEN_KEYS : Damage("mutated", Toggle(i, k))
    \/ \E i \in DOMAIN trail : Damage("mutated", [trail EXCEPT ![i].at = @ + 1])
    \/ \E i \in DOMAIN trail : Damage("mutated", [trail EXCEPT ![i].hash = Forged])
    \/ \E i \in DOMAIN trail, k \in FORBIDDEN_KEYS : Damage("key added", Toggle(i, k))
    \/ \E i \in DOMAIN trail : Damage("clobbered", [trail EXCEPT ![i].hash = Malformed])
    \/ \E i \in DOMAIN trail : Damage("relinked", [trail EXCEPT ![i].prev = Forged])
    \/ \E i \in 1..(Len(trail) - 1) : Damage("removed", RemoveAt(trail, i))
    \/ \E i \in 1..(Len(trail) - 1) :
          Damage("reordered", [trail EXCEPT ![i] = trail[i + 1], ![i + 1] = trail[i]])
    \/ \E n \in 0..(Len(trail) - 1) : Damage("truncated", SubSeq(trail, 1, n))

--------------------------------------------------------------------------------
(* verifyChain: the first broken record and why, or the trail-level break. *)
RecordBreak(t, i) ==
    CASE t[i].hash = Malformed -> "HASH_FIELD_MALFORMED"
      [] t[i].hash # Malformed /\ i = 1 /\ t[i].prev # NoHash -> "GENESIS_INVALID"
      [] t[i].hash # Malformed /\ i > 1 /\ t[i].prev # t[i - 1].hash -> "PREV_HASH_MISMATCH"
      [] OTHER -> IF chainHash(t[i].prev, [t[i] EXCEPT !.state = redactSnapshot(@)]) # t[i].hash
                  THEN "RECORD_HASH_MISMATCH" ELSE "ok"

Breaks(t) == {i \in DOMAIN t : RecordBreak(t, i) # "ok"}
FirstBreak(t) == RecordBreak(t, CHOOSE i \in Breaks(t) : \A j \in Breaks(t) : i <= j)

headHash(t) == IF t = <<>> THEN NoHash ELSE Last(t).hash

(* Without the caller's expectation. *)
verifyChainInside(t, expected) == IF Breaks(t) # {} THEN FirstBreak(t) ELSE "ok"

(* The caller may expect a length, a head hash, both or neither: <<>> or <<value>>. *)
verifyChain(t, expected) ==
    IF Breaks(t) # {} THEN FirstBreak(t)
    ELSE IF expected.length # <<>> /\ <<Len(t)>> # expected.length THEN "LENGTH_MISMATCH"
    ELSE IF expected.head # <<>> /\ <<headHash(t)>> # expected.head THEN "HEAD_MISMATCH"
    ELSE "ok"

NoExpectation == [length |-> <<>>, head |-> <<>>]
ExpectLength == [length |-> <<anchor.length>>, head |-> <<>>]
ExpectHead == [length |-> <<>>, head |-> <<anchor.head>>]
ExpectBoth == [length |-> <<anchor.length>>, head |-> <<anchor.head>>]
Expectations == {NoExpectation} \cup (IF anchor.length = 0 THEN {} ELSE {ExpectLength, ExpectHead, ExpectBoth})

(* Records of an entity by occurredAt, then auditId. *)
queryAuditTrail(t, entity) ==
    SortSeq(SelectSeq(t, LAMBDA r : r.entity = entity), LAMBDA a, b : a.at < b.at \/ (a.at = b.at /\ a.id < b.id))

Appends == \E w \in Writers : \/ ReadHead(w)
                              \/ \E id \in Ids, at \in 1..(Now + 1), e \in Entities, s \in SUBSET Keys :
                                    appendAuditRecord(w, id, at, e, s)

Next == Appends \/ ExternalAudit \/ Corrupt
Spec == Init /\ [][Next]_vars

--------------------------------------------------------------------------------
TypeOK ==
    /\ Len(trail) <= MaxTrail
    /\ \A i \in DOMAIN trail : trail[i].id \in Ids /\ trail[i].at \in 1..(Now + 1) /\ trail[i].state \subseteq Keys
    /\ damage = "none" => Cardinality({trail[i].id : i \in DOMAIN trail}) = Len(trail)

(* A trail written one writer at a time and left alone verifies, on its own and against  *)
(* the anchor of an external audit made since the last append, and no forbidden key is   *)
(* in what it holds (redaction before hashing and again before storing).  Against an     *)
(* older anchor a trail that has grown does not verify: chain.ts:261 wants the exact     *)
(* length and reports that "records were truncated".                                     *)
HonestTrailVerifies ==
    damage = "none" =>
        /\ verifyChain(trail, NoExpectation) = "ok"
        /\ \A e \in Expectations \ {NoExpectation} : verifyChain(trail, e) = "ok" <=> anchor.length = Len(trail)
        /\ \A i \in DOMAIN trail : trail[i].state \cap FORBIDDEN_KEYS = {}

(* verifyChain names what storage did, with and without an expectation: a changed field  *)
(* or hash by the record's hash, a clobbered hash as such, a missing, moved or relinked  *)
(* record by a dead back-link or genesis, a lost tail by the length or the head of an    *)
(* anchor taken beyond it.  Two things it does not see: a lost tail without such an      *)
(* anchor, which chain.ts:36 says; and a forbidden key put into a stored snapshot,       *)
(* because it redacts before it hashes again - against chain.ts:30 ("a stored field was  *)
(* mutated in place") and chain.spec.ts:173 ("ANY in-place field edit").                 *)
DamageIsNamed ==
    /\ \A e \in Expectations :
          /\ damage = "mutated" => verifyChain(trail, e) = "RECORD_HASH_MISMATCH"
          /\ damage = "clobbered" => verifyChain(trail, e) = "HASH_FIELD_MALFORMED"
          /\ damage \in {"removed", "reordered", "relinked"} =>
                verifyChain(trail, e) \in {"GENESIS_INVALID", "PREV_HASH_MISMATCH"}
    /\ (damage = "truncated" /\ anchor.length > Len(trail)) =>
          /\ verifyChain(trail, ExpectLength) = "LENGTH_MISMATCH"
          /\ verifyChain(trail, ExpectHead) = "HEAD_MISMATCH"
    /\ damage \in {"truncated", "key added"} => verifyChain(trail, NoExpectation) = "ok"

(* The read model: a query returns exactly the entity's records, in one order that does  *)
(* not depend on the order they were appended in.                                        *)
QueryIsOrdered ==
    \A e \in Entities :
        LET q == queryAuditTrail(trail, e)
        IN  /\ Range(q) = {r \in Range(trail) : r.entity = e}
            /\ \A i, j \in DOMAIN q : i < j => q[i].at < q[j].at \/ (q[i].at = q[j].at /\ q[i].id <= q[j].id)

================================================================================
