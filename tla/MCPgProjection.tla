----------------------------- MODULE MCPgProjection -----------------------------
(***************************************************************************)
(* The stores and the audit trail on small instances.  `part` is chosen at *)
(* the start and names what runs:                                          *)
(*   pg      a cache-first PostgreSQL store                                *)
(*   files   the file-backed store, through crashes                        *)
(*   trail   one entity's audit trail, written in turn, then damaged once  *)
(*   query   two entities' records with two instants                       *)
(*   session one user's two sessions through both horizons                 *)
(*   key     two API keys through expiry, revocation and suspension        *)
(*   grant   two users, three roles and the grants they pass on            *)
(*   ingest  analytics events of two orgs, of a voided invoice or of a     *)
(*           written-off debt, in any order, with a failure or a restart   *)
(***************************************************************************)
EXTENDS PgProjection

CONSTANTS Parts, c1, w1, w2

VARIABLES part,
          up, failed, rows, tail, step, lastSeq, file, synced, state, staged, taken, missed, promised, calls, crashes,  \* files
          trail, head, damage, anchor,                                                                         \* audit
          users, roles, grants, keys, sessions, authEvents, time,                                              \* access
          stream, logs, seen, ledger, tables, emitted, offered, acked, faults                                                   \* analytics

pg == vars
fileVars == <<up, failed, rows, tail, step, lastSeq, file, synced, state, staged, taken, missed, promised, calls, crashes>>
auditVars == <<trail, head, damage, anchor>>
accessVars == <<users, roles, grants, keys, sessions, authEvents, time>>
factVars == <<stream, logs, seen, ledger, tables, emitted, offered, acked, faults>>
allVars == <<part, pg, fileVars, auditVars, accessVars, factVars>>

Files == INSTANCE FileAuthStore WITH MaxSaves <- 2, MaxQueue <- 2, MaxCrashes <- 2, booted <- up, failure <- failed,
             mem <- rows, accepted <- taken, dropped <- missed, durable <- promised, saves <- calls

Trail == INSTANCE AuditChain WITH Writers <- {w1, w2}, Ids <- {1, 2, 3}, Entities <- {"payment"}, Now <- 1, MaxTrail <- 3
Query == INSTANCE AuditChain WITH Writers <- {w1}, Ids <- {1, 2, 3}, Entities <- {"payment", "refund"}, Now <- 2,
             MaxTrail <- 2

Admin == {<<"admin", "manage-users">>}
Pays == {<<"payments", "read">>}
TwoOnOnePrefix == {<<"a", 1>>, <<"a", 2>>, <<"b", 1>>}

SessionPart == INSTANCE Access WITH Names <- {"ann"}, RoleDefs <- {}, Scopes <- {}, Places <- {}, Secrets <- {<<"a", 1>>},
                   Idle <- 2, Absolute <- 3, Lifetimes <- {0}, MaxUsers <- 1, MaxRoles <- 1, MaxGrants <- 1, MaxKeys <- 1,
                   MaxSessions <- 2, MaxDenials <- 0, MaxSuspensions <- 1, MaxTime <- 4, events <- authEvents, clock <- time
KeyPart == INSTANCE Access WITH Names <- {"ann"}, RoleDefs <- {}, Scopes <- {Admin, Pays}, Places <- {},
               Secrets <- TwoOnOnePrefix, Idle <- 2, Absolute <- 3, Lifetimes <- {0, 1}, MaxUsers <- 1, MaxRoles <- 1,
               MaxGrants <- 1, MaxKeys <- 2, MaxSessions <- 1, MaxDenials <- 1, MaxSuspensions <- 1, MaxTime <- 1,
               events <- authEvents, clock <- time
GrantPart == INSTANCE Access WITH Names <- {"ann", "ben"}, RoleDefs <- {Admin, Pays, {<<"payments", "*">>}, {<<"receivables", "*">>}},
                 Scopes <- {}, Places <- {"case"}, Secrets <- {<<"a", 1>>}, Idle <- 2, Absolute <- 3, Lifetimes <- {0},
                 MaxUsers <- 2, MaxRoles <- 2, MaxGrants <- 3, MaxKeys <- 1, MaxSessions <- 2, MaxDenials <- 0,
                 MaxSuspensions <- 0, MaxTime <- 0, events <- authEvents, clock <- time

Event(id, org, at, name, inv, rec, amount, rest) ==
    [id |-> id, org |-> org, at |-> at, name |-> name, inv |-> inv, rec |-> rec, cur |-> "KES", amount |-> amount,
     rest |-> rest, due |-> 1]
TwoOrgs == {Event(1, 1, 0, "invoiceIssued", "i", "", 5, 0), Event(2, 1, 0, "opened", "i", "r", 5, 0),
            Event(3, 1, 4, "settled", "", "r", 0, 0), Event(4, 2, 2, "invoiceIssued", "j", "", 7, 0)}
Voided == {Event(1, 1, 1, "invoiceIssued", "i", "", 5, 0), Event(2, 1, 1, "opened", "i", "r", 5, 0),
           Event(3, 1, 3, "partiallySettled", "", "r", 2, 3), Event(4, 1, 4, "invoiceVoided", "i", "", 0, 0)}
Losses == {Event(1, 1, 0, "invoiceIssued", "i", "", 5, 0), Event(2, 1, 1, "opened", "i", "r", 5, 0),
           Event(3, 1, 2, "writtenOff", "", "r", 0, 0), Event(4, 1, 4, "recovered", "", "r", 2, 0),
           Event(5, 1, 4, "promiseBroken", "", "", 0, 0)}

Published == {TwoOrgs, Voided, Losses}
Ingest == INSTANCE AnalyticsIngester WITH Streams <- Published, DayLen <- 2, Window <- 2, MonthDays <- 2,
              BucketDays <- 1, MaxBatch <- 2, MaxLog <- 5, MaxWork <- 5, Fuels <- {0, 1, 4}, Plenty <- 99

(* Three saves after one boot, two with a second, or one with three. *)
ManySavesOrBoots == saves' + boots' <= 4

(* Writers take the head in turn. *)
InTurn == "free" \in {IF head'[w].held THEN "held" ELSE "free" : w \in {w1, w2}}

MCInit == part \in Parts /\ Init /\ Files!Init /\ Trail!Init /\ SessionPart!Init /\ Ingest!Init /\ (part # "ingest" => stream = TwoOrgs)

MCNext ==
    /\ UNCHANGED part
    /\ \/ part = "pg" /\ Next /\ ManySavesOrBoots /\ UNCHANGED <<fileVars, auditVars, accessVars, factVars>>
       \/ part = "files" /\ Files!Next /\ UNCHANGED <<pg, auditVars, accessVars, factVars>>
       \/ /\ (part = "trail" /\ Trail!Next /\ InTurn) \/ (part = "query" /\ Query!Next)
          /\ UNCHANGED <<pg, fileVars, accessVars, factVars>>
       \/ /\ (part = "session" /\ SessionPart!Next) \/ (part = "key" /\ KeyPart!Next) \/ (part = "grant" /\ GrantPart!Next)
          /\ UNCHANGED <<pg, fileVars, auditVars, factVars>>
       \/ part = "ingest" /\ Ingest!Next /\ UNCHANGED <<pg, fileVars, auditVars, accessVars>>

(* The event loop runs every continuation; a statement answers, if only with an error. *)
MCSpec == /\ MCInit /\ [][MCNext]_allVars
          /\ WF_pg(part = "pg" /\ drainLoop) /\ WF_pg(part = "pg" /\ finally) /\ WF_pg(part = "pg" /\ Loading /\ (loadRows \/ loadEvents \/ loaded \/ bootFails))
          /\ WF_pg(part = "pg" /\ (writeBatch \/ batchFails))

--------------------------------------------------------------------------------
(* The file-backed store (journal.ts, filestore.ts): over boots, reloads of a live store,  *)
(* crashes, refused writes and snapshots the journal's numbers ascend.  As long as no      *)
(* crash left a torn line, memory shows what was accepted, whatever a boot skips is in the *)
(* snapshot, and what flush() promised is found by every later boot.  The code keeps the   *)
(* last three but for a save accepted while a load() of a live store is under way          *)
(* (filestore.spec.ts:261-268 has such a load): the load replaces memory without it, and   *)
(* once a snapshot of that memory is taken later boots skip its line, flushed or not.      *)
FilesSurvive ==
    /\ Files!TypeOK /\ Files!SeqAscends /\ Files!SnapshotHoldsSkipped
    /\ Files!Untorn => Files!MemoryShowsAccepted /\ Files!FlushedSurvivesUnlessDropped

(* filestore.ts:186, flush(): "every mutation accepted so far is on disk and fsynced when  *)
(* this resolves" - a boot finds it then and ever after, a torn line or not.               *)
FlushedSurvives == Files!FlushedSurvives

(* The audit trail (chain.ts, record.ts, project.ts): written in turn and left alone it    *)
(* verifies and holds no forbidden key; what storage did to it is named for what it is,    *)
(* except a lost tail that no anchor reaches beyond and a forbidden key added to a record; *)
(* a query returns exactly the entity's records in one order.  The analytics ledger        *)
(* (ingester.go, fold.go, emit.go): no acknowledged event is lost, and a whole org's rows  *)
(* say what its ledger's facts say, sums over events the log repeats and rows of a cohort  *)
(* that lost members apart (TablesTellLedger).                                             *)
LogsTell ==
    /\ part = "trail" => Trail!TypeOK
    /\ part = "query" => Query!TypeOK /\ Query!QueryIsOrdered
    /\ Trail!HonestTrailVerifies /\ Trail!DamageIsNamed
    /\ part = "ingest" => Ingest!TypeOK /\ Ingest!AcknowledgedIsKept /\ Ingest!TablesTellLedger

(* Access (domain/auth, the HTTP gate): whoever is let through is backed by records that    *)
(* hold at that instant, grants never carry authority to another resource, live records are *)
(* unique, events tell the records, and what has ended, swept or not, never returns.        *)
AccessIsCurrent ==
    /\ [](/\ part = "session" => SessionPart!TypeOK /\ SessionPart!AccessIsBacked /\ SessionPart!EventsTellRecords
          /\ part = "key" => KeyPart!AccessIsBacked /\ KeyPart!RecordsAreUnique /\ KeyPart!EventsTellRecords
          /\ part = "grant" => GrantPart!AccessIsBacked /\ GrantPart!AuthorityStaysInResource /\ GrantPart!RecordsAreUnique)
    /\ [][/\ part = "session" => SessionPart!EndedStays
          /\ part = "key" => KeyPart!EndedStays
          /\ part = "grant" => GrantPart!EndedStays]_accessVars
================================================================================
