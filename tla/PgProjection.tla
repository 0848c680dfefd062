------------------------------ MODULE PgProjection ------------------------------
(***************************************************************************)
(* The cache-first PostgreSQL stores (src/adapters/persistence/pg): saves  *)
(* go to an in-memory projection and a write queue, a coalesced drain loop *)
(* writes each batch in one transaction.  The loop is "scheduled" on the   *)
(* chain, "checking" (about to look at the queue), "writing" (inside the   *)
(* transaction) and "closing" (left the loop, finally() still to run).     *)
(* ensureReady may be called on a live instance: it is "flushing",         *)
(* "waiting" for the lane DDL and for its turn on the chain, about to set  *)
(* the "rows", to push the "events", and in the "commit" of its read.      *)
(***************************************************************************)
EXTENDS Integers, Sequences, FiniteSets, SequencesExt

CONSTANTS Kinds,      \* "row" (upserted by id), "event" (inserted), "refund"
          MaxSaves,   \* bound on saves
          MaxBoots,   \* bound on calls of ensureReady
          Callers     \* callers of flush()

VARIABLES booted, failure,
          boot,      \* where ensureReady is, "none" when it is not running
          mem,       \* the projection: [row, events]
          queue,     \* write entries accepted and not handed to the loop
          batch,     \* the batch in the transaction
          loop,      \* "idle" iff not pumping
          flushes,   \* caller -> <<>> or <<[promised, settled]>>
          db,        \* the committed rows
          committed, \* entries whose transaction committed, in order
          accepted,  \* entries accepted since the boot, in order
          durable,   \* entries a resolved flush() had promised
          stale,     \* a reload put the stored row over one still queued
          doubled,   \* a reload pushed the stored events on a log that had some
          boots, saves

ghosts == <<stale, doubled, boots>>
vars == <<booted, failure, boot, mem, queue, batch, loop, flushes, db, committed, accepted, durable, ghosts, saves>>

Empty == [row |-> 0, events |-> <<>>]

(* ensureReady flushes as one more caller. *)
NoFlush == [c \in Callers \cup {"boot"} |-> <<>>]

Init == /\ booted = FALSE /\ failure = FALSE /\ boot = "none" /\ mem = Empty
        /\ queue = <<>> /\ batch = <<>> /\ loop = "idle" /\ flushes = NoFlush
        /\ db = Empty /\ committed = <<>> /\ accepted = <<>> /\ durable = {}
        /\ stale = FALSE /\ doubled = FALSE /\ boots = 0 /\ saves = 0

--------------------------------------------------------------------------------
write(rows, e) == IF e.kind = "event" THEN [rows EXCEPT !.events = Append(@, e.n)]
                                      ELSE [rows EXCEPT !.row = e.n]

writeAll(rows, entries) == FoldLeft(write, rows, entries)

(* save_refund binds eight values to a statement with seven parameters. *)
writable(entries) == \A i \in DOMAIN entries : entries[i].kind # "refund"

assertWritable == booted /\ ~failure

scheduled == IF loop = "idle" THEN "scheduled" ELSE loop

flushing(c) ==
    /\ flushes[c] = <<>> /\ failure' = FALSE /\ loop' = scheduled
    /\ flushes' = [flushes EXCEPT ![c] = <<[promised |-> Range(accepted), settled |-> FALSE]>>]

(* A re-boot over a live instance flushes first what is queued. *)
ensureReady ==
    /\ boot = "none" /\ boots < MaxBoots /\ boots' = boots + 1
    /\ IF booted /\ queue # <<>>
       THEN boot' = "flushing" /\ flushing("boot")
       ELSE boot' = "waiting" /\ UNCHANGED <<failure, loop, flushes>>
    /\ UNCHANGED <<booted, mem, queue, batch, db, committed, accepted, durable, stale, doubled, saves>>

(* runExclusive: the read has its turn on the chain; a loop scheduled since waits behind it. *)
runExclusive ==
    /\ boot = "waiting" /\ loop \in {"idle", "scheduled"} /\ boot' = "rows"
    /\ UNCHANGED <<booted, failure, mem, queue, batch, loop, flushes, db, committed, accepted, durable, ghosts, saves>>

Loading == boot \in {"rows", "events", "commit"}

(* loadIntoProjection sets the stored rows and pushes the stored events, with awaits *)
(* between them; the projection is not emptied first.                                *)
loadRows ==
    /\ boot = "rows" /\ boot' = "events"
    /\ mem' = [mem EXCEPT !.row = IF db.row = 0 THEN @ ELSE db.row]
    /\ stale' = (db.row # 0 /\ \E i \in DOMAIN queue : queue[i].kind # "event")
    /\ UNCHANGED <<booted, failure, queue, batch, loop, flushes, db, committed, accepted, durable, doubled, boots, saves>>

loadEvents ==
    /\ boot = "events" /\ boot' = "commit"
    /\ mem' = [mem EXCEPT !.events = @ \o db.events]
    /\ doubled' = (doubled \/ mem.events # <<>>)
    /\ UNCHANGED <<booted, failure, queue, batch, loop, flushes, db, committed, accepted, durable, stale, boots, saves>>

loaded ==
    /\ boot = "commit" /\ boot' = "none" /\ booted' = TRUE
    /\ UNCHANGED <<failure, mem, queue, batch, loop, flushes, db, committed, accepted, durable, ghosts, saves>>

(* A statement of the load, or its COMMIT, is refused: what was loaded stays. *)
bootFails ==
    /\ boot = "waiting" \/ Loading
    /\ boot' = "none"
    /\ UNCHANGED <<booted, failure, mem, queue, batch, loop, flushes, db, committed, accepted, durable, ghosts, saves>>

(* save* and record: the projection, the queue, the loop. *)
save(kind) ==
    LET e == [kind |-> kind, n |-> saves + 1]
    IN  /\ saves < MaxSaves /\ assertWritable
        /\ saves' = saves + 1 /\ mem' = write(mem, e) /\ queue' = Append(queue, e)
        /\ accepted' = Append(accepted, e) /\ loop' = scheduled /\ stale' = (stale /\ kind = "event")
        /\ UNCHANGED <<booted, failure, boot, batch, flushes, db, committed, durable, doubled, boots>>

drainLoop ==
    /\ loop = "checking" \/ (loop = "scheduled" /\ ~Loading)
    /\ IF queue # <<>> /\ ~failure
       THEN batch' = queue /\ queue' = <<>> /\ loop' = "writing"
       ELSE loop' = "closing" /\ UNCHANGED <<batch, queue>>
    /\ UNCHANGED <<booted, failure, boot, mem, flushes, db, committed, accepted, durable, ghosts, saves>>

inserted == db' = writeAll(db, batch) /\ committed' = committed \o batch

writeBatch ==
    /\ loop = "writing" /\ writable(batch) /\ inserted /\ batch' = <<>> /\ loop' = "checking"
    /\ UNCHANGED <<booted, failure, boot, mem, queue, flushes, accepted, durable, ghosts, saves>>

(* The failed batch is forgotten. *)
restoredNothing == queue

restored == batch \o queue

refuse == queue' = restored /\ batch' = <<>> /\ failure' = TRUE /\ loop' = "checking"
          /\ UNCHANGED <<booted, boot, mem, flushes, accepted, durable, ghosts, saves>>

(* Rolled back; or committed, and the answer to COMMIT lost. *)
batchFails == loop = "writing" /\ refuse /\ UNCHANGED <<db, committed>>
commitUnanswered ==
    /\ loop = "writing" /\ writable(batch) /\ inserted /\ refuse
    /\ Range(batch) \cap Range(committed) = {}   \* bound: once per entry

(* The loop that left stays away. *)
rearmsNever == "idle"

rearmed == IF ~failure /\ queue # <<>> THEN "scheduled" ELSE "idle"

(* finally(): whoever awaited this turn of the chain goes on. *)
finally ==
    /\ loop = "closing" /\ loop' = rearmed
    /\ flushes' = [c \in DOMAIN flushes |-> IF flushes[c] = <<>> THEN <<>> ELSE <<[flushes[c][1] EXCEPT !.settled = TRUE]>>]
    /\ UNCHANGED <<booted, failure, boot, mem, queue, batch, db, committed, accepted, durable, ghosts, saves>>

flush(c) ==
    /\ booted /\ flushing(c)
    /\ UNCHANGED <<booted, boot, mem, queue, batch, db, committed, accepted, durable, ghosts, saves>>

(* ensureReady's own flush rejects, and the re-boot with it, or lets it go on. *)
flushReturns(c) ==
    /\ flushes[c] # <<>> /\ flushes[c][1].settled /\ flushes' = [flushes EXCEPT ![c] = <<>>]
    /\ durable' = IF failure THEN durable ELSE durable \cup flushes[c][1].promised
    /\ boot' = IF c # "boot" THEN boot ELSE IF failure THEN "none" ELSE "waiting"
    /\ UNCHANGED <<booted, failure, mem, queue, batch, loop, db, committed, accepted, ghosts, saves>>

(* A sequence without its repetitions. *)
Firsts(s) == FoldLeft(LAMBDA seen, e : IF e \in Range(seen) THEN seen ELSE Append(seen, e), <<>>, s)

Crash ==
    /\ booted /\ booted' = FALSE /\ failure' = FALSE /\ boot' = "none" /\ mem' = Empty
    /\ queue' = <<>> /\ batch' = <<>> /\ loop' = "idle" /\ flushes' = NoFlush
    /\ accepted' = Firsts(committed) /\ stale' = FALSE /\ doubled' = FALSE /\ UNCHANGED <<db, committed, durable, boots, saves>>

Next == \/ \E k \in Kinds : save(k)
        \/ ensureReady \/ runExclusive \/ loadRows \/ loadEvents \/ loaded \/ bootFails
        \/ drainLoop \/ writeBatch \/ batchFails \/ commitUnanswered \/ finally
        \/ \E c \in Callers : flush(c)
        \/ \E c \in DOMAIN flushes : flushReturns(c)
        \/ Crash

Spec == Init /\ [][Next]_vars

--------------------------------------------------------------------------------
(* Types; an entry waits in one place only. *)
TypeOK ==
    /\ loop \in {"idle", "scheduled", "checking", "writing", "closing"} /\ loop = "writing" <=> batch # <<>>
    /\ Cardinality({queue[i].n : i \in DOMAIN queue}) = Len(queue) /\ saves \in 0..MaxSaves
    /\ boot = "flushing" <=> flushes["boot"] # <<>>
    /\ \A i \in DOMAIN queue, j \in DOMAIN batch : queue[i].n # batch[j].n

(* resourcestore.ts:33, "loses exactly the un-flushed saves": over failed batches,   *)
(* lost answers and retries, what is committed, in flight and queued is, in this     *)
(* order and up to repetitions, what was accepted.                                   *)
NothingDroppedOrReordered == accepted = Firsts(committed \o batch \o queue)

(* resourcestore.ts:605-607, save*: "the projection never diverges from what the     *)
(* flusher will persist" - it is the committed rows with all pending entries.  The   *)
(* code keeps this up to three cases, and the events never differ but in repetition: *)
(* a re-boot whose reload finds a row queued since its flush puts the stored one in  *)
(* its place until the next save (against resourcestore.ts:552-553, "so the reload   *)
(* never rolls back over uncommitted work"); a reload over a log that is not empty   *)
(* repeats the stored events in it; and an event whose commit went unanswered may be *)
(* stored twice.                                                                     *)
ProjectionIsWhatWillPersist ==
    LET kept == writeAll(writeAll(db, batch), queue)
        written == committed \o batch \o queue
    IN  booted => /\ stale \/ mem.row = kept.row
                  /\ Firsts(mem.events) = Firsts(kept.events)
                  /\ doubled \/ written # Firsts(written) \/ mem.events = kept.events

(* The cache-first store is faithful: types, order of the queue, projection.         *)
StoreIsFaithful == TypeOK /\ NothingDroppedOrReordered /\ ProjectionIsWhatWillPersist

(* scheduleDrain: "a save that raced the loop's empty-queue exit must not sit        *)
(* forever" - the queue empties, or the sticky failure tells the next caller.        *)
SavesDoNotSit == []<>(failure \/ ~booted \/ (queue = <<>> /\ batch = <<>>))

(* flush(): "every mutation accepted so far is COMMITTED to PostgreSQL when this     *)
(* resolves".                                                                        *)
FlushCommits == durable \subseteq Range(committed)
================================================================================
