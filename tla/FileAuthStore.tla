------------------------------ MODULE FileAuthStore ------------------------------
(***************************************************************************)
(* The file-backed AuthStore (src/adapters/persistence): synchronous saves *)
(* into memory, one promise queue of appends, flushes, snapshots and       *)
(* loads, the JSONL journal, the snapshot file, and replay.  The six       *)
(* collections are of two sorts: maps upserted by id (one aggregate, whose *)
(* value is the number of its last save) and the event log.                *)
(***************************************************************************)
EXTENDS Integers, Sequences, FiniteSets, SequencesExt, FiniteSetsExt

CONSTANTS MaxSaves,    \* bound on save* and record calls
          MaxQueue,    \* bound on pending operations
          MaxCrashes   \* bound on crashes

VARIABLES booted, failure,  \* the boot guard and the sticky failed write
          mem,              \* the in-memory rows: [row, events]
          tail, step,       \* the promise queue, and where the snapshot at its head stands
          lastSeq,          \* of the journal
          file, synced,     \* journal lines, and how many of them are fsynced
          state, staged,    \* state.json and state.tmp: <<>> or <<snapshot>>
          accepted,         \* saves that did not throw, but for those a load gave up
          dropped,          \* saves accepted during a load, which left them out of memory
          durable,          \* saves a resolved flush() had promised
          saves, crashes

vars == <<booted, failure, mem, tail, step, lastSeq, file, synced, state, staged, accepted, dropped, durable, saves, crashes>>
disk == <<file, synced, state, staged>>
ghosts == <<dropped, durable, saves, crashes>>

Empty == [row |-> 0, events |-> <<>>]

Init == /\ booted = FALSE /\ failure = FALSE /\ mem = Empty /\ tail = <<>> /\ step = "idle" /\ lastSeq = 0
        /\ file = <<>> /\ synced = 0 /\ state = <<>> /\ staged = <<>>
        /\ accepted = {} /\ dropped = {} /\ durable = {} /\ saves = 0 /\ crashes = 0

--------------------------------------------------------------------------------
(* Rows upsert by id, events append. *)
apply(rows, m) == IF m.kind = "row" THEN [rows EXCEPT !.row = m.n]
                                    ELSE [rows EXCEPT !.events = Append(@, m.n)]

foldedIn(line, minSeq) == line.seq <= minSeq

(* The reducer: garbled, folded and non-monotonic lines change no row. *)
replayJournal(lines, base, minSeq) ==
    FoldLeft(LAMBDA r, line :
                IF ~line.whole THEN r
                ELSE [rows |-> IF foldedIn(line, minSeq) \/ line.seq <= r.lastSeq THEN r.rows ELSE apply(r.rows, line.m),
                      lastSeq |-> Max({r.lastSeq, line.seq})],
             [rows |-> base, lastSeq |-> minSeq], lines)

adopt(seq) == Max({lastSeq, seq})

(* The snapshot's rows and mark, or none: the whole journal is replayed then. *)
parseSnapshot == IF state = <<>> THEN [rows |-> Empty, lastSeq |-> 0] ELSE state[1]

assertWritable == booted /\ ~failure

(* The row is set before enqueue() may throw. *)
save(kind) ==
    LET m == [kind |-> kind, n |-> saves + 1]
    IN  /\ saves < MaxSaves /\ Len(tail) < MaxQueue
        /\ saves' = saves + 1 /\ mem' = apply(mem, m)
        /\ IF assertWritable
           THEN tail' = Append(tail, [op |-> "append", m |-> m]) /\ accepted' = accepted \cup {m}
           ELSE UNCHANGED <<tail, accepted>>
        /\ UNCHANGED <<booted, failure, step, lastSeq, disk, dropped, durable, crashes>>

(* load(), flush() and snapshot() take their turn after everything queued so far. *)
runExclusive(op) ==
    /\ Len(tail) < MaxQueue /\ tail' = Append(tail, [op |-> op, promised |-> IF op = "flush" THEN accepted ELSE {}])
    /\ UNCHANGED <<booted, failure, mem, step, lastSeq, disk, accepted, ghosts>>

atHead(op) == tail # <<>> /\ Head(tail).op = op
done == tail' = Tail(tail)

(* The rows a boot finds on the disk. *)
found == replayJournal(file, parseSnapshot.rows, parseSnapshot.lastSeq)

Holds(rows, m) == IF m.kind = "row" THEN rows.row >= m.n ELSE m.n \in Range(rows.events)

(* The saves whose append waits behind the operation at the head. *)
waiting == {tail[i].m : i \in {j \in 2..Len(tail) : tail[j].op = "append"}}

(* load() replaces memory by what it read; nothing writes to the disk between its reads  *)
(* and its end.  It leaves out the saves accepted during its awaits.  It clears the      *)
(* sticky failure: "a completed load re-establishes disk truth" gives up what a failed   *)
(* write had dropped.                                                                    *)
load ==
    /\ atHead("load") /\ done
    /\ mem' = found.rows /\ lastSeq' = adopt(found.lastSeq) /\ booted' = TRUE /\ failure' = FALSE
    /\ dropped' = dropped \cup waiting
    /\ accepted' = IF failure THEN accepted \cap (waiting \cup {file[i].m : i \in DOMAIN file}) ELSE accepted
    /\ UNCHANGED <<step, disk, durable, saves, crashes>>

(* A read is refused: nothing has changed. *)
loadFails ==
    /\ atHead("load") /\ done
    /\ UNCHANGED <<booted, failure, mem, step, lastSeq, disk, accepted, ghosts>>

(* A line written after a torn one without its newline becomes part of it. *)
written(lines, line) ==
    IF lines # <<>> /\ lines[Len(lines)].torn
    THEN [lines EXCEPT ![Len(lines)] = [@ EXCEPT !.torn = FALSE]]
    ELSE Append(lines, line)

append ==
    /\ atHead("append") /\ done
    /\ IF failure THEN UNCHANGED <<lastSeq, file>>
       ELSE /\ lastSeq' = lastSeq + 1
            /\ file' = written(file, [seq |-> lastSeq + 1, m |-> Head(tail).m, whole |-> TRUE, torn |-> FALSE])
    /\ UNCHANGED <<booted, failure, mem, step, synced, state, staged, accepted, ghosts>>

(* The write is refused; the sequence number is spent and the store fails closed. *)
appendFails ==
    /\ atHead("append") /\ ~failure /\ done /\ lastSeq' = lastSeq + 1 /\ failure' = TRUE
    /\ UNCHANGED <<booted, mem, step, disk, accepted, ghosts>>

(* The queue is drained but the handle is not synced. *)
notSynced == synced

fsynced == Len(file)

(* What it promises: the saves accepted when it was called and not given up since. *)
flush ==
    /\ atHead("flush") /\ done
    /\ IF assertWritable
       THEN synced' = fsynced /\ durable' = durable \cup (Head(tail).promised \cap accepted)
       ELSE UNCHANGED <<synced, durable>>
    /\ UNCHANGED <<booted, failure, mem, step, lastSeq, file, state, staged, accepted, dropped, saves, crashes>>

snapshotRefused ==
    /\ atHead("snapshot") /\ step = "idle" /\ ~assertWritable /\ done
    /\ UNCHANGED <<booted, failure, mem, step, lastSeq, disk, accepted, ghosts>>

snapshotFlush ==
    /\ atHead("snapshot") /\ step = "idle" /\ assertWritable
    /\ synced' = fsynced /\ step' = "flushed"
    /\ UNCHANGED <<booted, failure, mem, tail, lastSeq, file, state, staged, accepted, ghosts>>

captured == [rows |-> mem, lastSeq |-> lastSeq]

snapshotStage ==
    /\ step = "flushed" /\ staged' = <<captured>> /\ step' = "staged"
    /\ UNCHANGED <<booted, failure, mem, tail, lastSeq, file, synced, state, accepted, ghosts>>

snapshotRename ==
    /\ step = "staged" /\ state' = staged /\ staged' = <<>> /\ step' = "idle" /\ done
    /\ UNCHANGED <<booted, failure, mem, lastSeq, file, synced, accepted, ghosts>>

(* The process, or the machine, dies: unsynced lines may be lost from the end, *)
(* and a snapshot whose bytes never reached the disk reads as no snapshot.     *)
Crash(kept, scraps, snap) ==
    /\ crashes < MaxCrashes /\ crashes' = crashes + 1
    /\ file' = SubSeq(file, 1, kept) \o scraps /\ synced' = Len(file') /\ state' = snap /\ staged' = staged
    /\ booted' = FALSE /\ failure' = FALSE /\ mem' = Empty /\ tail' = <<>> /\ step' = "idle" /\ lastSeq' = 0
    /\ accepted' = {} /\ UNCHANGED <<dropped, durable, saves>>

CleanCrash == \E kept \in synced..Len(file), snap \in {state, <<>>} : Crash(kept, <<>>, snap)

(* ... or the line being written is left without its end. *)
Torn == [seq |-> 0, m |-> [kind |-> "row", n |-> 0], whole |-> FALSE, torn |-> TRUE]
TornCrash == atHead("append") /\ Crash(Len(file), <<Torn>>, state)

Next == \/ load \/ loadFails \/ append \/ appendFails \/ flush
        \/ \E kind \in {"row", "event"} : save(kind)
        \/ \E op \in {"load", "flush", "snapshot"} : runExclusive(op)
        \/ snapshotRefused \/ snapshotFlush \/ snapshotStage \/ snapshotRename
        \/ CleanCrash \/ TornCrash

Spec == Init /\ [][Next]_vars
--------------------------------------------------------------------------------
(* Types; a snapshot, staged or committed, never counts past the journal. *)
TypeOK ==
    /\ booted \in BOOLEAN /\ failure \in BOOLEAN /\ step \in {"idle", "flushed", "staged"}
    /\ mem.row \in 0..saves /\ \A i \in DOMAIN mem.events : mem.events[i] \in 1..saves
    /\ synced \in 0..Len(file) /\ durable \subseteq [kind : {"row", "event"}, n : 1..saves]
    /\ step = "staged" => staged[1].lastSeq <= lastSeq

(* journal.ts, "strict monotonicity is the invariant": over boots, crashes and *)
(* burned slots the journal's sequence numbers ascend, and the counter of a    *)
(* booted store is at or past all of them.                                     *)
SeqAscends ==
    LET seqs == [i \in DOMAIN file |-> file[i].seq] IN
    /\ \A i, j \in DOMAIN file : (i < j /\ file[i].whole /\ file[j].whole) => seqs[i] < seqs[j]
    /\ booted => \A i \in DOMAIN file : seqs[i] <= lastSeq

(* filestore.ts, snapshot(): whatever load() will skip as folded in is in the  *)
(* snapshot's rows, unless an earlier load had left it out of memory.          *)
SnapshotHoldsSkipped ==
    state # <<>> => \A i \in DOMAIN file :
        (file[i].whole /\ foldedIn(file[i], state[1].lastSeq)) => Holds(state[1].rows, file[i].m) \/ file[i].m \in dropped

(* A booted store shows in memory what it accepted and what flush() had        *)
(* promised; only a save accepted while a load() was under way can be missing. *)
MemoryShowsAccepted == booted => \A m \in (accepted \cup durable) \ dropped : Holds(mem, m)

(* filestore.ts, flush(): "every mutation accepted so far is on disk and       *)
(* fsynced when this resolves" - a boot finds it then and ever after.          *)
FlushedSurvives == \A m \in durable : Holds(found.rows, m)

(* ... but for a save accepted while a load was under way, and left out of     *)
(* memory by it: a snapshot of that memory counts its line as folded in.       *)
FlushedSurvivesUnlessDropped ==
    \A m \in durable : Holds(found.rows, m) \/ (m \in dropped /\ state # <<>>)

Untorn == \A i \in DOMAIN file : file[i].whole

================================================================================
