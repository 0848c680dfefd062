------------------------------ MODULE CaseSequences ------------------------------
(***************************************************************************)
(* Case numbers of one organisation (PGResourceStore): a cursor in every   *)
(* process, the case_sequences counter advanced in blocks by the flusher   *)
(* and at boot, and the unique index on the stored cases' numbers.         *)
(***************************************************************************)
EXTENDS Integers, FiniteSets, FiniteSetsExt

CONSTANTS Procs,      \* processes with a store scoped to the organisation
          Block,      \* CASE_SEQUENCE_BLOCK
          MaxNumber,  \* bound on the numbers handed out
          MaxBoots    \* bound on boots

VARIABLES phase,    \* process -> "down", "booting" or "up"
          next,     \* process -> the next number it hands out
          floor,    \* process -> its reservation mark
          reserve,  \* process -> floor of the sequence entries queued, 0 for none
          unsaved,  \* process -> numbers handed out whose case is not saved
          pending,  \* process -> numbers of the cases queued
          counter,  \* case_sequences.next, 0 before the first use
          cases,    \* numbers of the stored cases
          known,    \* process -> numbers of the cases in its memory
          block,    \* history: process -> the numbers its boot reserved
          abreast,  \* history: processes whose boot ran beside another's
          boots

vars == <<phase, next, floor, reserve, unsaved, pending, counter, cases, known, block, abreast, boots>>

Init == /\ phase = [p \in Procs |-> "down"] /\ next = [p \in Procs |-> 1]
        /\ floor = [p \in Procs |-> 0] /\ reserve = [p \in Procs |-> 0]
        /\ unsaved = [p \in Procs |-> {}] /\ pending = [p \in Procs |-> {}]
        /\ known = [p \in Procs |-> {}] /\ block = [p \in Procs |-> {}] /\ abreast = {}
        /\ counter = 0 /\ cases = {} /\ boots = 0

--------------------------------------------------------------------------------
(* Every process numbers from one. *)
highWaterOfNothing == 0

highWater == Max(cases \cup {IF counter = 0 THEN 0 ELSE counter - 1})

(* The row initialised at floor + Block, then advanced under its lock. *)
advanced(f) == LET initial == IF counter = 0 THEN f + Block ELSE counter
               IN  Max({initial + Block, f + Block})

bootLoad(p) ==
    LET others == {q \in Procs : phase[q] = "booting"}
    IN  /\ phase[p] = "down" /\ boots < MaxBoots /\ boots' = boots + 1
        /\ phase' = [phase EXCEPT ![p] = "booting"]
        /\ next' = [next EXCEPT ![p] = highWater + 1] /\ floor' = [floor EXCEPT ![p] = highWater]
        /\ known' = [known EXCEPT ![p] = cases]
        /\ abreast' = IF others = {} THEN abreast ELSE abreast \cup others \cup {p}
        /\ UNCHANGED <<block, reserve, unsaved, pending, counter, cases>>

(* Later in the boot transaction; the cursor keeps its position. *)
bootReserve(p) ==
    /\ phase[p] = "booting" /\ phase' = [phase EXCEPT ![p] = "up"]
    /\ counter' = advanced(floor[p]) /\ floor' = [floor EXCEPT ![p] = Max({@, counter' - 1})]
    /\ block' = [block EXCEPT ![p] = next[p]..(counter' - 1)]
    /\ UNCHANGED <<next, reserve, unsaved, pending, cases, known, abreast, boots>>

marked(f, n) == Max({f, n})

nextCaseSequence(p) ==
    /\ phase[p] = "up" /\ next[p] <= MaxNumber /\ next' = [next EXCEPT ![p] = @ + 1]
    /\ floor' = [floor EXCEPT ![p] = marked(@, next[p])] /\ reserve' = [reserve EXCEPT ![p] = floor'[p]]
    /\ unsaved' = [unsaved EXCEPT ![p] = @ \cup {next[p]}]
    /\ UNCHANGED <<phase, pending, counter, cases, known, block, abreast, boots>>

saveCase(p, n) ==
    /\ phase[p] = "up" /\ n \in unsaved[p]
    /\ unsaved' = [unsaved EXCEPT ![p] = @ \ {n}] /\ pending' = [pending EXCEPT ![p] = @ \cup {n}]
    /\ floor' = [floor EXCEPT ![p] = marked(@, n)] /\ next' = [next EXCEPT ![p] = Max({@, n + 1})]
    /\ known' = [known EXCEPT ![p] = @ \cup {n}]
    /\ UNCHANGED <<phase, reserve, counter, cases, block, abreast, boots>>

(* The tripwire: uq_collections_cases_seq refuses the whole batch. *)
writeBatch(p) ==
    /\ phase[p] = "up" /\ (reserve[p] # 0 \/ pending[p] # {}) /\ pending[p] \cap cases = {}
    /\ IF reserve[p] = 0 THEN UNCHANGED <<counter, floor>>
       ELSE counter' = advanced(reserve[p]) /\ floor' = [floor EXCEPT ![p] = Max({@, counter' - 1})]
    /\ cases' = cases \cup pending[p]
    /\ reserve' = [reserve EXCEPT ![p] = 0] /\ pending' = [pending EXCEPT ![p] = {}]
    /\ UNCHANGED <<phase, next, unsaved, known, block, abreast, boots>>

(* Its memory is gone. *)
Crash(p) ==
    /\ phase[p] # "down" /\ phase' = [phase EXCEPT ![p] = "down"]
    /\ next' = [next EXCEPT ![p] = 1] /\ floor' = [floor EXCEPT ![p] = 0]
    /\ reserve' = [reserve EXCEPT ![p] = 0] /\ unsaved' = [unsaved EXCEPT ![p] = {}]
    /\ pending' = [pending EXCEPT ![p] = {}] /\ known' = [known EXCEPT ![p] = {}]
    /\ block' = [block EXCEPT ![p] = {}] /\ abreast' = abreast \ {p}
    /\ UNCHANGED <<counter, cases, boots>>

Next == \E p \in Procs : \/ bootLoad(p) \/ bootReserve(p) \/ nextCaseSequence(p) \/ writeBatch(p) \/ Crash(p)
                         \/ \E n \in unsaved[p] : saveCase(p, n)

Spec == Init /\ [][Next]_vars

--------------------------------------------------------------------------------
(* Types; a process that is up has reserved at least what it handed out before its last batch. *)
TypeOK ==
    /\ \A p \in Procs : /\ phase[p] \in {"down", "booting", "up"} /\ next[p] \in Nat \ {0}
                        /\ phase[p] = "up" => (unsaved[p] \cup pending[p]) \subseteq 1..floor[p]
    /\ counter \in Nat /\ cases \subseteq 1..MaxNumber

(* resourcestore.ts, reserveCaseSequence: the counter "always lands past every *)
(* number this process handed out" - every stored case is below it.            *)
CounterCoversCases == \A n \in cases : n < counter

(* resourcestore.ts, nextCaseSequence: "a fresh process never re-issues a      *)
(* committed number" - whatever crashed between hand-out, save and flush, the  *)
(* cursor is past every case that was stored when the process booted and every *)
(* case it saved.  What another process stored since is not in its memory: the *)
(* cursor may be at that number, and the unique index refuses the batch.       *)
CommittedNotReissued == \A p \in Procs : phase[p] = "up" => \A n \in known[p] : n < next[p]

(* resourcestore.ts:944-946, "diverge safely": what two boots reserve is apart *)
(* when one boot ended before the other began.  Boots that run beside each     *)
(* other read the same counter, and a cursor leaves its block when it is used  *)
(* up: there the code does not keep numbers apart.                             *)
BlocksDiverge ==
    \A p, q \in Procs : (p # q /\ {p, q} \cap abreast = {}) => block[p] \cap block[q] = {}

================================================================================
