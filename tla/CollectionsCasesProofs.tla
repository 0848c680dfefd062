----------------------- MODULE CollectionsCasesProofs -----------------------
(***************************************************************************)
(* What holds of collections cases for every number of customers, cases,   *)
(* receivables and workers, and every interleaving of their transactions:  *)
(* a receivable is covered by at most one open case, and the action log of *)
(* a case tells the state of its row.                                      *)
(***************************************************************************)
EXTENDS CollectionsCases, TLAPS

\* The values of the model's fields, as the proofs type them.
Priority == {"low", "normal", "high", "urgent"}
Words == Statuses \cup Priority \cup {"", "none"}
OnCase == {"transition", "escalate", "record", "complete"}
Marks == {"case.opened", "case.transition", "case.escalation", "case.completion", "collections.dunningBlockedNoConsent"}
EntryKinds == caseActionTypes \cup Marks
Events == {"case.opened", "case.resolved", "case.closed", "case.escalated", "case.actionRecorded",
           "collections.dunningBlockedNoConsent"}

\* What NextCaseSequence may answer, 0 before it is asked.
CaseNumbers == {0} \cup {Cardinality(S) + 1 : S \in SUBSET Cases}

CaseRow == [status : Statuses \cup {"none"}, priority : Priority, sequenceNo : CaseNumbers, closedAt : BOOLEAN]
Command == [op : OnCase \cup {"none", "open"}, case : Cases \cup {None}, to : Words, receivables : SUBSET Receivables,
            type : ActionTypes \cup {""}, source : Sources \cup {"", "automated", "manual"},
            consentRef : BOOLEAN, outcome : BOOLEAN, target : Nat]
Txn == [pc : {"idle", "begun", "serialised", "uncovered", "read", "locked", "admitted"},
        cmd : Command, row : CaseRow, seq : CaseNumbers]
LogEntry == [sequenceNo : Nat, action : EntryKinds, from : Words, to : Words,
             source : Sources \cup {"", "automated", "manual"}, consentRef : BOOLEAN, outcome : BOOLEAN, target : Nat]

Typed ==
    /\ cases \in [Cases -> CaseRow]
    /\ links \in [Cases -> SUBSET Receivables] /\ marker \in [Cases -> SUBSET Receivables]
    /\ log \in [Cases -> Seq(LogEntry)] /\ outbox \in [Cases -> Seq(Events)]
    /\ orgLock \in Workers \cup {None} /\ caseLock \in [Cases -> Workers \cup {None}]
    /\ tx \in [Workers -> Txn]
    /\ commands \in 0 .. MaxCommands

\* The case a command works on exists, its arguments are of its kind, and once
\* it has the case's lock it keeps it; what CompleteAction was admitted for is
\* still to be done.
CommandOK(w) ==
    LET cmd == tx[w].cmd
        c == cmd.case
    IN /\ tx[w].pc = "idle" => cmd.op = "none"
       /\ tx[w].pc \in {"begun", "serialised", "uncovered"} => cmd.op = "open" /\ cmd.to \in Priority
       /\ tx[w].pc \in {"read", "locked", "admitted"} =>
             /\ cmd.op \in OnCase /\ c \in Existing
             /\ cmd.op = "transition" => cmd.to \in Statuses
             /\ cmd.op = "escalate" => cmd.to \in Priority
             /\ cmd.op = "record" => cmd.type \in ActionTypes
             /\ cmd.op = "complete" => cmd.target \in DOMAIN log[c]
       /\ tx[w].pc \in {"locked", "admitted"} => caseLock[c] = w
       /\ tx[w].pc = "admitted" /\ cmd.op = "complete" =>
             log[c][cmd.target].action \in caseActionTypes /\ ~CaseActionCompleted(c, cmd.target)

LocksOK ==
    /\ \A c \in Cases : caseLock[c] # None => tx[caseLock[c]].pc \in {"locked", "admitted"} /\ tx[caseLock[c]].cmd.case = c
    /\ orgLock # None => tx[orgLock].pc \in {"serialised", "uncovered"}

CompletionsOnce(c) ==
    \A i, j \in DOMAIN log[c] : log[c][i].action = "case.completion" =>
       /\ log[c][i].target \in DOMAIN log[c]
       /\ log[c][log[c][i].target].action \in caseActionTypes
       /\ (log[c][j].action = "case.completion" /\ log[c][j].target = log[c][i].target) => i = j

\* One case: its marker, its closing evidence, and what its log tells.
CaseOK(c) ==
    /\ marker[c] = IF caseIsOpen(cases[c].status) THEN links[c] ELSE {}
    /\ cases[c].closedAt <=> cases[c].status \in {"resolved", "closed_inactive"}
    /\ cases[c].status = "none" => log[c] = <<>> /\ outbox[c] = <<>>
    /\ c \in Existing =>
          /\ IsLastTo(c, "case.transition", "open", cases[c].status)
          /\ \E p \in Priority : IsLastTo(c, "case.escalation", p, cases[c].priority)
          /\ InStep(Told(c, "case.escalation"), Announced(c))
    /\ CompletionsOnce(c)

MarkersApart == \A c, d \in Cases : c # d => marker[c] \cap marker[d] = {}

IInv ==
    /\ Typed /\ LocksOK /\ MarkersApart
    /\ \A w \in Workers : CommandOK(w)
    /\ \A c \in Cases : CaseOK(c)

\* The values everything starts from are of their types.
LEMMA Initials == NoRow \in CaseRow /\ NoCmd \in Command /\ Idle \in Txn
                  /\ Idle.pc = "idle" /\ Idle.cmd = NoCmd /\ NoCmd.op = "none" /\ NoRow.status = "none" /\ ~NoRow.closedAt
<1>1. NoRow \in CaseRow /\ NoRow.status = "none" /\ ~NoRow.closedAt
  BY DEF NoRow, CaseRow, Priority, CaseNumbers
<1>2. NoCmd \in Command /\ NoCmd.op = "none"
  BY DEF NoCmd, Command, Words
<1>3. Idle \in Txn /\ Idle.pc = "idle" /\ Idle.cmd = NoCmd
  BY <1>1, <1>2 DEF Idle, Txn, CaseNumbers
<1> QED BY <1>1, <1>2, <1>3

\* An empty database with idle workers satisfies the invariant.
LEMMA InitIInv == Init => IInv
<1> SUFFICES ASSUME Init PROVE IInv
  OBVIOUS
<1> USE Initials
<1>1. Typed
  <2>1. <<>> \in Seq(LogEntry) /\ <<>> \in Seq(Events) /\ 0 \in 0 .. MaxCommands
    BY CaseAssumption
  <2> QED BY <2>1 DEF Init, Typed
<1>2. LocksOK /\ MarkersApart
  BY DEF Init, LocksOK, MarkersApart
<1>4. \A w \in Workers : CommandOK(w)
  BY DEF Init, CommandOK
<1>5. \A c \in Cases : CaseOK(c)
  <2> TAKE c \in Cases
  <2>1. cases[c] = NoRow /\ marker[c] = {} /\ log[c] = <<>> /\ outbox[c] = <<>> /\ c \notin Existing
    BY DEF Init, Existing
  <2>2. DOMAIN log[c] = {} /\ ~caseIsOpen("none")
    BY <2>1 DEF caseIsOpen
  <2>3. cases[c].closedAt <=> cases[c].status \in {"resolved", "closed_inactive"}
    BY <2>1
  <2> QED BY <2>1, <2>2, <2>3 DEF CaseOK, CompletionsOnce
<1> QED BY <1>1, <1>2, <1>4, <1>5 DEF IInv

-----------------------------------------------------------------------------
\* Nothing is in step with nothing.
LEMMA NothingInStep == InStep({}, {})
<1>1. [s \in {} |-> s] \in [{} -> {}]
  OBVIOUS
<1> QED BY <1>1, Zenon DEF InStep

\* Two sets in step stay so when each gets a new last element.
LEMMA InStepGrows ==
    ASSUME NEW S \in SUBSET Nat, NEW T \in SUBSET Nat, InStep(S, T), NEW n \in Nat, NEW m \in Nat,
           \A s \in S : s < n, \A t \in T : t < m
    PROVE  InStep(S \cup {n}, T \cup {m})
<1>1. PICK f \in [S -> T] : (\A t \in T : \E s \in S : f[s] = t) /\ (\A s, u \in S : s < u => f[s] < f[u])
  BY DEF InStep
<1> DEFINE g == [s \in S \cup {n} |-> IF s = n THEN m ELSE f[s]]
<1>2. g \in [S \cup {n} -> T \cup {m}] /\ g[n] = m /\ \A s \in S : g[s] = f[s]
  OBVIOUS
<1>3. ASSUME NEW t \in T \cup {m} PROVE \E s \in S \cup {n} : g[s] = t
  BY <1>1, <1>2
<1>4. ASSUME NEW s \in S \cup {n}, NEW u \in S \cup {n}, s < u PROVE g[s] < g[u]
  <2>1. s \in S
    BY <1>4
  <2>2. CASE u = n
    BY <1>2, <2>1, <2>2, Zenon
  <2>3. CASE u \in S
    BY <1>1, <1>2, <1>4, <2>1, <2>3
  <2> QED BY <2>2, <2>3
<1> HIDE DEF g
<1> QED BY <1>2, <1>3, <1>4 DEF InStep

\* An entry is appended to a case's log.
LEMMA LogGrows ==
    ASSUME NEW c, NEW e, log[c] \in Seq(LogEntry), log'[c] = Append(log[c], e), NEW a
    PROVE  /\ e.action = a => /\ \A x : IsLastTo(c, a, x, e.to)'
                              /\ Told(c, a)' = Told(c, a) \cup {Len(log[c]) + 1}
           /\ e.action # a => /\ \A x, v : IsLastTo(c, a, x, v) => IsLastTo(c, a, x, v)'
                              /\ Told(c, a)' = Told(c, a)
           /\ Told(c, a) \in SUBSET (1 .. Len(log[c])) /\ Len(log[c]) \in Nat
<1> DEFINE n == Len(log[c])
<1>1. n \in Nat /\ DOMAIN log[c] = 1 .. n /\ DOMAIN log'[c] = 1 .. n + 1 /\ log'[c][n + 1] = e
      /\ \A i \in 1 .. n : log'[c][i] = log[c][i]
  OBVIOUS
<1> HIDE DEF n
<1>2. Told(c, a) \in SUBSET (1 .. n)
  BY <1>1 DEF Told
<1>3. ASSUME e.action = a PROVE (\A x : IsLastTo(c, a, x, e.to)') /\ Told(c, a)' = Told(c, a) \cup {n + 1}
  <2>1. Told(c, a)' = Told(c, a) \cup {n + 1}
    BY <1>1, <1>3 DEF Told
  <2>2. n + 1 \in Told(c, a)' /\ log'[c][n + 1].to = e.to /\ \A j \in Told(c, a)' : j <= n + 1
    BY <1>1, <1>2, <2>1
  <2> QED BY <2>1, <2>2, Zenon DEF IsLastTo
<1>4. ASSUME e.action # a
      PROVE  (\A x, v : IsLastTo(c, a, x, v) => IsLastTo(c, a, x, v)') /\ Told(c, a)' = Told(c, a)
  <2>1. Told(c, a)' = Told(c, a) /\ \A i \in Told(c, a) : log'[c][i] = log[c][i]
    BY <1>1, <1>2, <1>4 DEF Told
  <2> QED BY <2>1, Zenon DEF IsLastTo
<1> QED BY <1>1, <1>2, <1>3, <1>4 DEF n

\* An event is appended to a case's outbox.
LEMMA AppendedEvent ==
    ASSUME IInv, NEW c \in Cases, NEW x \in Events, appendOutbox(c, x)
    PROVE  /\ outbox' \in [Cases -> Seq(Events)] /\ \A d \in Cases \ {c} : outbox'[d] = outbox[d]
           /\ x = "case.escalated" => Announced(c)' = Announced(c) \cup {Len(outbox[c]) + 1}
           /\ x # "case.escalated" => Announced(c)' = Announced(c)
           /\ Announced(c) \in SUBSET (1 .. Len(outbox[c])) /\ Len(outbox[c]) \in Nat
<1>1. outbox[c] \in Seq(Events) /\ outbox' = [outbox EXCEPT ![c] = Append(outbox[c], x)] /\ outbox'[c] = Append(outbox[c], x)
  BY DEF appendOutbox, IInv, Typed
<1>2. PICK n : n = Len(outbox[c])
  BY Zenon
<1>3. n \in Nat /\ DOMAIN outbox[c] = 1 .. n /\ DOMAIN outbox'[c] = 1 .. n + 1 /\ outbox'[c][n + 1] = x
      /\ \A i \in 1 .. n : outbox'[c][i] = outbox[c][i]
  BY <1>1, <1>2
<1>4. /\ Announced(c) \in SUBSET (1 .. n)
      /\ x = "case.escalated" => Announced(c)' = Announced(c) \cup {n + 1}
      /\ x # "case.escalated" => Announced(c)' = Announced(c)
  BY <1>3 DEF Announced
<1>5. Append(outbox[c], x) \in Seq(Events)
  BY <1>1
<1>6. outbox' \in [Cases -> Seq(Events)] /\ \A d \in Cases \ {c} : outbox'[d] = outbox[d]
  BY <1>1, <1>5 DEF IInv, Typed
<1> QED BY <1>2, <1>3, <1>4, <1>6

\* Closing evidence as a value.
LEMMA ClosedShape ==
    ASSUME NEW b \in BOOLEAN, NEW P \in BOOLEAN, b <=> P PROVE b = P
  OBVIOUS

-----------------------------------------------------------------------------
\* A worker's move leaves the other workers' commands as they were.
LEMMA OthersKeep ==
    ASSUME IInv, NEW w \in Workers, NEW v \in Workers, v # w, tx'[v] = tx[v], UNCHANGED <<cases, log>>,
           \A c \in Cases : caseLock[c] = v => caseLock'[c] = v
    PROVE  CommandOK(v)'
<1>1. CommandOK(v) /\ Existing \subseteq Cases
  BY DEF IInv, Existing
<1>2. \A c, i : CaseActionCompleted(c, i)' <=> CaseActionCompleted(c, i)
  BY DEF CaseActionCompleted
<1>3. Existing' = Existing
  BY DEF Existing
<1> QED BY <1>1, <1>2, <1>3 DEF CommandOK

\* A worker holds a lock only in the steps that follow its taking it.
LEMMA LocksHeld ==
    ASSUME IInv, NEW w \in Workers
    PROVE  /\ tx[w].pc \notin {"serialised", "uncovered"} => orgLock # w
           /\ \A d \in Cases : caseLock[d] = w => tx[w].pc \in {"locked", "admitted"} /\ tx[w].cmd.case = d
<1>1. LocksOK /\ w # None
  BY CaseAssumption DEF IInv
<1>2. ASSUME NEW d \in Cases, caseLock[d] = w PROVE tx[w].pc \in {"locked", "admitted"} /\ tx[w].cmd.case = d
  BY <1>1, <1>2, Zenon DEF LocksOK
<1>3. ASSUME orgLock = w PROVE tx[w].pc \in {"serialised", "uncovered"}
  BY <1>1, <1>3, Zenon DEF LocksOK
<1> QED BY <1>2, <1>3

\* A case whose rows are as they were.
LEMMA SameCase ==
    ASSUME NEW d, CaseOK(d), d \in Existing' <=> d \in Existing,
           cases'[d] = cases[d], marker'[d] = marker[d], links'[d] = links[d], log'[d] = log[d], outbox'[d] = outbox[d]
    PROVE  CaseOK(d)'
<1>1. Announced(d)' = Announced(d) /\ \A a : Told(d, a)' = Told(d, a)
  BY Zenon DEF Told, Announced
<1>2. \A a, x, y : IsLastTo(d, a, x, y) => IsLastTo(d, a, x, y)'
  BY <1>1, Zenon DEF IsLastTo
<1>3. d \in Existing' =>
         /\ IsLastTo(d, "case.transition", "open", cases[d].status)'
         /\ \E p \in Priority : IsLastTo(d, "case.escalation", p, cases[d].priority)'
         /\ InStep(Told(d, "case.escalation"), Announced(d))'
  BY <1>1, <1>2, Zenon DEF CaseOK
<1> QED BY <1>3 DEF CaseOK, CompletionsOnce

\* One worker moves and writes no row: it is enough to see to its own command
\* and to the locks it holds.
LEMMA TxMoves ==
    ASSUME IInv, NEW w \in Workers, NEW q \in Txn, tx' = [tx EXCEPT ![w] = q],
           UNCHANGED <<cases, links, marker, log, outbox>>, commands' \in 0 .. MaxCommands,
           orgLock' \in Workers \cup {None}, caseLock' \in [Cases -> Workers \cup {None}],
           \A v \in Workers \ {w} : /\ \A c \in Cases : caseLock'[c] = v <=> caseLock[c] = v
                                    /\ orgLock' = v => orgLock = v,
           \A c \in Cases : caseLock'[c] = w => q.pc \in {"locked", "admitted"} /\ q.cmd.case = c,
           orgLock' = w => q.pc \in {"serialised", "uncovered"},
           CommandOK(w)'
    PROVE  IInv'
<1>1. tx' \in [Workers -> Txn] /\ tx'[w] = q /\ \A v \in Workers \ {w} : tx'[v] = tx[v]
  BY DEF IInv, Typed
<1>2. Typed'
  BY <1>1 DEF IInv, Typed
<1>3. LocksOK'
  <2>1. ASSUME NEW c \in Cases, caseLock'[c] # None
        PROVE  tx'[caseLock'[c]].pc \in {"locked", "admitted"} /\ tx'[caseLock'[c]].cmd.case = c
    <3>1. PICK v \in Workers : v = caseLock'[c]
      BY <2>1
    <3>2. CASE v = w
      BY <1>1, <3>1, <3>2, Zenon
    <3>3. CASE v # w
      BY <1>1, <2>1, <3>1, <3>3 DEF IInv, LocksOK
    <3> QED BY <3>2, <3>3
  <2>2. ASSUME orgLock' # None PROVE tx'[orgLock'].pc \in {"serialised", "uncovered"}
    <3>1. PICK v \in Workers : v = orgLock'
      BY <2>2
    <3>2. CASE v = w
      BY <1>1, <3>1, <3>2
    <3>3. CASE v # w
      BY <1>1, <2>2, <3>1, <3>3 DEF IInv, LocksOK
    <3> QED BY <3>2, <3>3
  <2> QED BY <2>1, <2>2 DEF LocksOK
<1>4. \A v \in Workers : CommandOK(v)'
  BY <1>1, OthersKeep
<1>5. MarkersApart'
  BY DEF IInv, MarkersApart
<1>6. \A c \in Cases : CaseOK(c)'
  <2>1. Existing' = Existing /\ \A c \in Cases : CaseOK(c)
    BY DEF IInv, Existing
  <2> QED BY <2>1, SameCase
<1> QED BY <1>2, <1>3, <1>4, <1>5, <1>6 DEF IInv

\* Every failure of a transaction.
LEMMA RollbackKeeps == ASSUME IInv, NEW w \in Workers, Rollback(w) PROVE IInv'
<1> USE Initials, CaseAssumption
<1>1. tx' = [tx EXCEPT ![w] = Idle] /\ UNCHANGED <<cases, links, marker, log, outbox>> /\ commands' = commands
  BY DEF Rollback, db
<1>2. commands' \in 0 .. MaxCommands
  BY <1>1 DEF IInv, Typed
<1>3. /\ orgLock' \in Workers \cup {None} /\ caseLock' \in [Cases -> Workers \cup {None}]
      /\ orgLock' # w /\ \A c \in Cases : caseLock'[c] # w
  BY DEF Rollback, ReleaseLocks, IInv, Typed
<1>4. \A v \in Workers \ {w} : /\ \A c \in Cases : caseLock'[c] = v <=> caseLock[c] = v
                               /\ orgLock' = v => orgLock = v
  BY DEF Rollback, ReleaseLocks, IInv, Typed
<1>5. tx'[w] = Idle /\ \A v \in Workers \ {w} : tx'[v] = tx[v]
  BY <1>1 DEF IInv, Typed
<1>6. CommandOK(w)'
  BY <1>5 DEF CommandOK
<1> QED BY <1>1, <1>2, <1>3, <1>4, <1>6, TxMoves, Zenon

\* A commit to a case leaves the commands of the others as they were: the one
\* on the same case has at most read its row.
LEMMA OthersAfterWrite ==
    ASSUME IInv, NEW w \in Workers, NEW v \in Workers, v # w, tx'[v] = tx[v],
           \A d \in Cases : caseLock[d] = v => caseLock'[d] = v,
           NEW c \in Cases, c \in Existing => caseLock[c] = w, Existing' = Existing \cup {c},
           NEW e, log[c] \in Seq(LogEntry), log'[c] = Append(log[c], e), \A d \in Cases \ {c} : log'[d] = log[d]
    PROVE  CommandOK(v)'
<1>1. PICK d : d = tx[v].cmd.case
  OBVIOUS
<1>2. CommandOK(v) /\ Existing \subseteq Cases
  BY DEF IInv, Existing
<1>3. CASE d = c /\ tx[v].pc \in {"read", "locked", "admitted"}
  <2>1. tx[v].pc = "read" /\ d \in Existing'
    BY <1>1, <1>2, <1>3 DEF CommandOK
  <2>2. DOMAIN log[c] \subseteq DOMAIN log'[c]
    OBVIOUS
  <2> QED BY <1>1, <1>2, <1>3, <2>1, <2>2 DEF CommandOK
<1>4. CASE d # c /\ tx[v].pc \in {"read", "locked", "admitted"}
  <2>1. d \in Existing /\ d \in Cases /\ d \in Existing' /\ log'[d] = log[d]
    BY <1>1, <1>2, <1>4, Zenon DEF CommandOK
  <2>2. \A i : CaseActionCompleted(d, i)' <=> CaseActionCompleted(d, i)
    BY <2>1, SMTT(20) DEF CaseActionCompleted
  <2> QED BY <1>1, <1>2, <1>4, <2>1, <2>2, Zenon DEF CommandOK
<1>5. CASE tx[v].pc \notin {"read", "locked", "admitted"}
  BY <1>2, <1>5 DEF CommandOK
<1> QED BY <1>3, <1>4, <1>5

\* A transaction commits its writes to one case, which nobody else has locked.
CaseWrite(w, c, row, M, e) ==
    /\ Committed(w) /\ (c \in Existing => caseLock[c] = w)
    /\ cases' = [cases EXCEPT ![c] = row] /\ row \in CaseRow /\ row.status # "none"
    /\ marker' = [marker EXCEPT ![c] = M] /\ M \in SUBSET Receivables /\ \A d \in Cases \ {c} : marker[d] \cap M = {}
    /\ log' = [log EXCEPT ![c] = Append(log[c], e)] /\ e \in LogEntry
    /\ links' \in [Cases -> SUBSET Receivables] /\ \A d \in Cases \ {c} : links'[d] = links[d]
    /\ outbox' \in [Cases -> Seq(Events)] /\ \A d \in Cases \ {c} : outbox'[d] = outbox[d]

\* After such a commit it is enough to see to that case.
LEMMA CaseWritten ==
    ASSUME IInv, NEW w \in Workers, NEW c \in Cases, NEW row, NEW M, NEW e, CaseWrite(w, c, row, M, e), CaseOK(c)'
    PROVE  IInv'
<1>0. Committed(w) /\ row.status # "none" /\ (c \in Existing => caseLock[c] = w)
  BY DEF CaseWrite
<1>1. /\ tx' \in [Workers -> Txn] /\ tx'[w] = Idle /\ \A v \in Workers \ {w} : tx'[v] = tx[v]
      /\ commands' = commands
  BY <1>0, Initials DEF Committed, IInv, Typed
<1>2. /\ cases'[c] = row /\ marker'[c] = M /\ log'[c] = Append(log[c], e) /\ log[c] \in Seq(LogEntry)
      /\ \A d \in Cases \ {c} : cases'[d] = cases[d] /\ marker'[d] = marker[d] /\ log'[d] = log[d]
  BY DEF CaseWrite, IInv, Typed
<1>3. /\ orgLock' \in Workers \cup {None} /\ caseLock' \in [Cases -> Workers \cup {None}]
      /\ \A d \in Cases : caseLock'[d] # None => caseLock'[d] = caseLock[d] /\ caseLock[d] # w
      /\ \A d \in Cases : caseLock[d] # w => caseLock'[d] = caseLock[d]
      /\ orgLock' # None => orgLock' = orgLock /\ orgLock # w
  BY <1>0, CaseAssumption DEF Committed, ReleaseLocks, IInv, Typed
<1>4. Typed'
  <2>1. cases' \in [Cases -> CaseRow] /\ marker' \in [Cases -> SUBSET Receivables]
    BY DEF CaseWrite, IInv, Typed
  <2>2. Append(log[c], e) \in Seq(LogEntry)
    BY <1>2 DEF CaseWrite
  <2>3. log' \in [Cases -> Seq(LogEntry)]
    BY <2>2 DEF CaseWrite, IInv, Typed
  <2>4. commands' \in 0 .. MaxCommands
    BY <1>1 DEF IInv, Typed
  <2> QED BY <1>1, <1>3, <2>1, <2>3, <2>4 DEF Typed, CaseWrite
<1>5. LocksOK'
  <2>1. ASSUME NEW d \in Cases, caseLock'[d] # None
        PROVE  tx'[caseLock'[d]].pc \in {"locked", "admitted"} /\ tx'[caseLock'[d]].cmd.case = d
    <3>1. PICK v \in Workers : v = caseLock'[d] /\ v = caseLock[d] /\ v # w /\ v # None
      BY <1>3, <2>1
    <3> QED BY <1>1, <3>1 DEF IInv, LocksOK
  <2>2. ASSUME orgLock' # None PROVE tx'[orgLock'].pc \in {"serialised", "uncovered"}
    <3>1. PICK v \in Workers : v = orgLock' /\ v = orgLock /\ v # w /\ v # None
      BY <1>3, <2>2
    <3> QED BY <1>1, <3>1 DEF IInv, LocksOK
  <2> QED BY <2>1, <2>2 DEF LocksOK
<1>6. MarkersApart'
  BY <1>2 DEF CaseWrite, IInv, MarkersApart
<1>7. Existing' = Existing \cup {c} /\ Existing \subseteq Cases /\ (c \in Existing => caseLock[c] = w)
  BY <1>0, <1>2 DEF Existing
<1>8. ASSUME NEW v \in Workers PROVE CommandOK(v)'
  <2>1. CASE v = w
    BY <1>1, <2>1, Initials DEF CommandOK
  <2>2. CASE v # w
    <3>1. tx'[v] = tx[v] /\ \A d \in Cases : caseLock[d] = v => caseLock'[d] = v
      BY <1>1, <1>3, <2>2
    <3> QED BY <1>2, <1>7, <2>2, <3>1, OthersAfterWrite, Zenon
  <2> QED BY <2>1, <2>2
<1>9. ASSUME NEW d \in Cases, d # c PROVE CaseOK(d)'
  <2>1. CaseOK(d) /\ (d \in Existing' <=> d \in Existing)
    BY <1>7, <1>9 DEF IInv
  <2>2. links'[d] = links[d] /\ outbox'[d] = outbox[d]
    BY <1>9 DEF CaseWrite
  <2> QED BY <1>2, <1>9, <2>1, <2>2, SameCase, Zenon
<1> QED BY <1>4, <1>5, <1>6, <1>8, <1>9 DEF IInv

\* A completion is of an action that was not completed yet.
CompletionFits(c, e) ==
    e.action = "case.completion" =>
       e.target \in DOMAIN log[c] /\ log[c][e.target].action \in caseActionTypes /\ ~CaseActionCompleted(c, e.target)

\* What an entry does to what the log tells of its case.
LEMMA EntryKeeps ==
    ASSUME IInv, NEW c \in Cases, NEW e \in LogEntry, log'[c] = Append(log[c], e), CompletionFits(c, e)
    PROVE  CompletionsOnce(c)'
<1> DEFINE n == Len(log[c])
<1>0. log[c] \in Seq(LogEntry) /\ CompletionsOnce(c)
  BY DEF IInv, Typed, CaseOK
<1>1. n \in Nat /\ DOMAIN log[c] = 1 .. n /\ DOMAIN log'[c] = 1 .. n + 1 /\ log'[c][n + 1] = e
      /\ \A i \in 1 .. n : log'[c][i] = log[c][i]
  BY <1>0
<1> HIDE DEF n
<1>2. \A i \in 1 .. n : log[c][i].action = "case.completion" /\ e.action = "case.completion" => log[c][i].target # e.target
  BY <1>1 DEF CompletionFits, CaseActionCompleted
<1>3. \A i \in 1 .. n : log[c][i].action = "case.completion" =>
         log[c][i].target \in 1 .. n /\ log[c][log[c][i].target].action \in caseActionTypes
  BY <1>0, <1>1, SMTT(20) DEF CompletionsOnce
<1>4. ASSUME NEW i \in 1 .. n + 1, log'[c][i].action = "case.completion"
      PROVE  log'[c][i].target \in 1 .. n /\ log'[c][log'[c][i].target].action \in caseActionTypes
  <2>1. CASE i = n + 1
    BY <1>1, <1>4, <2>1 DEF CompletionFits
  <2>2. CASE i # n + 1
    <3>1. i \in 1 .. n
      BY <1>1, <2>2
    <3> QED BY <1>1, <1>3, <1>4, <3>1
  <2> QED BY <2>1, <2>2, Zenon
<1>5. ASSUME NEW i \in 1 .. n + 1, NEW j \in 1 .. n + 1,
             log'[c][i].action = "case.completion", log'[c][j].action = "case.completion",
             log'[c][j].target = log'[c][i].target
      PROVE  i = j
  <2>1. CASE i = n + 1 /\ j = n + 1
    BY <2>1
  <2>2. CASE i = n + 1 /\ j # n + 1
    <3>1. j \in 1 .. n
      BY <1>1, <2>2
    <3> QED BY <1>1, <1>2, <1>5, <2>2, <3>1
  <2>3. CASE i # n + 1 /\ j = n + 1
    <3>1. i \in 1 .. n
      BY <1>1, <2>3
    <3> QED BY <1>1, <1>2, <1>5, <2>3, <3>1
  <2>4. CASE i # n + 1 /\ j # n + 1
    <3>1. i \in 1 .. n /\ j \in 1 .. n
      BY <1>1, <2>4
    <3>2. log[c][i].action = "case.completion" /\ log[c][j].action = "case.completion" /\ log[c][j].target = log[c][i].target
      BY <1>1, <1>5, <3>1
    <3> QED BY <1>0, <1>1, <3>1, <3>2, Zenon DEF CompletionsOnce
  <2> QED BY <2>1, <2>2, <2>3, <2>4
<1>6. 1 .. n \subseteq 1 .. n + 1
  BY <1>1
<1> QED BY <1>1, <1>4, <1>5, <1>6 DEF CompletionsOnce

\* Every entry the commands append is one of the log's kinds.
LEMMA EntryTyped ==
    ASSUME IInv, NEW c \in Cases, NEW action \in EntryKinds, NEW from \in Words, NEW to \in Words,
           NEW cmd \in Command
    PROVE  LET e == Entry(c, action, from, to, cmd)
           IN  e \in LogEntry /\ e.action = action /\ e.to = to /\ e.target = cmd.target
<1>1. Len(log[c]) + 1 \in Nat
  BY DEF IInv, Typed
<1>2. /\ cmd.source \in Sources \cup {"", "automated", "manual"} /\ cmd.consentRef \in BOOLEAN
      /\ cmd.outcome \in BOOLEAN /\ cmd.target \in Nat
  BY Zenon DEF Command
<1> QED BY <1>1, <1>2, Zenon DEF Entry, LogEntry

\* An admitted command holds the lock of a case that exists.
LEMMA AdmittedHolds ==
    ASSUME IInv, NEW w \in Workers, tx[w].pc = "admitted"
    PROVE  /\ tx[w].cmd.case \in Existing /\ tx[w].cmd.case \in Cases /\ caseLock[tx[w].cmd.case] = w
           /\ tx[w].cmd \in Command /\ tx[w].row \in CaseRow
           /\ cases[tx[w].cmd.case] \in CaseRow /\ cases[tx[w].cmd.case].status # "none"
           /\ CaseOK(tx[w].cmd.case) /\ CommandOK(w)
<1>1. CommandOK(w) /\ tx[w] \in Txn
  BY DEF IInv, Typed
<1>2. tx[w].cmd.case \in Existing /\ caseLock[tx[w].cmd.case] = w
  BY <1>1 DEF CommandOK
<1>3. tx[w].cmd.case \in Cases /\ cases[tx[w].cmd.case].status # "none"
  BY <1>2 DEF Existing
<1> QED BY <1>1, <1>2, <1>3 DEF IInv, Typed, Txn

\* A command on a case commits: one entry, and the row and the events it tells of.
LEMMA CommandCommits ==
    ASSUME IInv, NEW w \in Workers, NEW c \in Cases, NEW row, NEW M, NEW e, CaseWrite(w, c, row, M, e),
           row.closedAt <=> row.status \in {"resolved", "closed_inactive"},
           UNCHANGED links, M = fuatilia_case_r8_marker_sync(c, row.status), CompletionFits(c, e),
           IsLastTo(c, "case.transition", "open", row.status)',
           \E p \in Priority : IsLastTo(c, "case.escalation", p, row.priority)',
           InStep(Told(c, "case.escalation"), Announced(c))'
    PROVE  IInv'
<1>1. /\ log'[c] = Append(log[c], e) /\ cases'[c] = row /\ marker'[c] = M /\ links'[c] = links[c]
      /\ e \in LogEntry /\ row.status # "none"
  BY Zenon DEF CaseWrite, IInv, Typed
<1>2. CompletionsOnce(c)'
  BY <1>1, EntryKeeps, Zenon
<1>3. CaseOK(c)'
  BY <1>1, <1>2, Zenon DEF CaseOK, fuatilia_case_r8_marker_sync
<1> QED BY <1>3, CaseWritten, Zenon

\* Writes of the log and the outbox, as the commands make them.
LEMMA AppendTyped ==
    ASSUME IInv, NEW c \in Cases, NEW action \in EntryKinds, NEW from \in Words, NEW to \in Words,
           NEW cmd \in Command, AppendCaseAction(c, action, from, to, cmd)
    PROVE  \E e \in LogEntry : /\ e.action = action /\ e.to = to /\ e.target = cmd.target
                               /\ log' = [log EXCEPT ![c] = Append(log[c], e)] /\ log'[c] = Append(log[c], e)
<1> DEFINE e == Entry(c, action, from, to, cmd)
<1>1. e \in LogEntry /\ e.action = action /\ e.to = to /\ e.target = cmd.target
  BY EntryTyped
<1>2. log' = [log EXCEPT ![c] = Append(log[c], e)] /\ log'[c] = Append(log[c], e)
  BY DEF AppendCaseAction, IInv, Typed
<1> QED BY <1>1, <1>2, Zenon

\* Escalate.
LEMMA EscalateKeeps == ASSUME IInv, NEW w \in Workers, Escalate(w) PROVE IInv'
<1>0. PICK c, cmd, from : c = cmd.case /\ cmd = tx[w].cmd /\ from = tx[w].row.priority
  OBVIOUS
<1>1. /\ cmd.op = "escalate" /\ tx[w].pc = "admitted" /\ Committed(w) /\ UNCHANGED <<links, marker>>
      /\ cases' = [cases EXCEPT ![c].priority = cmd.to]
      /\ AppendCaseAction(c, "case.escalation", from, cmd.to, NoCmd)
      /\ appendOutbox(c, "case.escalated")
  BY <1>0, SMTT(20) DEF Escalate
<1>2. /\ c \in Existing /\ c \in Cases /\ cases[c] \in CaseRow /\ cases[c].status # "none"
      /\ CaseOK(c) /\ cmd.to \in Priority /\ from \in Priority
  BY <1>0, <1>1, AdmittedHolds DEF CommandOK, CaseRow
<1>3. PICK row \in CaseRow : row.status = cases[c].status /\ row.closedAt = cases[c].closedAt /\ row.priority = cmd.to
                             /\ cases' = [cases EXCEPT ![c] = row]
  <2> DEFINE row == [cases[c] EXCEPT !.priority = cmd.to]
  <2>1. row \in CaseRow /\ row.status = cases[c].status /\ row.closedAt = cases[c].closedAt /\ row.priority = cmd.to
    BY <1>2 DEF CaseRow
  <2>2. cases' = [cases EXCEPT ![c] = row]
    BY <1>1, <1>2 DEF IInv, Typed
  <2> QED BY <2>1, <2>2, Zenon
<1>4. from \in Words /\ cmd.to \in Words /\ "case.escalation" \in EntryKinds /\ "case.escalated" \in Events
  BY <1>2, Zenon DEF Words, EntryKinds, Marks, Events
<1>5. PICK e \in LogEntry : e.action = "case.escalation" /\ e.to = cmd.to
                            /\ log' = [log EXCEPT ![c] = Append(log[c], e)] /\ log'[c] = Append(log[c], e)
  BY <1>1, <1>2, <1>4, Initials, AppendTyped
<1>6. /\ outbox' \in [Cases -> Seq(Events)] /\ \A d \in Cases \ {c} : outbox'[d] = outbox[d]
      /\ Announced(c)' = Announced(c) \cup {Len(outbox[c]) + 1}
      /\ Announced(c) \in SUBSET (1 .. Len(outbox[c])) /\ Len(outbox[c]) \in Nat
  BY <1>1, <1>2, <1>4, AppendedEvent
<1>7. log[c] \in Seq(LogEntry)
  BY <1>2 DEF IInv, Typed
<1>8. (\A x : IsLastTo(c, "case.escalation", x, cmd.to)')
      /\ Told(c, "case.escalation")' = Told(c, "case.escalation") \cup {Len(log[c]) + 1}
      /\ Told(c, "case.escalation") \in SUBSET (1 .. Len(log[c])) /\ Len(log[c]) \in Nat
  BY <1>5, <1>7, LogGrows, Zenon
<1>9. IsLastTo(c, "case.transition", "open", row.status) => IsLastTo(c, "case.transition", "open", row.status)'
  BY <1>5, <1>7, LogGrows, Zenon
<1>10. IsLastTo(c, "case.transition", "open", row.status)' /\ InStep(Told(c, "case.escalation"), Announced(c))'
  <2>1. IsLastTo(c, "case.transition", "open", row.status) /\ InStep(Told(c, "case.escalation"), Announced(c))
    BY <1>2, <1>3 DEF CaseOK
  <2>2. PICK S, T, n, m : /\ S = Told(c, "case.escalation") /\ T = Announced(c)
                          /\ n = Len(log[c]) + 1 /\ m = Len(outbox[c]) + 1
    OBVIOUS
  <2>3. /\ S \in SUBSET Nat /\ T \in SUBSET Nat /\ n \in Nat /\ m \in Nat
        /\ (\A s \in S : s < n) /\ (\A t \in T : t < m)
    BY <1>6, <1>8, <2>2
  <2>4. InStep(S \cup {n}, T \cup {m})
    BY <2>1, <2>2, <2>3, InStepGrows
  <2>5. Told(c, "case.escalation")' = S \cup {n} /\ Announced(c)' = T \cup {m}
    BY <1>6, <1>8, <2>2
  <2>6. InStep(Told(c, "case.escalation")', Announced(c)')
    BY <2>4, <2>5
  <2> QED BY <1>9, <2>1, <2>6
<1>11. PICK M : M = marker[c]
  OBVIOUS
<1>12. row.closedAt <=> row.status \in {"resolved", "closed_inactive"}
  BY <1>2, <1>3 DEF CaseOK
<1>13. M = fuatilia_case_r8_marker_sync(c, row.status)
  BY <1>2, <1>3, <1>11 DEF CaseOK, fuatilia_case_r8_marker_sync
<1>14. \E p \in Priority : IsLastTo(c, "case.escalation", p, row.priority)'
  BY <1>3, <1>8 DEF Priority
<1>15. c \in Cases /\ UNCHANGED links /\ CompletionFits(c, e)
  BY <1>1, <1>2, <1>5 DEF CompletionFits
<1>16. CaseWrite(w, c, row, M, e)
  <2>1. /\ marker' = [marker EXCEPT ![c] = M] /\ M \in SUBSET Receivables /\ \A d \in Cases \ {c} : marker[d] \cap M = {}
        /\ links' \in [Cases -> SUBSET Receivables] /\ \A d \in Cases \ {c} : links'[d] = links[d]
    BY <1>1, <1>2, <1>11, SMTT(20) DEF IInv, Typed, MarkersApart
  <2>2. Committed(w) /\ caseLock[c] = w /\ row.status # "none"
    BY <1>0, <1>1, <1>2, <1>3, AdmittedHolds
  <2> QED BY <1>3, <1>5, <1>6, <2>1, <2>2, Zenon DEF CaseWrite
<1> QED BY <1>10, <1>12, <1>13, <1>14, <1>15, <1>16, CommandCommits, Zenon

\* A command that adds an entry and leaves the row as it is.
LEMMA RowUnchanged ==
    ASSUME IInv, NEW w \in Workers, Committed(w), NEW c \in Cases, c \in Existing, caseLock[c] = w,
           UNCHANGED <<cases, links, marker>>,
           NEW e \in LogEntry, log' = [log EXCEPT ![c] = Append(log[c], e)], CompletionFits(c, e),
           e.action # "case.transition", e.action # "case.escalation",
           outbox' \in [Cases -> Seq(Events)], \A d \in Cases \ {c} : outbox'[d] = outbox[d],
           Announced(c)' = Announced(c)
    PROVE  IInv'
<1>1. CaseOK(c) /\ log[c] \in Seq(LogEntry) /\ log'[c] = Append(log[c], e)
  BY Zenon DEF IInv, Typed
<1>2. PICK row, M : row = cases[c] /\ M = marker[c]
  BY Zenon
<1>3. CaseWrite(w, c, row, M, e)
  <2>1. row \in CaseRow /\ row.status # "none" /\ cases' = [cases EXCEPT ![c] = row]
    BY <1>2, Zenon DEF IInv, Typed, Existing
  <2>2. /\ marker' = [marker EXCEPT ![c] = M] /\ M \in SUBSET Receivables /\ \A d \in Cases \ {c} : marker[d] \cap M = {}
        /\ links' \in [Cases -> SUBSET Receivables] /\ \A d \in Cases \ {c} : links'[d] = links[d]
    BY <1>2, Zenon DEF IInv, Typed, MarkersApart
  <2> QED BY <2>1, <2>2, Zenon DEF CaseWrite
<1>4. row.closedAt <=> row.status \in {"resolved", "closed_inactive"}
  BY <1>1, <1>2, Zenon DEF CaseOK
<1>5. M = fuatilia_case_r8_marker_sync(c, row.status)
  BY <1>1, <1>2, Zenon DEF CaseOK, fuatilia_case_r8_marker_sync
<1>6. IsLastTo(c, "case.transition", "open", row.status) => IsLastTo(c, "case.transition", "open", row.status)'
  BY <1>1, LogGrows, Zenon
<1>7. \A p : IsLastTo(c, "case.escalation", p, row.priority) => IsLastTo(c, "case.escalation", p, row.priority)'
  BY <1>1, LogGrows, Zenon
<1>8. Told(c, "case.escalation")' = Told(c, "case.escalation")
  BY <1>1, LogGrows, Zenon
<1>9. /\ IsLastTo(c, "case.transition", "open", row.status)'
      /\ \E p \in Priority : IsLastTo(c, "case.escalation", p, row.priority)'
      /\ InStep(Told(c, "case.escalation"), Announced(c))'
  BY <1>1, <1>2, <1>6, <1>7, <1>8, Zenon DEF CaseOK
<1> QED BY <1>3, <1>4, <1>5, <1>9, CommandCommits, Zenon

\* RecordAction, blocked or not.
LEMMA RecordKeeps == ASSUME IInv, NEW w \in Workers, RecordAction(w) PROVE IInv'
<1>0. PICK c, cmd : c = cmd.case /\ cmd = tx[w].cmd
  OBVIOUS
<1>1. cmd.op = "record" /\ tx[w].pc = "admitted" /\ Committed(w) /\ UNCHANGED <<cases, links, marker>>
  BY <1>0, Zenon DEF RecordAction
<1>2. c \in Cases /\ c \in Existing /\ caseLock[c] = w /\ cmd \in Command /\ cmd.type \in ActionTypes
  BY <1>0, <1>1, AdmittedHolds, Zenon DEF CommandOK
<1>3. PICK a \in caseActionTypes \cup {"collections.dunningBlockedNoConsent"}, r \in Command,
           x \in {"case.actionRecorded", "collections.dunningBlockedNoConsent"} :
           AppendCaseAction(c, a, "", "", r) /\ appendOutbox(c, x)
  <2>1. CASE cmd.type \in outboundTypes /\ cmd.source = "automated" /\ ~ cmd.consentRef
    <3>1. /\ AppendCaseAction(c, "collections.dunningBlockedNoConsent", "", "", NoCmd)
          /\ appendOutbox(c, "collections.dunningBlockedNoConsent")
      BY <1>0, <2>1, Zenon DEF RecordAction
    <3> QED BY <3>1, Initials, Zenon
  <2>2. CASE ~(cmd.type \in outboundTypes /\ cmd.source = "automated" /\ ~ cmd.consentRef)
    <3>1. AppendCaseAction(c, cmd.type, "", "", cmd) /\ appendOutbox(c, "case.actionRecorded")
      BY <1>0, <2>2, Zenon DEF RecordAction
    <3>2. cmd.type \in caseActionTypes
      BY <1>2, CaseAssumption
    <3> QED BY <1>2, <3>1, <3>2, Zenon
  <2> QED BY <2>1, <2>2, Zenon
<1>4. a \in EntryKinds /\ x \in Events /\ x # "case.escalated"
  BY DEF EntryKinds, Marks, Events
<1>5. PICK e \in LogEntry : e.action = a /\ log' = [log EXCEPT ![c] = Append(log[c], e)]
  <2>1. PICK nil \in Words : nil = ""
    BY Zenon DEF Words
  <2>2. AppendCaseAction(c, a, nil, nil, r)
    BY <1>3, <2>1, Zenon
  <2>3. \E e \in LogEntry : /\ e.action = a /\ e.to = nil /\ e.target = r.target
                            /\ log' = [log EXCEPT ![c] = Append(log[c], e)] /\ log'[c] = Append(log[c], e)
    BY <1>2, <1>4, <2>2, AppendTyped
  <2> QED BY <2>3, Zenon
<1>6. e.action # "case.transition" /\ e.action # "case.escalation" /\ CompletionFits(c, e)
  BY <1>5 DEF caseActionTypes, outboundTypes, CompletionFits
<1>7. /\ outbox' \in [Cases -> Seq(Events)] /\ \A d \in Cases \ {c} : outbox'[d] = outbox[d]
      /\ Announced(c)' = Announced(c)
  BY <1>2, <1>3, <1>4, AppendedEvent, Zenon
<1> QED BY <1>1, <1>2, <1>5, <1>6, <1>7, RowUnchanged, Zenon

\* CompleteAction.
LEMMA CompleteKeeps == ASSUME IInv, NEW w \in Workers, CompleteAction(w) PROVE IInv'
<1>0. PICK c, cmd : c = cmd.case /\ cmd = tx[w].cmd
  OBVIOUS
<1>1. /\ cmd.op = "complete" /\ tx[w].pc = "admitted" /\ Committed(w) /\ UNCHANGED <<cases, links, marker, outbox>>
      /\ AppendCaseAction(c, "case.completion", "", "", cmd)
  BY <1>0, Zenon DEF CompleteAction
<1>2. c \in Cases /\ c \in Existing /\ caseLock[c] = w /\ cmd \in Command
  BY <1>0, <1>1, AdmittedHolds, Zenon
<1>3. /\ cmd.target \in DOMAIN log[c]
      /\ log[c][cmd.target].action \in caseActionTypes /\ ~CaseActionCompleted(c, cmd.target)
  BY <1>0, <1>1, AdmittedHolds, Zenon DEF CommandOK
<1>4. "case.completion" \in EntryKinds
  BY DEF EntryKinds, Marks
<1>5. PICK e \in LogEntry : /\ e.action = "case.completion" /\ e.target = cmd.target
                            /\ log' = [log EXCEPT ![c] = Append(log[c], e)]
  <2>1. PICK nil \in Words : nil = ""
    BY Zenon DEF Words
  <2>2. AppendCaseAction(c, "case.completion", nil, nil, cmd)
    BY <1>1, <2>1, Zenon
  <2>3. \E e \in LogEntry : /\ e.action = "case.completion" /\ e.to = nil /\ e.target = cmd.target
                            /\ log' = [log EXCEPT ![c] = Append(log[c], e)] /\ log'[c] = Append(log[c], e)
    BY <1>2, <1>4, <2>2, AppendTyped
  <2> QED BY <2>3, Zenon
<1>6. /\ outbox' \in [Cases -> Seq(Events)] /\ \A d \in Cases \ {c} : outbox'[d] = outbox[d]
      /\ Announced(c)' = Announced(c)
  BY <1>1, Zenon DEF IInv, Typed, Announced
<1>7. CompletionFits(c, e)
  BY <1>3, <1>5 DEF CompletionFits
<1>8. e.action # "case.transition" /\ e.action # "case.escalation" /\ UNCHANGED <<cases, links, marker>>
  BY <1>1, <1>5, Zenon
<1> QED BY <1>1, <1>2, <1>5, <1>6, <1>7, <1>8, RowUnchanged, Zenon

\* The event of a transition: none before the case is closed.
LEMMA TransitionEvents ==
    ASSUME IInv, NEW c \in Cases, NEW to \in Statuses,
           IF to \in DOMAIN TransitionEvent THEN appendOutbox(c, TransitionEvent[to]) ELSE UNCHANGED outbox
    PROVE  /\ outbox' \in [Cases -> Seq(Events)] /\ \A d \in Cases \ {c} : outbox'[d] = outbox[d]
           /\ Announced(c)' = Announced(c)
<1>1. CASE to \in DOMAIN TransitionEvent
  <2>1. PICK x \in {"case.resolved", "case.closed"} : appendOutbox(c, x)
    BY <1>1 DEF TransitionEvent
  <2>2. x \in Events /\ x # "case.escalated"
    BY DEF Events
  <2> QED BY <2>1, <2>2, AppendedEvent
<1>2. CASE to \notin DOMAIN TransitionEvent
  BY <1>2 DEF IInv, Typed, Announced
<1> QED BY <1>1, <1>2

\* Transition, whose row may be stale: the status it writes is the one it logs.
LEMMA TransitionKeeps == ASSUME IInv, NEW w \in Workers, Transition(w) PROVE IInv'
<1>0. PICK c, cmd, from, M : /\ c = cmd.case /\ cmd = tx[w].cmd /\ from = tx[w].row.status
                             /\ M = fuatilia_case_r8_marker_sync(c, cmd.to)
  OBVIOUS
<1>1. cmd.op = "transition" /\ tx[w].pc = "admitted"
  BY <1>0 DEF Transition
<1>2. CASE ~uq_r8_one_open_case_per_receivable(c, M)
  BY <1>0, <1>2, RollbackKeeps, Zenon DEF Transition
<1>3. CASE uq_r8_one_open_case_per_receivable(c, M)
  <2>1. /\ UpdateCaseStatus(c, cmd.to) /\ marker' = [marker EXCEPT ![c] = M]
        /\ AppendCaseAction(c, "case.transition", from, cmd.to, NoCmd)
        /\ Committed(w) /\ UNCHANGED links
        /\ IF cmd.to \in DOMAIN TransitionEvent THEN appendOutbox(c, TransitionEvent[cmd.to]) ELSE UNCHANGED outbox
    BY <1>0, <1>3, Zenon DEF Transition
  <2>2. c \in Cases /\ c \in Existing /\ caseLock[c] = w /\ cases[c] \in CaseRow
    BY <1>0, <1>1, AdmittedHolds
  <2>3. CaseOK(c) /\ cmd.to \in Statuses /\ from \in Statuses \cup {"none"}
    BY <1>0, <1>1, AdmittedHolds, Zenon DEF CommandOK, CaseRow
  <2>4. PICK row \in CaseRow : /\ row.status = cmd.to /\ row.priority = cases[c].priority
                               /\ row.closedAt = (caseTransitions[cmd.to] = {})
                               /\ cases' = [cases EXCEPT ![c] = row]
    <3> DEFINE row == [cases[c] EXCEPT !.status = cmd.to, !.closedAt = (caseTransitions[cmd.to] = {})]
    <3>1. /\ row \in CaseRow /\ row.status = cmd.to /\ row.priority = cases[c].priority
          /\ row.closedAt = (caseTransitions[cmd.to] = {})
      BY <2>2, <2>3, Zenon DEF CaseRow
    <3>2. cases' = [cases EXCEPT ![c] = row]
      BY <2>1, <2>2, Zenon DEF UpdateCaseStatus, IInv, Typed, CaseRow
    <3> QED BY <3>1, <3>2, Zenon
  <2>5. row.status # "none" /\ (row.closedAt <=> row.status \in {"resolved", "closed_inactive"})
    <3>1. caseTransitions[cmd.to] = {} <=> cmd.to \in {"resolved", "closed_inactive"}
      <4>1. /\ caseTransitions["open"] = {"in_progress"} /\ caseTransitions["in_progress"] = {"resolved", "closed_inactive"}
            /\ caseTransitions["resolved"] = {} /\ caseTransitions["closed_inactive"] = {}
        BY DEF caseTransitions
      <4> QED BY <2>3, <4>1 DEF Statuses
    <3>2. cmd.to # "none"
      BY <2>3 DEF Statuses
    <3> QED BY <2>4, <3>1, <3>2, Zenon
  <2>6. from \in Words /\ cmd.to \in Words /\ "case.transition" \in EntryKinds
    BY <2>3, Zenon DEF Words, EntryKinds, Marks
  <2>7. PICK e \in LogEntry : /\ e.action = "case.transition" /\ e.to = cmd.to
                              /\ log' = [log EXCEPT ![c] = Append(log[c], e)] /\ log'[c] = Append(log[c], e)
    <3>1. AppendCaseAction(c, "case.transition", from, cmd.to, NoCmd) /\ NoCmd \in Command
      BY <2>1, Initials
    <3> QED BY <2>2, <2>6, <3>1, AppendTyped
  <2>8. /\ outbox' \in [Cases -> Seq(Events)] /\ \A d \in Cases \ {c} : outbox'[d] = outbox[d]
        /\ Announced(c)' = Announced(c)
    BY <2>1, <2>2, <2>3, TransitionEvents
  <2>9. log[c] \in Seq(LogEntry)
    BY <2>2 DEF IInv, Typed
  <2>10. IsLastTo(c, "case.transition", "open", cmd.to)'
    BY <2>7, <2>9, LogGrows, Zenon
  <2>11. /\ \A p : IsLastTo(c, "case.escalation", p, cases[c].priority) => IsLastTo(c, "case.escalation", p, row.priority)'
         /\ Told(c, "case.escalation")' = Told(c, "case.escalation")
    BY <2>4, <2>7, <2>9, LogGrows, Zenon
  <2>12. /\ IsLastTo(c, "case.transition", "open", row.status)'
         /\ \E p \in Priority : IsLastTo(c, "case.escalation", p, row.priority)'
         /\ InStep(Told(c, "case.escalation"), Announced(c))'
    BY <2>2, <2>3, <2>4, <2>8, <2>10, <2>11, Zenon DEF CaseOK
  <2>13. M = fuatilia_case_r8_marker_sync(c, row.status) /\ CompletionFits(c, e)
    BY <1>0, <2>4, <2>7, ZenonT(30) DEF CompletionFits
  <2>14. c \in Cases /\ UNCHANGED links
    BY <2>1, <2>2
  <2>15. CaseWrite(w, c, row, M, e)
    <3>1. M \in SUBSET Receivables /\ \A d \in Cases \ {c} : marker[d] \cap M = {}
      BY <1>0, <1>3, <2>2, ZenonT(30) DEF uq_r8_one_open_case_per_receivable, fuatilia_case_r8_marker_sync, IInv, Typed
    <3>2. links' \in [Cases -> SUBSET Receivables] /\ \A d \in Cases \ {c} : links'[d] = links[d]
      BY <2>1, Zenon DEF IInv, Typed
    <3> QED BY <2>1, <2>2, <2>4, <2>5, <2>7, <2>8, <3>1, <3>2, Zenon DEF CaseWrite
  <2> QED BY <2>5, <2>12, <2>13, <2>14, <2>15, CommandCommits, Zenon
<1> QED BY <1>2, <1>3

\* InsertCase.
LEMMA InsertKeeps == ASSUME IInv, NEW w \in Workers, InsertCase(w) PROVE IInv'
<1>0. PICK c, cmd, M : c = (CHOOSE d \in Cases : d \notin Existing) /\ cmd = tx[w].cmd /\ M = tx[w].cmd.receivables
  OBVIOUS
<1>1. tx[w].pc = "uncovered"
  BY Zenon DEF InsertCase
<1>2. c \in Cases /\ c \notin Existing /\ c \in Cases \ Existing
  BY <1>0, <1>1, Zenon DEF InsertCase, Existing
<1>3. CASE ~uq_r8_one_open_case_per_receivable(c, M)
  BY <1>0, <1>3, RollbackKeeps DEF InsertCase
<1>4. CASE uq_r8_one_open_case_per_receivable(c, M)
  <2>0. PICK row : row = [status |-> "open", priority |-> cmd.to, sequenceNo |-> tx[w].seq, closedAt |-> FALSE]
    BY Zenon
  <2>1. /\ cases' = [cases EXCEPT ![c] = row] /\ marker' = [marker EXCEPT ![c] = M] /\ links' = [links EXCEPT ![c] = M]
        /\ appendOutbox(c, "case.opened") /\ Committed(w)
    BY <1>0, <1>4, <2>0, Zenon DEF InsertCase
  <2>2. tx[w] \in Txn /\ cmd \in Command /\ cmd.op = "open" /\ cmd.to \in Priority /\ tx[w].seq \in CaseNumbers /\ CaseOK(c)
    BY <1>0, <1>1, <1>2, Zenon DEF IInv, Typed, CommandOK, Txn
  <2>3. row \in CaseRow /\ row.status = "open" /\ row.priority = cmd.to /\ ~row.closedAt
    BY <2>0, <2>2, Zenon DEF CaseRow, Statuses
  <2>4. M \in SUBSET Receivables /\ \A d \in Cases \ {c} : marker[d] \cap M = {}
    BY <1>0, <1>4, <2>2, Zenon DEF Command, uq_r8_one_open_case_per_receivable
  <2>5. "case.opened" \in EntryKinds /\ "case.opened" \in Events
    BY DEF EntryKinds, Marks, Events
  <2>6. PICK e \in LogEntry : /\ e.action = "case.opened"
                              /\ log' = [log EXCEPT ![c] = Append(log[c], e)] /\ log'[c] = Append(log[c], e)
    <3>1. PICK nil \in Words : nil = ""
      BY Zenon DEF Words
    <3>2. AppendCaseAction(c, "case.opened", nil, nil, NoCmd)
      BY <1>0, <1>4, <3>1, Zenon DEF InsertCase
    <3>3. \E e \in LogEntry : /\ e.action = "case.opened" /\ e.to = nil /\ e.target = NoCmd.target
                              /\ log' = [log EXCEPT ![c] = Append(log[c], e)] /\ log'[c] = Append(log[c], e)
      BY <1>2, <2>5, <3>2, Initials, AppendTyped
    <3> QED BY <3>3, Zenon
  <2>7. /\ outbox' \in [Cases -> Seq(Events)] /\ \A d \in Cases \ {c} : outbox'[d] = outbox[d]
        /\ Announced(c)' = Announced(c)
    BY <1>2, <2>1, <2>5, AppendedEvent
  <2>8. log[c] = <<>> /\ outbox[c] = <<>> /\ log[c] \in Seq(LogEntry)
    BY <1>2, <2>2, Zenon DEF CaseOK, Existing, IInv, Typed
  <2>9. Announced(c) = {} /\ Told(c, "case.escalation") = {} /\ Told(c, "case.transition") = {}
    BY <2>8 DEF Announced, Told
  <2>10. /\ \A x, v : IsLastTo(c, "case.transition", x, v) => IsLastTo(c, "case.transition", x, v)'
    BY <2>6, <2>8, LogGrows, Zenon
  <2>11. /\ \A x, v : IsLastTo(c, "case.escalation", x, v) => IsLastTo(c, "case.escalation", x, v)'
         /\ Told(c, "case.escalation")' = Told(c, "case.escalation")
    BY <2>6, <2>8, LogGrows, Zenon
  <2>12. IsLastTo(c, "case.transition", "open", "open")' /\ IsLastTo(c, "case.escalation", cmd.to, cmd.to)'
    BY <2>9, <2>10, <2>11, Zenon DEF IsLastTo
  <2>13. InStep(Told(c, "case.escalation"), Announced(c))'
    <3>1. InStep({}, {})
      BY NothingInStep
    <3> QED BY <2>7, <2>9, <2>11, <3>1, Zenon
  <2>14. CompletionsOnce(c)'
    <3>1. CompletionFits(c, e)
      BY <2>6 DEF CompletionFits
    <3> QED BY <1>2, <2>6, <3>1, EntryKeeps
  <2>15. cases'[c] = row /\ marker'[c] = M /\ links'[c] = M
    BY <1>2, <2>1 DEF IInv, Typed
  <2>16. CaseOK(c)'
    <3>1. marker'[c] = IF caseIsOpen(cases'[c].status) THEN links'[c] ELSE {}
      BY <2>3, <2>15 DEF caseIsOpen
    <3>2. (cases'[c].closedAt <=> cases'[c].status \in {"resolved", "closed_inactive"}) /\ cases'[c].status # "none"
      BY <2>3, <2>15
    <3>3. /\ IsLastTo(c, "case.transition", "open", cases[c].status)'
          /\ \E p \in Priority : IsLastTo(c, "case.escalation", p, cases[c].priority)'
      BY <2>2, <2>3, <2>12, <2>15
    <3> QED BY <2>13, <2>14, <3>1, <3>2, <3>3 DEF CaseOK
  <2>17. CaseWrite(w, c, row, M, e)
    <3>1. links' \in [Cases -> SUBSET Receivables] /\ \A d \in Cases \ {c} : links'[d] = links[d]
      BY <2>1, <2>4, Zenon DEF IInv, Typed
    <3>2. row.status # "none" /\ c \notin Existing
      BY <1>2, <2>3
    <3> QED BY <2>1, <2>3, <2>4, <2>6, <2>7, <3>1, <3>2, Zenon DEF CaseWrite
  <2> QED BY <1>2, <2>16, <2>17, CaseWritten, Zenon
<1> QED BY <1>3, <1>4

-----------------------------------------------------------------------------
\* The steps of a command up to its commit; first BeginOpen.
LEMMA BeginOpenKeeps ==
    ASSUME IInv, NEW w \in Workers, NEW rs \in Coverings, NEW p \in Priorities, BeginOpen(w, rs, p)
    PROVE  IInv'
<1>0. PICK cmd : cmd = [NoCmd EXCEPT !.op = "open", !.receivables = rs, !.to = p]
  OBVIOUS
<1>1. PICK q : q = [Idle EXCEPT !.pc = "begun", !.cmd = cmd]
  OBVIOUS
<1>2. /\ tx[w].pc = "idle" /\ commands < MaxCommands /\ commands' = commands + 1
      /\ tx' = [tx EXCEPT ![w] = q] /\ UNCHANGED <<cases, links, marker, log, outbox, orgLock, caseLock>>
  BY <1>0, <1>1 DEF BeginOpen, db
<1>3. rs \in SUBSET Receivables /\ p \in Priority
  BY CaseAssumption DEF Priority
<1>4. cmd \in Command /\ cmd.op = "open" /\ cmd.to = p
  <2>1. p \in Words
    BY <1>3, Zenon DEF Words
  <2> QED BY <1>0, <1>3, <2>1, Zenon DEF NoCmd, Command
<1>5. q \in Txn /\ q.pc = "begun" /\ q.cmd = cmd
  BY <1>1, <1>4, Initials, Zenon DEF Txn, Idle
<1>6. tx'[w] = q /\ \A v \in Workers \ {w} : tx'[v] = tx[v]
  BY <1>2 DEF IInv, Typed
<1>7. CommandOK(w)'
  BY <1>3, <1>4, <1>5, <1>6 DEF CommandOK
<1>9. /\ commands' \in 0 .. MaxCommands /\ orgLock' \in Workers \cup {None}
      /\ caseLock' \in [Cases -> Workers \cup {None}]
  BY <1>2, CaseAssumption DEF IInv, Typed
<1>10. orgLock' # w /\ \A c \in Cases : caseLock'[c] # w
  BY <1>2, LocksHeld
<1>11. \A v \in Workers \ {w} : /\ \A c \in Cases : caseLock'[c] = v <=> caseLock[c] = v
                                /\ orgLock' = v => orgLock = v
  BY <1>2
<1>12. tx' = [tx EXCEPT ![w] = q] /\ UNCHANGED <<cases, links, marker, log, outbox>>
  BY <1>2
<1> QED BY <1>5, <1>7, <1>9, <1>10, <1>11, <1>12, TxMoves, Zenon

\* LockOrgCases.
LEMMA LockOrgKeeps == ASSUME IInv, NEW w \in Workers, LockOrgCases(w) PROVE IInv'
<1>1. PICK q : q = [tx[w] EXCEPT !.pc = "serialised"]
  BY Zenon
<1>2. /\ tx[w].pc = "begun" /\ orgLock = None /\ orgLock' = w /\ tx' = [tx EXCEPT ![w] = q] /\ caseLock' = caseLock
      /\ UNCHANGED <<cases, links, marker, log, outbox, commands>>
  BY <1>1 DEF LockOrgCases, db, IInv, Typed
<1>3. tx[w] \in Txn /\ CommandOK(w)
  BY DEF IInv, Typed
<1>4. q \in Txn /\ q.pc = "serialised" /\ q.cmd = tx[w].cmd
  BY <1>1, <1>3 DEF Txn
<1>5. tx'[w] = q
  BY <1>2 DEF IInv, Typed
<1>6. CommandOK(w)'
  BY <1>2, <1>3, <1>4, <1>5, Zenon DEF CommandOK
<1>7. \A c \in Cases : caseLock'[c] # w
  BY <1>2, LocksHeld
<1>8. orgLock' \in Workers \cup {None} /\ caseLock' \in [Cases -> Workers \cup {None}]
  BY <1>2 DEF IInv, Typed
<1>9. \A v \in Workers \ {w} : /\ \A c \in Cases : caseLock'[c] = v <=> caseLock[c] = v
                               /\ orgLock' = v => orgLock = v
  BY <1>2
<1>10. tx' = [tx EXCEPT ![w] = q] /\ UNCHANGED <<cases, links, marker, log, outbox>> /\ commands' \in 0 .. MaxCommands
  BY <1>2 DEF IInv, Typed
<1> QED BY <1>4, <1>6, <1>7, <1>8, <1>9, <1>10, TxMoves, Zenon

\* CheckCoverage, whether it finds the receivables covered or not.
LEMMA CheckCoverageKeeps == ASSUME IInv, NEW w \in Workers, CheckCoverage(w) PROVE IInv'
<1>1. CASE Rollback(w)
  BY <1>1, RollbackKeeps
<1>2. CASE ~Rollback(w)
  <2>1. PICK q : q = [tx[w] EXCEPT !.pc = "uncovered", !.seq = Cardinality(Existing) + 1]
    OBVIOUS
  <2>2. tx[w] \in Txn /\ CommandOK(w) /\ Cardinality(Existing) + 1 \in CaseNumbers
    BY Zenon DEF IInv, Typed, CaseNumbers, Existing
  <2>3. /\ tx[w].pc = "serialised"
        /\ tx' = [tx EXCEPT ![w].pc = "uncovered", ![w].seq = Cardinality(Existing) + 1]
        /\ UNCHANGED <<cases, links, marker, log, outbox, orgLock, caseLock, commands>>
    BY <1>2 DEF CheckCoverage, db
  <2>4. tx' = [tx EXCEPT ![w] = q]
    BY <2>1, <2>2, <2>3, Zenon DEF IInv, Typed, Txn
  <2>5. q \in Txn /\ q.pc = "uncovered" /\ q.cmd = tx[w].cmd
    BY <2>1, <2>2, Zenon DEF Txn
  <2>6. tx'[w] = q
    BY <2>4 DEF IInv, Typed
  <2>7. CommandOK(w)'
    BY <2>2, <2>3, <2>5, <2>6 DEF CommandOK
  <2>8. \A c \in Cases : caseLock'[c] # w
    BY <2>3, LocksHeld
  <2>9. orgLock' \in Workers \cup {None} /\ caseLock' \in [Cases -> Workers \cup {None}]
    BY <2>3 DEF IInv, Typed
  <2>10. \A v \in Workers \ {w} : /\ \A c \in Cases : caseLock'[c] = v <=> caseLock[c] = v
                                  /\ orgLock' = v => orgLock = v
    BY <2>3
  <2>11. UNCHANGED <<cases, links, marker, log, outbox>> /\ commands' \in 0 .. MaxCommands
    BY <2>3 DEF IInv, Typed
  <2> QED BY <2>4, <2>5, <2>7, <2>8, <2>9, <2>10, <2>11, TxMoves, Zenon
<1> QED BY <1>1, <1>2

\* What a command on a case may ask.
LEMMA CommandsTyped ==
    ASSUME IInv, NEW c \in Existing, NEW cmd \in Commands(c)
    PROVE  /\ cmd \in Command /\ cmd.op \in OnCase /\ cmd.case = c
           /\ cmd.op = "transition" => cmd.to \in Statuses
           /\ cmd.op = "escalate" => cmd.to \in Priority
           /\ cmd.op = "record" => cmd.type \in ActionTypes
           /\ cmd.op = "complete" => cmd.target \in DOMAIN log[c]
<1>0. c \in Cases /\ NoCmd \in Command /\ NoCmd = [NoCmd EXCEPT !.op = "none"]
  BY Initials, Zenon DEF Existing, Command, NoCmd
<1>1. CASE \E to \in Statuses \ {"open"} : cmd = [NoCmd EXCEPT !.op = "transition", !.case = c, !.to = to]
  <2>1. PICK to \in Statuses : cmd = [NoCmd EXCEPT !.op = "transition", !.case = c, !.to = to]
    BY <1>1, Zenon
  <2>2. cmd.op = "transition" /\ cmd.case = c /\ cmd.to = to
    BY <1>0, <2>1, Zenon DEF Command
  <2>3. to \in Words
    BY Zenon DEF Words
  <2>4. cmd \in Command
    BY <1>0, <2>1, <2>3, Zenon DEF Command, OnCase
  <2> QED BY <2>2, <2>4 DEF OnCase
<1>2. CASE \E to \in Priorities : cmd = [NoCmd EXCEPT !.op = "escalate", !.case = c, !.to = to]
  <2>1. PICK to \in Priority : cmd = [NoCmd EXCEPT !.op = "escalate", !.case = c, !.to = to]
    BY <1>2, CaseAssumption, Zenon DEF Priority
  <2>2. cmd.op = "escalate" /\ cmd.case = c /\ cmd.to = to
    BY <1>0, <2>1, Zenon DEF Command
  <2>3. to \in Words
    BY Zenon DEF Words
  <2>4. cmd \in Command
    BY <1>0, <2>1, <2>3, Zenon DEF Command, OnCase
  <2> QED BY <2>2, <2>4 DEF OnCase
<1>3. CASE \E a \in [type : ActionTypes, source : Sources, consentRef : BOOLEAN, outcome : Outcomes] :
              cmd = [NoCmd EXCEPT !.op = "record", !.case = c, !.type = a.type, !.source = SourceOf(a.type, a.source),
                                  !.consentRef = a.consentRef, !.outcome = a.outcome]
  <2>1. PICK type \in ActionTypes, source \in Sources, ref \in BOOLEAN, outcome \in BOOLEAN :
              cmd = [NoCmd EXCEPT !.op = "record", !.case = c, !.type = type, !.source = SourceOf(type, source),
                                  !.consentRef = ref, !.outcome = outcome]
    BY <1>3, CaseAssumption, Zenon
  <2>2. cmd.op = "record" /\ cmd.case = c /\ cmd.type = type
    BY <1>0, <2>1, Zenon DEF Command
  <2>3. SourceOf(type, source) \in Sources \cup {"", "automated", "manual"}
    BY Zenon DEF SourceOf
  <2>4. cmd \in Command
    BY <1>0, <2>1, <2>3, ZenonT(30) DEF Command, OnCase
  <2> QED BY <2>2, <2>4 DEF OnCase
<1>4. CASE \E i \in DOMAIN log[c] : cmd = [NoCmd EXCEPT !.op = "complete", !.case = c, !.target = i]
  <2>1. PICK i \in DOMAIN log[c] : cmd = [NoCmd EXCEPT !.op = "complete", !.case = c, !.target = i]
    BY <1>4, Zenon
  <2>2. cmd.op = "complete" /\ cmd.case = c /\ cmd.target = i
    BY <1>0, <2>1, Zenon DEF Command
  <2>3. i \in Nat
    <3>1. log[c] \in Seq(LogEntry)
      BY <1>0 DEF IInv, Typed
    <3> QED BY <3>1
  <2>4. cmd \in Command
    BY <1>0, <2>1, <2>3, Zenon DEF Command, OnCase
  <2> QED BY <2>2, <2>4 DEF OnCase
<1>5. \/ cmd \in {[NoCmd EXCEPT !.op = "transition", !.case = c, !.to = to] : to \in Statuses \ {"open"}}
      \/ cmd \in {[NoCmd EXCEPT !.op = "escalate", !.case = c, !.to = to] : to \in Priorities}
      \/ cmd \in {[NoCmd EXCEPT !.op = "record", !.case = c, !.type = a.type, !.source = SourceOf(a.type, a.source),
                                 !.consentRef = a.consentRef, !.outcome = a.outcome]
                     : a \in [type : ActionTypes, source : Sources, consentRef : BOOLEAN, outcome : Outcomes]}
      \/ cmd \in {[NoCmd EXCEPT !.op = "complete", !.case = c, !.target = i] : i \in DOMAIN log[c]}
  BY Zenon, Zenon DEF Commands
<1>6. CASE cmd \in {[NoCmd EXCEPT !.op = "transition", !.case = c, !.to = to] : to \in Statuses \ {"open"}}
  BY <1>1, <1>6, Zenon
<1>7. CASE cmd \in {[NoCmd EXCEPT !.op = "escalate", !.case = c, !.to = to] : to \in Priorities}
  BY <1>2, <1>7, Zenon
<1>8. CASE cmd \in {[NoCmd EXCEPT !.op = "record", !.case = c, !.type = a.type, !.source = SourceOf(a.type, a.source),
                                  !.consentRef = a.consentRef, !.outcome = a.outcome]
                      : a \in [type : ActionTypes, source : Sources, consentRef : BOOLEAN, outcome : Outcomes]}
  BY <1>3, <1>8, Zenon
<1>9. CASE cmd \in {[NoCmd EXCEPT !.op = "complete", !.case = c, !.target = i] : i \in DOMAIN log[c]}
  BY <1>4, <1>9, Zenon
<1> QED BY <1>5, <1>6, <1>7, <1>8, <1>9, Zenon

\* CaseByID.
LEMMA CaseByIDKeeps ==
    ASSUME IInv, NEW w \in Workers, NEW c \in Existing, NEW cmd \in Commands(c), CaseByID(w, cmd)
    PROVE  IInv'
<1>1. PICK q : q = [Idle EXCEPT !.pc = "read", !.cmd = cmd, !.row = cases[cmd.case]]
  OBVIOUS
<1>2. /\ tx[w].pc = "idle" /\ commands < MaxCommands /\ commands' = commands + 1
      /\ tx' = [tx EXCEPT ![w] = q] /\ UNCHANGED <<cases, links, marker, log, outbox, orgLock, caseLock>>
  BY <1>1 DEF CaseByID, db
<1>3. /\ cmd \in Command /\ cmd.op \in OnCase /\ cmd.case = c
      /\ cmd.op = "transition" => cmd.to \in Statuses
      /\ cmd.op = "escalate" => cmd.to \in Priority
      /\ cmd.op = "record" => cmd.type \in ActionTypes
      /\ cmd.op = "complete" => cmd.target \in DOMAIN log[c]
  BY CommandsTyped
<1>4. cases[cmd.case] \in CaseRow
  BY <1>3 DEF Existing, IInv, Typed
<1>5. q \in Txn /\ q.pc = "read" /\ q.cmd = cmd
  BY <1>1, <1>3, <1>4, Initials, Zenon DEF Txn, Idle
<1>6. tx'[w] = q /\ \A v \in Workers \ {w} : tx'[v] = tx[v]
  BY <1>2, SMTT(20) DEF IInv, Typed
<1>7. Existing' = Existing
  BY <1>2, Zenon DEF Existing
<1>8. CommandOK(w)'
  <2>1. tx'[w].pc = "read" /\ tx'[w].cmd = cmd /\ log' = log /\ cmd.case \in Existing'
    BY <1>2, <1>3, <1>5, <1>6, <1>7
  <2> QED BY <1>3, <2>1 DEF CommandOK
<1>10. /\ commands' \in 0 .. MaxCommands /\ orgLock' \in Workers \cup {None}
       /\ caseLock' \in [Cases -> Workers \cup {None}]
  BY <1>2, CaseAssumption DEF IInv, Typed
<1>11. orgLock' # w /\ \A d \in Cases : caseLock'[d] # w
  BY <1>2, LocksHeld
<1>12. \A v \in Workers \ {w} : /\ \A d \in Cases : caseLock'[d] = v <=> caseLock[d] = v
                                /\ orgLock' = v => orgLock = v
  BY <1>2
<1>13. tx' = [tx EXCEPT ![w] = q] /\ UNCHANGED <<cases, links, marker, log, outbox>>
  BY <1>2
<1> QED BY <1>5, <1>8, <1>10, <1>11, <1>12, <1>13, TxMoves, Zenon

\* A command that has read its case goes on under the case's lock.
LEMMA CommandGoesOn ==
    ASSUME NEW w, CommandOK(w), NEW cmd, NEW c, cmd = tx[w].cmd, c = cmd.case, tx[w].pc \in {"read", "locked"},
           tx'[w].cmd = cmd, tx'[w].pc \in {"locked", "admitted"}, UNCHANGED <<cases, log>>, caseLock'[c] = w,
           tx'[w].pc = "admitted" /\ cmd.op = "complete" =>
              log[c][cmd.target].action \in caseActionTypes /\ ~CaseActionCompleted(c, cmd.target)
    PROVE  CommandOK(w)'
<1>1. Existing' = Existing /\ \A i : CaseActionCompleted(c, i)' <=> CaseActionCompleted(c, i)
  BY Zenon DEF Existing, CaseActionCompleted
<1>2. /\ cmd.op \in OnCase /\ c \in Existing
      /\ cmd.op = "transition" => cmd.to \in Statuses
      /\ cmd.op = "escalate" => cmd.to \in Priority
      /\ cmd.op = "record" => cmd.type \in ActionTypes
      /\ cmd.op = "complete" => cmd.target \in DOMAIN log[c]
  BY Zenon DEF CommandOK
<1>3. tx'[w].pc # "idle" /\ tx'[w].pc \notin {"begun", "serialised", "uncovered"}
  OBVIOUS
<1> QED BY <1>1, <1>2, <1>3, Zenon DEF CommandOK

\* LockCase.
LEMMA LockCaseKeeps == ASSUME IInv, NEW w \in Workers, LockCase(w) PROVE IInv'
<1>0. PICK c : c = tx[w].cmd.case
  OBVIOUS
<1>1. PICK q : q = [tx[w] EXCEPT !.pc = "locked"]
  BY Zenon
<1>2. /\ tx[w].pc = "read" /\ caseLock[c] = None /\ caseLock' = [caseLock EXCEPT ![c] = w] /\ orgLock' = orgLock
      /\ tx' = [tx EXCEPT ![w] = q] /\ UNCHANGED <<cases, links, marker, log, outbox, commands>>
  BY <1>0, <1>1 DEF LockCase, db, IInv, Typed
<1>3. tx[w] \in Txn /\ CommandOK(w)
  BY DEF IInv, Typed
<1>4. q \in Txn /\ q.pc = "locked" /\ q.cmd = tx[w].cmd
  BY <1>1, <1>3 DEF Txn
<1>5. tx'[w] = q /\ Existing' = Existing
  BY <1>2 DEF IInv, Typed, Existing
<1>6. c \in Cases
  BY <1>0, <1>2, <1>3, Zenon DEF CommandOK, Existing
<1>7. /\ caseLock' \in [Cases -> Workers \cup {None}] /\ caseLock'[c] = w
      /\ \A d \in Cases \ {c} : caseLock'[d] = caseLock[d]
  BY <1>2, <1>6 DEF IInv, Typed
<1>8. CommandOK(w)'
  BY <1>0, <1>2, <1>3, <1>4, <1>5, <1>7, CommandGoesOn
<1>9. orgLock' # w /\ \A d \in Cases \ {c} : caseLock'[d] # w
  BY <1>2, <1>7, LocksHeld
<1>10. orgLock' \in Workers \cup {None}
  BY <1>2 DEF IInv, Typed
<1>11. \A v \in Workers \ {w} : /\ \A d \in Cases : caseLock'[d] = v <=> caseLock[d] = v
                                /\ orgLock' = v => orgLock = v
  BY <1>2, <1>7, CaseAssumption
<1>12. \A d \in Cases : caseLock'[d] = w => q.pc \in {"locked", "admitted"} /\ q.cmd.case = d
  BY <1>0, <1>4, <1>9
<1>13. tx' = [tx EXCEPT ![w] = q] /\ UNCHANGED <<cases, links, marker, log, outbox>> /\ commands' \in 0 .. MaxCommands
  BY <1>2 DEF IInv, Typed
<1> QED BY <1>4, <1>7, <1>8, <1>9, <1>10, <1>11, <1>12, <1>13, TxMoves, ZenonT(30)

\* Validate, which admits the command or rolls it back.
LEMMA ValidateKeeps == ASSUME IInv, NEW w \in Workers, Validate(w) PROVE IInv'
<1>1. CASE Rollback(w)
  BY <1>1, RollbackKeeps
<1>2. CASE ~Rollback(w)
  <2>0. PICK c : c = tx[w].cmd.case
    OBVIOUS
  <2>1. PICK q : q = [tx[w] EXCEPT !.pc = "admitted"]
    BY Zenon
  <2>2. /\ tx[w].pc = "locked" /\ Admitted(tx[w].cmd, tx[w].row) /\ tx' = [tx EXCEPT ![w] = q]
        /\ UNCHANGED <<cases, links, marker, log, outbox, orgLock, caseLock, commands>>
    BY <1>2, <2>1 DEF Validate, db, IInv, Typed
  <2>3. tx[w] \in Txn /\ CommandOK(w)
    BY DEF IInv, Typed
  <2>4. q \in Txn /\ q.pc = "admitted" /\ q.cmd = tx[w].cmd
    BY <2>1, <2>3 DEF Txn
  <2>5. tx'[w] = q /\ Existing' = Existing
    BY <2>2 DEF IInv, Typed, Existing
  <2>6. tx[w].cmd.op = "complete" =>
           log[c][tx[w].cmd.target].action \in caseActionTypes /\ ~CaseActionCompleted(c, tx[w].cmd.target)
    BY <2>0, <2>2, ZenonT(30) DEF Admitted
  <2>7. caseLock'[c] = w
    BY <2>0, <2>2, <2>3, Zenon DEF CommandOK
  <2>8. CommandOK(w)'
    BY <2>0, <2>2, <2>3, <2>4, <2>5, <2>6, <2>7, CommandGoesOn, Zenon
  <2>9. orgLock' # w /\ \A d \in Cases : caseLock'[d] = w => q.cmd.case = d
    <3>1. orgLock' = orgLock /\ caseLock' = caseLock /\ tx[w].pc \notin {"serialised", "uncovered"} /\ q.cmd = tx[w].cmd
      BY <2>2, <2>4
    <3>2. orgLock # w /\ \A d \in Cases : caseLock[d] = w => tx[w].cmd.case = d
      BY <3>1, LocksHeld, Zenon
    <3> QED BY <3>1, <3>2, Zenon
  <2>10. orgLock' \in Workers \cup {None} /\ caseLock' \in [Cases -> Workers \cup {None}]
    BY <2>2 DEF IInv, Typed
  <2>11. \A v \in Workers \ {w} : /\ \A d \in Cases : caseLock'[d] = v <=> caseLock[d] = v
                                  /\ orgLock' = v => orgLock = v
    BY <2>2
  <2>12. tx' = [tx EXCEPT ![w] = q] /\ UNCHANGED <<cases, links, marker, log, outbox>> /\ commands' \in 0 .. MaxCommands
    BY <2>2 DEF IInv, Typed
  <2> QED BY <2>4, <2>8, <2>9, <2>10, <2>11, <2>12, TxMoves, Zenon
<1> QED BY <1>1, <1>2

\* Done, and every step of the rest of the system.
LEMMA StutterKeeps == ASSUME IInv, UNCHANGED vars PROVE IInv'
<1>1. Typed' /\ LocksOK' /\ MarkersApart'
  BY DEF vars, IInv, Typed, LocksOK, MarkersApart
<1>2. ASSUME NEW w \in Workers PROVE CommandOK(w)'
  <2>1. \A c, i : CaseActionCompleted(c, i)' <=> CaseActionCompleted(c, i)
    BY DEF vars, CaseActionCompleted
  <2> QED BY <2>1, ZenonT(30) DEF vars, IInv, CommandOK, Existing
<1>3. \A c \in Cases : CaseOK(c)'
  <2>1. Existing' = Existing /\ UNCHANGED <<cases, links, marker, log, outbox>> /\ \A c \in Cases : CaseOK(c)
    BY DEF vars, IInv, Existing
  <2> QED BY <2>1, SameCase
<1> QED BY <1>1, <1>2, <1>3 DEF IInv

\* Every step of a worker keeps the invariant.
LEMMA NextIInv == IInv /\ [Next]_vars => IInv'
<1> SUFFICES ASSUME IInv, [Next]_vars PROVE IInv'
  OBVIOUS
<1>1. ASSUME NEW w \in Workers, NEW rs \in Coverings, NEW p \in Priorities, BeginOpen(w, rs, p) PROVE IInv'
  BY <1>1, BeginOpenKeeps
<1>2. ASSUME NEW w \in Workers, LockOrgCases(w) \/ CheckCoverage(w) \/ InsertCase(w) PROVE IInv'
  BY <1>2, LockOrgKeeps, CheckCoverageKeeps, InsertKeeps
<1>3. ASSUME NEW w \in Workers, NEW c \in Existing, NEW cmd \in Commands(c), CaseByID(w, cmd) PROVE IInv'
  BY <1>3, CaseByIDKeeps
<1>4. ASSUME NEW w \in Workers, LockCase(w) \/ Validate(w) PROVE IInv'
  BY <1>4, LockCaseKeeps, ValidateKeeps
<1>5. ASSUME NEW w \in Workers, Transition(w) \/ Escalate(w) \/ RecordAction(w) \/ CompleteAction(w) PROVE IInv'
  BY <1>5, TransitionKeeps, EscalateKeeps, RecordKeeps, CompleteKeeps
<1>6. ASSUME NEW w \in Workers, TxAborts(w) PROVE IInv'
  BY <1>6, RollbackKeeps DEF TxAborts
<1>7. CASE UNCHANGED vars
  BY <1>7, StutterKeeps
<1> QED BY <1>1, <1>2, <1>3, <1>4, <1>5, <1>6, <1>7, Zenon DEF Next, Done

\* R8 for every number of cases, receivables and workers: at most one open case
\* covers a receivable, and the marker the unique index is on follows the status.
THEOREM OneOpenCaseAlways == Spec => []CoverageIsExclusive
<1>1. IInv => CoverageIsExclusive
  <2> SUFFICES ASSUME IInv PROVE CoverageIsExclusive
    OBVIOUS
  <2>1. ASSUME NEW c \in Cases
        PROVE  /\ cases[c].status \in Statuses \cup {"none"}
               /\ cases[c].priority \in DOMAIN casePriorities
               /\ cases[c].closedAt = (cases[c].status \in {"resolved", "closed_inactive"})
               /\ marker[c] \subseteq links[c] /\ links[c] \subseteq Receivables
               /\ caseLock[c] = None \/ tx[caseLock[c]].pc \in {"locked", "admitted"}
    <3>1. cases[c] \in CaseRow /\ CaseOK(c) /\ links[c] \in SUBSET Receivables
      BY DEF IInv, Typed
    <3>2. cases[c].closedAt = (cases[c].status \in {"resolved", "closed_inactive"})
      BY <3>1, ClosedShape, SMTT(30) DEF CaseOK, CaseRow
    <3>3. cases[c].status \in Statuses \cup {"none"} /\ cases[c].priority \in DOMAIN casePriorities
      BY <3>1 DEF CaseRow, Priority, casePriorities
    <3>4. marker[c] \subseteq links[c]
      BY <3>1, Zenon DEF CaseOK
    <3>5. caseLock[c] = None \/ tx[caseLock[c]].pc \in {"locked", "admitted"}
      BY DEF IInv, LocksOK
    <3> QED BY <3>1, <3>2, <3>3, <3>4, <3>5
  <2>2. orgLock = None \/ tx[orgLock].pc \in {"serialised", "uncovered"}
    BY SMTT(20) DEF IInv, LocksOK
  <2>3. TypeOK
    BY <2>1, <2>2 DEF TypeOK, IInv, Typed
  <2>4. CoverageFollowsStatus
    BY Zenon, ZenonT(30) DEF IInv, CaseOK, CoverageFollowsStatus
  <2>5. OneOpenCasePerReceivable
    BY <2>4 DEF IInv, MarkersApart, CoverageFollowsStatus, OneOpenCasePerReceivable
  <2> QED BY <2>3, <2>4, <2>5 DEF CoverageIsExclusive
<1> QED BY <1>1, InitIInv, NextIInv, PTL, Zenon DEF Spec

\* The log tells the row: status and priority are those of the last logged
\* transition and escalation, every escalation has its event, and an action is
\* completed at most once.
THEOREM LogTellsCaseAlways == Spec => []LogTellsCase
<1>1. IInv => LogTellsCase
  <2> SUFFICES ASSUME IInv PROVE LogTellsCase
    OBVIOUS
  <2>1. LogExplainsRow
    <3>1. Existing \subseteq Cases /\ DOMAIN casePriorities = Priority
      BY DEF Existing, casePriorities, Priority
    <3> QED BY <3>1, Zenon DEF IInv, CaseOK, LogExplainsRow
  <2>2. CompletedOnce
    BY Zenon DEF IInv, CaseOK, CompletionsOnce, CompletedOnce
  <2> QED BY <2>1, <2>2 DEF LogTellsCase
<1> QED BY <1>1, InitIInv, NextIInv, PTL DEF Spec
============================================================================
