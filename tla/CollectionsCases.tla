--------------------------- MODULE CollectionsCases ----------------------------
(***************************************************************************)
(* The Go collections service (application/collections.go over             *)
(* repositories/cases.go and migration 0009): the commands of one          *)
(* organisation as READ COMMITTED transactions.  OpenCase serialises on    *)
(* the organisation's advisory lock before it reads; every other command   *)
(* reads the case row first and takes the case's advisory lock after it.   *)
(*                                                                         *)
(* A transaction's writes and its commit are one step: until the commit    *)
(* others can only wait for them (row locks and unique indexes).           *)
(***************************************************************************)
EXTENDS Naturals, Sequences, FiniteSets

CONSTANTS Cases,         \* bound: the ids of new cases
          Receivables, Workers, None,
          Coverings,     \* the receivable sets OpenCase is called with
          Ops,           \* the commands of this instance
          Priorities, ActionTypes, Sources, Outcomes,   \* their arguments
          MaxCommands    \* bound: commands issued

VARIABLES cases,     \* collections_cases
          links,     \* collections_case_receivables: the receivables of each case
          marker,    \* those whose open_receivable_id is set
          log,       \* case_actions, in sequence_no order
          outbox,    \* the events each case has appended
          orgLock, caseLock,   \* holders of the advisory locks
          tx,        \* each worker's transaction
          commands

db == <<cases, links, marker, log, outbox>>
vars == <<cases, links, marker, log, outbox, orgLock, caseLock, tx, commands>>

casePriorities == [low |-> 0, normal |-> 1, high |-> 2, urgent |-> 3]

(* An edge table in which closing is not final. *)
caseTransitionsReopen == [open |-> {"in_progress"}, in_progress |-> {"resolved", "closed_inactive"},
                          resolved |-> {"in_progress"}, closed_inactive |-> {}]

caseTransitions == [open |-> {"in_progress"}, in_progress |-> {"resolved", "closed_inactive"},
                    resolved |-> {}, closed_inactive |-> {}]

Statuses == {"open", "in_progress", "resolved", "closed_inactive"}
outboundTypes == {"sms", "whatsapp"}
caseActionTypes == outboundTypes \cup {"call", "letter", "fieldVisit", "escalation"}
caseIsOpen(status) == status \in {"open", "in_progress"}

(* The commands refuse an unknown priority or action type before they start. *)
ASSUME CaseAssumption ==
    /\ None \notin Workers /\ IsFiniteSet(Workers) /\ IsFiniteSet(Cases)
    /\ Coverings \subseteq (SUBSET Receivables) \ {{}}
    /\ Priorities \subseteq {"low", "normal", "high", "urgent"}
    /\ ActionTypes \subseteq caseActionTypes
    /\ Outcomes \subseteq BOOLEAN /\ MaxCommands \in Nat

NoRow == [status |-> "none", priority |-> "normal", sequenceNo |-> 0, closedAt |-> FALSE]
NoCmd == [op |-> "none", case |-> None, to |-> "", receivables |-> {},
          type |-> "", source |-> "", consentRef |-> FALSE, outcome |-> FALSE, target |-> 0]
Idle == [pc |-> "idle", cmd |-> NoCmd, row |-> NoRow, seq |-> 0]
Existing == {c \in Cases : cases[c].status # "none"}

Init ==
    /\ cases = [c \in Cases |-> NoRow]
    /\ links = [c \in Cases |-> {}]
    /\ marker = [c \in Cases |-> {}]
    /\ log = [c \in Cases |-> <<>>]
    /\ outbox = [c \in Cases |-> <<>>]
    /\ orgLock = None
    /\ caseLock = [c \in Cases |-> None]
    /\ tx = [w \in Workers |-> Idle]
    /\ commands = 0

--------------------------------------------------------------------------------
(* Transactions. *)

ReleaseLocks(w) ==
    /\ orgLock' = IF orgLock = w THEN None ELSE orgLock
    /\ caseLock' = [c \in Cases |-> IF caseLock[c] = w THEN None ELSE caseLock[c]]

(* RunInTx returning an error: a refusal, a constraint or a lost connection. *)
Rollback(w) ==
    /\ tx' = [tx EXCEPT ![w] = Idle]
    /\ ReleaseLocks(w)
    /\ UNCHANGED <<db, commands>>

Committed(w) ==
    /\ tx' = [tx EXCEPT ![w] = Idle]
    /\ ReleaseLocks(w)
    /\ UNCHANGED commands

(* A driver without the partial unique index. *)
NoUniqueIndex(c, receivables) == TRUE

(* uq_r8_one_open_case_per_receivable, for the markers a write gives case c. *)
uq_r8_one_open_case_per_receivable(c, receivables) ==
    \A d \in Cases \ {c} : marker[d] \cap receivables = {}

Entry(c, action, from, to, cmd) ==
    [sequenceNo |-> Len(log[c]) + 1, action |-> action, from |-> from, to |-> to,
     source |-> cmd.source, consentRef |-> cmd.consentRef, outcome |-> cmd.outcome,
     target |-> cmd.target]

AppendCaseAction(c, action, from, to, cmd) ==
    log' = [log EXCEPT ![c] = Append(@, Entry(c, action, from, to, cmd))]

appendOutbox(c, event) == outbox' = [outbox EXCEPT ![c] = Append(@, event)]

TxAborts(w) ==
    /\ tx[w].pc # "idle"
    /\ Rollback(w)

--------------------------------------------------------------------------------
(* OpenCase. *)

BeginOpen(w, receivables, priority) ==
    /\ "open" \in Ops
    /\ tx[w].pc = "idle" /\ commands < MaxCommands
    /\ commands' = commands + 1
    /\ tx' = [tx EXCEPT ![w] = [Idle EXCEPT
                !.pc = "begun",
                !.cmd = [NoCmd EXCEPT !.op = "open", !.receivables = receivables, !.to = priority]]]
    /\ UNCHANGED <<db, orgLock, caseLock>>

LockOrgCases(w) ==
    /\ tx[w].pc = "begun" /\ orgLock = None
    /\ orgLock' = w
    /\ tx' = [tx EXCEPT ![w].pc = "serialised"]
    /\ UNCHANGED <<db, caseLock, commands>>

(* ReceivableIDsCoveredByOpenCases and NextCaseSequence. *)
CheckCoverage(w) ==
    /\ tx[w].pc = "serialised"
    /\ IF \E c \in Cases : marker[c] \cap tx[w].cmd.receivables # {}
       THEN Rollback(w)
       ELSE /\ tx' = [tx EXCEPT ![w].pc = "uncovered", ![w].seq = Cardinality(Existing) + 1]
            /\ UNCHANGED <<db, orgLock, caseLock, commands>>

InsertCase(w) ==
    LET cmd == tx[w].cmd
        c == CHOOSE d \in Cases : d \notin Existing
    IN /\ tx[w].pc = "uncovered" /\ Existing # Cases
       /\ IF uq_r8_one_open_case_per_receivable(c, cmd.receivables)
          THEN /\ cases' = [cases EXCEPT ![c] = [status |-> "open", priority |-> cmd.to,
                                                 sequenceNo |-> tx[w].seq, closedAt |-> FALSE]]
               /\ links' = [links EXCEPT ![c] = cmd.receivables]
               /\ marker' = [marker EXCEPT ![c] = cmd.receivables]
               /\ AppendCaseAction(c, "case.opened", "", "", NoCmd)
               /\ appendOutbox(c, "case.opened")
               /\ Committed(w)
          ELSE Rollback(w)

--------------------------------------------------------------------------------
(* The commands on an existing case. *)

(* RecordAction's default source. *)
SourceOf(type, source) ==
    IF source # "" THEN source ELSE IF type \in outboundTypes THEN "automated" ELSE "manual"

Commands(c) ==
    {cmd \in
       {[NoCmd EXCEPT !.op = "transition", !.case = c, !.to = to] : to \in Statuses \ {"open"}}
       \cup {[NoCmd EXCEPT !.op = "escalate", !.case = c, !.to = to] : to \in Priorities}
       \cup {[NoCmd EXCEPT !.op = "record", !.case = c, !.type = a.type, !.source = SourceOf(a.type, a.source),
                           !.consentRef = a.consentRef, !.outcome = a.outcome]
               : a \in [type : ActionTypes, source : Sources, consentRef : BOOLEAN, outcome : Outcomes]}
       \cup {[NoCmd EXCEPT !.op = "complete", !.case = c, !.target = i] : i \in DOMAIN log[c]}
     : cmd.op \in Ops}

(* CaseByID: the row is read before the case is locked. *)
CaseByID(w, cmd) ==
    /\ tx[w].pc = "idle" /\ commands < MaxCommands
    /\ commands' = commands + 1
    /\ tx' = [tx EXCEPT ![w] = [Idle EXCEPT !.pc = "read", !.cmd = cmd, !.row = cases[cmd.case]]]
    /\ UNCHANGED <<db, orgLock, caseLock>>

(* A command that never takes the advisory lock. *)
LockCaseSkipped(w) ==
    /\ tx[w].pc = "read"
    /\ tx' = [tx EXCEPT ![w].pc = "locked"]
    /\ UNCHANGED <<db, orgLock, caseLock, commands>>

LockCase(w) ==
    LET c == tx[w].cmd.case
    IN /\ tx[w].pc = "read" /\ caseLock[c] = None
       /\ caseLock' = [caseLock EXCEPT ![c] = w]
       /\ tx' = [tx EXCEPT ![w].pc = "locked"]
       /\ UNCHANGED <<db, orgLock, commands>>

CaseActionCompleted(c, i) ==
    \E j \in DOMAIN log[c] : log[c][j].action = "case.completion" /\ log[c][j].target = i

(* What each command requires of the row it read and of the log it reads now. *)
Admitted(cmd, row) ==
    CASE cmd.op = "transition" -> cmd.to \in caseTransitions[row.status]
      [] cmd.op = "escalate" -> /\ caseIsOpen(row.status)
                                /\ casePriorities[cmd.to] > casePriorities[row.priority]
      [] cmd.op = "record" -> caseIsOpen(row.status)
      [] cmd.op = "complete" -> /\ caseIsOpen(row.status)
                                /\ log[cmd.case][cmd.target].action \in caseActionTypes
                                /\ ~ CaseActionCompleted(cmd.case, cmd.target)

Validate(w) ==
    /\ tx[w].pc = "locked"
    /\ IF Admitted(tx[w].cmd, tx[w].row)
       THEN /\ tx' = [tx EXCEPT ![w].pc = "admitted"]
            /\ UNCHANGED <<db, orgLock, caseLock, commands>>
       ELSE Rollback(w)

(* The transitions that are announced. *)
TransitionEvent == [resolved |-> "case.resolved", closed_inactive |-> "case.closed"]

UpdateCaseStatus(c, to) ==
    cases' = [cases EXCEPT ![c].status = to, ![c].closedAt = caseTransitions[to] = {}]

(* fuatilia_case_r8_marker_sync *)
fuatilia_case_r8_marker_sync(c, to) == IF caseIsOpen(to) THEN links[c] ELSE {}

Transition(w) ==
    LET cmd == tx[w].cmd
        c == cmd.case
        newMarker == fuatilia_case_r8_marker_sync(c, cmd.to)
    IN /\ tx[w].pc = "admitted" /\ cmd.op = "transition"
       /\ IF uq_r8_one_open_case_per_receivable(c, newMarker)
          THEN /\ UpdateCaseStatus(c, cmd.to)
               /\ marker' = [marker EXCEPT ![c] = newMarker]
               /\ AppendCaseAction(c, "case.transition", tx[w].row.status, cmd.to, NoCmd)
               /\ IF cmd.to \in DOMAIN TransitionEvent
                  THEN appendOutbox(c, TransitionEvent[cmd.to]) ELSE UNCHANGED outbox
               /\ Committed(w)
               /\ UNCHANGED links
          ELSE Rollback(w)

Escalate(w) ==
    LET cmd == tx[w].cmd
    IN /\ tx[w].pc = "admitted" /\ cmd.op = "escalate"
       /\ cases' = [cases EXCEPT ![cmd.case].priority = cmd.to]
       /\ AppendCaseAction(cmd.case, "case.escalation", tx[w].row.priority, cmd.to, NoCmd)
       /\ appendOutbox(cmd.case, "case.escalated")
       /\ Committed(w)
       /\ UNCHANGED <<links, marker>>

RecordAction(w) ==
    LET cmd == tx[w].cmd
        blocked == cmd.type \in outboundTypes /\ cmd.source = "automated" /\ ~ cmd.consentRef
    IN /\ tx[w].pc = "admitted" /\ cmd.op = "record"
       /\ IF blocked
          THEN /\ AppendCaseAction(cmd.case, "collections.dunningBlockedNoConsent", "", "", NoCmd)
               /\ appendOutbox(cmd.case, "collections.dunningBlockedNoConsent")
          ELSE /\ AppendCaseAction(cmd.case, cmd.type, "", "", cmd)
               /\ appendOutbox(cmd.case, "case.actionRecorded")
       /\ Committed(w)
       /\ UNCHANGED <<cases, links, marker>>

CompleteAction(w) ==
    LET cmd == tx[w].cmd
    IN /\ tx[w].pc = "admitted" /\ cmd.op = "complete"
       /\ AppendCaseAction(cmd.case, "case.completion", "", "", cmd)
       /\ Committed(w)
       /\ UNCHANGED <<cases, links, marker, outbox>>

Done ==
    /\ commands = MaxCommands /\ \A w \in Workers : tx[w].pc = "idle"
    /\ UNCHANGED vars

Next ==
    \/ \E w \in Workers :
          \/ \E rs \in Coverings, p \in Priorities : BeginOpen(w, rs, p)
          \/ LockOrgCases(w) \/ CheckCoverage(w) \/ InsertCase(w)
          \/ \E c \in Existing : \E cmd \in Commands(c) : CaseByID(w, cmd)
          \/ LockCase(w) \/ Validate(w)
          \/ Transition(w) \/ Escalate(w) \/ RecordAction(w) \/ CompleteAction(w)
          \/ TxAborts(w)
    \/ Done

Spec == Init /\ [][Next]_vars

--------------------------------------------------------------------------------
(* Properties. *)

(* A stored row has a known status, and carries closing evidence exactly   *)
(* when it is closed (ck_collections_cases_closed_shape); a lock is held   *)
(* only by a running transaction.                                          *)
TypeOK ==
    /\ \A c \in Cases : /\ cases[c].status \in Statuses \cup {"none"}
                        /\ cases[c].priority \in DOMAIN casePriorities
                        /\ cases[c].closedAt = (cases[c].status \in {"resolved", "closed_inactive"})
                        /\ marker[c] \subseteq links[c] /\ links[c] \subseteq Receivables
                        /\ caseLock[c] = None \/ tx[caseLock[c]].pc \in {"locked", "admitted"}
    /\ orgLock = None \/ tx[orgLock].pc \in {"serialised", "uncovered"}
    /\ commands \in 0 .. MaxCommands

(* R8: at most one open case covers a receivable, whatever the commands    *)
(* interleave and although a stale transition may reopen a closed case.    *)
OneOpenCasePerReceivable ==
    \A c, d \in Cases :
       c # d /\ caseIsOpen(cases[c].status) /\ caseIsOpen(cases[d].status)
         => links[c] \cap links[d] = {}

(* The denormalised R8 marker follows the status of its case: closing      *)
(* releases every receivable and an open case holds all of its own.        *)
CoverageFollowsStatus ==
    \A c \in Cases : marker[c] = IF caseIsOpen(cases[c].status) THEN links[c] ELSE {}

Told(c, action) == {i \in DOMAIN log[c] : log[c][i].action = action}
IsLastTo(c, action, initial, value) ==
    IF Told(c, action) = {}
    THEN value = initial
    ELSE \E i \in Told(c, action) : log[c][i].to = value /\ \A j \in Told(c, action) : j <= i

Announced(c) == {i \in DOMAIN outbox[c] : outbox[c][i] = "case.escalated"}

(* T answers S one for one, in order. *)
InStep(S, T) ==
    \E f \in [S -> T] : (\A t \in T : \E s \in S : f[s] = t) /\ (\A s, u \in S : s < u => f[s] < f[u])

(* The log explains the row: the stored status is the target of the last   *)
(* logged transition and the priority that of the last logged escalation,  *)
(* so every change of either was logged, in the order it took effect, and  *)
(* every escalation has its event.                                         *)
LogExplainsRow ==
    \A c \in Existing :
       /\ IsLastTo(c, "case.transition", "open", cases[c].status)
       /\ \E p \in DOMAIN casePriorities : IsLastTo(c, "case.escalation", p, cases[c].priority)
       /\ InStep(Told(c, "case.escalation"), Announced(c))

(* An action is completed at most once although completions race, and only *)
(* an action is (CompleteAction).                                          *)
CompletedOnce ==
    \A c \in Cases : \A i, j \in DOMAIN log[c] :
       log[c][i].action = "case.completion" =>
          /\ log[c][log[c][i].target].action \in caseActionTypes
          /\ (log[c][j].action = "case.completion" /\ log[c][j].target = log[c][i].target) => i = j

--------------------------------------------------------------------------------
(* R8 and its index (migration 0009): at most one open case covers a receivable, whatever  *)
(* commands interleave and although a command that read the row before another committed   *)
(* may move a closed case back; the marker the index is on follows the status.             *)
CoverageIsExclusive == TypeOK /\ OneOpenCasePerReceivable /\ CoverageFollowsStatus

(* The append-only log tells every change of the row, in the order it took effect, and an  *)
(* action is completed once, while commands race on the case lock they take after reading  *)
(* (collections.go: Transition, Escalate, CompleteAction).                                 *)
LogTellsCase == LogExplainsRow /\ CompletedOnce

ActionEntries(c) == SelectSeq(log[c], LAMBDA e : e.action \in caseActionTypes)

(* The actions of the read model: caseView with actionView, which knows an *)
(* outcome only from the recorded entry itself.                            *)
actionView(e) == [type |-> e.action, source |-> e.source, consentRef |-> e.consentRef,
                  done |-> e.outcome]

(* The aggregate the rows stand for: the view, and the completions of the log, which the   *)
(* view does not show.                                                                     *)
Steps(c, action) ==
    LET steps == SelectSeq(log[c], LAMBDA e : e.action = action)
    IN [i \in DOMAIN steps |-> <<steps[i].from, steps[i].to>>]

Aggregate(c) ==
    [status |-> cases[c].status, priority |-> cases[c].priority, receivableIds |-> links[c],
     actions |-> LET es == ActionEntries(c)
                 IN [i \in DOMAIN es |->
                       [actionView(es[i]) EXCEPT !.done = @ \/ CaseActionCompleted(c, es[i].sequenceNo)]],
     history |-> Steps(c, "case.transition"),
     priorityChanges |-> Steps(c, "case.escalation"),
     events |-> outbox[c]]

aggregates == [c \in Cases |-> Aggregate(c)]
================================================================================
