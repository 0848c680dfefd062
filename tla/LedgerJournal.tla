----------------------------- MODULE LedgerJournal -----------------------------
(***************************************************************************)
(* The ledger lane (src/domain/ledger) beside the sub-ledger it is         *)
(* reconciled with: the lanes move one organisation's receivables in one   *)
(* currency and emit a movement each; the movements reach post at least    *)
(* once and in any order; entries are corrected by reversal; the daily job *)
(* compares open receivables with the AR control account.  The desk        *)
(* (DeskNext) is the same journal under the inputs of adapters: movements  *)
(* of two organisations and currencies, replays that were altered,         *)
(* explicit lines, and snapshots of open balances as a projection has them.*)
(***************************************************************************)
EXTENDS Integers, Sequences, SequencesExt, FiniteSets, FiniteSetsExt

CONSTANTS Amounts,
          MaxMoves,     \* bound on the movements
          MaxReversals, \* bound on the corrections
          Movements,    \* desk: what is offered to post: [id, org, name, at, amount, currency]
          Postings,     \* desk: what is offered to postEntry: [id, org, name, at, lines]
          Snapshots,    \* desk: lists of open balances: [receivable, org, currency, balance]
          MAX_SAFE,     \* the largest amount an event may carry (Number.MAX_SAFE_INTEGER)
          MaxEntries,   \* bound on the entries of the desk
          MaxReports    \* bound on the reconciliation runs of the desk

VARIABLES open,       \* sum of the open receivable balances
          unapplied,  \* confirmed money not allocated to a receivable
          refunded,   \* money paid back out of unapplied
          moves,      \* the movements the lanes emitted: [name, amount], by id
          ledger,     \* the journal: entries in posting order
          told        \* the ledger lane's own events, in the order they are emitted

vars == <<open, unapplied, refunded, moves, ledger, told>>

POSTING_MATRIX ==
    [invoiceIssued     |-> [debit |-> "AR_CONTROL", credit |-> "REVENUE"],
     paymentCompleted  |-> [debit |-> "CASH", credit |-> "AR_CONTROL"],
     creditNoteApplied |-> [debit |-> "REVENUE_CONTRA", credit |-> "AR_CONTROL"],
     refundCompleted   |-> [debit |-> "SALES_REFUNDS", credit |-> "CASH"],
     writeOffApproved  |-> [debit |-> "BAD_DEBT_EXPENSE", credit |-> "AR_CONTROL"],
     lateFeeAssessed   |-> [debit |-> "AR_CONTROL", credit |-> "OTHER_INCOME"]]

isPostableEvent(name) == name \in DOMAIN POSTING_MATRIX
ACCOUNTS == {"AR_CONTROL", "CASH", "REVENUE", "REVENUE_CONTRA", "SALES_REFUNDS", "BAD_DEBT_EXPENSE", "OTHER_INCOME"}
CURRENCIES == {"KES", "USD", "GBP", "EUR", "TZS", "UGX"}

Init == open = 0 /\ unapplied = 0 /\ refunded = 0 /\ moves = <<>> /\ ledger = <<>> /\ told = <<>>

--------------------------------------------------------------------------------
(* The producing lanes: what moves, and the movement they emit. *)
Emit(name, amount) == /\ Len(moves) < MaxMoves /\ moves' = Append(moves, [name |-> name, amount |-> amount])
                      /\ UNCHANGED <<ledger, told>>

IssueInvoice(a)    == open' = open + a /\ Emit("invoiceIssued", a) /\ UNCHANGED <<unapplied, refunded>>
ApplyCreditNote(a) == a <= open /\ open' = open - a /\ Emit("creditNoteApplied", a) /\ UNCHANGED <<unapplied, refunded>>
WriteOff           == open > 0 /\ open' = 0 /\ Emit("writeOffApproved", open) /\ UNCHANGED <<unapplied, refunded>>

(* accrueLateFee: a fee row and its event; the receivable's balance is left as it is. *)
LateFee(a) == open > 0 /\ Emit("lateFeeAccrued", a) /\ UNCHANGED <<open, unapplied, refunded>>

(* A confirmed payment is allocated as far as there are receivables; the rest parks. *)
ConfirmPayment(a) ==
    LET used == IF a <= open THEN a ELSE open
    IN  /\ open' = open - used /\ unapplied' = unapplied + (a - used)
        /\ Emit("paymentCompleted", a) /\ UNCHANGED refunded

(* docs/05: memo only, no posting. *)
AllocateLater ==
    LET used == IF unapplied <= open THEN unapplied ELSE open
    IN  /\ used > 0 /\ open' = open - used /\ unapplied' = unapplied - used
        /\ UNCHANGED <<refunded, moves, ledger, told>>

CompleteRefund(a) == /\ a <= unapplied /\ unapplied' = unapplied - a /\ refunded' = refunded + a
                     /\ Emit("refundCompleted", a) /\ UNCHANGED open

(* A consented credit balance (parked earlier, outside the receivables) settles a debt. *)
ApplyCreditBalance(a) == a <= open /\ open' = open - a /\ Emit("creditBalanceApplied", a) /\ UNCHANGED <<unapplied, refunded>>

--------------------------------------------------------------------------------
Line(account, direction, amount, currency) ==
    [account |-> account, direction |-> direction, amount |-> amount, currency |-> currency]

(* A known account, a direction and a positive amount. *)
toJournalLine(line) == /\ line.account \in ACCOUNTS /\ line.direction \in {"DEBIT", "CREDIT"}
                       /\ line.amount > 0

SumOf(lines, direction) ==
    FoldLeft(LAMBDA n, line : n + (IF line.direction = direction THEN line.amount ELSE 0), 0, lines)

(* LEDGER_ENTRY_EMPTY, CURRENCY_MISMATCH, LEDGER_ENTRY_UNBALANCED, LEDGER_ENTRY_SELF_CANCELING. *)
assertBalanced(lines) ==
    /\ lines # <<>> /\ Cardinality({lines[k].currency : k \in DOMAIN lines}) = 1
    /\ SumOf(lines, "DEBIT") = SumOf(lines, "CREDIT")
    /\ Cardinality({lines[k].account : k \in DOMAIN lines}) >= 2

minorUnits(amount) == amount \in -MAX_SAFE..MAX_SAFE

findPostedEntry(org, id) == {i \in DOMAIN ledger : ledger[i].org = org /\ ledger[i].source = id}

alreadyPosted(org, id) == findPostedEntry(org, id) # {}

(* A movement of several lines taken for its first. *)
SameFirstLine(entry, event) ==
    /\ entry.name = event.name /\ entry.at = event.at
    /\ entry.lines[1].amount = event.amount /\ entry.lines[1].currency = event.currency

(* What may be recorded as a replay of an entry: accounts are not compared. *)
assertSameMovement(entry, event) ==
    /\ entry.name = event.name /\ entry.at = event.at /\ Len(entry.lines) = 2
    /\ entry.lines[1].amount = event.amount /\ entry.lines[1].currency = event.currency

Entry(source, org, name, at, lines, reversalOf) ==
    [source |-> source, org |-> org, name |-> name, at |-> at, lines |-> lines,
     status |-> "POSTED", reversalOf |-> reversalOf, reversedBy |-> 0]

(* Entries are named by their place; an event carries the amount of the first line. *)
entryPostedEvent(i, entry) ==
    [name |-> "entryPosted", entry |-> i, org |-> entry.org, amount |-> entry.lines[1].amount,
     currency |-> entry.lines[1].currency, reversalOf |-> entry.reversalOf]

entryReversedEvent(i, by) == [name |-> "entryReversed", entry |-> i, reversal |-> by]

Record(entry) == /\ minorUnits(entry.lines[1].amount)
                 /\ ledger' = Append(ledger, entry)
                 /\ told' = Append(told, entryPostedEvent(Len(ledger) + 1, entry))
                 /\ UNCHANGED <<open, unapplied, refunded, moves>>

MatrixLines(event) ==
    LET row == POSTING_MATRIX[event.name]
    IN  <<Line(row.debit, "DEBIT", event.amount, event.currency),
          Line(row.credit, "CREDIT", event.amount, event.currency)>>

(* What post answers.  Only "posted" changes anything. *)
PostAnswer(event) ==
    CASE ~isPostableEvent(event.name) -> "LEDGER_EVENT_NOT_POSTABLE"
      [] event.amount <= 0 -> "LEDGER_AMOUNT_INVALID"
      [] event.currency \notin CURRENCIES -> "LEDGER_CURRENCY_INVALID"
      [] OTHER ->
           LET found == findPostedEntry(event.org, event.id)
           IN  IF found = {} THEN "posted"
               ELSE IF assertSameMovement(ledger[Min(found)], event) THEN "already_posted"
               ELSE "LEDGER_IDEMPOTENCY_CONFLICT"

post(event) ==
    /\ PostAnswer(event) = "posted"
    /\ Record(Entry(event.id, event.org, event.name, event.at, MatrixLines(event), 0))

PostEntryAnswer(input) ==
    IF ~(\A k \in DOMAIN input.lines : toJournalLine(input.lines[k])) THEN "LEDGER_LINE"
    ELSE IF ~assertBalanced(input.lines) THEN "LEDGER_ENTRY"
    ELSE LET found == findPostedEntry(input.org, input.id)
             entry == ledger[Min(found)]
         IN  IF found = {} THEN "posted"
             ELSE IF entry.name = input.name /\ entry.at = input.at /\ entry.lines = input.lines
             THEN "already_posted" ELSE "LEDGER_IDEMPOTENCY_CONFLICT"

postEntry(input) ==
    /\ PostEntryAnswer(input) = "posted"
    /\ Record(Entry(input.id, input.org, input.name, input.at, input.lines, 0))

Reversals == Cardinality({i \in DOMAIN ledger : ledger[i].reversalOf # 0})

(* LEDGER_REVERSAL_OF_REVERSAL, LEDGER_ENTRY_NOT_REVERSIBLE. *)
mayReverse(i) == ledger[i].reversalOf = 0 /\ ledger[i].status = "POSTED"

Flipped(line) == [line EXCEPT !.direction = IF @ = "DEBIT" THEN "CREDIT" ELSE "DEBIT"]

(* The source of a reversal is the reversal itself (below 0). *)
Reversal(i) ==
    Entry(-i, ledger[i].org, "ledger.entryReversed", 0,
          [k \in DOMAIN ledger[i].lines |-> Flipped(ledger[i].lines[k])], i)

Marked(i) == [ledger[i] EXCEPT !.status = "REVERSED", !.reversedBy = Len(ledger) + 1]

reverseEntry(i) ==
    /\ Reversals < MaxReversals /\ mayReverse(i) /\ assertBalanced(Reversal(i).lines)
    /\ LET by == Len(ledger) + 1
       IN  told' = told \o <<entryPostedEvent(by, Reversal(i)), entryReversedEvent(i, by)>>
    /\ ledger' = Append([ledger EXCEPT ![i] = Marked(i)], Reversal(i))
    /\ UNCHANGED <<open, unapplied, refunded, moves>>

--------------------------------------------------------------------------------
(* Sum of debits less credits of one account over entries. *)
accountBalanceMinor(entries, account) ==
    LET net(line) == IF line.account # account THEN 0
                     ELSE IF line.direction = "DEBIT" THEN line.amount ELSE -line.amount
    IN  FoldLeft(LAMBDA n, entry : n + FoldLeft(LAMBDA m, line : m + net(line), 0, entry.lines),
                 0, entries)

arControlBalanceMinor(entries) == accountBalanceMinor(entries, "AR_CONTROL")

driftMinor == open - arControlBalanceMinor(ledger)

--------------------------------------------------------------------------------
(* The daily job: one organisation, one currency, one day. *)
dailyReconciliationJob(org, currency, runDate) == [org |-> org, currency |-> currency, runDate |-> runDate]

RowsOf(job, rows) == SelectSeq(rows, LAMBDA row : row.currency = job.currency)
EntriesOf(job, entries) ==
    SelectSeq(entries, LAMBDA e : \A k \in DOMAIN e.lines : e.lines[k].currency = job.currency)

(* LEDGER_RECON_SCOPE_MISMATCH, LEDGER_RECON_DUPLICATE_RECEIVABLE, LEDGER_RECON_BALANCE_INVALID. *)
MayReconcile(job, rows, entries) ==
    LET mine == RowsOf(job, rows)
    IN  /\ \A k \in DOMAIN rows : rows[k].org = job.org
        /\ \A k \in DOMAIN entries : entries[k].org = job.org
        /\ \A j, k \in DOMAIN mine : j # k => mine[j].receivable # mine[k].receivable
        /\ \A k \in DOMAIN mine : mine[k].balance >= 0

subLedgerBalanceMinor(job, rows) == FoldLeft(LAMBDA n, row : n + row.balance, 0, RowsOf(job, rows))

Report(job, rows, entries) ==
    LET sub == subLedgerBalanceMinor(job, rows)
        gl == arControlBalanceMinor(EntriesOf(job, entries))
    IN  [name |-> IF sub # gl THEN "reconciliationDriftDetected" ELSE "reconciliationMatched",
         job |-> job, sub |-> sub, gl |-> gl, drift |-> sub - gl,
         receivables |-> Len(RowsOf(job, rows)), entries |-> Len(EntriesOf(job, entries))]

Reports == SelectSeq(told, LAMBDA e : e.name \in {"reconciliationDriftDetected", "reconciliationMatched"})

runReconciliationJob(job, rows, entries) ==
    /\ Len(Reports) < MaxReports /\ MayReconcile(job, rows, entries)
    /\ LET report == Report(job, rows, entries)
       IN  /\ minorUnits(report.sub) /\ minorUnits(report.gl) /\ minorUnits(report.drift)
           /\ told' = Append(told, report)
    /\ UNCHANGED <<open, unapplied, refunded, moves, ledger>>

--------------------------------------------------------------------------------
Lanes ==
    \/ \E a \in Amounts : IssueInvoice(a) \/ LateFee(a) \/ ApplyCreditNote(a) \/ ConfirmPayment(a)
                            \/ CompleteRefund(a) \/ ApplyCreditBalance(a)
    \/ WriteOff \/ AllocateLater

(* Movement m as it is handed over, each time the same. *)
Movement(m, name) == [id |-> m, org |-> "org", name |-> name, at |-> m,
                      amount |-> moves[m].amount, currency |-> "KES"]

(* The matrix has no lateFeeAccrued: post refuses it, unless it is handed over as the     *)
(* movement its posting hook describes.                                                   *)
HandedAs(name) == {name} \cup (IF name = "lateFeeAccrued" THEN {"lateFeeAssessed"} ELSE {})

Next == Lanes \/ (\E m \in DOMAIN moves : \E name \in HandedAs(moves[m].name) : post(Movement(m, name))) \/ (\E i \in DOMAIN ledger : reverseEntry(i))

(* The caller hands over the whole journal or the part of the organisation. *)
Handed(job) == {ledger, SelectSeq(ledger, LAMBDA e : e.org = job.org)}

Jobs == {dailyReconciliationJob(m.org, m.currency, 1) : m \in Movements}

DeskNext ==
    \/ /\ Len(ledger) < MaxEntries
       /\ \/ \E event \in Movements : post(event)
          \/ \E input \in Postings : postEntry(input)
          \/ \E i \in DOMAIN ledger : reverseEntry(i)
    \/ \E job \in Jobs, rows \in Snapshots : \E entries \in Handed(job) :
          runReconciliationJob(job, rows, entries)

Spec == Init /\ [][Next]_vars
--------------------------------------------------------------------------------
TypeOK ==
    /\ open \in Nat /\ unapplied \in Nat /\ refunded \in Nat
    /\ \A i \in DOMAIN ledger : /\ ledger[i].status \in {"POSTED", "REVERSED"}
                                /\ ledger[i].reversalOf \in 0..(i - 1)

(* Under repeated, reordered, altered and late deliveries, also after a correction: an     *)
(* organisation's movement is posted at most once, whichever way it came, and what is      *)
(* posted balances (post, postEntry: sourceEventId is the idempotency key).                *)
PostedOnce ==
    /\ \A i, j \in DOMAIN ledger : i < j => <<ledger[i].org, ledger[i].source>> # <<ledger[j].org, ledger[j].source>>
    /\ FoldSet(LAMBDA acc, n : n + accountBalanceMinor(ledger, acc), 0, ACCOUNTS) = 0

(* A corrected entry and its one reversal cancel on every account, and nothing corrects  *)
(* a correction (reverseEntry).                                                          *)
ReversalsCancel ==
    \A i \in DOMAIN ledger :
        /\ ledger[i].status = "REVERSED" =>
             /\ ledger[i].reversalOf = 0 /\ ledger[ledger[i].reversedBy].reversalOf = i
             /\ \A acc \in ACCOUNTS :
                   accountBalanceMinor(<<ledger[i], ledger[ledger[i].reversedBy]>>, acc) = 0
        /\ ledger[i].reversalOf # 0 => ledger[ledger[i].reversalOf].reversedBy = i

(* What the daily job reports is exactly the movements still to post, the corrections,   *)
(* the money that left no receivable (unapplied and refunded payments), less the late    *)
(* fees that were posted: AR control has them and no receivable's balance does.          *)
DriftIsExplained ==
    LET arOf(name, a) == CASE name = "invoiceIssued" -> a
                           [] name \in {"refundCompleted", "lateFeeAccrued"} -> 0 [] OTHER -> -a
        standing == {ledger[i].source : i \in {j \in DOMAIN ledger : ledger[j].reversalOf = 0 /\ ledger[j].status = "POSTED"}}
        missing == FoldSet(LAMBDA m, n : n + arOf(moves[m].name, moves[m].amount), 0, DOMAIN moves \ standing)
        fees == FoldSet(LAMBDA m, n : n + moves[m].amount, 0,
                        {m \in DOMAIN moves \cap standing : moves[m].name = "lateFeeAccrued"})
    IN  driftMinor = missing + unapplied + refunded - fees

(* R4 (docs/07-invariants.md): every movement the matrix names is in the journal.  What  *)
(* the lanes emit under another name (late fees, credit balances) is not.                *)
EveryMovementPosted ==
    \A m \in DOMAIN moves : moves[m].name \in DOMAIN POSTING_MATRIX => alreadyPosted("org", m)

(* An answer "already posted" is never given to another movement: what stands in the     *)
(* journal under the id has the name, the time, the currency and the whole amount of     *)
(* what was offered, also when the two came by different ways (assertSameMovement,       *)
(* postEntry's replayIsSame).                                                            *)
ReplayIsTheMovement ==
    LET stands(org, id, name, at, currency, amount) ==
            \E i \in DOMAIN ledger :
                /\ ledger[i].org = org /\ ledger[i].source = id
                /\ ledger[i].name = name /\ ledger[i].at = at
                /\ \A k \in DOMAIN ledger[i].lines : ledger[i].lines[k].currency = currency
                /\ SumOf(ledger[i].lines, "DEBIT") = amount
    IN  /\ \A e \in Movements :
               PostAnswer(e) = "already_posted" => stands(e.org, e.id, e.name, e.at, e.currency, e.amount)
        /\ \A p \in Postings :
               PostEntryAnswer(p) = "already_posted" =>
                   stands(p.org, p.id, p.name, p.at, p.lines[1].currency, SumOf(p.lines, "DEBIT"))

(* The lane's events tell the journal: read in order they announce each entry once, in   *)
(* its place, and each correction once, after the entry that makes it (emit).            *)
EventsTellJournal ==
    LET posted == SelectSeq(told, LAMBDA e : e.name = "entryPosted")
        fixed  == SelectSeq(told, LAMBDA e : e.name = "entryReversed")
    IN  /\ Len(posted) = Len(ledger)
        /\ \A i \in DOMAIN posted : posted[i] = entryPostedEvent(i, ledger[i])
        /\ {<<e.entry, e.reversal>> : e \in Range(fixed)} =
               {<<i, ledger[i].reversedBy>> : i \in {j \in DOMAIN ledger : ledger[j].status = "REVERSED"}}
        /\ Len(fixed) = Reversals

(* A report stays true of the books as they were.  Its control balance is that of the    *)
(* entries announced before it, whatever is posted or corrected later; it says matched   *)
(* exactly when its two sides agree (runReconciliationJob).                              *)
ReportsStayTrue ==
    \A k \in DOMAIN told :
        LET e == told[k]
            before == Len(SelectSeq(SubSeq(told, 1, k), LAMBDA x : x.name = "entryPosted"))
            ours(x) == x.org = e.job.org /\ x.lines[1].currency = e.job.currency
            books == SelectSeq(SubSeq(ledger, 1, before), ours)
        IN  e.name \notin {"entryPosted", "entryReversed"} =>
                /\ e.gl = arControlBalanceMinor(books) /\ e.entries = Len(books)
                /\ e.drift = e.sub - e.gl /\ (e.name = "reconciliationMatched" <=> e.sub = e.gl)

(* A snapshot the job accepts is counted receivable by receivable, once each, whatever   *)
(* the order of its rows and the currencies in it (runReconciliationJob's first loop).   *)
SnapshotCountedOnce ==
    \A job \in Jobs, rows \in Snapshots :
        LET mine == {row \in Range(rows) : row.currency = job.currency}
        IN  MayReconcile(job, rows, <<>>) =>
                /\ Cardinality({row.receivable : row \in mine}) = Len(RowsOf(job, rows))
                /\ subLedgerBalanceMinor(job, rows) = FoldSet(LAMBDA row, n : n + row.balance, 0, mine)
                /\ subLedgerBalanceMinor(job, Reverse(rows)) = subLedgerBalanceMinor(job, rows)

================================================================================
