------------------------------ MODULE ApiResources ------------------------------
(***************************************************************************)
(* The HTTP API of the TypeScript service (adapters/http): the kernel's    *)
(* order of refusals, the route table, the status of an error code, and    *)
(* the handlers of payments, adjustments, collections, receivables and the *)
(* ledger over the resource store.  A client may walk a listing page by    *)
(* page while others write.  Handlers run to completion one at a time.     *)
(* An error code is the tuple of its words; an id, a receivable and an     *)
(* instant are numbers, ids drawn from Ids in any order (idGen).           *)
(***************************************************************************)
EXTENDS MoneyLanes, FiniteSetsExt

CONSTANTS Ids,
          Intakes,      \* intake commands: [channel, ref, key, amount, currency]
          Amounts, Currencies, Orgs,
          Receivables,  \* store.receivables()
          Claims,       \* the receivableIds a request may carry
          Requests,     \* requests the kernel refuses, from RequestSet
          Listings,     \* the walks clients start: [list, field, order, limit]
          MaxPayments, MaxRefunds, MaxCases, MaxActions, MaxTime

VARIABLES rows,       \* store.payments(), in insertion order
          cases,      \* store.cases(), in insertion order
          answer,     \* the response on its way to the client, and how many events it recorded
          walk,       \* one client's walk of a listing
          now

vars == <<rows, cases, answer, walk, now>>
NoAnswer == [status |-> 0, recorded |-> 0]   \* no response on its way
NoWalk == [listing |-> [list |-> "none", field |-> "none", order |-> "asc", limit |-> 1], cursor |-> -1, seen |-> <<>>,
           first |-> {}]

--------------------------------------------------------------------------------
(* kernel/errors.ts: exact codes, then prefixes, then _NOT_FOUND and _NOT_, then suffixes. *)
EXACT_STATUS ==
    { <<413, <<"HTTP", "PAYLOAD", "TOO", "LARGE">>>>, <<400, <<"HTTP", "BODY", "MALFORMED">>>>,
      <<400, <<"HTTP", "BODY", "INVALID">>>>, <<400, <<"HTTP", "QUERY", "INVALID">>>>,
      <<404, <<"HTTP", "ROUTE", "NOT", "FOUND">>>>, <<405, <<"HTTP", "METHOD", "NOT", "ALLOWED">>>>,
      <<401, <<"HTTP", "UNAUTHENTICATED">>>>, <<500, <<"HTTP", "INTERNAL", "ERROR">>>>,
      <<403, <<"AUTH", "ACCESS", "DENIED">>>>, <<409, <<"PAYMENT", "TERMINAL">>>>,
      <<409, <<"PAYMENT", "NOT", "CONFIRMED">>>>, <<409, <<"INVALID", "TRANSITION">>>>,
      <<422, <<"REFUND", "EXCEEDS", "AVAILABLE">>>>, <<409, <<"CASE", "ALREADY", "OPEN">>>>,
      <<409, <<"CASE", "CLOSED">>>>, <<409, <<"CASE", "ACTION", "ALREADY", "COMPLETED">>>>,
      <<403, <<"DUNNING", "CONSENT", "REQUIRED">>>> }
PREFIX_STATUS == {"SESSION", "SESS", "KEY", "PRINCIPAL"}
SUFFIX_STATUS == { <<409, {"TAKEN", "EXISTS", "DUPLICATE", "MISMATCH"}>>, <<422, {"EXPIRED", "EXCEEDED", "REFUSED"}>>,
                   <<403, {"BLOCKED"}>>,
                   <<400, {"INVALID", "REQUIRED", "MALFORMED", "MISSING", "UNKNOWN", "EMPTY", "BLANK", "ZERO",
                           "UNPARSEABLE", "INSECURE"}>> }

suffixStatus(code) ==
    LET bySuffix == {s \in SUFFIX_STATUS : Last(code) \in s[2]}
    IN  IF bySuffix # {} THEN (CHOOSE s \in bySuffix : TRUE)[1] ELSE 500

statusForCode(code) ==
    LET exact == {e \in EXACT_STATUS : e[2] = code}
    IN  IF exact # {} THEN (CHOOSE e \in exact : TRUE)[1]
        ELSE IF code[1] \in PREFIX_STATUS THEN 401
        ELSE IF \E i \in 2..(Len(code) - 1) : code[i] = "NOT" THEN IF Last(code) = "FOUND" THEN 404 ELSE 409
        ELSE suffixStatus(code)

Answer(status, events) == answer' = [status |-> status, recorded |-> events]

(* A handler that throws: nothing is saved, and the code decides the status. *)
Refuse(code) == Answer(statusForCode(code), 0) /\ UNCHANGED <<rows, cases, walk, now>>

--------------------------------------------------------------------------------
(* kernel/router.ts: patterns as segments, ":" for a parameter. *)
Routes ==
    { <<"GET", <<"health">>>>, <<"GET", <<"meta">>>>, <<"POST", <<"auth", "users">>>>, <<"POST", <<"auth", "roles", "grants">>>>,
      <<"POST", <<"auth", "roles", "revocations">>>>, <<"POST", <<"auth", "api-keys">>>>,
      <<"POST", <<"auth", "api-keys", "revocations">>>>, <<"POST", <<"auth", "sessions", "revocations">>>>,
      <<"GET", <<"receivables", ":">>>>, <<"GET", <<"receivables">>>>, <<"POST", <<"payments", "intake">>>>,
      <<"GET", <<"payments", ":">>>>, <<"GET", <<"payments">>>>, <<"POST", <<"payments", ":", "confirmations">>>>,
      <<"POST", <<"payments", ":", "refund-reservations">>>>, <<"POST", <<"collections", "cases">>>>,
      <<"GET", <<"collections", "cases", ":">>>>, <<"GET", <<"collections", "cases">>>>,
      <<"POST", <<"collections", "cases", ":", "transitions">>>>, <<"POST", <<"collections", "cases", ":", "escalations">>>>,
      <<"POST", <<"collections", "cases", ":", "actions">>>>,
      <<"POST", <<"collections", "cases", ":", "actions", ":", "completions">>>>, <<"GET", <<"ledger", "accounts">>>>,
      <<"GET", <<"ledger", "entries">>>>, <<"GET", <<"adjustments">>>>, <<"POST", <<"adjustments", "credit-notes">>>>,
      <<"POST", <<"adjustments", "refund-reservations">>>> }

PathMatches(path) ==
    {r \in Routes : Len(r[2]) = Len(path) /\ \A i \in DOMAIN path : r[2][i] \in {":", path[i]}}
matchRoute(method, path) == {r \in PathMatches(path) : r[1] = method}

(* handle(): the body, the route, the credentials and the permission, in this order.  A     *)
(* request says how far each check gets: its body, method, path and what the gate answers.  *)
handle(request) ==
    IF request.body = "tooLarge" THEN <<"HTTP", "PAYLOAD", "TOO", "LARGE">>
    ELSE IF request.body = "malformed" THEN <<"HTTP", "BODY", "MALFORMED">>
    ELSE IF PathMatches(request.path) = {} THEN <<"HTTP", "ROUTE", "NOT", "FOUND">>
    ELSE IF matchRoute(request.method, request.path) = {} THEN <<"HTTP", "METHOD", "NOT", "ALLOWED">>
    ELSE IF request.gate # <<>> THEN request.gate ELSE <<"HTTP", "BODY", "INVALID">>

GateCodes == {<<"HTTP", "UNAUTHENTICATED">>, <<"SESSION", "IDLE", "EXPIRED">>, <<"KEY", "SECRET", "MISMATCH">>,
              <<"PRINCIPAL", "SUSPENDED">>, <<"AUTH", "ACCESS", "DENIED">>}
RequestSet == [body : {"tooLarge", "malformed", "wrongShape"}, method : {"POST", "DELETE"},
               path : {<<"payments", "intake">>, <<"payments", "intake", "x">>}, gate : GateCodes \cup {<<>>}]

(* Every refusal of the gate records an accessDenied event. *)
RefusedByKernel(request) ==
    LET code == handle(request)
    IN  /\ Answer(statusForCode(code), IF code \in GateCodes THEN 1 ELSE 0)
        /\ UNCHANGED <<rows, cases, walk, now>>
--------------------------------------------------------------------------------
(* Payments. *)
Index(id) == CHOOSE i \in DOMAIN rows : rows[i].id = id
Known == {rows[i].id : i \in DOMAIN rows}
UsedIds == Known \cup {cases[i].id : i \in DOMAIN cases}
RefundedBy(row) == FoldSeq(LAMBDA r, sum : r.amount + sum, 0, row.refunds)

(* The row as the payment lane sees it. *)
Lane(row) == [initiated(row.requested) EXCEPT !.state = row.state, !.confirmed = row.confirmed, !.allocated = row.allocated,
                                       !.refunded = RefundedBy(row)]
Save(id, row) == rows' = [rows EXCEPT ![Index(id)] = row]

moneyField(amount, currency) == amount > 0 /\ currency \in Currencies

(* The payment the command repeats, if any, and why the repetition would be refused. *)
intakePayment(cmd) ==
    LET prior == {i \in DOMAIN rows : (rows[i].channel = cmd.channel /\ rows[i].ref = cmd.ref) \/ rows[i].key = cmd.key}
        first == rows[Min(prior)]
    IN  [duplicate |-> prior # {},
         refusal |-> IF prior = {} \/ (first.currency = cmd.currency /\ first.requested = cmd.amount) THEN <<>>
                     ELSE IF first.currency # cmd.currency THEN <<"CURRENCY", "MISMATCH">>
                     ELSE <<"DUPLICATE", "AMOUNT", "MISMATCH">>]

intakeRoute(cmd, id) ==
    LET result == intakePayment(cmd)
    IN  IF ~ moneyField(cmd.amount, cmd.currency) THEN Refuse(<<"HTTP", "BODY", "INVALID">>)
        ELSE IF result.refusal # <<>> THEN Refuse(result.refusal)
        ELSE IF result.duplicate THEN Answer(200, 1) /\ UNCHANGED <<rows, cases, walk, now>>
        ELSE /\ Len(rows) < MaxPayments
             /\ rows' = Append(rows, [id |-> id, channel |-> cmd.channel, ref |-> cmd.ref, key |-> cmd.key,
                                      requested |-> cmd.amount, currency |-> cmd.currency, state |-> "initiated",
                                      confirmed |-> 0, allocated |-> 0, refunds |-> <<>>, at |-> now, confirmedAt |-> 0])
             /\ Answer(201, 1) /\ UNCHANGED <<cases, walk, now>>

(* Why confirmPayment would throw, once an initiated payment has been staged. *)
ConfirmRefusal(row, amount, currency) ==
    IF row.currency # currency THEN <<"CURRENCY", "MISMATCH">>
    ELSE IF row.state \in TERMINAL_STATES THEN <<"PAYMENT", "TERMINAL">>
    ELSE IF row.state = "confirmed" /\ row.confirmed # amount THEN <<"CONFIRMED", "AMOUNT", "MISMATCH">>
    ELSE IF row.state \in {"initiated", "pending_confirmation", "confirmed"} THEN <<>> ELSE <<"INVALID", "TRANSITION">>

(* The staged payment saved before the confirmation is judged. *)
EagerConfirmation(id, amount, currency) ==
    LET row == rows[Index(id)]
        refusal == ConfirmRefusal(row, amount, currency)
        staged == IF row.state = "initiated" THEN [row EXCEPT !.state = "pending_confirmation"] ELSE row
    IN  IF id \notin Known THEN Refuse(<<"HTTP", "PAYMENT", "NOT", "FOUND">>)
        ELSE IF refusal # <<>>
        THEN Save(id, staged) /\ Answer(statusForCode(refusal), 0) /\ UNCHANGED <<cases, walk, now>>
        ELSE /\ Save(id, [row EXCEPT !.state = "confirmed", !.confirmed = amount, !.confirmedAt = now])
             /\ Answer(201, 1) /\ UNCHANGED <<cases, walk, now>>

(* An initiated payment is staged and confirmed in one handler; a replay answers 200. *)
confirmRoute(id, amount, currency) ==
    LET row == rows[Index(id)]
        refusal == ConfirmRefusal(row, amount, currency)
    IN  IF id \notin Known THEN Refuse(<<"HTTP", "PAYMENT", "NOT", "FOUND">>)
        ELSE IF ~ moneyField(amount, currency) THEN Refuse(<<"HTTP", "BODY", "INVALID">>)
        ELSE IF refusal # <<>> THEN Refuse(refusal)
        ELSE IF row.state = "confirmed" THEN Answer(200, 0) /\ UNCHANGED <<rows, cases, walk, now>>
        ELSE /\ Save(id, [row EXCEPT !.state = "confirmed", !.confirmed = amount, !.confirmedAt = now])
             /\ Answer(201, 1) /\ UNCHANGED <<cases, walk, now>>

RefundRefusal(row, amount, currency) ==
    IF row.currency # currency THEN <<"CURRENCY", "MISMATCH">>
    ELSE IF row.state \in TERMINAL_STATES THEN <<"PAYMENT", "TERMINAL">>
    ELSE IF row.state \notin CONFIRMED_FAMILY THEN <<"PAYMENT", "NOT", "CONFIRMED">>
    ELSE IF mayRecordRefundReservation(Lane(row), amount) THEN <<>> ELSE <<"REFUND", "EXCEEDS", "AVAILABLE">>

refundRoute(id, amount, currency) ==
    LET row == rows[Index(id)]
        refusal == RefundRefusal(row, amount, currency)
    IN  IF id \notin Known THEN Refuse(<<"HTTP", "PAYMENT", "NOT", "FOUND">>)
        ELSE IF ~ moneyField(amount, currency) THEN Refuse(<<"HTTP", "BODY", "INVALID">>)
        ELSE IF refusal # <<>> THEN Refuse(refusal)
        ELSE /\ Len(row.refunds) < MaxRefunds
             /\ Save(id, [row EXCEPT !.refunds = Append(@, [amount |-> amount, at |-> now])])
             /\ Answer(201, 0) /\ UNCHANGED <<cases, walk, now>>

(* requestRefund: the ceiling refuses a refund of another currency too. *)
requestRefund(amount, currency, ceiling, ceilingCurrency) ==
    IF amount <= 0 THEN <<"REFUND", "AMOUNT", "INVALID">>
    ELSE IF currency # ceilingCurrency THEN <<"CURRENCY", "MISMATCH">>
    ELSE IF amount > ceiling THEN <<"REFUND", "EXCEEDS", "CEILING">> ELSE <<>>

(* The intent routes save nothing and answer 200, accepted or not. *)
refundIntent(row, amount, currency) == requestRefund(amount, currency, unappliedMinorOf(Lane(row)), row.currency)
refundIntentRoute(id, amount, currency) ==
    IF amount > 0 /\ id \notin Known THEN Refuse(<<"HTTP", "PAYMENT", "NOT", "FOUND">>)
    ELSE Answer(200, 0) /\ UNCHANGED <<rows, cases, walk, now>>

(* Writers of the same store that are not the API: rails and the allocation lane. *)
Elsewhere(id) ==
    LET row == rows[Index(id)]
        Put(p) == Save(id, [row EXCEPT !.state = p.state, !.allocated = p.allocated])
    IN  /\ \/ mayAwaitConfirmation(Lane(row)) /\ Put(awaitConfirmation(Lane(row)))
           \/ mayReversePayment(Lane(row)) /\ Put(reversePayment(Lane(row)))
           \/ mayFailPayment(Lane(row)) /\ row.state # "failed" /\ Put(failPayment(Lane(row)))
           \/ \E a \in Amounts : /\ mayRecordAllocationReservation(Lane(row), a)
                                /\ Put(recordAllocationReservation(Lane(row), a))
        /\ UNCHANGED <<cases, answer, walk, now>>

Tick == now < MaxTime /\ now' = now + 1 /\ UNCHANGED <<rows, cases, answer, walk>>
--------------------------------------------------------------------------------
(* Collections. *)
Case == INSTANCE CaseLane WITH Cases <- Ids, lane <- cases
OpenCases == {i \in DOMAIN cases : Case!isCaseOpen(cases[i].status)}
openCaseCoverageOf == UNION {cases[i].covers : i \in OpenCases}
nextCaseSequence(org) == Max({0} \cup {cases[i].sequence : i \in {j \in DOMAIN cases : cases[j].org = org}}) + 1

uuidArrayField(claim) == claim # <<>> /\ \A i, j \in DOMAIN claim : i # j => claim[i] # claim[j]

openCaseRoute(org, claim, id) ==
    IF ~ uuidArrayField(claim) THEN Refuse(<<"HTTP", "BODY", "INVALID">>)
    ELSE IF ~ Range(claim) \subseteq Receivables THEN Refuse(<<"HTTP", "RECEIVABLE", "NOT", "FOUND">>)
    ELSE IF Range(claim) \cap openCaseCoverageOf # {} THEN Refuse(<<"CASE", "ALREADY", "OPEN">>)
    ELSE /\ Len(cases) < MaxCases
         /\ cases' = Append(cases, [id |-> id, org |-> org, sequence |-> nextCaseSequence(org), covers |-> Range(claim),
                                    status |-> "open", priority |-> "normal", actions |-> <<>>])
         /\ Answer(201, 1) /\ UNCHANGED <<rows, walk, now>>

(* findCase: a case of another organisation does not exist. *)
OnCase(org, i, refusal, next, events, status) ==
    IF cases[i].org # org THEN Refuse(<<"HTTP", "CASE", "NOT", "FOUND">>)
    ELSE IF refusal # <<>> THEN Refuse(refusal)
    ELSE cases' = [cases EXCEPT ![i] = next] /\ Answer(status, events) /\ UNCHANGED <<rows, walk, now>>

transitionRoute(org, i, to) ==
    OnCase(org, i, IF to \notin Case!CASE_STATUSES THEN <<"CASE", "STATUS", "INVALID">>
                   ELSE IF to \notin Case!CASE_TRANSITIONS[cases[i].status] THEN <<"CASE", "TRANSITION", "INVALID">> ELSE <<>>,
           [cases[i] EXCEPT !.status = to], IF to = "in_progress" THEN 0 ELSE 1, 200)

escalateRoute(org, i, to) ==
    OnCase(org, i, IF ~ Case!isCaseOpen(cases[i].status) THEN <<"CASE", "CLOSED">>
                   ELSE IF Case!CASE_PRIORITY_RANK[to] <= Case!CASE_PRIORITY_RANK[cases[i].priority]
                        THEN <<"CASE", "ESCALATION", "INVALID">> ELSE <<>>,
           [cases[i] EXCEPT !.priority = to], 1, 200)

(* A message without consent is recorded as blocked, and then refused. *)
recordActionRoute(org, i, type, source, consented, outcome) ==
    IF cases[i].org = org /\ Case!isCaseOpen(cases[i].status) /\ Case!NeedsConsent(type, source) /\ ~ consented
    THEN /\ Answer(statusForCode(<<"DUNNING", "CONSENT", "REQUIRED">>), 1)
         /\ UNCHANGED <<rows, cases, walk, now>>
    ELSE /\ Len(cases[i].actions) < MaxActions
         /\ OnCase(org, i, IF Case!isCaseOpen(cases[i].status) THEN <<>> ELSE <<"CASE", "CLOSED">>,
                   [cases[i] EXCEPT !.actions = Append(@, outcome)], 1, 201)

completeActionRoute(org, i, n) ==
    OnCase(org, i, IF ~ Case!isCaseOpen(cases[i].status) THEN <<"CASE", "CLOSED">>
                   ELSE IF n \notin DOMAIN cases[i].actions THEN <<"CASE", "ACTION", "NOT", "FOUND">>
                   ELSE IF cases[i].actions[n] THEN <<"CASE", "ACTION", "ALREADY", "COMPLETED">> ELSE <<>>,
           [cases[i] EXCEPT !.actions[n] = TRUE], 0, 200)
--------------------------------------------------------------------------------
(* Listings.  A view carries its identity, the key of each sortable field and the tiebreak  *)
(* that decides between equal keys; strings are compared by their place in the order.       *)
StateRank == [allocated |-> 1, confirmed |-> 2, failed |-> 3, initiated |-> 4, partially_allocated |-> 5,
              pending_confirmation |-> 6, reversed |-> 7]
CaseRank == [closed_inactive |-> 1, in_progress |-> 2, open |-> 3, resolved |-> 4]
PriorityRank == [high |-> 1, low |-> 2, normal |-> 3, urgent |-> 4]

paymentView(i) ==
    [who |-> <<rows[i].id>>, tie |-> <<i>>,
     keys |-> [none |-> i, id |-> rows[i].id, state |-> StateRank[rows[i].state], initiatedAt |-> rows[i].at]]

caseView(i) ==
    [who |-> <<cases[i].id>>, tie |-> <<i>>,
     keys |-> [none |-> i, id |-> cases[i].id, caseNumber |-> cases[i].sequence,
               priority |-> PriorityRank[cases[i].priority], status |-> CaseRank[cases[i].status]]]

(* One row per refund; its id is a digest of the payment, the amount and the instant. *)
RefundId(row, r) == 100 * row.id + 10 * r.amount + r.at
adjustmentsFeed ==
    FlattenSeq([i \in DOMAIN rows |->
        [n \in DOMAIN rows[i].refunds |->
            LET r == rows[i].refunds[n]
            IN  [who |-> <<rows[i].id, n>>, tie |-> <<RefundId(rows[i], r), i, n>>,
                 keys |-> [none |-> r.at, id |-> RefundId(rows[i], r), kind |-> 0, state |-> 0, createdAt |-> r.at]]]])

(* A debit and a credit for every payment that carries confirmed money. *)
journalOf ==
    FlattenSeq([i \in DOMAIN rows |->
        IF rows[i].confirmed = 0 THEN <<>>
        ELSE [n \in 1..2 |-> [who |-> <<rows[i].id, n>>, tie |-> <<rows[i].id, n>>,
                             keys |-> [none |-> rows[i].confirmedAt, id |-> rows[i].id,
                                       postedAt |-> rows[i].confirmedAt, source |-> 0]]]])

chartOf == {<<side, rows[i].currency>> : side \in {"cash", "ar"}, i \in {j \in DOMAIN rows : rows[j].confirmed # 0}}

Views(list) ==
    CASE list = "payments" -> [i \in DOMAIN rows |-> paymentView(i)]
      [] list = "adjustments" -> adjustmentsFeed
      [] list = "entries" -> journalOf
      [] list \in Orgs -> LET mine == SetToSortSeq({i \in DOMAIN cases : cases[i].org = list}, <)
                          IN  [n \in DOMAIN mine |-> caseView(mine[n])]

TieBefore(s, t) == \E k \in DOMAIN s : s[k] < t[k] /\ \A m \in 1..(k - 1) : s[m] = t[m]

orderLines(listing) ==
    LET Key(v) == v.keys[listing.field] * (IF listing.order = "asc" THEN 1 ELSE -1)
    IN  SortSeq(Views(listing.list), LAMBDA v, w : Key(v) < Key(w) \/ (Key(v) = Key(w) /\ TieBefore(v.tie, w.tie)))

(* The next page starts after the last row of this one; -1 when there is none. *)
nextCursor(offset, limit, total) == IF offset + limit < total THEN offset + limit ELSE -1

Page(listing, offset) ==
    LET ordered == orderLines(listing)
    IN  [rows |-> SubSeq(ordered, offset + 1, Min({offset + listing.limit, Len(ordered)})), total |-> Len(ordered)]

parsePagination(listing) == listing.limit \in 1..100
SORTABLE(list) ==
    CASE list = "payments" -> {"id", "state", "initiatedAt"}
      [] list = "adjustments" -> {"id", "kind", "state", "createdAt"}
      [] list = "entries" -> {"id", "postedAt", "source"}
      [] list \in Orgs -> {"id", "caseNumber", "priority", "status"}
parseSorting(listing) == listing.field \in {"none"} \cup SORTABLE(listing.list) /\ listing.order \in {"asc", "desc"}

StartWalk(listing) ==
    IF ~ parsePagination(listing) \/ ~ parseSorting(listing) THEN Refuse(<<"HTTP", "QUERY", "INVALID">>)
    ELSE /\ Views(listing.list) # <<>> /\ walk.cursor = -1
         /\ LET page == Page(listing, 0)
            IN  walk' = [listing |-> listing, cursor |-> nextCursor(0, listing.limit, page.total),
                         seen |-> [n \in DOMAIN page.rows |-> page.rows[n].who], first |-> {v.who : v \in Range(Views(listing.list))}]
         /\ Answer(200, 0) /\ UNCHANGED <<rows, cases, now>>

NextPage ==
    /\ walk.cursor # -1
    /\ LET page == Page(walk.listing, walk.cursor)
       IN  walk' = [walk EXCEPT !.cursor = nextCursor(walk.cursor, walk.listing.limit, page.total),
                                !.seen = @ \o [n \in DOMAIN page.rows |-> page.rows[n].who]]
    /\ Answer(200, 0) /\ UNCHANGED <<rows, cases, now>>
--------------------------------------------------------------------------------
Init == rows = <<>> /\ cases = <<>> /\ answer = NoAnswer /\ walk = NoWalk /\ now = 1

Fresh == Ids \ UsedIds

PaymentRoutes ==
    \/ \E cmd \in Intakes, id \in Fresh : intakeRoute(cmd, id)
    \/ \E id \in Ids, a \in Amounts, c \in Currencies :
          confirmRoute(id, a, c) \/ refundRoute(id, a, c) \/ refundIntentRoute(id, a, c)
    \/ \E id \in Known : Elsewhere(id)

CaseRoutes ==
    \/ \E org \in Orgs, claim \in Claims, id \in Fresh : openCaseRoute(org, claim, id)
    \/ \E org \in Orgs, i \in DOMAIN cases :
          \/ \E to \in Case!CASE_STATUSES \cup {"unknown"} : transitionRoute(org, i, to)
          \/ \E to \in {"low", "high"} : escalateRoute(org, i, to)
          \/ \E type \in {"sms", "call"}, source \in {"automated", "manual"}, consented, outcome \in BOOLEAN :
                recordActionRoute(org, i, type, source, consented, outcome)
          \/ \E n \in 1..MaxActions : completeActionRoute(org, i, n)

Handle ==
    \/ PaymentRoutes
    \/ CaseRoutes
    \/ \E request \in Requests : RefusedByKernel(request)
    \/ \E listing \in Listings : StartWalk(listing)
    \/ NextPage
    \/ Tick

(* The client has its answer; a walk that has reached its end is forgotten. *)
Delivered == answer' = NoAnswer /\ walk' = (IF walk.cursor = -1 THEN NoWalk ELSE walk) /\ UNCHANGED <<rows, cases, now>>

Next == IF answer = NoAnswer THEN Handle ELSE Delivered

Spec == Init /\ [][Next]_vars
--------------------------------------------------------------------------------
(* A client that follows nextCursor to the end sees every row that was there when it        *)
(* started, whatever is inserted meanwhile, unless the field it sorts by can change.        *)
WalkMissesNothing ==
    answer.status = 200 /\ walk.cursor = -1 /\ walk.listing.field \notin {"state", "priority", "status"} => walk.first \subseteq Range(walk.seen)

(* No call the API accepts for processing reaches the 500 default of statusForCode. *)
NoInternalErrors == answer.status # 500

(* Intake: one payment per idempotency key, one per reference of a channel. *)
OnePaymentPerClaim ==
    \A i, j \in DOMAIN rows : i # j => /\ rows[i].key # rows[j].key /\ rows[i].id # rows[j].id
                                       /\ <<rows[i].channel, rows[i].ref>> # <<rows[j].channel, rows[j].ref>>

(* What refund-reservations accepts, the intent route of adjustments accepts too; the two   *)
(* differ only on payments that are terminal; reservations never outgrow confirmed money.   *)
RefundDoorsAgree ==
    \A i \in DOMAIN rows :
        /\ rows[i].allocated + RefundedBy(rows[i]) <= rows[i].confirmed
        /\ \A a \in Amounts, c \in Currencies :
              LET reserved == moneyField(a, c) /\ RefundRefusal(rows[i], a, c) = <<>>
                  intended == refundIntent(rows[i], a, c) = <<>>
              IN  /\ reserved => intended
                  /\ intended => reserved \/ rows[i].state \in TERMINAL_STATES

(* However the entries are ordered, the two lines of an entry stay together, debit first,   *)
(* and every account they post to is in the chart.                                          *)
EntriesStayPaired ==
    \A listing \in {l \in Listings : l.list = "entries" /\ l.limit > 0} :
        LET lines == orderLines(listing)
        IN  /\ \A n \in 1..(Len(lines) \div 2) :
                   lines[2 * n - 1].who = <<lines[2 * n].who[1], 1>> /\ lines[2 * n].who[2] = 2
            /\ \A n \in DOMAIN lines : <<"cash", rows[Index(lines[n].who[1])].currency>> \in chartOf

(* Case numbers run 1, 2, 3... in each organisation, and no receivable is in two open       *)
(* cases, of whatever organisations.                                                        *)
CasesAreNumbered ==
    /\ \A org \in Orgs : LET mine == {i \in DOMAIN cases : cases[i].org = org}
                         IN  {cases[i].sequence : i \in mine} = 1..Cardinality(mine)
    /\ \A i, j \in OpenCases : i # j => cases[i].covers \cap cases[j].covers = {}

(* A refused request changes no resource, and records at most the refusal itself.           *)
RefusedChangesNothing ==
    answer'.status >= 400 /\ answer = NoAnswer =>
        /\ UNCHANGED <<rows, cases, walk>>
        /\ answer'.recorded = 0 \/ answer'.status \in {401, 403}

(* confirmedMinor and confirmedAt are set once; refund rows and a closed case only stay. *)
WrittenOnce ==
    /\ \A i \in DOMAIN rows :
          /\ rows[i].confirmed # 0 => rows'[i].confirmed = rows[i].confirmed /\ rows'[i].confirmedAt = rows[i].confirmedAt
          /\ IsPrefix(rows[i].refunds, rows'[i].refunds)
    /\ \A i \in DOMAIN cases : Case!isCaseOpen(cases[i].status) \/ cases'[i] = cases[i]
================================================================================
