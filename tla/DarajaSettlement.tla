------------------------- MODULE DarajaSettlement -------------------------
\* Settling the money of a Daraja callback (transport/callbacks.go,
\* application/stk.go ReconcileStkResult, application/payments.go Confirm).
\* The rail delivers a callback at least once; every delivery runs in a handler
\* of its own: claim the journey, take the payment in, confirm or fail it,
\* resolve the STK initiation, acknowledge. Each step is a transaction of its
\* own, and a handler can die between any two of them. The intake is one step:
\* PaymentIntake shows that it behaves as one.
EXTENDS Naturals, Sequences, TLAPS

CONSTANTS Handlers,      \* request handlers
          Journeys,      \* the rail's journeys, one payment each
          Kind,          \* "c2b" or "stk"
          Success,       \* is the journey's STK result a success?
          Amount,        \* the money asked for
          Wire,          \* the amounts the journey's callbacks carry
          Console,       \* the payments an operator also confirms ...
          ConsoleMoney,  \* ... and the amounts they may type
          MaxFaults,     \* bound: handlers that die, answers that get lost
          MaxDuplicates, \* bound: deliveries after an acknowledgment
          MaxConsole,    \* bound: operator confirmations
          NoJourney

Money == (UNION {Wire[j] : j \in Journeys}) \cup {Amount[j] : j \in Journeys} \cup ConsoleMoney

ASSUME SettlementAssumption ==
    /\ Kind \in [Journeys -> {"c2b", "stk"}] /\ Success \in [Journeys -> BOOLEAN]
    /\ Amount \in [Journeys -> Nat \ {0}]
    /\ Wire \in [Journeys -> SUBSET (Nat \ {0})]
    /\ Console \subseteq Journeys /\ ConsoleMoney \subseteq Nat \ {0}
    /\ NoJourney \notin Journeys
    /\ MaxFaults \in Nat /\ MaxDuplicates \in Nat /\ MaxConsole \in Nat

VARIABLES initiation,  \* stk_initiations.state
          journey,     \* daraja_callback_journeys.amount_minor, 0 when unclaimed
          payment,     \* payments
          ledger,      \* ledger_entries under journal_ref 'payment_confirmed:<id>'
          handler,     \* where each handler is
          acked,       \* has the rail received a 200?
          faults, duplicates, consoles

db == <<initiation, journey, payment, ledger>>
vars == <<db, handler, acked, faults, duplicates, consoles>>

NoPayment == [state |-> "none", requested |-> 0, confirmed |-> 0]
Idle == [pc |-> "idle", j |-> NoJourney, amount |-> 0, via |-> "rail"]

Init ==
    /\ initiation = [j \in Journeys |-> "none"]
    /\ journey = [j \in Journeys |-> 0]
    /\ payment = [j \in Journeys |-> NoPayment]
    /\ ledger = [j \in Journeys |-> <<>>]
    /\ handler = [h \in Handlers |-> Idle]
    /\ acked = [j \in Journeys |-> FALSE]
    /\ faults = 0 /\ duplicates = 0 /\ consoles = 0

At(h, pc) == handler[h].pc = pc
IsStk(h) == Kind[handler[h].j] = "stk"
Goto(h, pc) == handler' = [handler EXCEPT ![h].pc = pc]

\* The request ends without an acknowledgment: a refusal or an error, or the
\* answer to an operator.
Leave(h) == handler' = [handler EXCEPT ![h] = Idle]

--------------------------------------------------------------------------------

\* The committed record of an accepted push; a fast result may come before it.
InsertStkInitiation(j) ==
    /\ Kind[j] = "stk" /\ initiation[j] = "none"
    /\ initiation' = [initiation EXCEPT ![j] = "initiated"]
    /\ UNCHANGED <<journey, payment, ledger, handler, acked, faults, duplicates, consoles>>

\* At least once: until the rail has seen a 200, and sometimes after it.
Deliver(h, j, m) ==
    /\ At(h, "idle") /\ m \in Wire[j]
    /\ acked[j] => duplicates < MaxDuplicates
    /\ handler' = [handler EXCEPT ![h] =
           [pc |-> IF Kind[j] = "stk" THEN "route" ELSE "claim", j |-> j, amount |-> m, via |-> "rail"]]
    /\ duplicates' = IF acked[j] THEN duplicates + 1 ELSE duplicates
    /\ UNCHANGED <<db, acked, faults, consoles>>

\* The STK result is routed by its checkout id; an unknown one is dead-lettered.
RouteByCheckout(h) ==
    /\ At(h, "route")
    /\ IF initiation[handler[h].j] = "none" THEN Leave(h) ELSE Goto(h, "claim")
    /\ UNCHANGED <<db, acked, faults, duplicates, consoles>>

\* The amount an STK journey is claimed with is the one that was asked for.
JourneyMoney(h) == IF IsStk(h) THEN Amount[handler[h].j] ELSE handler[h].amount

\* The insert elects the winner; a redelivery with other money is refused.
ClaimJourney(h) ==
    LET j == handler[h].j IN
    /\ At(h, "claim")
    /\ \/ /\ journey[j] = 0
          /\ journey' = [journey EXCEPT ![j] = JourneyMoney(h)]
          /\ Goto(h, IF IsStk(h) THEN "load" ELSE "intake")
       \/ /\ journey[j] = JourneyMoney(h)
          /\ Goto(h, IF IsStk(h) THEN "reread" ELSE "intake")
          /\ UNCHANGED journey
       \/ /\ journey[j] \notin {0, JourneyMoney(h)}
          /\ Leave(h)
          /\ UNCHANGED journey
    /\ UNCHANGED <<initiation, payment, ledger, acked, faults, duplicates, consoles>>

\* A duplicate of a settled initiation is only acknowledged.
RereadInitiation(h) ==
    /\ At(h, "reread")
    /\ Goto(h, IF initiation[handler[h].j] = "initiated" THEN "load" ELSE "ack")
    /\ UNCHANGED <<db, acked, faults, duplicates, consoles>>

\* Mutant: the initiation is resolved before its payment is confirmed.
ReconcileEarly(h) ==
    LET j == handler[h].j IN
    /\ At(h, "load")
    /\ IF (Success[j] => handler[h].amount = Amount[j]) /\ initiation[j] = "initiated"
       THEN /\ Goto(h, "intake")
            /\ initiation' = [initiation EXCEPT ![j] = IF Success[j] THEN "reconciled" ELSE "failed"]
       ELSE Leave(h) /\ UNCHANGED initiation
    /\ UNCHANGED <<journey, payment, ledger, acked, faults, duplicates, consoles>>

\* The head of ReconcileStkResult: the money agrees and the attempt is open.
LoadInitiation(h) ==
    LET j == handler[h].j IN
    /\ At(h, "load")
    /\ IF (Success[j] => handler[h].amount = Amount[j]) /\ initiation[j] = "initiated"
       THEN Goto(h, "intake")
       ELSE Leave(h)
    /\ UNCHANGED <<db, acked, faults, duplicates, consoles>>

AfterIntake(h) ==
    IF ~IsStk(h) \/ Success[handler[h].j] THEN "confirmRead" ELSE "fail"

\* The funnel (PaymentIntake): create the payment, replay it, or refuse other
\* money. On a replay ReconcileStkResult returns; the C2B handler goes on.
Intake(h) ==
    LET j == handler[h].j IN
    /\ At(h, "intake")
    /\ \/ /\ payment[j].state = "none"
          /\ payment' = [payment EXCEPT ![j] =
                 [state |-> "initiated", requested |-> JourneyMoney(h), confirmed |-> 0]]
          /\ Goto(h, AfterIntake(h))
       \/ /\ payment[j].state # "none" /\ payment[j].requested = JourneyMoney(h)
          /\ Goto(h, IF IsStk(h) THEN "ack" ELSE "confirmRead")
          /\ UNCHANGED payment
       \/ /\ payment[j].state # "none" /\ payment[j].requested # JourneyMoney(h)
          /\ Leave(h)
          /\ UNCHANGED payment
    /\ UNCHANGED <<initiation, journey, ledger, acked, faults, duplicates, consoles>>

AfterConfirm(h) ==
    IF handler[h].via = "console" THEN "idle" ELSE IF IsStk(h) THEN "resolve" ELSE "ack"
ConfirmMoney(h) == IF handler[h].via = "console" THEN handler[h].amount ELSE JourneyMoney(h)

FinishConfirm(h) ==
    IF AfterConfirm(h) = "idle" THEN Leave(h) ELSE Goto(h, AfterConfirm(h))

\* Confirm reads the payment without a lock ...
ConfirmRead(h) ==
    LET p == payment[handler[h].j] IN
    /\ At(h, "confirmRead")
    /\ \/ p.state = "initiated" /\ Goto(h, "confirmWrite")
       \/ p.state = "confirmed" /\ p.confirmed = ConfirmMoney(h) /\ FinishConfirm(h)
       \/ p.state = "confirmed" /\ p.confirmed # ConfirmMoney(h) /\ Leave(h)
       \/ p.state = "failed" /\ Leave(h)
    /\ UNCHANGED <<db, acked, faults, duplicates, consoles>>

ConfirmPayment(j, m) == [payment EXCEPT ![j].state = "confirmed", ![j].confirmed = m]
PostConfirmationEntry(j, m) == [ledger EXCEPT ![j] = Append(@, m)]

\* Mutant: the journal reference is not unique.
ConfirmWriteNoReplayKey(h) ==
    LET j == handler[h].j IN
    /\ At(h, "confirmWrite")
    /\ IF payment[j].state # "failed"
       THEN /\ payment' = ConfirmPayment(j, ConfirmMoney(h))
            /\ ledger' = PostConfirmationEntry(j, ConfirmMoney(h))
            /\ FinishConfirm(h)
       ELSE UNCHANGED <<payment, ledger>> /\ Leave(h)
    /\ UNCHANGED <<initiation, journey, acked, faults, duplicates, consoles>>

\* ... and writes it by its id alone. The row lock is held from the UPDATE to
\* the commit. The CHECK failed <=> failed_at refuses a payment that failed in
\* between, the unique journal_ref one that was confirmed in between; either
\* rolls the whole transaction back.
ConfirmWrite(h) ==
    LET j == handler[h].j IN
    /\ At(h, "confirmWrite")
    /\ IF payment[j].state # "failed" /\ ledger[j] = <<>>
       THEN /\ payment' = ConfirmPayment(j, ConfirmMoney(h))
            /\ ledger' = PostConfirmationEntry(j, ConfirmMoney(h))
            /\ FinishConfirm(h)
       ELSE UNCHANGED <<payment, ledger>> /\ Leave(h)
    /\ UNCHANGED <<initiation, journey, acked, faults, duplicates, consoles>>

\* Mutant: the UPDATE is not guarded by the payment's state, and writes the
\* columns the shape constraints ask for.
FailPaymentUnguarded(h) ==
    LET j == handler[h].j IN
    /\ At(h, "fail")
    /\ payment' = [payment EXCEPT ![j].state = "failed", ![j].confirmed = 0]
    /\ Goto(h, "resolve")
    /\ UNCHANGED <<initiation, journey, ledger, acked, faults, duplicates, consoles>>

FailPayment(h) ==
    LET j == handler[h].j IN
    /\ At(h, "fail")
    /\ payment' = IF payment[j].state = "initiated"
                  THEN [payment EXCEPT ![j].state = "failed"] ELSE payment
    /\ Goto(h, "resolve")
    /\ UNCHANGED <<initiation, journey, ledger, acked, faults, duplicates, consoles>>

Resolve(h) ==
    LET j == handler[h].j IN
    /\ At(h, "resolve")
    /\ initiation' = IF initiation[j] = "initiated"
                     THEN [initiation EXCEPT ![j] = IF Success[j] THEN "reconciled" ELSE "failed"]
                     ELSE initiation
    /\ Goto(h, "ack")
    /\ UNCHANGED <<journey, payment, ledger, acked, faults, duplicates, consoles>>

callbackAck(h) ==
    /\ At(h, "ack")
    /\ acked' = [acked EXCEPT ![handler[h].j] = TRUE]
    /\ handler' = [handler EXCEPT ![h] = Idle]
    /\ UNCHANGED <<db, faults, duplicates, consoles>>

\* An operator confirms the payment (POST /v1/payments/:paymentId/confirmations).
ConsoleConfirm(h, j, m) ==
    /\ At(h, "idle") /\ consoles < MaxConsole
    /\ payment[j].state # "none"
    /\ handler' = [handler EXCEPT ![h] =
           [pc |-> "confirmRead", j |-> j, amount |-> m, via |-> "console"]]
    /\ consoles' = consoles + 1
    /\ UNCHANGED <<db, acked, faults, duplicates>>

\* The handler dies, loses its database, or its answer gets lost.
Die(h) ==
    /\ ~At(h, "idle") /\ faults < MaxFaults
    /\ handler' = [handler EXCEPT ![h] = Idle]
    /\ faults' = faults + 1
    /\ UNCHANGED <<db, acked, duplicates, consoles>>

--------------------------------------------------------------------------------

Step(h) ==
    \/ RouteByCheckout(h) \/ ClaimJourney(h) \/ RereadInitiation(h) \/ LoadInitiation(h)
    \/ Intake(h) \/ ConfirmRead(h) \/ ConfirmWrite(h) \/ FailPayment(h) \/ Resolve(h)
    \/ callbackAck(h)

Next ==
    \/ \E j \in Journeys : InsertStkInitiation(j)
    \/ \E h \in Handlers :
          \/ \E j \in Journeys, m \in Money : Deliver(h, j, m)
          \/ \E j \in Console, m \in ConsoleMoney : ConsoleConfirm(h, j, m)
          \/ Step(h)
          \/ Die(h)

\* The rail sends again what it has not seen acknowledged.
Redeliver(j) == ~acked[j] /\ \E h \in Handlers : Deliver(h, j, Amount[j])

Spec == Init /\ [][Next]_vars

--------------------------------------------------------------------------------

Pcs == {"idle", "route", "claim", "reread", "load", "intake", "confirmRead", "confirmWrite",
        "fail", "resolve", "ack"}

\* The tables and handlers are well formed: the shape constraints of the
\* payments table hold (confirmed <=> an amount), a busy handler serves a
\* journey whose payment its step presupposes, and only STK journeys are
\* routed, failed and resolved.
TypeOK ==
    /\ initiation \in [Journeys -> {"none", "initiated", "reconciled", "failed"}]
    /\ journey \in [Journeys -> {0} \cup Money]
    /\ payment \in [Journeys -> [state : {"none", "initiated", "confirmed", "failed"},
                                 requested : {0} \cup Money, confirmed : {0} \cup Money]]
    /\ \A j \in Journeys : payment[j].state = "confirmed" <=> payment[j].confirmed # 0
    /\ ledger \in [Journeys -> Seq(Money)]
    /\ handler \in [Handlers -> [pc : Pcs, j : Journeys \cup {NoJourney},
                                 amount : {0} \cup Money, via : {"rail", "console"}]]
    /\ \A h \in Handlers :
          /\ At(h, "idle") <=> handler[h].j = NoJourney
          /\ handler[h].pc \in {"route", "reread", "load", "fail", "resolve"} => IsStk(h)
    /\ acked \in [Journeys -> BOOLEAN]
    /\ faults \in 0 .. MaxFaults /\ duplicates \in 0 .. MaxDuplicates
    /\ consoles \in 0 .. MaxConsole

\* "confirmed_minor: set EXACTLY ONCE, never mutated" (0005, ConfirmPayment),
\* and a failed payment stays failed, though Confirm reads without a lock,
\* updates by id alone, and races other confirmations and the failure result.
SettledOnce ==
    [][\A j \in Journeys :
          payment[j].state \in {"confirmed", "failed"} => payment'[j] = payment[j]]_vars

\* The books follow the payment (Confirm: state and entry in one transaction):
\* a confirmed payment has exactly one journal entry, of its amount, and no
\* other payment has any.
LedgerMatchesPayment ==
    \A j \in Journeys :
        ledger[j] = IF payment[j].state = "confirmed" THEN <<payment[j].confirmed>> ELSE <<>>

\* An initiation that is reconciled has its money confirmed, in the amount that
\* was asked for (ReconcileStkResult resolves last).
ReconciledIsConfirmed ==
    \A j \in Journeys :
        initiation[j] = "reconciled" => payment[j].confirmed = Amount[j]

\* One journey, one amount (IntakeCallback: other money is no retry): what the
\* rail's callbacks confirm is what the journey was first claimed with.
JourneyMoneyIsPaymentMoney ==
    \A j \in Journeys : payment[j].state # "none" => payment[j].requested = journey[j]

\* A callback is acknowledged only once its money is settled: nothing is acked
\* "into a void" (callbacks.go, the comments on the C2B and the STK handler).
AckedIsSettled ==
    \A j \in Journeys : acked[j] => payment[j].state \in {"confirmed", "failed"}

\* At-least-once delivery settles every journey: though handlers die at any
\* step and answers get lost, the money is eventually confirmed and acknowledged.
EventuallySettled ==
    \A j \in Journeys : <>(acked[j] /\ payment[j].state \in {"confirmed", "failed"})

--------------------------------------------------------------------------------
(* For every set of journeys, handlers and amounts: type correctness, the  *)
(* books follow the payments, nothing settled is settled again or undone,  *)
(* and what Daraja is told of C2B money is true.                           *)

Handler == [pc : Pcs, j : Journeys \cup {NoJourney}, amount : {0} \cup Money, via : {"rail", "console"}]
Payment == [state : {"none", "initiated", "confirmed", "failed"},
            requested : {0} \cup Money, confirmed : {0} \cup Money]

\* What a busy handler knows.  It carries money; past the claim, that of the
\* journey; past the intake there is a payment; it resolves a success only with
\* the amount asked for confirmed, and acknowledges C2B money only confirmed.
HandlerOK(h) ==
    LET j == handler[h].j
        s == handler[h].pc
    IN
    s # "idle" =>
        /\ handler[h].amount # 0
        /\ handler[h].via = "console" => s \in {"confirmRead", "confirmWrite"}
        /\ handler[h].via = "rail" /\ s \notin {"route", "claim"} => journey[j] = JourneyMoney(h)
        /\ s \in {"confirmRead", "confirmWrite", "fail", "resolve"} => payment[j].state # "none"
        /\ s = "fail" => ~Success[j]
        /\ s = "resolve" /\ Success[j] => payment[j].confirmed = Amount[j]
        /\ s = "ack" /\ ~IsStk(h) => payment[j].state = "confirmed"

\* A C2B confirmation is acknowledged only once its money is confirmed.
C2bAckedIsConfirmed ==
    \A j \in Journeys : Kind[j] = "c2b" /\ acked[j] => payment[j].state = "confirmed"

\* What no step undoes: the claim of a journey, the existence of a payment, and
\* its settlement.
Monotone ==
    \A j \in Journeys :
        /\ journey[j] # 0 => journey'[j] = journey[j]
        /\ payment[j].state # "none" => payment'[j].state # "none"
        /\ payment[j].state \in {"confirmed", "failed"} => payment'[j] = payment[j]

IInv == /\ TypeOK /\ LedgerMatchesPayment /\ ReconciledIsConfirmed
        /\ JourneyMoneyIsPaymentMoney /\ C2bAckedIsConfirmed
        /\ \A j \in Journeys : payment[j].state # "none" => journey[j] # 0
        /\ \A h \in Handlers : HandlerOK(h)

\* Money is positive.
LEMMA MoneyIsPositive ==
    /\ Money \subseteq Nat /\ 0 \notin Money
    /\ \A j \in Journeys : Amount[j] \in Money /\ Wire[j] \subseteq Money
    /\ ConsoleMoney \subseteq Money
<1>1. \A j \in Journeys : Amount[j] \in Nat \ {0} /\ Wire[j] \subseteq Nat \ {0}
  BY SettlementAssumption
<1>2. \A m : m \in Money <=> \/ \E j \in Journeys : m \in Wire[j] \/ m = Amount[j]
                             \/ m \in ConsoleMoney
  BY DEF Money
<1>3. ConsoleMoney \subseteq Nat \ {0}
  BY SettlementAssumption
<1> QED BY <1>1, <1>2, <1>3, Zenon

\* Before the first callback the invariant holds.
LEMMA InitIInv == Init => IInv
<1> SUFFICES ASSUME Init PROVE IInv
  OBVIOUS
<1> USE SettlementAssumption DEF Init
<1>1. TypeOK
  BY DEF TypeOK, NoPayment, Idle, At, Pcs
<1>2. LedgerMatchesPayment /\ ReconciledIsConfirmed /\ JourneyMoneyIsPaymentMoney /\ C2bAckedIsConfirmed
  BY DEF LedgerMatchesPayment, ReconciledIsConfirmed, JourneyMoneyIsPaymentMoney, C2bAckedIsConfirmed, NoPayment
<1>3. \A h \in Handlers : HandlerOK(h)
  BY DEF HandlerOK, Idle
<1> QED BY <1>1, <1>2, <1>3 DEF IInv, NoPayment

\* Goto moves one handler and nothing else of it.
LEMMA GotoMoves ==
    ASSUME TypeOK, NEW h \in Handlers, NEW s \in Pcs, Goto(h, s)
    PROVE  /\ handler' \in [Handlers -> Handler]
           /\ \A g \in Handlers : g # h => handler'[g] = handler[g]
           /\ handler'[h].pc = s /\ handler'[h].j = handler[h].j
           /\ handler'[h].amount = handler[h].amount /\ handler'[h].via = handler[h].via
<1>1. handler[h] \in Handler /\ handler \in [Handlers -> Handler]
  BY DEF TypeOK, Handler
<1> DEFINE c == [handler[h] EXCEPT !.pc = s]
<1>2. c \in Handler /\ c.pc = s /\ c.j = handler[h].j /\ c.amount = handler[h].amount /\ c.via = handler[h].via
  BY <1>1 DEF Handler
<1>3. handler' = [handler EXCEPT ![h] = c]
  BY DEF Goto
<1> HIDE DEF c
<1> QED BY <1>1, <1>2, <1>3

\* Leave and an acknowledgment free the handler.
LEMMA LeaveFrees ==
    ASSUME TypeOK, NEW h \in Handlers, Leave(h)
    PROVE  /\ handler' \in [Handlers -> Handler]
           /\ \A g \in Handlers : g # h => handler'[g] = handler[g]
           /\ handler'[h] = Idle
<1>1. handler \in [Handlers -> Handler] /\ Idle \in Handler
  BY DEF TypeOK, Handler, Idle, Pcs
<1> QED BY <1>1 DEF Leave

\* A handler that does not move keeps what it knows.
LEMMA OthersKeep ==
    ASSUME IInv, Monotone, NEW h \in Handlers, handler'[h] = handler[h]
    PROVE  HandlerOK(h)'
<1>1. CASE handler[h].pc = "idle"
  BY <1>1 DEF HandlerOK
<1>2. CASE handler[h].pc # "idle"
  <2>1. handler[h].j \in Journeys /\ handler[h] \in Handler
    BY <1>2 DEF IInv, TypeOK, At, Handler
  <2>2. HandlerOK(h) /\ JourneyMoney(h)' = JourneyMoney(h) /\ (IsStk(h)' <=> IsStk(h))
    BY DEF IInv, JourneyMoney, IsStk
  <2>3. JourneyMoney(h) # 0
    BY <1>2, <2>1, <2>2, MoneyIsPositive, SettlementAssumption DEF HandlerOK, JourneyMoney
  <2>4. payment[handler[h].j].confirmed = Amount[handler[h].j] => payment[handler[h].j].state = "confirmed"
    BY <2>1, SettlementAssumption DEF IInv, TypeOK
  <2> QED BY <1>2, <2>1, <2>2, <2>3, <2>4 DEF HandlerOK, Monotone
<1> QED BY <1>1, <1>2

\* The types of a busy handler and of its journey.
LEMMA BusyHandler ==
    ASSUME IInv, NEW h \in Handlers, handler[h].pc # "idle"
    PROVE  /\ handler[h].j \in Journeys /\ handler[h].amount \in Money
           /\ HandlerOK(h) /\ handler[h] \in Handler
           /\ JourneyMoney(h) \in Money /\ ConfirmMoney(h) \in Money /\ 0 \notin Money
           /\ payment[handler[h].j] \in Payment
<1>1. handler[h].j \in Journeys /\ handler[h] \in Handler /\ HandlerOK(h)
      /\ payment[handler[h].j] \in Payment
  BY DEF IInv, TypeOK, At, Handler, Payment
<1>2. handler[h].amount \in Money
  BY <1>1 DEF HandlerOK, Handler
<1> QED BY <1>1, <1>2, MoneyIsPositive DEF JourneyMoney, ConfirmMoney

\* What the tables promise, and what a handler at c.pc needs to be well formed.
TablesOK ==
    /\ initiation \in [Journeys -> {"none", "initiated", "reconciled", "failed"}]
    /\ journey \in [Journeys -> {0} \cup Money]
    /\ payment \in [Journeys -> Payment]
    /\ \A j \in Journeys : payment[j].state = "confirmed" <=> payment[j].confirmed # 0
    /\ \A j \in Journeys : payment[j].state # "none" => journey[j] # 0
    /\ ledger \in [Journeys -> Seq(Money)]
    /\ LedgerMatchesPayment /\ ReconciledIsConfirmed /\ JourneyMoneyIsPaymentMoney

CountersOK ==
    /\ acked \in [Journeys -> BOOLEAN] /\ C2bAckedIsConfirmed
    /\ faults \in 0 .. MaxFaults /\ duplicates \in 0 .. MaxDuplicates /\ consoles \in 0 .. MaxConsole

WellPlaced(c) ==
    /\ c.pc = "idle" <=> c.j = NoJourney
    /\ c.pc \in {"route", "reread", "load", "fail", "resolve"} => Kind[c.j] = "stk"

\* The invariant is the conjunction of its parts.
LEMMA IInvParts ==
    IInv <=> /\ TablesOK /\ CountersOK /\ handler \in [Handlers -> Handler]
             /\ \A h \in Handlers : WellPlaced(handler[h]) /\ HandlerOK(h)
BY DEF IInv, TypeOK, TablesOK, CountersOK, WellPlaced, Handler, Payment, At, IsStk

\* The same after a step.
LEMMA PartsNext ==
    (/\ TablesOK /\ CountersOK /\ handler \in [Handlers -> Handler]
     /\ \A h \in Handlers : WellPlaced(handler[h]) /\ HandlerOK(h))' => IInv'
BY IInvParts, PTL

\* A step of one handler: the tables stay in order, nothing settled is undone,
\* and the handler ends where it may be.
LEMMA StepKeeps ==
    ASSUME IInv, Monotone, TablesOK', CountersOK', NEW h \in Handlers, NEW c \in Handler,
           handler' = [handler EXCEPT ![h] = c], WellPlaced(c), HandlerOK(h)'
    PROVE  IInv'
<1>1. handler \in [Handlers -> Handler] /\ \A g \in Handlers : WellPlaced(handler[g])
  BY IInvParts
<1>2. handler' \in [Handlers -> Handler]
  BY <1>1
<1>3. ASSUME NEW g \in Handlers PROVE WellPlaced(handler'[g]) /\ HandlerOK(g)'
  <2>1. CASE g = h
    BY <1>1, <2>1
  <2>2. CASE g # h
    BY <1>1, <2>2, OthersKeep
  <2> QED BY <2>1, <2>2
<1> QED BY <1>2, <1>3, PartsNext, Zenon

\* Untouched tables stay in order.
LEMMA TablesKeep ==
    ASSUME IInv, UNCHANGED db
    PROVE  Monotone /\ TablesOK'
<1>1. TablesOK
  BY IInvParts
<1> QED BY <1>1 DEF Monotone, TablesOK, LedgerMatchesPayment, ReconciledIsConfirmed, JourneyMoneyIsPaymentMoney, db

\* Untouched counters, and the money acknowledged under them, stay in order.
LEMMA CountersKeep ==
    ASSUME IInv, Monotone, UNCHANGED <<acked, faults, duplicates, consoles>>
    PROVE  CountersOK'
<1>1. CountersOK
  BY IInvParts
<1> QED BY <1>1 DEF CountersOK, C2bAckedIsConfirmed, Monotone

\* A step that only moves a handler, to a place it may be in.
LEMMA HandlerMoves ==
    ASSUME IInv, NEW h \in Handlers, UNCHANGED <<db, acked, faults, duplicates, consoles>>,
           handler[h].pc # "idle",
           \/ Leave(h)
           \/ \E s \in Pcs : Goto(h, s) /\ s # "idle" /\ HandlerOK(h)'
                             /\ (s \in {"route", "reread", "load", "fail", "resolve"} => IsStk(h))
    PROVE  IInv' /\ Monotone
<1>1. Monotone /\ TablesOK' /\ CountersOK'
  BY TablesKeep, CountersKeep DEF db
<1>2. PICK c \in Handler : /\ handler' = [handler EXCEPT ![h] = c] /\ WellPlaced(c) /\ HandlerOK(h)'
  <2>1. CASE Leave(h)
    <3>1. Idle \in Handler /\ WellPlaced(Idle)
      BY DEF Handler, Idle, WellPlaced, Pcs
    <3>2. HandlerOK(h)'
      BY <2>1, LeaveFrees DEF IInv, HandlerOK, Idle
    <3> QED BY <2>1, <3>1, <3>2, Zenon DEF Leave
  <2>2. ASSUME NEW s \in Pcs, Goto(h, s), s # "idle", HandlerOK(h)',
               s \in {"route", "reread", "load", "fail", "resolve"} => IsStk(h)
        PROVE  \E c \in Handler : /\ handler' = [handler EXCEPT ![h] = c] /\ WellPlaced(c) /\ HandlerOK(h)'
    <3> DEFINE c == [handler[h] EXCEPT !.pc = s]
    <3>1. handler[h] \in Handler /\ handler[h].j \in Journeys
      BY BusyHandler
    <3>2. c \in Handler /\ c.pc = s /\ c.j = handler[h].j
      BY <3>1 DEF Handler
    <3>3. handler' = [handler EXCEPT ![h] = c]
      BY <2>2 DEF Goto
    <3> HIDE DEF c
    <3>4. WellPlaced(c)
      BY <2>2, <3>1, <3>2, SettlementAssumption DEF WellPlaced, IsStk
    <3> QED BY <2>2, <3>2, <3>3, <3>4, Zenon
  <2> QED BY <2>1, <2>2
<1> QED BY <1>1, <1>2, StepKeeps, Zenon

\* Where a handler stands after Goto.
LEMMA AfterGoto ==
    ASSUME IInv, NEW h \in Handlers, NEW s \in Pcs, Goto(h, s)
    PROVE  /\ handler'[h].pc = s /\ handler'[h].j = handler[h].j
           /\ handler'[h].amount = handler[h].amount /\ handler'[h].via = handler[h].via
           /\ JourneyMoney(h)' = JourneyMoney(h) /\ (IsStk(h)' <=> IsStk(h))
<1>1. /\ handler'[h].pc = s /\ handler'[h].j = handler[h].j
      /\ handler'[h].amount = handler[h].amount /\ handler'[h].via = handler[h].via
  BY GotoMoves DEF IInv
<1> QED BY <1>1 DEF JourneyMoney, IsStk

\* The row an UPDATE of a payment leaves.
LEMMA ConfirmedRow ==
    ASSUME NEW r \in Payment, NEW m \in Money
    PROVE  LET p == [r EXCEPT !.state = "confirmed", !.confirmed = m]
           IN  p \in Payment /\ p.state = "confirmed" /\ p.confirmed = m /\ p.requested = r.requested
BY Zenon DEF Payment

\* One payment and its journal entries change together.
LEMMA PaymentSettles ==
    ASSUME IInv, NEW j \in Journeys, NEW p \in Payment, NEW l \in Seq(Money),
           payment' = [payment EXCEPT ![j] = p], ledger' = [ledger EXCEPT ![j] = l],
           UNCHANGED <<initiation, journey, acked, faults, duplicates, consoles>>,
           payment[j].state = "initiated", p.state # "none", p.requested = payment[j].requested,
           p.state = "confirmed" <=> p.confirmed # 0,
           l = IF p.state = "confirmed" THEN <<p.confirmed>> ELSE <<>>
    PROVE  TablesOK' /\ CountersOK' /\ Monotone /\ payment'[j] = p
<1>1. TablesOK /\ CountersOK
  BY IInvParts
<1>2. payment'[j] = p /\ ledger'[j] = l
      /\ \A i \in Journeys : i # j => payment'[i] = payment[i] /\ ledger'[i] = ledger[i]
  BY <1>1 DEF TablesOK
<1>3. Monotone
  BY <1>2 DEF Monotone
<1>4. payment' \in [Journeys -> Payment] /\ ledger' \in [Journeys -> Seq(Money)]
  BY <1>1 DEF TablesOK
<1>5. \A i \in Journeys : /\ payment'[i].state = "confirmed" <=> payment'[i].confirmed # 0
                          /\ payment'[i].state # "none" => journey'[i] # 0
  BY <1>1, <1>2 DEF TablesOK
<1>6. LedgerMatchesPayment'
  BY <1>1, <1>2 DEF TablesOK, LedgerMatchesPayment
<1>7. ReconciledIsConfirmed'
  <2>1. initiation[j] # "reconciled"
    <3>1. payment[j].confirmed = 0 /\ Amount[j] # 0
      BY <1>1, SettlementAssumption DEF TablesOK
    <3> QED BY <1>1, <3>1 DEF TablesOK, ReconciledIsConfirmed
  <2> QED BY <1>1, <1>2, <2>1 DEF TablesOK, ReconciledIsConfirmed
<1>8. JourneyMoneyIsPaymentMoney'
  BY <1>1, <1>2 DEF TablesOK, JourneyMoneyIsPaymentMoney
<1>9. CountersOK'
  BY <1>3, CountersKeep
<1> QED BY <1>1, <1>2, <1>3, <1>4, <1>5, <1>6, <1>7, <1>8, <1>9 DEF TablesOK

\* InsertStkInitiation.
LEMMA InsertStkInitiationKeeps ==
    ASSUME IInv, NEW j \in Journeys, InsertStkInitiation(j)
    PROVE  IInv' /\ Monotone
<1> USE DEF InsertStkInitiation
<1>1. TablesOK /\ CountersOK /\ handler' = handler
  BY IInvParts
<1>2. Monotone
  BY DEF Monotone
<1>3. TablesOK'
  BY <1>1 DEF TablesOK, LedgerMatchesPayment, ReconciledIsConfirmed, JourneyMoneyIsPaymentMoney
<1>4. CountersOK'
  BY <1>2, CountersKeep
<1>5. \A h \in Handlers : HandlerOK(h)' /\ WellPlaced(handler'[h])
  BY <1>1, <1>2, OthersKeep, IInvParts
<1>6. handler' \in [Handlers -> Handler]
  BY <1>1, IInvParts
<1>7. IInv'
  BY <1>3, <1>4, <1>5, <1>6, IInvParts
     DEF IInv, TypeOK, TablesOK, CountersOK, WellPlaced, Handler, Payment, At, IsStk
<1> QED BY <1>2, <1>7

\* Deliver.
LEMMA DeliverKeeps ==
    ASSUME IInv, NEW h \in Handlers, NEW j \in Journeys, NEW m \in Money, Deliver(h, j, m)
    PROVE  IInv' /\ Monotone
<1> DEFINE c == [pc |-> IF Kind[j] = "stk" THEN "route" ELSE "claim", j |-> j, amount |-> m, via |-> "rail"]
<1>1. c \in Handler /\ WellPlaced(c) /\ c.pc \in {"route", "claim"} /\ c.amount = m /\ c.via = "rail"
  BY SettlementAssumption DEF Handler, WellPlaced, Pcs
<1>2. handler' = [handler EXCEPT ![h] = c] /\ handler'[h] = c
  BY IInvParts DEF Deliver
<1>3. UNCHANGED <<db, acked, faults, consoles>> /\ duplicates' \in 0 .. MaxDuplicates
  BY SettlementAssumption DEF Deliver, IInv, TypeOK
<1> HIDE DEF c
<1>4. Monotone /\ TablesOK'
  BY <1>3, TablesKeep DEF db
<1>5. CountersOK'
  BY <1>3, <1>4, IInvParts DEF CountersOK, C2bAckedIsConfirmed, db
<1>6. HandlerOK(h)'
  BY <1>1, <1>2, MoneyIsPositive DEF HandlerOK
<1> QED BY <1>1, <1>2, <1>4, <1>5, <1>6, StepKeeps, Zenon

\* ConsoleConfirm.
LEMMA ConsoleConfirmKeeps ==
    ASSUME IInv, NEW h \in Handlers, NEW j \in Console, NEW m \in ConsoleMoney, ConsoleConfirm(h, j, m)
    PROVE  IInv' /\ Monotone
<1> DEFINE c == [pc |-> "confirmRead", j |-> j, amount |-> m, via |-> "console"]
<1>0. j \in Journeys /\ m \in Money /\ 0 \notin Money
  BY MoneyIsPositive, SettlementAssumption
<1>1. c \in Handler /\ WellPlaced(c) /\ c.pc = "confirmRead" /\ c.amount = m /\ c.via = "console" /\ c.j = j
  BY <1>0, SettlementAssumption DEF Handler, WellPlaced, Pcs
<1>2. handler' = [handler EXCEPT ![h] = c] /\ handler'[h] = c
  BY IInvParts DEF ConsoleConfirm
<1>3. UNCHANGED <<db, acked, faults, duplicates>> /\ consoles' \in 0 .. MaxConsole /\ payment[j].state # "none"
  BY SettlementAssumption DEF ConsoleConfirm, IInv, TypeOK
<1> HIDE DEF c
<1>4. Monotone /\ TablesOK'
  BY <1>3, TablesKeep DEF db
<1>5. CountersOK'
  BY <1>3, <1>4, IInvParts DEF CountersOK, C2bAckedIsConfirmed, db
<1>6. HandlerOK(h)'
  BY <1>0, <1>1, <1>2, <1>3 DEF HandlerOK, db
<1> QED BY <1>1, <1>2, <1>4, <1>5, <1>6, StepKeeps, Zenon

\* RouteByCheckout.
LEMMA RouteByCheckoutKeeps ==
    ASSUME IInv, NEW h \in Handlers, RouteByCheckout(h)
    PROVE  IInv' /\ Monotone
<1>1. handler[h].pc = "route" /\ IsStk(h) /\ HandlerOK(h)
  BY DEF RouteByCheckout, At, IInv, TypeOK
<1>2. CASE Goto(h, "claim")
  <2>1. HandlerOK(h)'
    BY <1>1, <1>2, AfterGoto DEF HandlerOK, Pcs
  <2> QED BY <1>1, <1>2, <2>1, HandlerMoves DEF RouteByCheckout, Pcs
<1>3. CASE Leave(h)
  BY <1>1, <1>3, HandlerMoves DEF RouteByCheckout
<1> QED BY <1>2, <1>3 DEF RouteByCheckout

\* ClaimJourney.
LEMMA ClaimJourneyKeeps ==
    ASSUME IInv, NEW h \in Handlers, ClaimJourney(h)
    PROVE  IInv' /\ Monotone
<1> DEFINE j == handler[h].j
<1>1. handler[h].pc = "claim" /\ j \in Journeys /\ HandlerOK(h) /\ handler[h].via = "rail"
      /\ JourneyMoney(h) \in Money /\ 0 \notin Money /\ handler[h].amount # 0 /\ handler[h] \in Handler
  BY BusyHandler DEF ClaimJourney, At, HandlerOK, Handler
<1>2. UNCHANGED <<initiation, payment, ledger, acked, faults, duplicates, consoles>>
  BY DEF ClaimJourney
<1>3. ASSUME NEW s \in Pcs, Goto(h, s), s \in {"load", "intake", "reread"}, s # "intake" => IsStk(h),
             journey'[j] = JourneyMoney(h)
      PROVE  HandlerOK(h)'
  BY <1>1, <1>3, AfterGoto DEF HandlerOK
<1>4. CASE journey[j] = 0
  <2>1. journey' = [journey EXCEPT ![j] = JourneyMoney(h)]
        /\ Goto(h, IF IsStk(h) THEN "load" ELSE "intake")
    BY <1>1, <1>4 DEF ClaimJourney
  <2>2. PICK s \in Pcs : Goto(h, s) /\ s \in {"load", "intake"} /\ (s # "intake" => IsStk(h))
    BY <2>1 DEF Pcs
  <2>3. TablesOK /\ CountersOK
    BY IInvParts
  <2>4. payment[j].state = "none"
    BY <1>1, <1>4, <2>3 DEF TablesOK
  <2>5. Monotone
    BY <1>2, <1>4, <2>1, <2>3, SMTT(20) DEF Monotone, TablesOK
  <2>6. TablesOK'
    BY <1>1, <1>2, <2>1, <2>3, <2>4
    DEF TablesOK, LedgerMatchesPayment, ReconciledIsConfirmed, JourneyMoneyIsPaymentMoney
  <2>7. CountersOK'
    BY <1>2, <2>5, CountersKeep
  <2>8. HandlerOK(h)'
    BY <1>1, <1>3, <2>1, <2>2, <2>3 DEF TablesOK
  <2> DEFINE c == [handler[h] EXCEPT !.pc = s]
  <2>9. c \in Handler /\ c.pc = s /\ c.j = j /\ handler' = [handler EXCEPT ![h] = c]
    BY <1>1, <2>2 DEF Handler, Goto
  <2> HIDE DEF c
  <2>10. WellPlaced(c)
    BY <1>1, <2>2, <2>9, SettlementAssumption DEF WellPlaced, IsStk
  <2> QED BY <2>5, <2>6, <2>7, <2>8, <2>9, <2>10, StepKeeps, Zenon
<1>5. CASE journey[j] = JourneyMoney(h)
  <2>1. journey' = journey /\ Goto(h, IF IsStk(h) THEN "reread" ELSE "intake")
    BY <1>1, <1>5 DEF ClaimJourney
  <2>2. PICK s \in Pcs : Goto(h, s) /\ s \in {"reread", "intake"} /\ (s # "intake" => IsStk(h))
    BY <2>1 DEF Pcs
  <2>3. HandlerOK(h)'
    BY <1>3, <1>5, <2>1, <2>2
  <2> QED BY <1>1, <1>2, <2>1, <2>2, <2>3, HandlerMoves DEF db
<1>6. CASE journey[j] \notin {0, JourneyMoney(h)}
  <2>1. journey' = journey /\ Leave(h)
    BY <1>6 DEF ClaimJourney
  <2> QED BY <1>1, <1>2, <2>1, HandlerMoves DEF db
<1> QED BY <1>4, <1>5, <1>6, SMTT(20)

\* RereadInitiation.
LEMMA RereadInitiationKeeps ==
    ASSUME IInv, NEW h \in Handlers, RereadInitiation(h)
    PROVE  IInv' /\ Monotone
<1>1. handler[h].pc = "reread" /\ IsStk(h) /\ HandlerOK(h)
  BY DEF RereadInitiation, At, IInv, TypeOK
<1>2. UNCHANGED <<db, acked, faults, duplicates, consoles>>
  BY DEF RereadInitiation
<1>3. PICK s \in Pcs : Goto(h, s) /\ s \in {"load", "ack"}
  BY DEF RereadInitiation, Pcs
<1>4. HandlerOK(h)'
  BY <1>1, <1>2, <1>3, AfterGoto DEF HandlerOK, db
<1> QED BY <1>1, <1>2, <1>3, <1>4, HandlerMoves

\* LoadInitiation.
LEMMA LoadInitiationKeeps ==
    ASSUME IInv, NEW h \in Handlers, LoadInitiation(h)
    PROVE  IInv' /\ Monotone
<1>1. handler[h].pc = "load" /\ IsStk(h) /\ HandlerOK(h)
  BY DEF LoadInitiation, At, IInv, TypeOK
<1>2. UNCHANGED <<db, acked, faults, duplicates, consoles>>
  BY DEF LoadInitiation
<1>3. CASE Goto(h, "intake")
  <2>1. HandlerOK(h)'
    BY <1>1, <1>2, <1>3, AfterGoto DEF HandlerOK, db, Pcs
  <2> QED BY <1>1, <1>2, <1>3, <2>1, HandlerMoves DEF Pcs
<1>4. CASE Leave(h)
  BY <1>1, <1>2, <1>4, HandlerMoves
<1> QED BY <1>3, <1>4 DEF LoadInitiation

\* Intake.
LEMMA IntakeKeeps ==
    ASSUME IInv, NEW h \in Handlers, Intake(h)
    PROVE  IInv' /\ Monotone
<1> DEFINE j == handler[h].j
<1>1. handler[h].pc = "intake" /\ j \in Journeys /\ HandlerOK(h) /\ handler[h].via = "rail"
      /\ JourneyMoney(h) \in Money /\ 0 \notin Money /\ handler[h] \in Handler
      /\ journey[j] = JourneyMoney(h)
  BY BusyHandler, Zenon DEF Intake, At, HandlerOK, Handler
<1>2. UNCHANGED <<initiation, journey, ledger, acked, faults, duplicates, consoles>>
  BY DEF Intake
<1>3. CASE payment[j].state = "none"
  <2> DEFINE p == [state |-> "initiated", requested |-> JourneyMoney(h), confirmed |-> 0]
  <2>1. payment' = [payment EXCEPT ![j] = p] /\ Goto(h, AfterIntake(h))
    BY <1>3 DEF Intake
  <2>2. p \in Payment /\ p.state = "initiated" /\ p.requested = JourneyMoney(h) /\ p.confirmed = 0
    BY <1>1 DEF Payment
  <2> HIDE DEF p
  <2>3. PICK s \in Pcs : Goto(h, s) /\ s \in {"confirmRead", "fail"}
                         /\ (s = "fail" => IsStk(h) /\ ~Success[j])
    BY <2>1 DEF AfterIntake, Pcs
  <2>4. TablesOK
    BY IInvParts
  <2>5. Monotone
    BY <1>2, <1>3, <2>1, <2>2, <2>4 DEF Monotone, TablesOK
  <2>6. payment'[j] = p /\ \A i \in Journeys : i # j => payment'[i] = payment[i]
    BY <2>1, <2>4, <1>1 DEF TablesOK
  <2>7. ledger[j] = <<>> /\ initiation[j] # "reconciled"
    <3>1. ledger[j] = <<>>
      BY <1>1, <1>3, <2>4 DEF TablesOK, LedgerMatchesPayment
    <3>2. payment[j].confirmed = 0 /\ Amount[j] # 0
      BY <1>1, <1>3, <2>4, SettlementAssumption DEF TablesOK
    <3> QED BY <1>1, <2>4, <3>1, <3>2 DEF TablesOK, ReconciledIsConfirmed
  <2>8. TablesOK'
    <3>1. payment' \in [Journeys -> Payment]
      BY <2>1, <2>2, <2>4, Zenon DEF TablesOK
    <3>2. LedgerMatchesPayment'
      <4>1. ledger'[j] = <<>> /\ payment'[j].state # "confirmed"
        BY <1>2, <2>2, <2>6, <2>7
      <4>2. \A i \in Journeys : i # j => ledger'[i] = ledger[i] /\ payment'[i] = payment[i]
        BY <1>2, <2>6
      <4> QED BY <2>4, <4>1, <4>2, ZenonT(30) DEF TablesOK, LedgerMatchesPayment
    <3>3. ReconciledIsConfirmed'
      BY <1>1, <1>2, <2>2, <2>4, <2>6, <2>7, ZenonT(30) DEF TablesOK, ReconciledIsConfirmed
    <3>4. JourneyMoneyIsPaymentMoney'
      BY <1>1, <1>2, <2>2, <2>4, <2>6, <2>7, ZenonT(30) DEF TablesOK, JourneyMoneyIsPaymentMoney
    <3>5. \A i \in Journeys : /\ payment'[i].state = "confirmed" <=> payment'[i].confirmed # 0
                              /\ payment'[i].state # "none" => journey'[i] # 0
      <4>1. payment'[j].state # "confirmed" /\ payment'[j].confirmed = 0 /\ journey'[j] # 0
        BY <1>1, <1>2, <2>2, <2>6
      <4>2. \A i \in Journeys : i # j => journey'[i] = journey[i] /\ payment'[i] = payment[i]
        BY <1>2, <2>6, SMTT(20)
      <4> QED BY <2>4, <4>1, <4>2, ZenonT(30) DEF TablesOK
    <3> QED BY <1>2, <2>4, <3>1, <3>2, <3>3, <3>4, <3>5 DEF TablesOK
  <2>9. CountersOK'
    BY <1>2, <2>5, CountersKeep
  <2>10. HandlerOK(h)'
    BY <1>1, <1>2, <2>2, <2>3, <2>6, AfterGoto DEF HandlerOK
  <2> DEFINE c == [handler[h] EXCEPT !.pc = s]
  <2>11. c \in Handler /\ c.pc = s /\ c.j = j /\ handler' = [handler EXCEPT ![h] = c]
    BY <1>1, <2>3 DEF Handler, Goto
  <2> HIDE DEF c
  <2>12. WellPlaced(c)
    BY <1>1, <2>3, <2>11, SettlementAssumption DEF WellPlaced, IsStk
  <2> QED BY <2>5, <2>8, <2>9, <2>10, <2>11, <2>12, StepKeeps, Zenon
<1>4. CASE payment[j].state # "none" /\ payment[j].requested = JourneyMoney(h)
  <2>1. payment' = payment /\ Goto(h, IF IsStk(h) THEN "ack" ELSE "confirmRead")
    BY <1>4 DEF Intake
  <2>2. PICK s \in Pcs : Goto(h, s) /\ s \in {"ack", "confirmRead"} /\ (s = "ack" => IsStk(h))
    BY <2>1, SMTT(20) DEF Pcs
  <2>3. HandlerOK(h)'
    BY <1>1, <1>2, <1>4, <2>1, <2>2, AfterGoto DEF HandlerOK
  <2> QED BY <1>1, <1>2, <2>1, <2>2, <2>3, HandlerMoves DEF db
<1>5. CASE payment[j].state # "none" /\ payment[j].requested # JourneyMoney(h)
  <2>1. payment' = payment /\ Leave(h)
    BY <1>5 DEF Intake
  <2> QED BY <1>1, <1>2, <2>1, HandlerMoves, Zenon DEF db
<1> QED BY <1>3, <1>4, <1>5

\* ConfirmRead.
LEMMA ConfirmReadKeeps ==
    ASSUME IInv, NEW h \in Handlers, ConfirmRead(h)
    PROVE  IInv' /\ Monotone
<1> DEFINE j == handler[h].j
<1>1. handler[h].pc = "confirmRead" /\ HandlerOK(h) /\ j \in Journeys /\ Kind[j] \in {"c2b", "stk"}
  BY BusyHandler, SettlementAssumption, Zenon DEF ConfirmRead, At
<1>2. UNCHANGED <<db, acked, faults, duplicates, consoles>>
  BY DEF ConfirmRead
<1>3. CASE Goto(h, "confirmWrite")
  <2>1. HandlerOK(h)'
    <3>1. "confirmWrite" \in Pcs /\ UNCHANGED <<journey, payment>>
      BY <1>2 DEF db, Pcs
    <3>2. /\ handler'[h].pc = "confirmWrite" /\ handler'[h].j = j
          /\ handler'[h].amount = handler[h].amount /\ handler'[h].via = handler[h].via
          /\ JourneyMoney(h)' = JourneyMoney(h)
      BY <1>3, <3>1, AfterGoto
    <3> QED BY <1>1, <3>1, <3>2 DEF HandlerOK
  <2> QED BY <1>1, <1>2, <1>3, <2>1, HandlerMoves, SMTT(20) DEF Pcs
<1>4. CASE payment[j].state = "confirmed" /\ payment[j].confirmed = ConfirmMoney(h)
           /\ Goto(h, AfterConfirm(h)) /\ handler[h].via = "rail"
  <2>1. AfterConfirm(h) = IF IsStk(h) THEN "resolve" ELSE "ack"
    BY <1>4 DEF AfterConfirm
  <2>2. PICK s \in Pcs : Goto(h, s) /\ s \in {"resolve", "ack"} /\ (s = "resolve" <=> IsStk(h))
    BY <1>4, <2>1 DEF Pcs
  <2>3. IsStk(h) => payment[j].confirmed = Amount[j]
    BY <1>4, SMTT(20) DEF ConfirmMoney, JourneyMoney
  <2>4. HandlerOK(h)'
    BY <1>1, <1>2, <1>4, <2>2, <2>3, AfterGoto DEF HandlerOK, db
  <2> QED BY <1>1, <1>2, <2>2, <2>4, HandlerMoves
<1>5. CASE Leave(h)
  BY <1>1, <1>2, <1>5, HandlerMoves
<1>6. handler[h].via # "console" => handler[h].via = "rail"
  BY <1>1, BusyHandler DEF Handler
<1> QED BY <1>3, <1>4, <1>5, <1>6 DEF ConfirmRead, FinishConfirm, AfterConfirm

\* ConfirmWrite.
LEMMA ConfirmWriteKeeps ==
    ASSUME IInv, NEW h \in Handlers, ConfirmWrite(h)
    PROVE  IInv' /\ Monotone
<1> DEFINE j == handler[h].j
           m == ConfirmMoney(h)
<1>1. handler[h].pc = "confirmWrite" /\ HandlerOK(h) /\ j \in Journeys /\ handler[h] \in Handler
      /\ m \in Money /\ m # 0 /\ payment[j] \in Payment /\ payment[j].state # "none"
  BY BusyHandler, Zenon DEF ConfirmWrite, At, HandlerOK
<1>2. UNCHANGED <<initiation, journey, acked, faults, duplicates, consoles>>
  BY Zenon DEF ConfirmWrite
<1>3. CASE payment[j].state # "failed" /\ ledger[j] = <<>>
  <2>1. payment[j].state = "initiated"
    <3>1. <<payment[j].confirmed>> # <<>>
      OBVIOUS
    <3>2. payment[j].state # "confirmed"
      BY <1>1, <1>3, <3>1, Zenon DEF IInv, LedgerMatchesPayment
    <3> QED BY <1>1, <1>3, <3>2 DEF Payment
  <2> DEFINE p == [payment[j] EXCEPT !.state = "confirmed", !.confirmed = m]
             l == <<m>>
  <2>2. p \in Payment /\ p.state = "confirmed" /\ p.confirmed = m /\ p.requested = payment[j].requested
    BY <1>1, ConfirmedRow, Zenon
  <2>7. l \in Seq(Money) /\ l = <<m>>
    BY <1>1
  <2>3. payment' = [payment EXCEPT ![j] = p] /\ ledger' = [ledger EXCEPT ![j] = l] /\ FinishConfirm(h)
    <3>1. ledger' = [ledger EXCEPT ![j] = Append(ledger[j], m)]
      BY <1>3 DEF ConfirmWrite, PostConfirmationEntry
    <3>2. Append(ledger[j], m) = l
      BY <1>1, <1>3
    <3> QED BY <1>3, <3>1, <3>2, Zenon DEF ConfirmWrite, ConfirmPayment
  <2> HIDE DEF p, l
  <2>4. TablesOK' /\ CountersOK' /\ Monotone /\ payment'[j] = p
    BY <1>1, <1>2, <2>1, <2>2, <2>3, <2>7, PaymentSettles, Zenon
  <2>5. CASE handler[h].via = "console"
    <3>1. Leave(h)
      BY <2>3, <2>5 DEF FinishConfirm, AfterConfirm
    <3>2. Idle \in Handler /\ WellPlaced(Idle)
      BY SMTT(20) DEF Handler, Idle, WellPlaced, Pcs
    <3>3. HandlerOK(h)'
      <4>1. handler'[h] = Idle
        BY <3>1, LeaveFrees DEF IInv
      <4> QED BY <4>1 DEF HandlerOK, Idle
    <3> QED BY <2>4, <3>1, <3>2, <3>3, StepKeeps, Zenon DEF Leave
  <2>6. CASE handler[h].via # "console"
    <3>1. AfterConfirm(h) = IF IsStk(h) THEN "resolve" ELSE "ack"
      BY <2>6 DEF AfterConfirm
    <3>2. PICK s \in Pcs : Goto(h, s) /\ s \in {"resolve", "ack"} /\ (s = "resolve" <=> IsStk(h))
      BY <2>3, <3>1 DEF FinishConfirm, Pcs
    <3>3. IsStk(h) => m = Amount[j]
      BY <2>6 DEF ConfirmMoney, JourneyMoney
    <3>4. handler[h].via = "rail"
      BY <1>1, <2>6, SMTT(20) DEF Handler
    <3>5. HandlerOK(h)'
      BY <1>1, <1>2, <2>2, <2>4, <3>2, <3>3, <3>4, AfterGoto DEF HandlerOK
    <3> DEFINE c == [handler[h] EXCEPT !.pc = s]
    <3>6. c \in Handler /\ c.pc = s /\ c.j = j /\ handler' = [handler EXCEPT ![h] = c]
      BY <1>1, <3>2 DEF Handler, Goto
    <3> HIDE DEF c
    <3>7. WellPlaced(c)
      BY <1>1, <3>2, <3>6, SettlementAssumption DEF WellPlaced, IsStk
    <3> QED BY <2>4, <3>5, <3>6, <3>7, StepKeeps, Zenon
  <2> QED BY <2>5, <2>6
<1>4. CASE ~(payment[j].state # "failed" /\ ledger[j] = <<>>)
  <2>1. UNCHANGED <<payment, ledger>> /\ Leave(h)
    BY <1>4 DEF ConfirmWrite
  <2> QED BY <1>1, <1>2, <2>1, HandlerMoves DEF db
<1> QED BY <1>3, <1>4

\* FailPayment.
LEMMA FailPaymentKeeps ==
    ASSUME IInv, NEW h \in Handlers, FailPayment(h)
    PROVE  IInv' /\ Monotone
<1> DEFINE j == handler[h].j
<1>1. handler[h].pc = "fail" /\ IsStk(h) /\ HandlerOK(h) /\ j \in Journeys /\ handler[h] \in Handler
      /\ payment[j] \in Payment /\ ~Success[j] /\ payment[j].state # "none"
  BY BusyHandler, Zenon DEF FailPayment, At, HandlerOK, IInv, TypeOK
<1>2. UNCHANGED <<initiation, journey, ledger, acked, faults, duplicates, consoles>> /\ Goto(h, "resolve")
  BY DEF FailPayment
<1>3. CASE payment[j].state = "initiated"
  <2> DEFINE p == [payment[j] EXCEPT !.state = "failed"]
  <2>1. p \in Payment /\ p.state = "failed" /\ p.confirmed = payment[j].confirmed
        /\ p.requested = payment[j].requested
    BY <1>1 DEF Payment
  <2>2. payment' = [payment EXCEPT ![j] = p]
    BY <1>3 DEF FailPayment
  <2> HIDE DEF p
  <2>3. ledger[j] = <<>> /\ ledger[j] \in Seq(Money) /\ payment[j].confirmed = 0
        /\ ledger' = [ledger EXCEPT ![j] = ledger[j]]
    BY <1>1, <1>2, <1>3 DEF IInv, TypeOK, LedgerMatchesPayment
  <2>4. TablesOK' /\ CountersOK' /\ Monotone /\ payment'[j] = p
    BY <1>1, <1>2, <1>3, <2>1, <2>2, <2>3, PaymentSettles, Zenon
  <2>5. HandlerOK(h)'
    BY <1>1, <1>2, <2>1, <2>4, AfterGoto, Zenon DEF HandlerOK, Pcs
  <2> DEFINE c == [handler[h] EXCEPT !.pc = "resolve"]
  <2>6. c \in Handler /\ c.pc = "resolve" /\ c.j = j /\ handler' = [handler EXCEPT ![h] = c]
    BY <1>1, <1>2 DEF Handler, Goto, Pcs
  <2> HIDE DEF c
  <2>7. WellPlaced(c)
    BY <1>1, <2>6, SettlementAssumption DEF WellPlaced, IsStk
  <2> QED BY <2>4, <2>5, <2>6, <2>7, StepKeeps, Zenon
<1>4. CASE payment[j].state # "initiated"
  <2>1. payment' = payment
    BY <1>4, SMTT(20) DEF FailPayment
  <2>2. HandlerOK(h)'
    BY <1>1, <1>2, <2>1, AfterGoto DEF HandlerOK, Pcs
  <2> QED BY <1>1, <1>2, <2>1, <2>2, HandlerMoves, Zenon DEF db, Pcs
<1> QED BY <1>3, <1>4

\* Resolve.
LEMMA ResolveKeeps ==
    ASSUME IInv, NEW h \in Handlers, Resolve(h)
    PROVE  IInv' /\ Monotone
<1> DEFINE j == handler[h].j
<1>1. handler[h].pc = "resolve" /\ IsStk(h) /\ HandlerOK(h) /\ j \in Journeys /\ handler[h] \in Handler
      /\ (Success[j] => payment[j].confirmed = Amount[j])
  BY BusyHandler, ZenonT(30) DEF Resolve, At, HandlerOK, IInv, TypeOK
<1>2. UNCHANGED <<journey, payment, ledger, acked, faults, duplicates, consoles>> /\ Goto(h, "ack")
  BY Zenon DEF Resolve
<1>3. Monotone
  BY <1>2 DEF Monotone
<1>4. TablesOK'
  <2>1. TablesOK
    BY IInvParts, SMTT(20)
  <2>2. initiation' \in [Journeys -> {"none", "initiated", "reconciled", "failed"}]
        /\ \A i \in Journeys : initiation'[i] = "reconciled" =>
               initiation[i] = "reconciled" \/ (i = j /\ Success[j])
    <3> DEFINE s == IF Success[j] THEN "reconciled" ELSE "failed"
    <3>1. initiation \in [Journeys -> {"none", "initiated", "reconciled", "failed"}]
      BY <2>1, Zenon DEF TablesOK
    <3>2. initiation' = initiation \/ initiation' = [initiation EXCEPT ![j] = s]
      BY Zenon DEF Resolve
    <3> QED BY <1>1, <3>1, <3>2
  <2>3. ReconciledIsConfirmed'
    BY <1>1, <1>2, <2>1, <2>2 DEF TablesOK, ReconciledIsConfirmed
  <2> QED BY <1>2, <2>1, <2>2, <2>3 DEF TablesOK, LedgerMatchesPayment, JourneyMoneyIsPaymentMoney
<1>5. CountersOK'
  BY <1>2, <1>3, CountersKeep, SMTT(20)
<1>6. HandlerOK(h)'
  BY <1>1, <1>2, AfterGoto DEF HandlerOK, Pcs
<1> DEFINE c == [handler[h] EXCEPT !.pc = "ack"]
<1>7. c \in Handler /\ c.pc = "ack" /\ c.j = j /\ handler' = [handler EXCEPT ![h] = c]
  BY <1>1, <1>2, SMTT(20) DEF Handler, Goto, Pcs
<1> HIDE DEF c
<1>8. WellPlaced(c)
  BY <1>1, <1>7, SettlementAssumption DEF WellPlaced
<1> QED BY <1>3, <1>4, <1>5, <1>6, <1>7, <1>8, StepKeeps, Zenon

\* A handler is done and the tables are as they were.
LEMMA HandlerLeaves ==
    ASSUME IInv, NEW h \in Handlers, handler' = [handler EXCEPT ![h] = Idle], UNCHANGED db, CountersOK'
    PROVE  IInv' /\ Monotone
<1>1. Monotone /\ TablesOK'
  BY TablesKeep
<1>2. Idle \in Handler /\ WellPlaced(Idle)
  BY DEF Handler, Idle, WellPlaced, Pcs
<1>3. HandlerOK(h)'
  BY LeaveFrees, Zenon DEF IInv, HandlerOK, Idle, Leave
<1> QED BY <1>1, <1>2, <1>3, StepKeeps, Zenon

\* callbackAck.
LEMMA CallbackAckKeeps ==
    ASSUME IInv, NEW h \in Handlers, callbackAck(h)
    PROVE  IInv' /\ Monotone
<1>1. handler[h].pc = "ack" /\ HandlerOK(h) /\ handler[h].j \in Journeys
  BY BusyHandler DEF callbackAck, At
<1>2. CountersOK /\ Monotone
  BY IInvParts, TablesKeep DEF callbackAck
<1>3. acked' \in [Journeys -> BOOLEAN] /\ UNCHANGED <<faults, duplicates, consoles, payment>>
  BY <1>2, Zenon DEF callbackAck, CountersOK, db
<1>4. Kind[handler[h].j] = "c2b" => payment[handler[h].j].state = "confirmed"
  BY <1>1, SMTT(20) DEF HandlerOK, IsStk
<1>5. C2bAckedIsConfirmed'
  BY <1>2, <1>3, <1>4 DEF callbackAck, CountersOK, C2bAckedIsConfirmed
<1> QED BY HandlerLeaves, <1>2, <1>3, <1>5, Zenon DEF callbackAck, CountersOK

\* Die.
LEMMA DieKeeps ==
    ASSUME IInv, NEW h \in Handlers, Die(h)
    PROVE  IInv' /\ Monotone
<1>1. CountersOK /\ UNCHANGED <<acked, duplicates, consoles, payment>>
  BY IInvParts DEF Die, db
<1>2. faults' \in 0 .. MaxFaults
  BY <1>1, SettlementAssumption, SMTT(20) DEF Die, CountersOK
<1> QED BY HandlerLeaves, <1>1, <1>2, Zenon DEF Die, CountersOK, C2bAckedIsConfirmed

\* Nothing happens.
LEMMA StutterKeeps ==
    ASSUME IInv, UNCHANGED vars
    PROVE  IInv' /\ Monotone
<1>1. TablesOK' /\ CountersOK' /\ Monotone /\ handler' = handler
  BY TablesKeep, CountersKeep DEF vars, db
<1>2. \A h \in Handlers : HandlerOK(h)'
  BY <1>1, OthersKeep
<1>3. handler' \in [Handlers -> Handler] /\ \A h \in Handlers : WellPlaced(handler'[h])
  BY <1>1, IInvParts DEF WellPlaced
<1> QED BY <1>1, <1>2, <1>3, PartsNext, Zenon

\* Every step keeps the invariant, and no payment goes back.
LEMMA NextIInv == IInv /\ [Next]_vars => IInv' /\ Monotone
<1> SUFFICES ASSUME IInv, [Next]_vars PROVE IInv' /\ Monotone
  OBVIOUS
<1>1. ASSUME NEW j \in Journeys, InsertStkInitiation(j) PROVE IInv' /\ Monotone
  BY <1>1, InsertStkInitiationKeeps
<1>2. ASSUME NEW h \in Handlers, NEW j \in Journeys, NEW m \in Money, Deliver(h, j, m) PROVE IInv' /\ Monotone
  BY <1>2, DeliverKeeps
<1>3. ASSUME NEW h \in Handlers, NEW j \in Console, NEW m \in ConsoleMoney, ConsoleConfirm(h, j, m)
      PROVE  IInv' /\ Monotone
  BY <1>3, ConsoleConfirmKeeps
<1>4. ASSUME NEW h \in Handlers, RouteByCheckout(h) PROVE IInv' /\ Monotone
  BY <1>4, RouteByCheckoutKeeps
<1>5. ASSUME NEW h \in Handlers, ClaimJourney(h) PROVE IInv' /\ Monotone
  BY <1>5, ClaimJourneyKeeps
<1>6. ASSUME NEW h \in Handlers, RereadInitiation(h) PROVE IInv' /\ Monotone
  BY <1>6, RereadInitiationKeeps
<1>7. ASSUME NEW h \in Handlers, LoadInitiation(h) PROVE IInv' /\ Monotone
  BY <1>7, LoadInitiationKeeps
<1>8. ASSUME NEW h \in Handlers, Intake(h) PROVE IInv' /\ Monotone
  BY <1>8, IntakeKeeps
<1>9. ASSUME NEW h \in Handlers, ConfirmRead(h) PROVE IInv' /\ Monotone
  BY <1>9, ConfirmReadKeeps
<1>10. ASSUME NEW h \in Handlers, ConfirmWrite(h) PROVE IInv' /\ Monotone
  BY <1>10, ConfirmWriteKeeps
<1>11. ASSUME NEW h \in Handlers, FailPayment(h) PROVE IInv' /\ Monotone
  BY <1>11, FailPaymentKeeps
<1>12. ASSUME NEW h \in Handlers, Resolve(h) PROVE IInv' /\ Monotone
  BY <1>12, ResolveKeeps
<1>13. ASSUME NEW h \in Handlers, callbackAck(h) PROVE IInv' /\ Monotone
  BY <1>13, CallbackAckKeeps
<1>14. ASSUME NEW h \in Handlers, Die(h) PROVE IInv' /\ Monotone
  BY <1>14, DieKeeps
<1>15. ASSUME UNCHANGED vars PROVE IInv' /\ Monotone
  BY <1>15, StutterKeeps
<1> QED
  BY <1>1, <1>2, <1>3, <1>4, <1>5, <1>6, <1>7, <1>8, <1>9, <1>10, <1>11, <1>12, <1>13, <1>14, <1>15,
     SettlementAssumption DEF Next, Step

\* The invariant always holds.
LEMMA SpecIInv == Spec => []IInv
<1>1. IInv /\ [Next]_vars => IInv'
  BY NextIInv
<1> QED BY InitIInv, <1>1, PTL DEF Spec

\* The tables and the handlers stay well formed.
THEOREM SettlementTypeOK == Spec => []TypeOK
<1>1. IInv => TypeOK
  BY DEF IInv
<1> QED BY SpecIInv, <1>1, PTL

\* However deliveries, operators and deaths interleave, a confirmed payment has
\* exactly one journal entry, of its amount, and no other payment has any.
THEOREM BooksFollowPayments == Spec => []LedgerMatchesPayment
<1>1. IInv => LedgerMatchesPayment
  BY DEF IInv
<1> QED BY SpecIInv, <1>1, PTL

\* A payment that is confirmed or failed is never written again, though Confirm
\* decides on an unlocked read and updates by id alone.
THEOREM PaymentsSettleOnce == Spec => SettledOnce
<1>1. IInv /\ [Next]_vars =>
      [\A j \in Journeys : payment[j].state \in {"confirmed", "failed"} => payment'[j] = payment[j]]_vars
  BY NextIInv DEF Monotone
<1> QED BY SpecIInv, <1>1, PTL DEF Spec, SettledOnce

\* A reconciled initiation has the money that was asked for confirmed; a
\* payment carries the money its journey was claimed with; and the rail gets no
\* acknowledgment of C2B money that is not confirmed.
THEOREM AnswersFollowMoney ==
    Spec => [](ReconciledIsConfirmed /\ JourneyMoneyIsPaymentMoney /\ C2bAckedIsConfirmed)
<1>1. IInv => ReconciledIsConfirmed /\ JourneyMoneyIsPaymentMoney /\ C2bAckedIsConfirmed
  BY DEF IInv
<1> QED BY SpecIInv, <1>1, PTL
================================================================================
