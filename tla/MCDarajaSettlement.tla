------------------------ MODULE MCDarajaSettlement ------------------------
(* Taking money in, for TLC: the settlement of STK results and of C2B          *)
(* confirmations with operators and wrong amounts, and of the rail's           *)
(* redeliveries alone; the intake funnel that settlement takes as one step,    *)
(* also with two requests whose keys and payments cross; and the pushes that   *)
(* make the rail call back.  part, chosen at Init, names                       *)
(* the component that runs; the others stay at their initial state, so their   *)
(* state spaces add up.                                                        *)
EXTENDS DarajaSettlement, FiniteSets, TLC

CONSTANTS h1, h2, jA, jB,                  \* handlers and journeys
          rA, rB, rC, rD, rE, kes1, kes2,      \* intake requests and money
          e1, e2, e3, p1, p2, action,      \* pushes
          None,
          Parts                            \* the components that may run

VARIABLES part,
          payments, keys, cache, pc, target, holds, outcome, intakeFaults,
          exec, live, token, minted, pushed, facts, pushFaults

AllC2b == [j \in Journeys |-> "c2b"]
AllStk == [j \in Journeys |-> "stk"]
AllSucceed == [j \in Journeys |-> TRUE]
SecondFails == jA :> TRUE @@ jB :> FALSE
AskOne == [j \in Journeys |-> 1]
WireExact == [j \in Journeys |-> {1}]
WireVaries == [j \in Journeys |-> {1, 2}]

\* The same handlers, operators and amounts on the C2B path.
C2b == INSTANCE DarajaSettlement WITH Kind <- AllC2b, Success <- AllSucceed

\* The rail alone: C2B callbacks of the right amount, no operator.
Rail == INSTANCE DarajaSettlement
            WITH Kind <- AllC2b, Success <- AllSucceed, Wire <- WireExact,
                 Console <- {}, ConsoleMoney <- {}, MaxConsole <- 0

IntakeRequests == {rA, rB, rC, rD, rE}

\* rA and rB are deliveries of one callback, rC bears its reference under
\* another key, rD its key with another reference and other money, and rE its
\* reference on another channel.
Intakes == INSTANCE PaymentIntake
            WITH Requests <- IntakeRequests,
                 Channel <- [r \in IntakeRequests |-> IF r = rE THEN "stk" ELSE "c2b"],
                 Ref <- rA :> "A" @@ rB :> "A" @@ rC :> "A" @@ rD :> "B" @@ rE :> "A",
                 Key <- rA :> "k" @@ rB :> "k" @@ rC :> "l" @@ rD :> "k" @@ rE :> "m",
                 Money <- rA :> kes1 @@ rB :> kes1 @@ rC :> kes1 @@ rD :> kes2 @@ rE :> kes1,
                 NoRef <- None, MaxFaults <- 1, faults <- intakeFaults

\* Three executions of one action in two processes.
Pushes == INSTANCE StkPush
            WITH Executions <- {e1, e2, e3}, Actions <- {action}, Processes <- {p1, p2},
                 MaxRetries <- 1, MaxFaults <- 1,
                 Faults <- {"probe", "lost", "unreached", "refused", "unauthorised",
                            "garbled", "echo", "cancel", "tx", "crash"},
                 initiation <- pushed, faults <- pushFaults

intakeVars == <<payments, keys, cache, pc, target, holds, outcome, intakeFaults>>
pushVars == <<exec, live, token, minted, pushed, facts, pushFaults>>
allVars == <<part, vars, intakeVars, pushVars>>

MCInit == part \in Parts /\ Init /\ Intakes!Init /\ Pushes!Init

MCNext ==
    \/ part = "settle" /\ Next /\ UNCHANGED <<part, intakeVars, pushVars>>
    \/ part = "c2b" /\ C2b!Next /\ UNCHANGED <<part, intakeVars, pushVars>>
    \/ part = "rail" /\ Rail!Next /\ UNCHANGED <<part, intakeVars, pushVars>>
    \/ part = "intake" /\ Intakes!Next /\ pc'[rE] = "start" /\ UNCHANGED <<part, vars, pushVars>>
    \/ part = "crossed" /\ Intakes!Next /\ pc'[rC] = "start" /\ UNCHANGED <<part, vars, pushVars>>
    \/ part = "push" /\ Pushes!Next /\ UNCHANGED <<part, vars, intakeVars>>

\* Handlers and executions run to their end, a statement whose row lock is free
\* returns, and the rail redelivers what it has not seen acknowledged.
MCSpec ==
    /\ MCInit /\ [][MCNext]_allVars
    /\ \A h \in Handlers : WF_vars(part = "rail" /\ Rail!Step(h))
    /\ \A j \in Journeys : WF_vars(part = "rail" /\ Rail!Redeliver(j))
    /\ \A r \in IntakeRequests : WF_intakeVars(part \in {"intake", "crossed"} /\ Intakes!Step(r))
    /\ \A e \in {e1, e2, e3} : WF_pushVars(part = "push" /\ Pushes!Step(e))

\* The same fairness for STK results; the record of an accepted push commits.
StkSpec ==
    /\ MCInit /\ [][MCNext]_allVars
    /\ \A h \in Handlers : WF_vars(part = "settle" /\ Step(h))
    /\ \A j \in Journeys : /\ WF_vars(part = "settle" /\ InsertStkInitiation(j))
                           /\ SF_vars(part = "settle" /\ Redeliver(j))

--------------------------------------------------------------------------------
\* A C2B confirmation is acknowledged only once its money is settled (the comment
\* on the handler in callbacks.go), an initiation is reconciled only when the
\* amount asked for is confirmed (ReconcileStkResult resolves last), and a
\* payment is of the money its journey was first claimed with (IntakeCallback).
AcknowledgedMoneyIsReal ==
    /\ TypeOK
    /\ part # "settle" => AckedIsSettled
    /\ ReconciledIsConfirmed /\ JourneyMoneyIsPaymentMoney

\* One command, one outcome: bearers of the same reference and key are answered
\* with the same payment (Intake), executions of the same action with the same
\* checkout, which the row and the single fact in the log name too
\* (ExecuteStkPush), from at most one call at a time per process and a bounded
\* number in all (inFlight, callJSON).
OneOutcomePerCommand ==
    /\ Intakes!TypeOK /\ Intakes!SameCommandSamePayment
    /\ Pushes!TypeOK /\ Pushes!ReceiptIsTheRecord /\ Pushes!FactMatchesInitiation
    /\ Pushes!OneCallPerProcess /\ Pushes!CallsBounded

\* R9 (Intake): the funnel implements the idempotent creation of funds, and a key
\* of the durable registry names an existing payment and never another one.
IntakeIsIdempotent == Intakes!ImplementsIntake /\ Intakes!KeysAreStable

\* Money comes to rest: redelivered C2B callbacks are settled though handlers
\* die; every intake request is answered, for no lock wait is circular; every
\* push execution ends, for leads always free their followers.
MoneyComesToRest ==
    /\ part = "rail" => EventuallySettled
    /\ Intakes!EveryRequestAnswered
    /\ Pushes!ExecutionsEnd
============================================================================
