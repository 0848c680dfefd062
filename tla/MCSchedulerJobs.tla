---------------------------- MODULE MCSchedulerJobs ----------------------------
(***************************************************************************)
(* The scheduled jobs and the lanes they drive, on small instances.  `part`*)
(* is chosen at the start and names the component that runs:               *)
(*   dunning, fees   the Go scheduler: two processes with dunning; one     *)
(*                   with late fees beside aging snapshots                 *)
(*   pool, crowd     the same with no spare connection; with more rows     *)
(*                   than a batch                                          *)
(*   plans     the payment-plan job against the payment lane               *)
(*   ledger, desk   the journal beside the lanes; under what is offered it *)
(*   consent   the consent registry                                        *)
(*   comms, refused   message delivery, with crashes; with refusals        *)
(*   promise   one promise and its dunning                                 *)
(*   disputes  the dispute registry                                        *)
(*   attempt   an STK attempt from proposal to reconciliation              *)
(*   ussd, menus   a USSD session; every small menu graph                  *)
(***************************************************************************)
EXTENDS SchedulerJobs, TLC

CONSTANTS Parts, p1, p2, c1, c2, m1, g1, g2, w1, w2, o1, o2, r1, r2, a1, None

VARIABLES part,
          planDay, plan, planRunner, defaults, planFaults,                 \* plans
          open, unapplied, refunded, moves, ledger, announced,             \* ledger
          registry, today, word,                                           \* consent
          transport, started, msgs, trail, store, calls, accepted, worker, crashes,   \* comms
          promise, clock, events, sent, log, lastSendAt, lastResponseAt, answered,    \* promise
          reg, facts, ownerOf,                                             \* disputes
          attempt, decision, payments, rail, grants, now,                  \* attempt
          menu, session, told, minute                                      \* ussd, menus

sched == vars
planVars == <<planDay, plan, planRunner, defaults, planFaults>>
ledgerVars == <<open, unapplied, refunded, moves, ledger, announced>>
consentVars == <<registry, today, word>>
commsVars == <<transport, started, msgs, trail, store, calls, accepted, worker, crashes>>
promiseVars == <<promise, clock, events, sent, log, lastSendAt, lastResponseAt, answered>>
disputeVars == <<reg, facts, ownerOf>>
attemptVars == <<attempt, decision, payments, rail, grants, now>>
ussdVars == <<menu, session, told, minute>>
allVars == <<part, sched, planVars, ledgerVars, consentVars, commsVars, promiseVars, disputeVars, attemptVars, ussdVars>>

AllDunning == [p \in Runners |-> "dunning"]
OwnProcess == [p \in Runners |-> p]
DueDays == [r \in Receivables |-> IF r = 1 THEN 1 ELSE 0]
ShortLadder ==
    << [key |-> "pre_due_reminder", dayOffset |-> -1, requiresConsent |-> FALSE],
       [key |-> "overdue_whatsapp", dayOffset |-> 1, requiresConsent |-> TRUE],
       [key |-> "overdue_sms", dayOffset |-> 2, requiresConsent |-> FALSE] >>

Fees == INSTANCE SchedulerJobs WITH JobOf <- [p \in Runners |-> IF p = p1 THEN "late_fee" ELSE "aging_snapshots"],
            ProcessOf <- [p \in Runners |-> 1], Flagged <- {1}, MaxChanges <- 1, MaxLost <- 0
(* As many jobs as connections. *)
Pool == INSTANCE SchedulerJobs WITH JobOf <- [p \in Runners |-> IF p = p1 THEN "late_fee" ELSE "aging_snapshots"],
            ProcessOf <- [p \in Runners |-> 1], PoolSize <- 2, Flagged <- {1}, MaxChanges <- 1, MaxLost <- 0
(* More rows than a batch takes. *)
Crowd == INSTANCE SchedulerJobs WITH JobOf <- [p \in Runners |-> IF p = p1 THEN "late_fee" ELSE "dunning"],
             ProcessOf <- [p \in Runners |-> 1], Receivables <- {1, 2}, DueDay <- <<0, 0>>, Batch <- 1,
             MaxChanges <- 1, MaxFaults <- 0, MaxLost <- 0, MaxDay <- 1

Plans == INSTANCE PaymentPlans WITH Plans <- {1}, Total <- <<3>>, Count <- <<2>>, StartDay <- <<0>>, Month <- 1,
             GraceDays <- 1, Amounts <- {1, 2}, Runners <- {r1, r2}, Batch <- 1, MaxDay <- 3, MaxFaults <- 1,
             day <- planDay, runner <- planRunner, faults <- planFaults

Journal == INSTANCE LedgerJournal WITH Amounts <- {1}, MaxMoves <- 3, MaxReversals <- 1, told <- announced, MAX_SAFE <- 9,
                                       Movements <- {}, Postings <- {}, Snapshots <- {}, MaxEntries <- 0, MaxReports <- 0

(* Two ids, altered replays, another organisation, another currency, and nothing to post. *)
DeskMovements ==
    {[id |-> 1, org |-> "org", name |-> "invoiceIssued", at |-> 1, amount |-> a, currency |-> "KES"] : a \in {0, 1, 2, 3}} \cup
    {[id |-> 1, org |-> "other", name |-> "invoiceIssued", at |-> 1, amount |-> 1, currency |-> "KES"],
     [id |-> 2, org |-> "org", name |-> "paymentCompleted", at |-> 2, amount |-> 1, currency |-> "KES"],
     [id |-> 2, org |-> "org", name |-> "paymentCompleted", at |-> 2, amount |-> 1, currency |-> "USD"],
     [id |-> 2, org |-> "org", name |-> "paymentCompleted", at |-> 2, amount |-> 1, currency |-> "shells"],
     [id |-> 2, org |-> "org", name |-> "allocationExecuted", at |-> 2, amount |-> 1, currency |-> "KES"]}

(* One split in three lines, one refund, and what is no entry at all. *)
DeskPostings ==
    LET of(id, name, at, lines) == [id |-> id, org |-> "org", name |-> name, at |-> at, lines |-> lines]
        dr(acc, a, cur) == [account |-> acc, direction |-> "DEBIT", amount |-> a, currency |-> cur]
        cr(acc, a, cur) == [account |-> acc, direction |-> "CREDIT", amount |-> a, currency |-> cur]
    IN  {of(1, "invoiceIssued", 1, <<dr("AR_CONTROL", 1, "KES"), dr("CASH", 1, "KES"), cr("REVENUE", 2, "KES")>>),
         of(2, "paymentCompleted", 2, <<dr("CASH", 1, "USD"), cr("AR_CONTROL", 1, "USD")>>),
         of(3, "opening", 3, <<dr("AR_CONTROL", 2, "KES"), cr("REVENUE", 2, "KES")>>),
         of(3, "opening", 3, <<dr("AR_CONTROL", 2, "KES"), cr("REVENUE", 2, "USD")>>),
         of(3, "opening", 3, <<dr("AR_CONTROL", 2, "KES"), cr("REVENUE", 1, "KES")>>),
         of(3, "opening", 3, <<dr("AR_CONTROL", 1, "KES"), cr("AR_CONTROL", 1, "KES")>>),
         of(3, "opening", 3, <<dr("AR_CONTROL", 1, "KES"), cr("REVENUE", 1, "KES"), cr("CASH", 0, "KES")>>),
         of(3, "opening", 3, <<>>)}

(* Snapshots of a projection: of two currencies, with a row twice, of another's rows, too *)
(* large a sum, below zero.                                                               *)
DeskSnapshots ==
    LET row(r, org, cur, b) == [receivable |-> r, org |-> org, currency |-> cur, balance |-> b]
    IN  {<<>>, <<row("x", "org", "KES", 1)>>, <<row("x", "org", "KES", 1), row("x", "org", "KES", 1)>>,
         <<row("x", "org", "KES", 1), row("y", "org", "KES", 1), row("z", "org", "USD", -1)>>,
         <<row("x", "org", "KES", 2), row("y", "org", "KES", 2)>>,
         <<row("x", "org", "KES", 1), row("y", "other", "KES", 1)>>}

Desk == INSTANCE LedgerJournal WITH Amounts <- {1}, MaxMoves <- 0, MaxReversals <- 1, told <- announced, MAX_SAFE <- 3,
                                    Movements <- DeskMovements, Postings <- DeskPostings, Snapshots <- DeskSnapshots,
                                    MaxEntries <- 3, MaxReports <- 1

Registry == INSTANCE Consent WITH Customers <- {c1, c2}, Channels <- {"sms", "whatsapp"},
                Purposes <- {"dunning", "marketing"}, MaxRows <- 3, MaxTime <- 2, now <- today

Comms == INSTANCE CommsDelivery WITH Msgs <- {m1}, Refs <- {g1}, Workers <- {w1, w2}, MaxAttempts <- 2, MaxFacts <- 2,
             MaxCrashes <- 1, open <- started, facts <- trail
Refusing == INSTANCE CommsDelivery WITH Msgs <- {m1}, Refs <- {g1, g2}, Workers <- {w1, w2}, MaxAttempts <- 2,
                MaxFacts <- 3, MaxCrashes <- 0, open <- started, facts <- trail

(* Three rungs of the default ladder: before due, on the day, and the gated one. *)
DomainLadder == <<[key |-> "pre_due_reminder", dayOffset |-> -1, requiresConsent |-> FALSE],
                  [key |-> "due_date_request", dayOffset |-> 0, requiresConsent |-> FALSE],
                  [key |-> "overdue_whatsapp", dayOffset |-> 1, requiresConsent |-> TRUE]>>
Promise == INSTANCE Promises WITH Ladder <- DomainLadder, TicksPerDay <- 2, EscalationAfterDays <- 1,
               Amounts <- {2}, PromisedDates <- {2}, GraceDays <- 1, MaxTime <- 5,
               p <- promise, now <- clock

Dispute == INSTANCE Disputes WITH Orgs <- {o1, o2}, Receivables <- {r1, r2}, MaxDisputes <- 2, MaxHistory <- 2

Attempt == INSTANCE StkAttempt WITH Attempts <- {a1}, TTL <- 1, MaxTime <- 3, MaxGrants <- 2

Screen(options, terminal, isRoot) == [options |-> options, terminal |-> terminal, isRoot |-> isRoot]
ToNode(n) == [kind |-> "node", to |-> n]
ToFlow(f) == [kind |-> "flow", to |-> f]

(* A menu with a loop, a way out and every flow. *)
SelfService ==
    ("home" :> Screen(("1" :> ToNode("bills")) @@ ("2" :> ToNode("bye")) @@ ("3" :> ToFlow("balance_query")), FALSE, TRUE))
    @@ ("bills" :> Screen(("1" :> ToNode("more")) @@ ("2" :> ToFlow("invoice_list")) @@ ("3" :> ToNode("home")), FALSE, FALSE))
    @@ ("more" :> Screen(("1" :> ToFlow("statement_query")) @@ ("2" :> ToFlow("plan_request"))
                         @@ ("3" :> ToFlow("payment_handoff")), FALSE, FALSE))
    @@ ("bye" :> Screen(<<>>, TRUE, FALSE))
PortAnswers ==
    {[kind |-> k, bad |-> "none", items |-> 0, badAt |-> 0] : k \in {"garbage", "refused", "thrown", "unproven"}}
    \cup {[kind |-> "data", bad |-> b, items |-> 3, badAt |-> i] : b \in {"none", "ref", "amount", "payBy"}, i \in {0, 3}}
Ussd == INSTANCE UssdSession WITH Menus <- {SelfService}, Inputs <- {"1", "2", "3", "0", "#"},
            Answers <- PortAnswers, Wired <- {"balance_query", "invoice_list", "statement_query", "payment_handoff"},
            Ttl <- 2, MaxLines <- 2, Budget <- 4, MaxInputs <- 4, MaxTime <- 3, log <- told, now <- minute

SmallMenus ==
    LET Options == {<<>>} \cup {("1" :> t) : t \in {ToNode("a"), ToNode("b"), ToNode("c"), ToNode("x"), ToFlow("balance_query")}}
    IN  [{"a", "b", "c"} -> {Screen(o, t, r) : o \in Options, t \in BOOLEAN, r \in BOOLEAN}]
Graphs == INSTANCE UssdSession WITH Menus <- SmallMenus, Inputs <- {}, Answers <- {}, Wired <- {}, Ttl <- 1,
              MaxLines <- 1, Budget <- 4, MaxInputs <- 0, MaxTime <- 0, log <- told, now <- minute

(* What the parts that do not run start from. *)
Quiet == /\ part \notin {"dunning"} => granted = {}
         /\ part \notin {"comms", "refused"} => transport = CHOOSE t \in Comms!Transports : TRUE
         /\ part # "promise" => promise = Promise!createPromise(2, 2, FALSE)
         /\ part # "disputes" => \A r \in {r1, r2} : ownerOf[r] = o1

MCInit == /\ part \in Parts /\ (IF part = "crowd" THEN Crowd!Init ELSE Init) /\ Plans!Init /\ Journal!Init /\ Registry!Init /\ Comms!Init
          /\ Promise!Init /\ Dispute!Init /\ Attempt!Init /\ Quiet
          /\ IF part = "menus" THEN Graphs!Init ELSE Ussd!Init

(* Only the lane that is named moves. *)
OnlySched == UNCHANGED <<part, planVars, ledgerVars, consentVars, commsVars, promiseVars, disputeVars, attemptVars, ussdVars>>
OnlyPlan == UNCHANGED <<part, sched, ledgerVars, consentVars, commsVars, promiseVars, disputeVars, attemptVars, ussdVars>>
OnlyLedger == UNCHANGED <<part, sched, planVars, consentVars, commsVars, promiseVars, disputeVars, attemptVars, ussdVars>>
OnlyConsent == UNCHANGED <<part, sched, planVars, ledgerVars, commsVars, promiseVars, disputeVars, attemptVars, ussdVars>>
OnlyComms == UNCHANGED <<part, sched, planVars, ledgerVars, consentVars, promiseVars, disputeVars, attemptVars, ussdVars>>
OnlyPromise == UNCHANGED <<part, sched, planVars, ledgerVars, consentVars, commsVars, disputeVars, attemptVars, ussdVars>>
OnlyDispute == UNCHANGED <<part, sched, planVars, ledgerVars, consentVars, commsVars, promiseVars, attemptVars, ussdVars>>
OnlyAttempt == UNCHANGED <<part, sched, planVars, ledgerVars, consentVars, commsVars, promiseVars, disputeVars, ussdVars>>
OnlyUssd == UNCHANGED <<part, sched, planVars, ledgerVars, consentVars, commsVars, promiseVars, disputeVars, attemptVars>>

MCNext ==
    \/ /\ \/ part = "dunning" /\ Next
          \/ part = "fees" /\ Fees!Next
          \/ part = "pool" /\ Pool!Next
          \/ part = "crowd" /\ Crowd!Next
       /\ OnlySched
    \/ part = "plans" /\ Plans!Next /\ OnlyPlan
    \/ ((part = "ledger" /\ Journal!Next) \/ (part = "desk" /\ Desk!DeskNext)) /\ OnlyLedger
    \/ part = "consent" /\ Registry!Next /\ OnlyConsent
    \/ ((part = "comms" /\ Comms!Next) \/ (part = "refused" /\ Refusing!Next)) /\ OnlyComms
    \/ part = "promise" /\ Promise!Next /\ OnlyPromise
    \/ part = "disputes" /\ Dispute!Next /\ OnlyDispute
    \/ part = "attempt" /\ Attempt!Next /\ OnlyAttempt
    \/ ((part = "ussd" /\ Ussd!Next) \/ (part = "menus" /\ Graphs!startUssdSession)) /\ OnlyUssd

(* The tickers of the jobs and the steps of a running cycle keep going (scheduler.go),     *)
(* a movement is redelivered until it is posted, workers and leases run, and so do the     *)
(* clock, the sweep of promises, the poller and the callback delivery of pushes.  Nobody   *)
(* has to pay, grant, revoke, cancel, answer or fail.                                      *)
MCSpec ==
    /\ MCInit /\ [][MCNext]_allVars
    /\ \A p \in Runners : /\ WF_sched(part = "dunning" /\ Cycle(p))
                          /\ WF_sched(part = "fees" /\ Fees!Cycle(p))
                          /\ WF_sched(part = "pool" /\ Pool!Cycle(p))
                          /\ WF_sched(part = "crowd" /\ Crowd!Cycle(p))
    /\ \A r \in {r1, r2} : WF_planVars(part = "plans" /\ Plans!RunPlan(r))
    /\ \A m \in 1..3 : WF_ledgerVars(part = "ledger" /\ m \in DOMAIN moves /\ Journal!post(Journal!Movement(m, moves[m].name)))
    /\ \A w \in {w1, w2} : WF_commsVars(part = "comms" /\ Comms!WorkerStep(w))
    /\ WF_commsVars(part = "comms" /\ \E k \in Comms!Keys : Comms!LeaseExpires(k))
    /\ WF_promiseVars(part = "promise" /\ Promise!Tick)
    /\ WF_promiseVars(part = "promise" /\ (Promise!markPromiseBroken \/ Promise!expirePromise))
    /\ WF_attemptVars(part = "attempt" /\ Attempt!Tick)
    /\ WF_attemptVars(part = "attempt" /\ Attempt!reconcileStkCallback(a1))
    /\ WF_attemptVars(part = "attempt" /\ Attempt!expireStkPushIfDue(a1))

--------------------------------------------------------------------------------
(* Nobody is contacted against the rules.  A contact is allowed exactly when the           *)
(* customer's last word was a grant, or when the keeper left the original of a revoked     *)
(* grant in the registry; the order of the rows does not matter and the export says the    *)
(* same (guard.ts, dsar.ts).  An automated message was queued under a current grant;       *)
(* ladder steps go out in order, once, on their day and gated (dunning.go, dunning.ts);    *)
(* and no keypress is answered in a session that idled out (session.ts).                   *)
ContactFollowsRules ==
    /\ LadderInOrder /\ (part = "crowd" => Crowd!LadderInOrder) /\ Promise!SendsFollowLadder
    /\ part = "consent" => Registry!ContactFollowsWord /\ Registry!OrderIndependent /\ Registry!TrailMatchesGuard
    /\ Refusing!QueuedUnderConsent
    /\ part = "ussd" => Ussd!IdleSessionsAnswerNothing

(* What the lanes record is what happened.  No two cycles of a job overlap while locks     *)
(* hold; installments sum to the plan and a plan is completed exactly when paid, defaulted *)
(* with one event; movements are posted once, corrections cancel, and the reconciliation   *)
(* job's drift is explained to the cent, posted late fees that no receivable holds         *)
(* included; statuses of messages, promises, disputes and STK attempts tell their          *)
(* attempts, cover, facts and money, a result that entered by the parser leaving its       *)
(* attempt unresolved; a message attempt is on the wire once, and once more per crash;     *)
(* a USSD session's history leads to the screen it shows and its events tell its end once; *)
(* an accepted menu traps nobody.                                                          *)
RecordsTellOutcome ==
    /\ IF part = "crowd" THEN Crowd!TypeOK ELSE TypeOK
    /\ Plans!TypeOK /\ Journal!TypeOK /\ Registry!TypeOK /\ Refusing!TypeOK /\ Promise!TypeOK
    /\ Dispute!TypeOK /\ Attempt!TypeOK
    /\ part = "dunning" => NoOverlap
    /\ Plans!ScheduleSumsToTotal /\ Plans!CompletedIsPaid /\ Plans!DefaultedOnce
    /\ part = "ledger" => Journal!PostedOnce /\ Journal!ReversalsCancel /\ Journal!DriftIsExplained /\ Journal!EventsTellJournal
    /\ part = "desk" => /\ Desk!TypeOK /\ Desk!PostedOnce /\ Desk!ReversalsCancel /\ Desk!EventsTellJournal
                        /\ Desk!ReplayIsTheMovement /\ Desk!ReportsStayTrue /\ Desk!SnapshotCountedOnce
    /\ Comms!StatusTellsAttempts /\ Comms!OneWirePerKey
    /\ Promise!StatusTellsCoverage
    /\ Dispute!FactsTellTheHold /\ Dispute!NumbersRise /\ Dispute!OutcomeWasInvestigated
    /\ Attempt!AttemptTellsMoney /\ Attempt!LateMeansTimedOut
    /\ part = "ussd" => Ussd!TypeOK /\ Ussd!HistoryLeadsHere /\ Ussd!SessionTellsItsEnd
    /\ part = "menus" => Graphs!MenusTrapNobody

(* What was decided stays decided: an ended plan, promise or attempt never changes again,  *)
(* whatever the jobs, late payments and repeated callbacks do, except that an attempt      *)
(* gated again without consent is marked refused (gate.ts); nothing escalates over an      *)
(* answer, no prompt leaves on a clearance that has lapsed, and an ended USSD session      *)
(* takes no more keys.                                                                     *)
DecidedIsFinal ==
    /\ [][part = "ussd" => Ussd!SessionStep]_ussdVars
    /\ Plans!TerminalIsFinal /\ Promise!TerminalIsFinal /\ Attempt!TerminalIsFinal
    /\ Promise!EscalatesOnlyUnanswered /\ Attempt!PromptOnlyWhenCleared

(* What is due happens: ladder steps, fees and snapshots of the rows a batch takes are     *)
(* performed or their refusal recorded (RunDunning, RunLateFee, RunAging), unless the      *)
(* locks of the running jobs hold every connection of the pool; overdue plans default      *)
(* (RunPlan), movements are posted (R4), queued messages are sent or dead-lettered through *)
(* crashes unless a later attempt was refused for good, promises and pushes resolve.       *)
(* Again and again there is a moment with nothing else left to do.                         *)
WhatIsDueHappens ==
    []<>(/\ part = "dunning" => DuePerformed
         /\ part = "fees" => Fees!DuePerformed
         /\ part = "pool" => Pool!DuePerformed
         /\ part = "crowd" => Crowd!DuePerformed
         /\ Plans!OverdueActedOn /\ (part = "ledger" => Journal!EveryMovementPosted)
         /\ part = "comms" => Comms!MessagesSettled
         /\ part = "promise" => Promise!PromiseResolved
         /\ Attempt!PushesResolved)

================================================================================
