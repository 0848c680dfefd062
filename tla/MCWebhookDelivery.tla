--------------------------- MODULE MCWebhookDelivery ---------------------------
(* What leaves the system, for TLC: the Go webhook workers, once with a lease  *)
(* that may run out in flight and once with one that cannot, the kernel's      *)
(* lane under every change of the endpoint, the lane with its consumer, whose  *)
(* verification reads nothing of the endpoint's state, and the outbox relay,   *)
(* for what has to happen in the end.  part, chosen at Init, names the one     *)
(* that runs; the others stay at their initial state, so their state spaces    *)
(* add up.                                                                     *)
EXTENDS WebhookDelivery, TLC

CONSTANTS w1, w2, NoTx, Operator,
          Parts     \* what may run

VARIABLES part, status, subscribed, plans, queue, sent, ledger,              \* the lane
          row, lockedBy, advisory, pc, todo, batch, snap, work, cancelled,  \* the relay
          replay, wire, crashes, replays

OneRung == <<1>>
LaneTypes == {<<"payment", "confirmed">>, <<"payments", "observed">>}
LanePatterns == {<<"payment", "*">>, <<"payments", "observed">>, <<"unicorn", "*">>}

\* A claim outlives its three phases: two error budgets and a delivery.
Leased == INSTANCE WebhookDelivery WITH ClaimLease <- 2 * ErrorBudget + DeliveryTimeout + 1

Lane == INSTANCE WebhookLane
            WITH EventTypes <- LaneTypes, Patterns <- LanePatterns,
                 KnownPrefixes <- {"payment", "payments"}, Ladder <- Ladder,
                 MaxSkew <- 0, MaxPlans <- 1, MaxDeliveries <- 2

Outbox == INSTANCE OutboxRelay
              WITH Relays <- Workers, Orgs <- {"org"}, Events <- {1, 2}, OrgOf <- [e \in {1, 2} |-> "org"],
                   WellFormed <- {2}, BatchSize <- 2, MaxAttempts <- 2, MaxReplays <- 1, faults <- crashes

laneVars == <<status, subscribed, plans, queue, sent, ledger>>
outboxVars == <<row, lockedBy, advisory, pc, todo, batch, snap, work, cancelled, replay, wire, crashes, replays>>
allVars == <<part, vars, laneVars, outboxVars>>

MCInit == /\ part \in Parts /\ Init /\ Lane!Init /\ Outbox!Init

MCNext ==
    \/ part = "workers" /\ Next /\ UNCHANGED <<part, laneVars, outboxVars>>
    \/ part = "leased" /\ Leased!Next /\ UNCHANGED <<part, laneVars, outboxVars>>
    \/ part = "lane" /\ Lane!Next /\ ledger' = <<>> /\ UNCHANGED <<part, vars, outboxVars>>
    \/ part = "consumer" /\ Lane!Next /\ status' = "active" /\ UNCHANGED <<part, vars, outboxVars>>
    \/ part = "outbox" /\ Outbox!Next /\ UNCHANGED <<part, vars, laneVars>>

\* The fairness of FairSpec, of Lane!FairSpec and of Outbox!FairSpec, each for what runs.
MCSpec ==
    /\ MCInit /\ [][MCNext]_allVars
    /\ WF_vars(part = "workers" /\ Tick)
    /\ \A w \in Workers : /\ WF_vars(part = "workers" /\ RunOnce(w))
                          /\ WF_vars(part = "workers" /\ Restart(w))
    /\ WF_laneVars(part = "lane" /\ Lane!Tick)
    /\ \A i \in 1 .. 2 : WF_laneVars(part = "lane" /\ i \in DOMAIN queue /\ Lane!AttemptStep(i))
    /\ \A r \in Workers : WF_outboxVars(part = "outbox" /\ Outbox!RelayStep(r))
    /\ WF_outboxVars(part = "outbox" /\ \E e \in {1, 2} : Outbox!ReplayLockRow(e))
    /\ WF_outboxVars(part = "outbox" /\ Outbox!ReplayCommit)

--------------------------------------------------------------------------------
\* "An in-flight delivery must not lose its claim" (ResolveConfig): under a lease
\* that outlasts a whole delivery no two workers carry the same one.
LeaseKeepsSingleFlight == part = "leased" => SingleFlight

\* The kernel's queue (attempts.ts, signing.ts) says what happened: only wanted
\* events are queued, never two live deliveries of one; the log tells the
\* attempts, their outcome and their spacing; a request replayed at the
\* consumer gets the decision it got first.
QueueIsFaithful ==
    /\ TypeOK
    /\ part \in {"lane", "consumer"} =>
          /\ Lane!TypeOK /\ Lane!PlannedWasWanted /\ Lane!OneActivePerEvent
          /\ Lane!LogTellsDelivery /\ Lane!OneDecisionPerDelivery

\* Bounded retries end: with the workers, the platform's restarts and the clock
\* running, every delivery of an active endpoint is delivered or dead-lettered,
\* in the Go workers and in the kernel's lane; and every appended event is
\* published or dead-lettered, though relays crash, stop and race, the broker
\* fails and rows are replayed (relay.go, poison.go, replay.go).
DeliveriesEnd ==
    /\ part = "workers" => EventuallyTerminal
    /\ part = "lane" => Lane!DeliveriesEnd
    /\ Outbox!EventuallyDecided
================================================================================
