-------------------------- MODULE MCCollectionsCases ---------------------------
(***************************************************************************)
(* Collections cases, their numbers and the maker-checker lane, on small   *)
(* instances.  `part` is chosen at the start and names what runs:          *)
(*   r8        two workers open and move two cases                         *)
(*   log       two workers run every command on a case                     *)
(*   serial    every command, one transaction at a time                    *)
(*   numbers   the case-number cursor through crashes and boots            *)
(*   invoices, newyear   tax invoice numbers: two refills at once; a year  *)
(*             that turns                                                  *)
(*   gates, checkers   approval policies; one request and its checkers     *)
(*   rules, replay   every request under each rule set; decisions replayed *)
(*   ranks     next-best-action plans and the outcomes fed back            *)
(*   pay, claims   the HTTP routes of payments; of collections cases       *)
(*   walk, book   clients that page through payments; through the ledger   *)
(***************************************************************************)
EXTENDS CollectionsCases, SequencesExt, TLC

CONSTANTS Parts, c1, c2, r1, r2, w1, w2, p1, p2

VARIABLES part,
          phase, next, floor, reserve, unsaved, pending, counter, numbered,          \* numbers
          known, block, abreast, boots,
          year, checkpoint, refills, trail, granted, issued, lost,                   \* tax numbers
          policies, operation, request, events, now,                                 \* approvals
          ruleSets, decided, plans, facts, reports, clock,                           \* rules, ranks
          rows, opened, answer, walk, hour                                           \* the HTTP API

service == <<cases, links, marker, log, outbox, orgLock, caseLock, tx, commands>>
numberVars == <<phase, next, floor, reserve, unsaved, pending, counter, numbered, known, block, abreast, boots>>
taxVars == <<year, checkpoint, refills, trail, granted, issued, lost>>
approvalVars == <<policies, operation, request, events, now>>
decisionVars == <<ruleSets, decided, plans, facts, reports, clock>>
apiVars == <<rows, opened, answer, walk, hour>>
allVars == <<part, service, numberVars, taxVars, approvalVars, decisionVars, apiVars>>

AllOps == {"open", "transition", "escalate", "record", "complete"}

Logged == INSTANCE CollectionsCases WITH Ops <- AllOps, Coverings <- {{r1}}, Priorities <- {"normal", "high"},
              Outcomes <- BOOLEAN, MaxCommands <- 5
Serial == INSTANCE CollectionsCases WITH Ops <- AllOps, Priorities <- {"normal", "high", "urgent"},
              ActionTypes <- {"sms", "call"}, Outcomes <- BOOLEAN, MaxCommands <- 4

(* No transaction starts before the one before it is over. *)
OneAtATime == \A v, w \in Workers : v # w => "idle" \in {tx'[v].pc, tx'[w].pc}

Lane == INSTANCE CaseLane WITH lane <- aggregates

Numbers == INSTANCE CaseSequences WITH Procs <- {p1, p2}, Block <- 1, MaxNumber <- 2, MaxBoots <- 3, cases <- numbered
Invoices == INSTANCE EtimsNumbering WITH Callers <- {1, 2}, bandSize <- 2, lowWatermark <- 1, maxReservation <- 2,
                ETIMS_MAX_SEQUENCE <- 4, FirstYear <- 2026, LastYear <- 2026, Overlapping <- FALSE
NewYear == INSTANCE EtimsNumbering WITH Callers <- {1, 2}, bandSize <- 1, lowWatermark <- 1, maxReservation <- 1,
               ETIMS_MAX_SEQUENCE <- 2, FirstYear <- 2026, LastYear <- 2027, Overlapping <- FALSE

Gate(id, op, threshold, currency, roles, quorum) ==
    [id |-> id, op |-> op, threshold |-> threshold, currency |-> currency, roles |-> roles, quorum |-> quorum]
Gates == {Gate("any", "refund", -1, "none", {"clerk"}, 1),
          Gate("small", "refund", 1, "KES", {"clerk", "boss"}, 1),
          Gate("large", "refund", 2, "KES", {"clerk", "boss"}, 2),
          Gate("dollars", "refund", 1, "USD", {"boss"}, 1)}
TwoGates == {Gate("any", "bank_destination_change", -1, "none", {"clerk"}, 1),
             Gate("large", "refund", 2, "KES", {"clerk", "boss"}, 2)}
Ask(op, amount, currency) == [op |-> op, amount |-> amount, currency |-> currency]
Asked == {Ask("refund", a, "KES") : a \in 0..3} \cup {Ask("refund", 1, "USD"), Ask("refund", -1, "none")}
TwoAsked == {Ask("refund", 2, "KES"), Ask("bank_destination_change", -1, "none")}

(* Every shape of request the rules tell apart, two malformed ones included; the rule lists  *)
(* are: the defaults out of order, everything allowed, office hours only, and three that     *)
(* validation refuses - a duplicate priority, a denial that grants, an unknown channel.      *)
NewRequest(actor, free, action, amount, risk, channel, consent, dispute) ==
    [actor |-> actor, autonomous |-> free, actionType |-> action, amountMinor |-> amount,
     currency |-> IF amount = -1 THEN "null" ELSE "KES", riskClass |-> risk, channel |-> channel,
     consentPresent |-> consent, disputeOpen |-> dispute, promisePending |-> FALSE]
AskedFor ==
    {NewRequest(a, f, t, m, k, c, g, d) : a \in {"human", "ai_agent"}, f \in BOOLEAN,
        t \in {"send_reminder", "send_whatsapp", "refund", "launch"}, m \in {-1, 5000000, 5000001},
        k \in {"low", "high"}, c \in {"null", "sms"}, g \in BOOLEAN, d \in BOOLEAN}
FewAsked == {NewRequest("ai_agent", TRUE, t, -1, "low", "sms", g, FALSE) : t \in {"send_reminder", "escalate"},
                g \in BOOLEAN}
NewRule(id, priority, action, decision, conditions, grants) ==
    [id |-> id, priority |-> priority, actionType |-> action, decision |-> decision, conditions |-> conditions,
     grants |-> grants]
When(field, op, value) == [field |-> field, op |-> op, value |-> value]
Nothing == [keys |-> {}, maxAmountMinor |-> 0, allowedChannels |-> {"email", "sms", "whatsapp"}]
Upto(n) == [Nothing EXCEPT !.keys = {"maxAmountMinor"}, !.maxAmountMinor = n]
NewRules == <<
    <<NewRule("open", 5, "any", "allow", <<>>, Upto(9))>>,
    <<NewRule("late", 2, "any", "deny", <<When("minuteOfDayUtc", "gte", {1})>>, Nothing),
      NewRule("early", 1, "send_reminder", "requires_approval", <<When("dayOfWeekUtc", "eq", {0})>>, Upto(1))>>,
    <<NewRule("a", 1, "any", "allow", <<>>, Nothing), NewRule("b", 1, "any", "deny", <<>>, Nothing)>>,
    <<NewRule("a", 1, "any", "deny", <<>>, Upto(1))>>,
    <<NewRule("a", 1, "any", "allow", <<When("channel", "eq", {"whatsap"})>>, Nothing)>> >>

Situation(amount, age, promise, dispute, pref, recent) ==
    [amountMinor |-> amount, ageDays |-> age, riskClass |-> "elevated", onTime |-> 1, late |-> 1, unpaid |-> 0,
     promise |-> promise, reliabilityPermill |-> 400, disputeOpen |-> dispute,
     prefs |-> [call |-> pref, whatsapp |-> "neutral", sms |-> "opted_in"], recent |-> recent]
Seen(action, n) == [i \in 1..n |-> [action |-> action, daysAgo |-> 15 - i]]
Situations ==
    {Situation(0, 0, "none", FALSE, "opted_in", <<>>), Situation(3000, 61, "broken", FALSE, "neutral", <<>>),
     Situation(500000, 10, "none", FALSE, "opted_in", Seen("call", 3)),
     Situation(500000, 10, "pending", TRUE, "opted_out", Seen("sms", 3)),
     Situation(500000, 40, "fulfilled", FALSE, "neutral", Seen("offer_payment_plan", 1))}
NbaActions == {"call", "whatsapp", "sms", "offer_payment_plan", "send_payment_link", "human_review", "escalate",
               "do_nothing"}
Said == {[a \in NbaActions |-> "silent"],
         [a \in NbaActions |-> IF a \in {"send_payment_link", "call"} THEN "deny" ELSE "allow"],
         [a \in NbaActions |-> IF a = "do_nothing" THEN "deny" ELSE "requires_approval"],
         [a \in NbaActions |-> "deny"]}

Choosing == INSTANCE Approvals WITH Catalogue <- Gates, Operations <- Asked, Actors <- {"ann", "ben"},
                Roles <- {"clerk", "boss"}, TTL <- 1, MaxTime <- 3
Checking == INSTANCE Approvals WITH Catalogue <- TwoGates, Operations <- TwoAsked, Actors <- {"ann", "ben", "cyn"},
                Roles <- {"clerk", "boss"}, TTL <- 2, MaxTime <- 5

Governed == INSTANCE ActionDecisions WITH Requests <- AskedFor, RuleLists <- NewRules, DayLength <- 2, Bundles <- {},
                Verdicts <- {}, Outcomes <- {}, MaxVersions <- 3, MaxDecisions <- 0, MaxPlans <- 0, MaxReports <- 0,
                MaxTime <- 2
Replayed == INSTANCE ActionDecisions WITH Requests <- FewAsked, RuleLists <- NewRules, DayLength <- 2, Bundles <- {},
                Verdicts <- {}, Outcomes <- {}, MaxVersions <- 3, MaxDecisions <- 2, MaxPlans <- 0, MaxReports <- 0,
                MaxTime <- 2
Ranking == INSTANCE ActionDecisions WITH Requests <- {}, RuleLists <- <<>>, DayLength <- 2, Bundles <- Situations,
               Verdicts <- Said, Outcomes <- {"paid", "opted_out"}, MaxVersions <- 1, MaxDecisions <- 0,
               MaxPlans <- 2, MaxReports <- 3, MaxTime <- 1

Command(channel, ref, key, amount, currency) ==
    [channel |-> channel, ref |-> ref, key |-> key, amount |-> amount, currency |-> currency]
Clashing == {Command("c2b", "r1", "k1", 2, "KES"), Command("c2b", "r1", "k2", 2, "KES"), Command("stk", "r1", "k2", 2, "KES"),
             Command("stk", "r2", "k1", 1, "KES"), Command("c2b", "r2", "k2", 2, "USD")}
Three == {Command("c2b", ref, ref, 2, "KES") : ref \in {"r1", "r2", "r3"}}
RefusedRequests ==
    [body : {"tooLarge", "malformed", "wrongShape"}, method : {"POST", "DELETE"},
     path : {<<"payments", "intake">>, <<"payments", "intake", "x">>},
     gate : {<<>>, <<"HTTP", "UNAUTHENTICATED">>, <<"SESSION", "IDLE", "EXPIRED">>, <<"KEY", "SECRET", "MISMATCH">>,
             <<"PRINCIPAL", "SUSPENDED">>, <<"AUTH", "ACCESS", "DENIED">>}]
Listing(list, field, order, limit) == [list |-> list, field |-> field, order |-> order, limit |-> limit]

PayApi == INSTANCE ApiResources WITH Scale <- 10, Den <- 1, Nobody <- None, Ids <- {1, 2}, Intakes <- Clashing, Amounts <- {0, 1, 2},
              Currencies <- {"KES", "USD"}, Orgs <- {}, Receivables <- {}, Claims <- {}, Requests <- RefusedRequests,
              Listings <- {Listing("payments", "id", "asc", 0), Listing("payments", "amount", "asc", 1)}, MaxPayments <- 2, MaxRefunds <- 2, MaxCases <- 0,
              MaxActions <- 0, MaxTime <- 1, cases <- opened, now <- hour
WalkApi == INSTANCE ApiResources WITH Scale <- 10, Den <- 1, Nobody <- None, Ids <- {1, 2, 3}, Intakes <- Three, Amounts <- {},
               Currencies <- {"KES"}, Orgs <- {}, Receivables <- {}, Claims <- {}, Requests <- {},
               Listings <- {Listing("payments", "initiatedAt", "desc", 1), Listing("payments", "none", "asc", 2),
                            Listing("payments", "id", "asc", 1), Listing("payments", "state", "asc", 1)},
               MaxPayments <- 3, MaxRefunds <- 0, MaxCases <- 0, MaxActions <- 0, MaxTime <- 2, cases <- opened, now <- hour
BookApi == INSTANCE ApiResources WITH Scale <- 10, Den <- 1, Nobody <- None, Ids <- {1, 2}, Intakes <- {c \in Three : c.key # "r3"}, Amounts <- {1},
               Currencies <- {"KES"}, Orgs <- {}, Receivables <- {}, Claims <- {}, Requests <- {},
               Listings <- {Listing("entries", "source", "asc", 1), Listing("entries", "none", "desc", 3),
                            Listing("adjustments", "none", "desc", 1)},
               MaxPayments <- 2, MaxRefunds <- 1, MaxCases <- 0, MaxActions <- 0, MaxTime <- 2, cases <- opened, now <- hour
CaseApi == INSTANCE ApiResources WITH Scale <- 10, Den <- 1, Nobody <- None, Ids <- {1, 2}, Intakes <- {}, Amounts <- {}, Currencies <- {},
               Orgs <- {"o1", "o2"}, Receivables <- {1, 2}, Claims <- {<<1>>, <<1, 2>>, <<1, 1>>, <<3>>}, Requests <- {},
               Listings <- {Listing("o1", "caseNumber", "desc", 1)}, MaxPayments <- 0, MaxRefunds <- 0, MaxCases <- 2,
               MaxActions <- 1, MaxTime <- 1, cases <- opened, now <- hour

MCInit ==
    /\ part \in Parts /\ Init /\ Numbers!Init /\ (IF part = "newyear" THEN NewYear!Init ELSE Invoices!Init) /\ Governed!Init /\ PayApi!Init
    /\ IF part = "gates" THEN Choosing!Init ELSE Checking!Init
    /\ part \notin {"gates", "checkers"} => policies = <<>> /\ operation = Ask("refund", 2, "KES")

MCNext ==
    /\ UNCHANGED part
    /\ \/ /\ \/ part = "r8" /\ Next
             \/ part = "log" /\ Logged!Next
             \/ part = "serial" /\ Serial!Next /\ OneAtATime
          /\ UNCHANGED <<numberVars, taxVars, approvalVars, decisionVars, apiVars>>
       \/ part = "numbers" /\ Numbers!Next /\ UNCHANGED <<service, taxVars, approvalVars, decisionVars, apiVars>>
       \/ /\ (part = "invoices" /\ Invoices!Next) \/ (part = "newyear" /\ NewYear!Next)
          /\ UNCHANGED <<service, numberVars, approvalVars, decisionVars, apiVars>>
       \/ /\ (part = "gates" /\ Choosing!Next) \/ (part = "checkers" /\ Checking!Next)
          /\ UNCHANGED <<service, numberVars, taxVars, decisionVars, apiVars>>
       \/ /\ (part = "rules" /\ Governed!Next) \/ (part = "replay" /\ Replayed!Next) \/ (part = "ranks" /\ Ranking!Next)
          /\ UNCHANGED <<service, numberVars, taxVars, approvalVars, apiVars>>
       \/ /\ \/ (part = "pay" /\ PayApi!Next) \/ (part = "claims" /\ CaseApi!Next)
             \/ (part = "walk" /\ WalkApi!Next) \/ (part = "book" /\ BookApi!Next)
          /\ UNCHANGED <<service, numberVars, taxVars, approvalVars, decisionVars>>

MCSpec == MCInit /\ [][MCNext]_allVars

WorkerSymmetry == Permutations(Workers) \cup Permutations({p1, p2})

--------------------------------------------------------------------------------
(* A completion is committed of an action that was recorded with its outcome; it is done   *)
(* as before.                                                                              *)
CompletesRecordedOutcome ==
    /\ aggregates' = aggregates
    /\ \E c \in Cases : /\ log'[c] # log[c] /\ Last(log'[c]).action = "case.completion"
                        /\ log[c][Last(log'[c]).target].outcome

(* The Go service implements the TypeScript lane: one at a time, every committed command   *)
(* is one of the lane's operations on the aggregate the rows and the log stand for.  One   *)
(* is not: CompleteAction (collections.go) looks for a completion in the log and accepts   *)
(* an action that was recorded with its outcome, which the lane refuses (actions.ts,       *)
(* CASE_ACTION_ALREADY_COMPLETED).                                                         *)
ImplementsLane ==
    Lane!LaneInit /\ [][part = "serial" /\ log' # log => Lane!LaneNext \/ CompletesRecordedOutcome]_service

(* resourcestore.ts: "a fresh process never re-issues a committed number".  Whatever       *)
(* crashed between hand-out, save and flush, in two processes on one counter, the counter  *)
(* is past every stored case and a process's cursor past every case stored before its boot *)
(* or by itself; what two boots reserve is apart unless they ran beside each other.  A     *)
(* number that another process stored later may be handed out again; the index refuses it. *)
(* Invoice numbers of the tax authority (etims/source.ts) rise without a gap but for what  *)
(* a crash lost, each from a band granted for its year, whatever answers were lost or      *)
(* repeated and when the year turned, as long as nobody draws numbers while a refill waits.*)
CommittedNotReissued ==
    /\ Numbers!TypeOK /\ Numbers!CounterCoversCases /\ Numbers!CommittedNotReissued /\ Numbers!BlocksDiverge
    /\ part = "invoices" => Invoices!TypeOK /\ Invoices!NeverDoubleIssued /\ Invoices!GaplessNumbering
                            /\ Invoices!NumbersAreGranted /\ Invoices!CheckpointStaysValid
    /\ part = "newyear" => NewYear!TypeOK /\ NewYear!NeverDoubleIssued /\ NewYear!GaplessNumbering
                           /\ NewYear!NumbersAreGranted /\ NewYear!CheckpointStaysValid

(* No number of the tax authority's bands leaves the stock unaccounted for: it is handed   *)
(* out, the audit trail tells it burned, or a crash or a failing audit write took it       *)
(* (etims/source.ts: "no path may silently drop a band").  One path does drop a band: a    *)
(* refill that resumes writes what follows from the checkpoint it read, and a band that a  *)
(* second refill saved while it waited, of this year or the next, is gone.                 *)
NoNumberVanishes ==
    [][(part \in {"invoices", "newyear"}) =>
          (Invoices!Accounted \subseteq Invoices!Accounted' \/ Invoices!StaleResume)]_taxVars

(* Maker-checker (policy.ts, request.ts): the strictest gate the amount reaches governs,   *)
(* in whatever order the set comes; what is approved was approved in time by as many       *)
(* different holders of its roles as the gate demands, none of them the maker; the events  *)
(* tell the state.                                                                         *)
FourEyes == /\ Checking!TypeOK /\ Checking!FourEyes /\ Checking!EventsTellState
            /\ Checking!GovernedByStrictestGate

(* Policy and ranking (policy/engine.ts, nba/rank.ts): no rule an org installs gets past   *)
(* the engine's guards, the default rules are safe, recorded decisions replay under later  *)
(* versions; a plan recommends nothing denied, capped or worse than doing nothing, honours *)
(* a recorded opt-out, and an outcome counts once.                                         *)
ActionsAreGoverned ==
    /\ part = "rules" => Governed!GuardsPrecedeRules /\ Governed!DefaultIsSafe
    /\ part = "replay" => Replayed!DecisionsReplay
    /\ part = "ranks" => Ranking!RecommendationIsAllowed /\ Ranking!OutcomesCountOnce

(* The HTTP API (kernel.ts, errors.ts, routes/): no call ends in a 500; a refused one       *)
(* changes no resource; intake makes one payment per claim; the two refund doors agree and  *)
(* never outgrow confirmed money; cases are numbered without gap and cover exclusively; a   *)
(* paging client misses no row; the ledger view keeps its lines paired; what is confirmed,  *)
(* refunded or closed stays so.                                                             *)
ApiIsFaithful ==
    /\ [](/\ PayApi!NoInternalErrors /\ PayApi!OnePaymentPerClaim
          /\ part = "pay" => PayApi!RefundDoorsAgree
          /\ part = "claims" => CaseApi!CasesAreNumbered /\ CaseApi!WalkMissesNothing
          /\ part = "walk" => WalkApi!WalkMissesNothing
          /\ part = "book" => BookApi!WalkMissesNothing /\ BookApi!EntriesStayPaired)
    /\ [][PayApi!RefusedChangesNothing /\ PayApi!WrittenOnce]_apiVars
================================================================================
