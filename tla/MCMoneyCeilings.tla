--------------------------- MODULE MCMoneyCeilings ---------------------------
(***************************************************************************)
(* The money lanes on small instances.  `part` is chosen at the start and  *)
(* names the component that runs:                                          *)
(*   ceilings  concurrent transactions against the triggers of 0006/0007   *)
(*   serial    the same triggers, one transaction after the other          *)
(*   funds     payment, match, allocation and receivable chained           *)
(*   lane, late   one invoice and its receivables; the fees on one debt    *)
(*   adjust, repay   credit notes and the credit balance; refunds          *)
(*   links     payment links                                               *)
(*   plans, declared   allocation strategies over every small input        *)
(*   money, text       the money kernel over every small input             *)
(*   shares    its split by fractional weights                             *)
(*   transfer  one cross-border intent, its quotes and its corridor        *)
(*   rates     every small rate table                                      *)
(*   fx        settlements over every small snapshot                       *)
(*   paid, owed, said   a customer's memory: payments; exposure; the rest  *)
(*   habits, words      behaviour: payments; promises, disputes, messages  *)
(*   drift, pair        profiles compared; of one customer, of two         *)
(***************************************************************************)
EXTENDS MoneyCeilings, SequencesExt, TLC

CONSTANTS Parts, c1, c2, p1, p2, Customer, Nobody, None,
          k1, k2, A, B, l1

VARIABLES part,
          payments, receivables, rows, matches,          \* funds
          invoice, debts, today, fees,                   \* lane, late
          note, movements, refunds,                      \* adjust, repay
          links, redemptions, answers, now,              \* links
          plan, call,                                    \* plans; money
          corridors, table, quotes, intents,             \* transfer, rates, fx
          submissions, told, posting, hour,
          history, kept, notices                         \* paid to pair

ceilings == vars
fundsVars == <<payments, receivables, rows, matches>>
laneVars == <<invoice, debts, today, fees>>
adjustVars == <<note, movements, refunds>>
linkVars == <<links, redemptions, answers, now>>
abroadVars == <<corridors, table, quotes, intents, submissions, told, posting, hour>>
memoryVars == <<history, kept, notices>>
allVars == <<part, memoryVars, ceilings, fundsVars, laneVars, adjustVars, linkVars, plan, call, abroadVars>>

OriginalOf == (c1 :> 2) @@ (c2 :> 3)
Symmetry == Permutations(Txs) \cup Permutations(Rows) \cup Permutations({k1, k2})

Serial == INSTANCE MoneyCeilings WITH Kinds <- {"alloc", "refund"}, Confirmed <- 3

Funds == INSTANCE FundsChain WITH Scale <- 10, Den <- 1, Ps <- {p1, p2}, Rs <- {1, 2}, Original <- <<2, 3>>,
             Explains <- [p \in {p1, p2} |-> IF p = p1 THEN {1} ELSE {}],
             Confirmable <- {1, 3, 4}, Refundable <- {1, 2}, MaxRows <- 5

Lane == INSTANCE ReceivableLane WITH Scale <- 10, Den <- 1, Ids <- {1, 2}, Amounts <- {1, 2, 3}, DueDate <- 1, MaxTotal <- 5, MaxTime <- 3,
            DAY_MS <- 1, Policies <- {}, Periods <- {}, FeeBase <- 10, MAX_SAFE <- 20, MaxInt <- 31, MaxFees <- 0,
            receivables <- debts, now <- today

(* Both formulas, with and without a cap, and what is no policy. *)
FeePolicies ==
    LET policy(kind, flat, bps, cap, grace) == [kind |-> kind, flat |-> flat, bps |-> bps, cap |-> cap, grace |-> grace]
    IN  {policy("flat", {2}, {}, {}, 1), policy("percent", {}, {4}, {}, 0), policy("percent", {}, {3}, {2}, 1),
         policy("percent", {2}, {3}, {}, 0), policy("flat", {}, {}, {}, 0), policy("percent", {}, {-1}, {}, 0)}
Late == INSTANCE ReceivableLane WITH Scale <- 10, Den <- 1, Ids <- {1}, Amounts <- {6, 9}, DueDate <- 1, MaxTotal <- 15, MaxTime <- 5,
            DAY_MS <- 2, Policies <- FeePolicies, Periods <- {1, 2}, FeeBase <- 10, MAX_SAFE <- 14, MaxInt <- 31, MaxFees <- 2,
            receivables <- debts, now <- today

Adjust == INSTANCE Adjustments WITH Total <- 2, Confirmed <- 0, Amounts <- {1, 2}, Refunds <- {1, 2}, Refs <- {A, B},
              MaxMoves <- 3
Repay == INSTANCE Adjustments WITH Total <- 0, Confirmed <- 3, Amounts <- {1, 2}, Refunds <- {1, 2}, Refs <- {A, B},
             MaxMoves <- 0

Links == INSTANCE PaymentLinks WITH Tokens <- {l1}, Keys <- {k1, k2}, MaxAmount <- 2, MaxTime <- 1, MaxLinks <- 2

(* The allocation strategies (allocation/strategies.ts) on every small input: one call of  *)
(* planWithStrategy, and the plan of the same receivables handed over in reverse.          *)
Lanes == INSTANCE MoneyLanes WITH Scale <- 10, Den <- 1
UpTo(n, S) == UNION {[1..k -> S] : k \in 0..n}
Views(n, currencies, dues) == UpTo(n, [id : 1..n, currency : currencies, balance : 0..2, due : dues])
Declarations ==   \* a map: no id twice
    {d \in UpTo(2, [id : 1..2, currency : {"KES", "USD"}, amount : 0..2]) : \A i, j \in DOMAIN d : d[i].id = d[j].id => i = j}

Plan(strategy, amount, views, declared) ==
    LET funds == [amount |-> amount, currency |-> "KES"]
    IN  plan' = [strategy |-> strategy, funds |-> amount, views |-> views, declared |-> declared,
                 out |-> Lanes!planWithStrategy(strategy, funds, views, declared),
                 again |-> Lanes!planWithStrategy(strategy, funds, Reverse(views), declared)]
PlanNext ==
    /\ plan.strategy = "none"
    /\ \/ /\ part = "plans"
          /\ \E s \in {"fifo", "pro_rata"}, amount \in 0..5, views \in Views(3, {"KES"}, {1, 1000}) : Plan(s, amount, views, <<>>)
       \/ /\ part = "declared"
          /\ \E amount \in 0..4, views \in Views(2, {"KES", "USD"}, {1}) :
                \/ \E s \in {"fifo", "pro_rata"} : Plan(s, amount, views, <<>>)
                \/ \E d \in Declarations : Plan("explicit", amount, views, d)

Kernel == INSTANCE MoneyKernel WITH Scale <- 10, Den <- 1, Currencies <- {"KES", "USD"}, MaxInt <- 31,
              MaxAmount <- 12, MaxWeight <- 3, MaxParts <- 3, MaxFactor <- 8, MaxWhole <- 2
Wide == INSTANCE MoneyKernel WITH Scale <- 10, Den <- 1, Currencies <- {"KES"}, MaxInt <- 255,
            MaxAmount <- 12, MaxWeight <- 3, MaxParts <- 3, MaxFactor <- 8, MaxWhole <- 4
(* Weights of fifths in halves: some round up, some down, one to nothing. *)
Shares == INSTANCE MoneyKernel WITH Scale <- 2, Den <- 5, Currencies <- {"KES"}, MaxInt <- 31,
              MaxAmount <- 20, MaxWeight <- 5, MaxParts <- 3, MaxFactor <- 0, MaxWhole <- 0

Corridor == [org |-> A, source |-> "KES", dest |-> "UGX"]
At(n) == [text |-> n, at |-> n]
Offset == [text |-> 2, at |-> 1]
RateRow(n, from, to) ==
    [row |-> n, source |-> "KES", dest |-> "UGX", num |-> 35, den |-> 1, from |-> from, to |-> to]
Cheap == [min |-> 1, max |-> 50, rails |-> {"swift"}, flat |-> 1, bps |-> 500]
Dear == [Cheap EXCEPT !.flat = 2]

Transfer == INSTANCE CrossBorder WITH CorridorIds <- {Corridor}, Terms <- {Cheap, Dear}, Tables <- {<<RateRow(1, At(0), None)>>},
                Orgs <- {A, B}, Intents <- {1}, Amounts <- {10, 50}, Keys <- {k1, k2}, Rails <- {"swift", "card"},
                Ttls <- {1}, Snapshots <- {}, MaxSafe <- 53, MaxQuotes <- 2, MaxReplays <- 1, MaxTime <- 2,
                now <- hour

RateTables ==
    LET Instants == {At(0), At(1), At(2), Offset}
        Windows == Instants \X (Instants \cup {None})
    IN  UNION {{[k \in 1 .. n |-> RateRow(k, w[k][1], w[k][2])] : w \in [1 .. n -> Windows]} : n \in 1 .. 3}
Rates == INSTANCE CrossBorder WITH CorridorIds <- {Corridor}, Terms <- {Cheap}, Tables <- {}, Orgs <- {A},
             Intents <- {}, Amounts <- {10}, Keys <- {}, Rails <- {}, Ttls <- {1}, Snapshots <- {}, MaxSafe <- 53,
             MaxQuotes <- 1, MaxReplays <- 0, MaxTime <- 2, now <- hour

Fx == INSTANCE CrossBorder WITH CorridorIds <- {}, Terms <- {}, Tables <- {}, Orgs <- {A}, Intents <- {},
          Amounts <- 0 .. 12, Keys <- {}, Rails <- {}, Ttls <- {},
          Snapshots <- [base : {"KES", "UGX"}, quote : {"UGX", "USD", "KES"}, num : 1 .. 4, den : 1 .. 3],
          MaxSafe <- 53, MaxQuotes <- 0, MaxReplays <- 0, MaxTime <- 0, now <- hour

Fact(type, at, who, ref, ccy, amount, due, tag) ==
    [type |-> type, at |-> at, customerId |-> who, ref |-> ref, currency |-> ccy, amountMinor |-> amount,
     dueDate |-> due, tag |-> tag]
Limit(n, d) == [n |-> n, d |-> d]
(* The defaults, with exposure scaled down; every change significant; one that is refused. *)
Thresholds == {[cadence |-> Limit(3, 1), reliability |-> Limit(1, 10), exposure |-> Limit(2, 1), disputes |-> Limit(1, 1)],
               [d \in {"cadence", "reliability", "exposure", "disputes"} |-> Limit(0, 1)],
               [d \in {"cadence", "reliability", "exposure", "disputes"} |-> Limit(-1, 1)]}
PaidFacts ==
    {Fact("invoice_issued", at, "a", "i1", "KES", 5, 0, "") : at \in {0, 2}} \cup
    {Fact("payment_received", 1, "a", "i1", "KES", 3, 0, ""), Fact("payment_received", 9, "a", "i1", "KES", 2, 0, ""),
     Fact("payment_received", 2, "a", "null", "USD", 4, 0, ""), Fact("payment_received", 2, "b", "i1", "KES", 1, 0, ""),
     Fact("payment_received", 2, "a", "i1", "XXX", 1, 0, "")}
OwedFacts ==
    {Fact("receivable_opened", 0, "a", "r1", "KES", 5, 0, ""), Fact("receivable_opened", 2, "a", "r1", "KES", 3, 62, ""),
     Fact("receivable_opened", 2, "a", "r2", "KES", 3, 300, ""), Fact("allocation_applied", 2, "a", "r1", "KES", 3, 0, "")} \cup
    {Fact("receivable_settled", at, "a", "r1", "", 0, 0, "") : at \in {2, 62}}
SaidFacts ==
    {Fact("message_exchanged", 0, "a", "sms", "", 0, 0, "inbound"), Fact("message_exchanged", 1, "a", "call", "", 0, 0, "outbound"),
     Fact("consent_changed", 0, "a", "sms", "", 0, 0, "granted"), Fact("consent_changed", 1, "a", "sms", "", 0, 0, "revoked"),
     Fact("promise_outcome", 1, "a", "p1", "", 0, 0, "kept"), Fact("promise_outcome", 2, "a", "p2", "", 0, 0, "broken"),
     Fact("dispute_opened", 1, "a", "d1", "", 0, 0, ""), Fact("dispute_opened", 2, "a", "d2", "", 0, 0, ""),
     Fact("dispute_resolved", 2, "a", "d1", "", 0, 0, "")}
Paid == INSTANCE CustomerMemory WITH Arrivals <- PaidFacts, Moments <- {2, 9}, Limits <- Thresholds,
            CURRENCIES <- {"KES", "USD"}, DAY_MS <- 2, MAX_SAFE <- 7, MaxFacts <- 3, MaxKept <- 2, MaxTold <- 3,
            told <- notices
Owed == INSTANCE CustomerMemory WITH Arrivals <- OwedFacts, Moments <- {2, 62}, Limits <- Thresholds,
            CURRENCIES <- {"KES", "USD"}, DAY_MS <- 2, MAX_SAFE <- 7, MaxFacts <- 3, MaxKept <- 2, MaxTold <- 3,
            told <- notices
Said == INSTANCE CustomerMemory WITH Arrivals <- SaidFacts, Moments <- {2}, Limits <- Thresholds,
            CURRENCIES <- {}, DAY_MS <- 2, MAX_SAFE <- 7, MaxFacts <- 3, MaxKept <- 2, MaxTold <- 3, told <- notices

Seen(kind, id, channel, at, due, tag, amount) ==
    [kind |-> kind, id |-> id, ref |-> channel, at |-> at, due |-> due, tag |-> tag, amount |-> amount]
Payment(id, at, due, tag) == Seen("payment", id, "", at, due, tag, 1)
Pledge(id, at, due, tag) == Seen("promise", id, "", at, due, tag, 0)
Quarrel(id, at, resolved) == Seen("dispute", id, "", at, resolved, "", 0)
Message(id, channel, at, tag) == Seen("communication", id, channel, at, 0, tag, 0)
HabitFacts ==
    {Payment(1, 1, 0, "whole"), Payment(2, 2, 4, "partial"), Payment(3, 5, 0, "partial"), Payment(4, 5, 3, "whole"),
     Payment(5, 7, 1, "partial"), Payment(6, 6, 6, "whole"), Seen("allocation", 1, "", 2, 0, "", 5),
     Seen("allocation", 2, "", 5, 0, "", 4)}
(* Pledge 1 and quarrel 1 are projected twice; pledge 6 is malformed: pending, and decided. *)
WordFacts ==
    {Pledge(1, -1, 1, "pending"), Pledge(1, 4, 1, "broken"), Pledge(2, 2, 2, "kept"), Pledge(3, 3, 2, "kept"),
     Pledge(5, 3, 2, "expired"), Pledge(6, 4, 1, "pending"), Quarrel(1, 1, -1),
     Quarrel(1, 1, 5), Quarrel(2, 4, -1), Quarrel(3, 3, 3), Message(1, "sms", 5, "inbound"),
     Message(2, "call", 6, "outbound"), Payment(1, 6, 0, "whole")}
DriftFacts ==
    {Quarrel(1, 1, -1), Quarrel(1, 1, 5), Message(1, "sms", 3, "inbound"), Message(2, "call", 6, "outbound"),
     Pledge(2, 2, 2, "kept"), Pledge(3, 6, 2, "broken"), Payment(1, 1, 0, "whole"), Payment(2, 6, 2, "whole")}
(* The shape of the defaults with small numbers; thresholds out of order, refused. *)
SmallRules ==
    [cadenceWindowDays |-> 1, cadenceMinBaseline |-> 1, cadenceMinRecent |-> 1, cadenceTriggerDays |-> 1,
     cadenceMediumDays |-> 2, cadenceHighDays |-> 3, promiseMinStreak |-> 1, promiseStreakHigh |-> 2,
     partialWindowDays |-> 1, partialMinRate |-> 5000, partialRateIncrease |-> 5000, partialMinPayments |-> 1,
     silenceGraceDays |-> 1, silenceMediumDays |-> 2, silenceHighDays |-> 3, disputeWindowDays |-> 1,
     disputeSpikeMin |-> 1, disputeSpikeHigh |-> 2]
RuleSets == {SmallRules, [SmallRules EXCEPT !.cadenceTriggerDays = 2]}
(* The defaults, with cadence at a day; limits of zero, refused. *)
DriftLimits ==
    {[payment_cadence |-> 10000, promise_reliability |-> 1000, disputes |-> 10000, responsiveness |-> 1500],
     [payment_cadence |-> 0, promise_reliability |-> 0, disputes |-> 0, responsiveness |-> 0]}
Habits == INSTANCE Behavior WITH Customers <- {A}, Arrivals <- HabitFacts, Moments <- {4, 7}, Rules <- RuleSets,
              Limits <- DriftLimits, DAY_MS <- 2, MAX_SAFE <- 8, MaxFacts <- 3, MaxKept <- 1, MaxTold <- 2,
              facts <- history, told <- notices
Words == INSTANCE Behavior WITH Customers <- {A}, Arrivals <- WordFacts, Moments <- {4, 9}, Rules <- RuleSets,
             Limits <- DriftLimits, DAY_MS <- 2, MAX_SAFE <- 8, MaxFacts <- 3, MaxKept <- 1, MaxTold <- 1,
             facts <- history, told <- notices
Drift == INSTANCE Behavior WITH Customers <- {A}, Arrivals <- DriftFacts, Moments <- {4, 7}, Rules <- {},
             Limits <- DriftLimits, DAY_MS <- 2, MAX_SAFE <- 8, MaxFacts <- 3, MaxKept <- 2, MaxTold <- 3,
             facts <- history, told <- notices
Pair == INSTANCE Behavior WITH Customers <- {A, B}, Arrivals <- {Quarrel(1, 1, -1), Quarrel(1, 1, 5)}, Moments <- {4, 7},
            Rules <- {}, Limits <- DriftLimits, DAY_MS <- 2, MAX_SAFE <- 8, MaxFacts <- 2, MaxKept <- 2, MaxTold <- 3,
            facts <- history, told <- notices

MCInit == /\ part \in Parts /\ Init /\ Funds!Init /\ Lane!Init /\ Adjust!Init /\ Links!Init
          /\ plan = [strategy |-> "none"] /\ Kernel!Init
          /\ CASE part \in {"habits", "words", "drift"} -> Habits!Init
               [] part = "pair" -> Pair!Init
               [] OTHER -> Paid!Init
          /\ IF part = "transfer" THEN Transfer!Init ELSE IF part = "rates" THEN Rates!Init ELSE Fx!Init

MCNext ==
    /\ UNCHANGED part
    /\ \/ /\ part = "ceilings" /\ Next
          /\ UNCHANGED <<fundsVars, laneVars, adjustVars, linkVars, plan, call, abroadVars, memoryVars>>
       \/ /\ part = "serial" /\ Serial!Next /\ OneAtATime
          /\ UNCHANGED <<fundsVars, laneVars, adjustVars, linkVars, plan, call, abroadVars, memoryVars>>
       \/ /\ part = "funds" /\ Funds!Next
          /\ UNCHANGED <<ceilings, laneVars, adjustVars, linkVars, plan, call, abroadVars, memoryVars>>
       \/ /\ (part = "lane" /\ Lane!Next) \/ (part = "late" /\ Late!Next)
          /\ UNCHANGED <<ceilings, fundsVars, adjustVars, linkVars, plan, call, abroadVars, memoryVars>>
       \/ /\ (part = "adjust" /\ Adjust!Next) \/ (part = "repay" /\ Repay!Next)
          /\ UNCHANGED <<ceilings, fundsVars, laneVars, linkVars, plan, call, abroadVars, memoryVars>>
       \/ /\ part = "links" /\ Links!Next
          /\ UNCHANGED <<ceilings, fundsVars, laneVars, adjustVars, plan, call, abroadVars, memoryVars>>
       \/ /\ PlanNext
          /\ UNCHANGED <<ceilings, fundsVars, laneVars, adjustVars, linkVars, call, abroadVars, memoryVars>>
       \/ /\ call.op = "none"
          /\ \/ part = "money" /\ Kernel!Next
             \/ part = "text" /\ (Wide!ParseCall \/ Wide!StringCall)
             \/ part = "shares" /\ Shares!AllocateCall
          /\ UNCHANGED <<ceilings, fundsVars, laneVars, adjustVars, linkVars, plan, abroadVars, memoryVars>>
       \/ /\ \/ part = "transfer" /\ Transfer!Next
             \/ /\ part = "rates"
                /\ IF table = <<>> THEN \E rates \in RateTables : Rates!PublishRates(rates) ELSE Rates!Next
             \/ part = "fx" /\ posting = None /\ Fx!Settlement
          /\ UNCHANGED <<ceilings, fundsVars, laneVars, adjustVars, linkVars, plan, call, memoryVars>>
       \/ /\ \/ part = "paid" /\ Paid!Next
             \/ part = "owed" /\ Owed!Next
             \/ part = "said" /\ Said!Next
             \/ part = "habits" /\ Habits!Next
             \/ part = "words" /\ Words!Next
             \/ part = "drift" /\ Drift!Next
             \/ part = "pair" /\ Pair!Next
          /\ UNCHANGED <<ceilings, fundsVars, laneVars, adjustVars, linkVars, plan, call, abroadVars>>

MCSpec == MCInit /\ [][MCNext]_allVars

--------------------------------------------------------------------------------
(* Every ceiling the lanes are bound by, over their whole history.  The triggers of 0006  *)
(* and 0007 keep R2 and R6 when transactions do not overlap; a payment's rows and refunds *)
(* never exceed what landed (payment.ts); the debt's applied amount came from rows; a     *)
(* credit note gives away its total once (R7), the credit balance never pays out more     *)
(* than it took in, refunds stay within the payment (R6), a link takes money once per     *)
(* key, before its expiry, up to its target, a transfer abroad moves once, exactly what   *)
(* was quoted (intent.ts), and late fees are charged once a period, within their policy,  *)
(* also by the int64 port (late-fee.ts, latefee.go).                                      *)
MoneyIsConserved ==
    /\ TypeOK
    /\ part = "serial" => Serial!NoOverAllocation /\ Serial!RefundCeiling
    /\ part = "funds" => Funds!TypeOK /\ Funds!NothingSpentTwice /\ Funds!AppliedCameFromRows /\ Funds!ReversalsPairUp
    /\ part = "lane" => Lane!TypeOK /\ Lane!OneReceivablePerInvoice /\ Lane!StateTellsBalance
    /\ part = "late" => Late!FeesAreWarranted /\ Late!MarkerNamesNoMore /\ Late!PortNeverOvercharges
    /\ part = "adjust" => Adjust!TypeOK /\ Adjust!NoteStateTellsValue /\ Adjust!CreditBalanceCovered
    /\ part = "repay" => Repay!TypeOK /\ Repay!RefundsWithinCeiling
    /\ part = "links" => /\ Links!TypeOK /\ Links!OneIntentPerKey
                         /\ Links!TotalsTellCompletion /\ Links!TakenBeforeExpiry
    /\ part = "transfer" => Transfer!TypeOK /\ Transfer!OneMovementPerIntent /\ Transfer!MovesWhatWasQuoted

(* Money history is append-only (R3) in the database and in the domain's log, an ended    *)
(* debt, link or decision never changes again, and a failed refund is only sent again     *)
(* under a reference other than the one that failed last, the only one it keeps; a        *)
(* transfer abroad keeps the quote it was authorized with.                                *)
HistoryIsFinal ==
    /\ [][part = "transfer" => Transfer!FrozenStep]_abroadVars
    /\ AppendOnly /\ Funds!AppendOnly /\ Lane!DecisionsAreFinal /\ Links!TerminalLinkIsFinal /\ Repay!RetryUsesAnotherRef

LegOf(id) == Lanes!SumOf([i \in DOMAIN plan.out.value |->
                             IF plan.out.value[i].id = id THEN plan.out.value[i].amount ELSE 0])

(* strategies.ts, rules 1 to 3: positive legs, no receivable twice, no leg above its       *)
(* balance, no plan above its funds; all the money placed whenever the debt can absorb it  *)
(* and nobody declared a split; fifo pays the oldest debt in full before the next (H3);    *)
(* an explicit instruction is honoured to the cent, never capped.                          *)
StrategyContract ==
    LET legs == plan.out.value
        owed == Lanes!SumOf([i \in DOMAIN plan.views |-> plan.views[i].balance])
    IN  /\ \A i, j \in DOMAIN legs : legs[i].amount > 0 /\ (legs[i].id = legs[j].id => i = j)
        /\ \A i \in DOMAIN plan.views : LegOf(plan.views[i].id) <= plan.views[i].balance
        /\ Lanes!TotalOf(legs) <= plan.funds
        /\ plan.strategy # "explicit" => Lanes!TotalOf(legs) = IF plan.funds < owed THEN plan.funds ELSE owed
        /\ plan.strategy = "fifo" =>
              \A i, j \in DOMAIN plan.views :
                 LET a == plan.views[i]  b == plan.views[j]
                 IN  (a.due < b.due \/ (a.due = b.due /\ a.id < b.id)) /\ LegOf(b.id) > 0 => LegOf(a.id) = a.balance
        /\ plan.strategy = "explicit" =>
              /\ \A k \in DOMAIN plan.declared : LegOf(plan.declared[k].id) = plan.declared[k].amount
              /\ Lanes!TotalOf(legs) = Lanes!TotalOf(plan.declared)

(* Rule 4: the plan does not depend on the order the receivables are handed over in.     *)
Deterministic == plan.out = plan.again

(* The arithmetic over every small input: sums, differences and products exact or refused *)
(* (money.go), no operation across currencies (R10), printed amounts read back.  A split  *)
(* is by largest remainder; it places every cent when the weights are whole (`money`, and *)
(* every balance the pro-rata strategy splits by), and by fractional ones (`shares`, the  *)
(* rounding of money.ts:114) it creates or loses no more than the rounded weights differ  *)
(* from their rounded sum, where money.ts:99 promises none.  Every plan of the strategies *)
(* is inside its contract (strategies.ts rules 1 to 4): within balances and funds, the    *)
(* same for every order of the receivables, oldest first, an explicit split honoured or   *)
(* refused.  Gains and losses of an FX settlement balance, and a rate table accepted for  *)
(* quoting never has two rows in force (fx.ts, quote.ts).                                 *)
ArithmeticIsSound ==
    /\ part = "money" => Kernel!TypeOK /\ Kernel!ArithmeticIsExact
    /\ part \in {"money", "text"} => /\ Kernel!NoCrossCurrency /\ Kernel!CentsFollowWeights
                                     /\ Kernel!LargestRemainder /\ Kernel!PrintedMoneyParses
    /\ part = "shares" => Shares!TypeOK /\ Shares!CentsFollowWeights /\ Shares!LargestRemainder
    /\ part \in {"plans", "declared"} /\ plan.strategy # "none" => Deterministic /\ (plan.out.ok => StrategyContract)
    /\ part = "rates" => Rates!RatesAreUnambiguous
    /\ part = "fx" => Fx!GainLossBalances

(* What is said of a customer follows from the facts.  The claims of their memory rebuild *)
(* from the evidence they cite, add up, do not depend on the order facts with different   *)
(* times came in, and only real changes are told (claims.ts, diff.ts).  A profile is of   *)
(* its instant and its numbers are those of its facts, an anomaly is found again from the *)
(* facts it cites, silence only deepens, and drift is a comparison (profile.ts,           *)
(* anomaly.ts, drift.ts).                                                                 *)
ClaimsFollowFacts ==
    /\ part = "paid" => Paid!ClaimsRederive /\ Paid!PresentationIsNoise /\ Paid!ClaimsAddUp /\ Paid!ChangesAreReal
    /\ part = "owed" => Owed!ClaimsRederive /\ Owed!PresentationIsNoise /\ Owed!ClaimsAddUp /\ Owed!ChangesAreReal
    /\ part = "said" => Said!ClaimsRederive /\ Said!PresentationIsNoise /\ Said!ClaimsAddUp /\ Said!ChangesAreReal
    /\ part \in {"paid", "owed", "said"} => Paid!EvidenceIsOwn
    /\ part = "habits" => Habits!TypeOK /\ Habits!ProfileIsOfItsTime /\ Habits!ProfileAddsUp /\ Habits!OrderIsNoise
                          /\ Habits!EvidenceSuffices /\ Habits!EventsTell /\ Habits!WatchIsOfItsTime
    /\ part = "words" => Words!TypeOK /\ Words!ProfileIsOfItsTime /\ Words!ProfileAddsUp /\ Words!OrderIsNoise
                         /\ Words!EvidenceSuffices /\ Words!SilenceDeepens /\ Words!WatchIsOfItsTime
    /\ part = "drift" => Drift!DriftIsComparison /\ Drift!ProfileAddsUp /\ Drift!EventsTell
    /\ part = "pair" => Pair!TypeOK /\ Pair!DriftIsComparison /\ Pair!EventsTell
================================================================================
