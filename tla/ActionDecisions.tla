---------------------------- MODULE ActionDecisions ----------------------------
(***************************************************************************)
(* Who may do what next: the policy engine (src/src/domain/policy) and the *)
(* next-best-action ranking (src/src/domain/nba).  An org's rule set is    *)
(* versioned data; evaluate() turns one request into one decision by three *)
(* guards and then the first matching rule.  The ranking takes the policy's *)
(* decisions and the outcomes recorded so far, and scores eight actions.   *)
(***************************************************************************)
EXTENDS Integers, Sequences, SequencesExt, FiniteSets, FiniteSetsExt

CONSTANTS
    Requests,      \* ActionRequests put to the engine, malformed ones included
    RuleLists,     \* rule lists offered as the next version, invalid ones included
    DayLength,     \* minutes in a day (1440)
    Bundles,       \* feature bundles put to the ranking
    Verdicts,      \* policy decisions handed to the ranking: action -> decision
    Outcomes,      \* outcomes reported for a plan
    MaxVersions, MaxDecisions, MaxPlans, MaxReports, MaxTime     \* bounds

VARIABLES
    ruleSets,      \* the versions of the org's rule set, oldest first
    decided,       \* policy.decisionRecorded: request, instant, version and decision
    plans,         \* ranked plans
    facts,         \* ActionOutcomeFacts
    reports,       \* outcomes reported, duplicates included
    clock

vars == <<ruleSets, decided, plans, facts, reports, clock>>

--------------------------------------------------------------------------------
\* The request (policy/request.ts).

ACTOR_TYPES == {"human", "ai_agent", "integration"}
ACTION_TYPES == {"send_reminder", "send_whatsapp", "send_sms", "offer_payment_plan", "issue_payment_link",
                 "escalate", "write_off", "refund", "collect_now_stk_push"}
CONTACT_ACTION_TYPES == {"send_reminder", "send_whatsapp", "send_sms"}
AMOUNT_REQUIRED_ACTION_TYPES == {"write_off", "refund"}
RISK_CLASSES == {"low", "elevated", "high"}
CHANNELS == {"email", "sms", "whatsapp"}
NoChannel == "null"
NoAmount == -1

IMPLIED_CHANNEL(actionType) ==
    CASE actionType = "send_whatsapp" -> "whatsapp" [] actionType = "send_sms" -> "sms" [] OTHER -> NoChannel

ActionRequest(actor, autonomous, actionType, amount, risk, channel, consent, dispute) ==
    [actor |-> actor, autonomous |-> autonomous, actionType |-> actionType, amountMinor |-> amount,
     currency |-> IF amount = NoAmount THEN "null" ELSE "KES", riskClass |-> risk, channel |-> channel,
     consentPresent |-> consent, disputeOpen |-> dispute, promisePending |-> FALSE]

effectiveChannel(r) == IF r.channel # NoChannel THEN r.channel ELSE IMPLIED_CHANNEL(r.actionType)

\* The action type is not looked at: an unknown one is denied, not refused.
assertActionRequest(r) ==
    /\ r.actor \in ACTOR_TYPES
    /\ ~(r.actor = "human" /\ r.autonomous)
    /\ (r.amountMinor # NoAmount) <=> (r.currency # "null")
    /\ r.amountMinor >= NoAmount
    /\ r.riskClass \in RISK_CLASSES
    /\ r.channel \in CHANNELS \cup {NoChannel}
    /\ {r.consentPresent, r.disputeOpen, r.promisePending, r.autonomous} \subseteq BOOLEAN

--------------------------------------------------------------------------------
\* Rules and rule sets (policy/rules.ts).

BooleanFields == {"consentPresent", "disputeOpen", "promisePending", "autonomous"}
NumericFields == {"amountMinor", "minuteOfDayUtc", "dayOfWeekUtc"}
NullableFields == {"channel", "amountMinor"}
POLICY_FIELDS == BooleanFields \cup NumericFields \cup {"actionType", "actorType", "riskClass", "channel"}
OrderingOps == {"gt", "gte", "lt", "lte"}
NullaryOps == {"is_true", "is_false", "present", "absent"}
POLICY_OPERATORS == OrderingOps \cup NullaryOps \cup {"eq", "ne", "in", "not_in"}

InDomain(field, v) ==
    CASE field = "actionType" -> v \in ACTION_TYPES
      [] field = "actorType" -> v \in ACTOR_TYPES
      [] field = "riskClass" -> v \in RISK_CLASSES
      [] field = "channel" -> v \in CHANNELS
      [] field = "amountMinor" -> v >= 0
      [] field = "minuteOfDayUtc" -> v \in 0..(DayLength - 1)
      [] field = "dayOfWeekUtc" -> v \in 0..6
      [] OTHER -> v \in BOOLEAN

\* The operand is a set: one value, the members of in / not_in, or none.
Cond(field, op, value) == [field |-> field, op |-> op, value |-> value]

FactOf(field, r, now) ==
    CASE field = "actorType" -> r.actor
      [] field = "channel" -> effectiveChannel(r)
      [] field = "minuteOfDayUtc" -> now % DayLength
      [] field = "dayOfWeekUtc" -> (now \div DayLength) % 7
      [] OTHER -> r[field]

conditionMatches(c, r, now) ==
    LET actual == FactOf(c.field, r, now)
        null == c.field \in NullableFields /\ actual = (IF c.field = "channel" THEN NoChannel ELSE NoAmount)
    IN IF null THEN c.op = "absent"
       ELSE \/ c.op = "present"
            \/ c.op = "is_true" /\ actual = TRUE
            \/ c.op = "is_false" /\ actual = FALSE
            \/ c.op \in {"eq", "in"} /\ actual \in c.value
            \/ c.op \in {"ne", "not_in"} /\ actual \notin c.value
            \/ c.op = "gt" /\ \A v \in c.value : actual > v
            \/ c.op = "gte" /\ \A v \in c.value : actual >= v
            \/ c.op = "lt" /\ \A v \in c.value : actual < v
            \/ c.op = "lte" /\ \A v \in c.value : actual <= v

assertValidCondition(c) ==
    /\ c.field \in POLICY_FIELDS /\ c.op \in POLICY_OPERATORS
    /\ c.op \in {"is_true", "is_false"} => c.field \in BooleanFields
    /\ IF c.op \in NullaryOps
       THEN (c.op \in {"present", "absent"} => c.field \in NullableFields) /\ c.value = {}
       ELSE /\ c.value # {} /\ \A v \in c.value : InDomain(c.field, v)
            /\ c.op \in OrderingOps => c.field \in NumericFields
            /\ c.op \notin {"in", "not_in"} => Cardinality(c.value) = 1

NoGrants == [keys |-> {}, maxAmountMinor |-> 0, allowedChannels |-> CHANNELS]

assertValidGrant(g) ==
    /\ g.keys \subseteq {"maxAmountMinor", "allowedChannels", "expiresAt"}
    /\ g.maxAmountMinor >= 0
    /\ g.allowedChannels # {} /\ g.allowedChannels \subseteq CHANNELS

Rule(id, priority, actionType, decision, conditions) ==
    [id |-> id, priority |-> priority, actionType |-> actionType, decision |-> decision,
     conditions |-> conditions, grants |-> NoGrants]

assertValidRule(rule) ==
    /\ rule.id # "" /\ rule.priority >= 0
    /\ rule.actionType \in ACTION_TYPES \cup {"any"}
    /\ rule.decision \in {"allow", "deny", "requires_approval"}
    /\ \A i \in DOMAIN rule.conditions : assertValidCondition(rule.conditions[i])
    /\ rule.grants # NoGrants => rule.decision # "deny" /\ assertValidGrant(rule.grants)

ByPriority(rules) == SortSeq(rules, LAMBDA a, b : a.priority < b.priority)

\* Ids and priorities are unique, so the evaluation order is total.
validateRuleSet(rules) ==
    /\ \A i \in DOMAIN rules : assertValidRule(rules[i])
    /\ \A i, j \in DOMAIN rules : i # j => rules[i].id # rules[j].id /\ rules[i].priority # rules[j].priority

createRuleSet(version, rules) == [version |-> version, rules |-> ByPriority(rules)]

WriteOffThreshold == 10000000
RefundThreshold == 5000000

DEFAULT_RULES == <<
    Rule("dispute", 10, "any", "deny", <<Cond("disputeOpen", "is_true", {}), Cond("autonomous", "is_true", {})>>),
    Rule("consent", 20, "any", "deny", <<Cond("actionType", "in", CONTACT_ACTION_TYPES),
                                         Cond("autonomous", "is_true", {}), Cond("consentPresent", "is_false", {})>>),
    Rule("channel", 30, "any", "deny", <<Cond("actionType", "in", CONTACT_ACTION_TYPES),
                                         Cond("autonomous", "is_true", {}), Cond("channel", "absent", {})>>),
    Rule("writeOff", 100, "write_off", "requires_approval", <<Cond("amountMinor", "gt", {WriteOffThreshold})>>),
    Rule("refund", 101, "refund", "requires_approval", <<Cond("amountMinor", "gt", {RefundThreshold})>>),
    Rule("risk", 120, "any", "requires_approval", <<Cond("autonomous", "is_true", {}),
                                                    Cond("riskClass", "in", {"elevated", "high"})>>),
    Rule("supervised", 900, "any", "allow", <<Cond("autonomous", "is_false", {})>>),
    Rule("lowRisk", 950, "any", "allow", <<Cond("autonomous", "is_true", {}), Cond("riskClass", "eq", {"low"})>>)>>

defaultRuleSetFor == createRuleSet(1, DEFAULT_RULES)

--------------------------------------------------------------------------------
\* The engine (policy/engine.ts).

actionRequiresAmount(actionType) == actionType \in AMOUNT_REQUIRED_ACTION_TYPES

ruleMatches(rule, r, now) ==
    /\ rule.actionType \in {"any", r.actionType}
    /\ \A i \in DOMAIN rule.conditions : conditionMatches(rule.conditions[i], r, now)

Decided(decision, reason, grants) == [decision |-> decision, reason |-> reason, grants |-> grants]

\* First match wins over the rules the engine sorts again.
ByRules(r, set, now) ==
    LET ordered == ByPriority(set.rules)
        matches == {i \in DOMAIN ordered : ruleMatches(ordered[i], r, now)}
    IN IF matches = {} THEN Decided("deny", "POLICY_NO_RULE_MATCHED", NoGrants)
       ELSE LET rule == ordered[Min(matches)]
            IN Decided(rule.decision, rule.id, IF rule.decision = "deny" THEN NoGrants ELSE rule.grants)

UnguardedEvaluate(r, set, now) == ByRules(r, set, now)

evaluate(r, set, now) ==
    IF r.actionType \notin ACTION_TYPES THEN Decided("deny", "POLICY_ACTION_UNKNOWN", NoGrants)
    ELSE IF actionRequiresAmount(r.actionType) /\ r.amountMinor = NoAmount
    THEN Decided("deny", "POLICY_AMOUNT_REQUIRED", NoGrants)
    ELSE IF r.channel # NoChannel /\ IMPLIED_CHANNEL(r.actionType) \notin {NoChannel, r.channel}
    THEN Decided("deny", "POLICY_CHANNEL_ACTION_MISMATCH", NoGrants)
    ELSE ByRules(r, set, now)

--------------------------------------------------------------------------------
\* The ranking (nba/rank.ts).

NBA_ACTIONS == <<"call", "whatsapp", "sms", "offer_payment_plan", "send_payment_link", "human_review",
                 "escalate", "do_nothing">>
NBA_CUSTOMER_FACING_ACTIONS == {"call", "whatsapp", "sms", "offer_payment_plan", "send_payment_link"}
NBA_OUTCOMES == {"paid", "partial", "promise_made", "no_response", "escalated", "opted_out"}

PerAction(values) == [a \in ToSet(NBA_ACTIONS) |-> values[CHOOSE i \in 1..8 : NBA_ACTIONS[i] = a]]

DEFAULT_NBA_WEIGHTS ==
    [recoveryRateBps |-> PerAction(<<3500, 2500, 1500, 3000, 2500, 1500, 2000, 0>>),
     costMinor |-> PerAction(<<5000, 500, 300, 2000, 200, 10000, 4000, 0>>),
     fatiguePenaltyMinor |-> PerAction(<<3000, 1000, 800, 1500, 500, 0, 0, 0>>),
     fatigueWindowDays |-> 14, optedIn |-> 1000, neutral |-> 600, optedOut |-> 0, approvalFrictionMinor |-> 2500]
\* do_nothing has no cap: more than any bundle can hold.
DEFAULT_ACTION_CAPS == PerAction(<<3, 3, 3, 1, 2, 2, 1, 1000>>)

scaleBy(amount, rate, divisor) == (amount \div divisor) * rate + ((amount % divisor) * rate) \div divisor

RISK_BPS == [low |-> 11000, moderate |-> 10000, elevated |-> 8500, high |-> 6500]
HUMAN_REVIEW_RISK_BPS == [low |-> 8000, moderate |-> 10000, elevated |-> 12000, high |-> 14000]

escalateAgeBps(age) == IF age >= 60 THEN 15000 ELSE IF age >= 30 THEN 12000 ELSE 5000
ageDecayBps(age) == Max({4000, 10000 - 100 * age})

promiseBps(b) ==
    CASE b.promise = "fulfilled" -> 11000
      [] b.promise = "broken" -> 12000
      [] b.promise = "pending" -> 2500 + (7500 * (1000 - b.reliabilityPermill)) \div 1000
      [] OTHER -> 10000

historyBps(b) ==
    LET total == b.onTime + b.late + b.unpaid IN IF total = 0 THEN 10000 ELSE 4000 + (9000 * b.onTime) \div total

foldBps(factors) == FoldSeq(LAMBDA f, acc : (acc * f) \div 10000, 10000, factors)

priorOutcomesOf(fs) == {[action |-> fs[i].action, outcome |-> fs[i].outcome] : i \in DOMAIN fs}
customerOptedOut(prior) == \E o \in prior : o.outcome = "opted_out"

signalFactorsOf(b, prior, action) ==
    IF action \in NBA_CUSTOMER_FACING_ACTIONS
    THEN <<historyBps(b), RISK_BPS[b.riskClass], promiseBps(b), IF b.disputeOpen THEN 3000 ELSE 10000,
           ageDecayBps(b.ageDays), IF customerOptedOut(prior) THEN 0 ELSE 10000>>
    ELSE IF action = "human_review"
    THEN <<IF b.disputeOpen THEN 15000 ELSE 10000, HUMAN_REVIEW_RISK_BPS[b.riskClass]>>
    ELSE IF action = "escalate"
    THEN <<IF b.disputeOpen THEN 8000 ELSE 10000, escalateAgeBps(b.ageDays)>>
    ELSE <<>>

fitOf(preference, w) ==
    CASE preference = "opted_in" -> w.optedIn [] preference = "opted_out" -> w.optedOut [] OTHER -> w.neutral

channelFitPermillOf(b, action, w) ==
    CASE action \in {"call", "whatsapp", "sms"} -> fitOf(b.prefs[action], w)
      [] action \in {"offer_payment_plan", "send_payment_link"} ->
             Max({fitOf(b.prefs["whatsapp"], w), fitOf(b.prefs["sms"], w)})
      [] OTHER -> 1000

fatigueCount(b, action, w) ==
    Cardinality({i \in DOMAIN b.recent : /\ action # "do_nothing" /\ b.recent[i].action = action
                                         /\ b.recent[i].daysAgo <= w.fatigueWindowDays})

\* verdict: action -> "allow" | "deny" | "requires_approval", or "silent" where policy said nothing.
Candidate(b, prior, verdict, action) ==
    LET w == DEFAULT_NBA_WEIGHTS
        expected == scaleBy(scaleBy(b.amountMinor, w.recoveryRateBps[action], 10000),
                            foldBps(signalFactorsOf(b, prior, action)), 10000)
        weighted == scaleBy(expected, channelFitPermillOf(b, action, w), 1000)
        fatigue == fatigueCount(b, action, w)
        friction == IF verdict[action] = "requires_approval" THEN w.approvalFrictionMinor ELSE 0
        status == IF verdict[action] = "deny" THEN "denied"
                  ELSE IF fatigue >= DEFAULT_ACTION_CAPS[action] THEN "fatigue_capped"
                  ELSE IF verdict[action] = "requires_approval" THEN "requires_approval"
                  ELSE "eligible"
    IN [action |-> action, status |-> status,
        score |-> weighted - w.costMinor[action] - friction - fatigue * w.fatiguePenaltyMinor[action]]

Runnable(c) == c.status \in {"eligible", "requires_approval"}
Nobody == [action |-> "none", status |-> "none", score |-> 0]

\* Best score first, ties in the order of NBA_ACTIONS.
Ranked(b, prior, verdict) ==
    LET scored == [i \in 1..8 |-> [c |-> Candidate(b, prior, verdict, NBA_ACTIONS[i]), i |-> i]]
        sorted == SortSeq(scored, LAMBDA x, y : x.c.score > y.c.score \/ (x.c.score = y.c.score /\ x.i < y.i))
    IN [i \in 1..8 |-> sorted[i].c]

Recommended(ranked) ==
    LET runnable == {i \in DOMAIN ranked : Runnable(ranked[i])}
    IN IF runnable = {} THEN Nobody ELSE ranked[Min(runnable)]

validateNbaFeatureBundle(b) ==
    /\ b.amountMinor >= 0 /\ b.ageDays >= 0 /\ b.onTime >= 0 /\ b.late >= 0 /\ b.unpaid >= 0
    /\ b.riskClass \in DOMAIN RISK_BPS
    /\ b.promise \in {"none", "pending", "broken", "fulfilled"} /\ b.reliabilityPermill \in 0..1000
    /\ \A i \in DOMAIN b.recent : b.recent[i].action \in ToSet(NBA_ACTIONS) /\ b.recent[i].daysAgo >= 0

assertPolicyDecisions(verdict) ==
    \A a \in ToSet(NBA_ACTIONS) : verdict[a] \in {"allow", "deny", "requires_approval", "silent"}

\* The seed of the plan's id: neither the signals nor the policy decisions are in it.
planIdOf(b, now) == <<b.amountMinor, now>>

\* Counts per action and outcome, and the success rate (nba/feedback.ts).
actionEffectiveness(fs, action) ==
    LET mine == {i \in DOMAIN fs : fs[i].action = action}
        byOutcome == [o \in NBA_OUTCOMES |-> Cardinality({i \in mine : fs[i].outcome = o})]
        success == byOutcome["paid"] + byOutcome["partial"] + byOutcome["promise_made"]
        total == Cardinality(mine)
    IN [total |-> total, byOutcome |-> byOutcome, successCount |-> success,
        successRatePermill |-> IF total = 0 THEN 0 ELSE (1000 * success) \div total]

--------------------------------------------------------------------------------
Init ==
    /\ ruleSets = <<defaultRuleSetFor>>
    /\ decided = <<>> /\ plans = <<>> /\ facts = <<>> /\ reports = 0 /\ clock = 0

Tick == clock < MaxTime /\ clock' = clock + 1 /\ UNCHANGED <<ruleSets, decided, plans, facts, reports>>

\* nextVersion: a new rule set of the version after the current one; the old one stays as it was.
nextVersion(rules) ==
    /\ Len(ruleSets) < MaxVersions /\ validateRuleSet(rules)
    /\ ruleSets' = Append(ruleSets, createRuleSet(Last(ruleSets).version + 1, rules))
    /\ UNCHANGED <<decided, plans, facts, reports, clock>>

\* evaluate() under the version the caller holds, which need not be the newest; every decision is recorded.
Evaluate(r, version) ==
    /\ Len(decided) < MaxDecisions /\ assertActionRequest(r)
    /\ decided' = Append(decided, [request |-> r, at |-> clock, version |-> ruleSets[version].version,
                                   decision |-> evaluate(r, ruleSets[version], clock)])
    /\ UNCHANGED <<ruleSets, plans, facts, reports, clock>>

\* rankNextBestActions with what the facts say so far as prior outcomes.
rankNextBestActions(b, verdict) ==
    /\ Len(plans) < MaxPlans /\ validateNbaFeatureBundle(b) /\ assertPolicyDecisions(verdict)
    /\ LET ranked == Ranked(b, priorOutcomesOf(facts), verdict)
       IN plans' = Append(plans, [planId |-> planIdOf(b, clock), ranked |-> ranked, recommended |-> Recommended(ranked),
                                  optedOut |-> customerOptedOut(priorOutcomesOf(facts)), verdict |-> verdict, bundle |-> b])
    /\ UNCHANGED <<ruleSets, decided, facts, reports, clock>>

\* recordOutcome: one fact per plan and outcome; a repetition is observed and adds none.
recordOutcome(plan, outcome) ==
    /\ reports < MaxReports /\ reports' = reports + 1
    /\ plan.recommended # Nobody
    /\ facts' = IF \E i \in DOMAIN facts : facts[i].planId = plan.planId /\ facts[i].outcome = outcome
                THEN facts
                ELSE Append(facts, [planId |-> plan.planId, action |-> plan.recommended.action, outcome |-> outcome])
    /\ UNCHANGED <<ruleSets, decided, plans, clock>>

Next ==
    \/ Tick
    \/ \E rules \in ToSet(RuleLists) : nextVersion(rules)
    \/ \E r \in Requests, version \in DOMAIN ruleSets : Evaluate(r, version)
    \/ \E b \in Bundles, verdict \in Verdicts : rankNextBestActions(b, verdict)
    \/ \E i \in DOMAIN plans, outcome \in Outcomes : recordOutcome(plans[i], outcome)

Spec == Init /\ [][Next]_vars

--------------------------------------------------------------------------------
(* Whatever rules an org installs, the engine's guards come first: an unknown action, a    *)
(* money-losing action without an amount and a channel that contradicts the action are     *)
(* denied, and a denial carries no grant (engine.ts, pre-guards and conditions).           *)
GuardsPrecedeRules ==
    \A v \in DOMAIN ruleSets : \A r \in {q \in Requests : assertActionRequest(q)} :
        LET d == evaluate(r, ruleSets[v], clock)
        IN /\ \/ r.actionType \notin ACTION_TYPES
              \/ actionRequiresAmount(r.actionType) /\ r.amountMinor = NoAmount
              \/ r.actionType = "send_whatsapp" /\ r.channel \in {"sms", "email"}
              \/ r.actionType = "send_sms" /\ r.channel \in {"whatsapp", "email"}
              => d.decision = "deny"
           /\ d.decision = "deny" => d.grants = NoGrants

(* The default rule set, through its first-match order, allows an autonomous action only   *)
(* on a low-risk subject out of dispute, with consent and a channel when it contacts the   *)
(* customer, and nobody loses money above the thresholds without approval (DEFAULT_RULES). *)
DefaultIsSafe ==
    \A r \in {q \in Requests : assertActionRequest(q)} :
        evaluate(r, defaultRuleSetFor, clock).decision = "allow" =>
            /\ r.autonomous => /\ ~r.disputeOpen /\ r.riskClass = "low"
                               /\ r.actionType \in CONTACT_ACTION_TYPES =>
                                      r.consentPresent /\ effectiveChannel(r) # NoChannel
            /\ r.actionType = "write_off" => r.amountMinor <= WriteOffThreshold
            /\ r.actionType = "refund" => r.amountMinor <= RefundThreshold

(* Replay: the version and instant a recorded decision names give the same decision again, *)
(* however many versions were installed since (engine.ts: "deterministic replay").         *)
DecisionsReplay ==
    \A i \in DOMAIN decided :
        \E v \in DOMAIN ruleSets :
            /\ ruleSets[v].version = decided[i].version
            /\ evaluate(decided[i].request, ruleSets[v], decided[i].at) = decided[i].decision

(* The ranking never recommends what policy denied or a cap exhausted, never recommends    *)
(* below zero while doing nothing is allowed, and once an opt-out was recorded every       *)
(* action that faces the customer ranks below doing nothing (rank.ts, feedback.ts).        *)
RecommendationIsAllowed ==
    \A i \in DOMAIN plans :
        LET best == plans[i].recommended
            free == plans[i].verdict["do_nothing"] \in {"allow", "silent"}
        IN /\ best # Nobody => /\ plans[i].verdict[best.action] # "deny"
                               /\ fatigueCount(plans[i].bundle, best.action, DEFAULT_NBA_WEIGHTS)
                                      < DEFAULT_ACTION_CAPS[best.action]
           /\ free => best # Nobody /\ best.score >= 0
           /\ plans[i].optedOut => \A j \in 1..8 : plans[i].ranked[j].action \in NBA_CUSTOMER_FACING_ACTIONS =>
                                                    plans[i].ranked[j].score < 0
           /\ best # Nobody => \A j \in 1..8 : Runnable(plans[i].ranked[j]) => plans[i].ranked[j].score <= best.score

(* An outcome counts once per plan however often it is reported, it counts for the action  *)
(* a plan of that id recommended, and the effectiveness figures add up to the facts        *)
(* (recordOutcome, actionEffectiveness).                                                   *)
OutcomesCountOnce ==
    /\ \A i, j \in DOMAIN facts : i # j => <<facts[i].planId, facts[i].outcome>> # <<facts[j].planId, facts[j].outcome>>
    /\ \A i \in DOMAIN facts : \E p \in DOMAIN plans :
           plans[p].planId = facts[i].planId /\ plans[p].recommended.action = facts[i].action
    /\ LET rows == [a \in ToSet(NBA_ACTIONS) |-> actionEffectiveness(facts, a)]
       IN /\ MapThenSumSet(LAMBDA a : MapThenSumSet(LAMBDA o : rows[a].byOutcome[o], NBA_OUTCOMES),
                           ToSet(NBA_ACTIONS)) = Len(facts)
          /\ \A a \in ToSet(NBA_ACTIONS) : rows[a].successRatePermill \in 0..1000
================================================================================
