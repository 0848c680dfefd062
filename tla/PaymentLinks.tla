------------------------------ MODULE PaymentLinks ------------------------------
(***************************************************************************)
(* The payment-link lane (src/domain/paymentlinks): links resolved by      *)
(* token, redeemed under an idempotency key, expired by the clock, disabled *)
(* and cancelled by an administrator.  `links` and `redemptions` are the    *)
(* collections a caller keeps and passes to `redeem`.  One currency.        *)
(***************************************************************************)
EXTENDS Integers, FiniteSets, FiniteSetsExt, SequencesExt

CONSTANTS Tokens,      \* what the token generator returns
          Keys,        \* idempotency keys
          MaxAmount,   \* bound on amounts
          MaxTime,     \* bound on the clock
          MaxLinks,    \* bound on the links created
          None         \* an absent target, bound or expiry

VARIABLES links,        \* sequence of links in order of creation
          redemptions,  \* set of redemption records
          answers,      \* every answer `redeem` gave: [link, key, intent, amount]
          now

vars == <<links, redemptions, answers, now>>

LinkAmounts == 1..MaxAmount
LINK_TERMINAL_STATES == {"expired", "completed", "disabled", "cancelled"}
OrNone(S) == S \cup {None}

Init == /\ links = <<>> /\ redemptions = {} /\ answers = {} /\ now = 0

--------------------------------------------------------------------------------
effectiveStatus(link, t) ==
    IF link.status = "active" /\ link.expiresAt # None /\ t >= link.expiresAt
    THEN "expired" ELSE link.status

remainingTargetMinor(link) == link.target - link.redeemedTotal

(* assertAmount: exact, within the remaining target, or within the open bounds. *)
assertAmount(link, amount) ==
    IF link.target # None
    THEN IF link.allowPartial THEN amount <= remainingTargetMinor(link)
                              ELSE amount = remainingTargetMinor(link)
    ELSE /\ link.min # None => amount >= link.min
         /\ link.max # None => amount <= link.max

mayCreate(cmd) ==
    /\ ~ (cmd.target # None /\ (cmd.min # None \/ cmd.max # None))
    /\ (cmd.min # None /\ cmd.max # None) => cmd.min <= cmd.max
    /\ cmd.expiresAt # None => cmd.expiresAt > now

createLink(token, cmd) ==
    /\ Len(links) < MaxLinks /\ mayCreate(cmd)
    /\ links' = Append(links, [token |-> token, target |-> cmd.target, min |-> cmd.min, max |-> cmd.max,
                               singleUse |-> cmd.singleUse, allowPartial |-> cmd.allowPartial,
                               expiresAt |-> cmd.expiresAt, status |-> "active",
                               redeemedTotal |-> 0, redemptionCount |-> 0])
    /\ UNCHANGED <<redemptions, answers, now>>

(* The link after an accepted redemption. *)
redeemed(link, amount) ==
    LET total == link.redeemedTotal + amount
        targetMet == link.target # None /\ total = link.target
    IN  [link EXCEPT !.redeemedTotal = total, !.redemptionCount = @ + 1,
                     !.status = IF link.singleUse \/ targetMet THEN "completed" ELSE "active"]

(* `find` by token: the first link that carries it. *)
byToken(token) == LET at == {i \in DOMAIN links : links[i].token = token} IN IF at = {} THEN 0 ELSE Min(at)

priors(i, key) == {r \in redemptions : r.link = i /\ r.key = key}

(* A prior redemption of the key answers first, whatever the link has become; the same   *)
(* key with another amount is refused.                                                   *)
redeem(token, key, amount) ==
    LET i == byToken(token)
        prior == priors(i, key)
        record == [link |-> i, key |-> key, amount |-> amount, intent |-> <<i, key>>, at |-> now]
    IN  /\ i # 0
        /\ \/ /\ \E p \in prior : p.amount = amount /\ answers' = answers \cup {p}
              /\ UNCHANGED <<links, redemptions>>
           \/ /\ prior = {} /\ effectiveStatus(links[i], now) = "active" /\ assertAmount(links[i], amount)
              /\ links' = [links EXCEPT ![i] = redeemed(links[i], amount)]
              /\ redemptions' = redemptions \cup {record} /\ answers' = answers \cup {record}
        /\ UNCHANGED now

expireIfDue(i) ==
    /\ links[i].status = "active" /\ links[i].expiresAt # None /\ now >= links[i].expiresAt
    /\ links' = [links EXCEPT ![i].status = "expired"]
    /\ UNCHANGED <<redemptions, answers, now>>

(* disableLink, cancelLink: assertActive reads the stored status. *)
stopped(i, status) == links[i].status = "active" /\ links' = [links EXCEPT ![i].status = status]

disableLink(i) == stopped(i, "disabled") /\ UNCHANGED <<redemptions, answers, now>>
cancelLink(i) == stopped(i, "cancelled") /\ UNCHANGED <<redemptions, answers, now>>

Tick == now < MaxTime /\ now' = now + 1 /\ UNCHANGED <<links, redemptions, answers>>

Commands == [target: OrNone(LinkAmounts), min: OrNone({1}), max: OrNone({1}), singleUse: BOOLEAN,
             allowPartial: BOOLEAN, expiresAt: OrNone(1..MaxTime)]

Next ==
    \/ \E token \in Tokens, cmd \in Commands : createLink(token, cmd)
    \/ \E token \in Tokens, key \in Keys, a \in LinkAmounts : redeem(token, key, a)
    \/ \E i \in DOMAIN links : expireIfDue(i) \/ disableLink(i) \/ cancelLink(i)
    \/ Tick

Spec == Init /\ [][Next]_vars

--------------------------------------------------------------------------------
Of(i) == {r \in redemptions : r.link = i}
Collected(i) == FoldSet(LAMBDA r, acc : r.amount + acc, 0, Of(i))

(* Types of the collections; what remains of a fixed target is an amount. *)
TypeOK ==
    /\ \A i \in DOMAIN links :
          /\ links[i].status \in LINK_TERMINAL_STATES \cup {"active"}
          /\ links[i].redeemedTotal \in Nat /\ links[i].redemptionCount \in Nat
          /\ links[i].target # None => remainingTargetMinor(links[i]) \in Nat
    /\ \A r \in redemptions : r.link \in DOMAIN links /\ r.amount \in LinkAmounts /\ r.key \in Keys
    /\ answers \subseteq redemptions /\ now \in 0..MaxTime

(* redeem.ts "a duplicate is the SAME logical redemption": whatever retries    *)
(* are made and whatever became of the link meanwhile, the answers a caller    *)
(* gets for one (link, key) all carry one intent and one amount.               *)
OneIntentPerKey ==
    \A a, b \in answers : (a.link = b.link /\ a.key = b.key) => a = b

(* redeem.ts, Completion: the running total is the sum of the redemptions, a   *)
(* single use is consumed once, and a link is completed exactly when its       *)
(* target is met or its single use consumed.                                   *)
TotalsTellCompletion ==
    \A i \in DOMAIN links : LET l == links[i] IN
        /\ l.redeemedTotal = Collected(i) /\ l.redemptionCount = Cardinality(Of(i))
        /\ l.singleUse => l.redemptionCount <= 1
        /\ l.status = "completed" <=>
              (l.singleUse /\ l.redemptionCount = 1) \/ (l.target # None /\ l.redeemedTotal = l.target)

(* effectiveStatus, "redeemable strictly BEFORE": money is only taken before   *)
(* the expiry instant, whether or not the sweeper has run.                     *)
TakenBeforeExpiry ==
    \A r \in redemptions : links[r.link].expiresAt # None => r.at < links[r.link].expiresAt

(* LINK_TERMINAL_STATES: a link that reached one never changes again, under    *)
(* any order of retries, sweeps and administrator actions.                     *)
TerminalLinkIsFinal ==
    [][\A i \in DOMAIN links : links[i].status \in LINK_TERMINAL_STATES => links'[i] = links[i]]_vars

================================================================================
