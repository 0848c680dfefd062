------------------------------ MODULE StkAttempt -------------------------------
(***************************************************************************)
(* The collect-now STK push lane of the domain kernel                      *)
(* (src/domain/collections/stk): attempts are proposed, gated by consent   *)
(* and policy, approved, pushed to the handset, reconciled with the rail's *)
(* result callback through payment intake, or timed out.  The lane is pure *)
(* code; its callers, the rail and the clock interleave between calls.     *)
(***************************************************************************)
EXTENDS Naturals, Sequences

CONSTANTS Attempts,
          TTL,        \* ttlMs of every push
          MaxTime,    \* bound on the clock
          MaxGrants   \* bound on the consent registry

VARIABLES attempt,   \* StkPushAction: [state, policyRef, refusal, approval, initiation, payment, resolvedLate, timedOut]
          decision,  \* the PolicyDecision the gate returned for each attempt
          payments,  \* by checkout (one per attempt): what intake knows, and by which door it came
          rail,      \* the prompt on the customer's handset
          grants, now

vars == <<attempt, decision, payments, rail, grants, now>>

Nothing == "none"
Fresh == [state |-> "absent", policyRef |-> FALSE, refusal |-> Nothing, approval |-> FALSE,
          expiresAt |-> 0, payment |-> FALSE, resolvedLate |-> FALSE, timedOut |-> FALSE]
(* covers: maxAmountMinor and allowedChannels admit the push; expiresAt 0: none. *)
Decisions == [verdict : {"allow", "deny", "requires_approval"}, covers : BOOLEAN, expiresAt : 0..MaxTime]
NoPayment == [outcome |-> Nothing, door |-> Nothing]
NoDecision == [verdict |-> Nothing, covers |-> FALSE, expiresAt |-> 0]

(* The consent lane's functions; the lane keeps no words of the customer. *)
Consent == INSTANCE Consent WITH Customers <- {"customer"}, Channels <- {"sms"}, Purposes <- {"dunning"},
               MaxRows <- MaxGrants, registry <- grants, word <- <<>>

consented(at) == Consent!assertCanContact(grants, "customer", "sms", "dunning", at)

Init ==
    /\ attempt = [a \in Attempts |-> Fresh]
    /\ decision = [a \in Attempts |-> NoDecision]
    /\ payments = [a \in Attempts |-> NoPayment]
    /\ rail = [a \in Attempts |-> Nothing]
    /\ grants = <<>> /\ now = 1

--------------------------------------------------------------------------------
Tick == now < MaxTime /\ now' = now + 1 /\ UNCHANGED <<attempt, decision, payments, rail, grants>>

GrantConsent ==
    /\ Len(grants) < MaxGrants /\ Consent!mayGrant(grants, "customer", "sms", "dunning", now)
    /\ grants' = Append(grants, Consent!grantConsent(Len(grants) + 1, "customer", "sms", "dunning", now))
    /\ UNCHANGED <<attempt, decision, payments, rail, now>>

RevokeConsent(i, kept) ==
    /\ grants[i].revokedAt = 0 /\ (kept => Len(grants) < MaxGrants)
    /\ grants' = Consent!revocation(grants, i, now, kept)
    /\ UNCHANGED <<attempt, decision, payments, rail, now>>

proposeStkPush(a) ==
    /\ attempt[a].state = "absent"
    /\ attempt' = [attempt EXCEPT ![a].state = "proposed"]
    /\ UNCHANGED <<decision, payments, rail, grants, now>>

applyStkPolicyDecision(t, d) ==
    CASE d.verdict = "deny" -> [t EXCEPT !.state = "refused", !.policyRef = TRUE, !.refusal = "policy"]
      [] d.verdict = "requires_approval" -> [t EXCEPT !.state = "awaiting_approval", !.policyRef = TRUE]
      [] d.verdict = "allow" -> [t EXCEPT !.policyRef = TRUE]

(* The gate: consent is refused in any state, the engine's decision applies to proposed  *)
(* attempts only.                                                                        *)
gateStkPush(a) ==
    \/ /\ attempt[a].state # "absent" /\ consented(now) # "allowed"
       /\ attempt' = [attempt EXCEPT ![a].state = "refused", ![a].refusal = "consent"]
       /\ UNCHANGED <<decision, payments, rail, grants, now>>
    \/ /\ attempt[a].state = "proposed" /\ consented(now) = "allowed"
       /\ \E d \in Decisions :
             /\ attempt' = [attempt EXCEPT ![a] = applyStkPolicyDecision(@, d)]
             /\ decision' = [decision EXCEPT ![a] = d]
       /\ UNCHANGED <<payments, rail, grants, now>>

approveStkPush(a) ==
    /\ attempt[a].state = "awaiting_approval"
    /\ attempt' = [attempt EXCEPT ![a].state = "approved", ![a].approval = TRUE]
    /\ UNCHANGED <<decision, payments, rail, grants, now>>

assertClearance(d) == d.verdict = "allow" /\ d.covers /\ (d.expiresAt = 0 \/ now < d.expiresAt)

(* A proposed attempt needs a clearance; an approved one needs none. *)
mayInitiate(a, d) ==
    \/ attempt[a].state = "approved" /\ d = NoDecision
    \/ attempt[a].state \in {"proposed", "approved"} /\ d # NoDecision /\ assertClearance(d)

(* A caller hands initiation the attempt's own decision, or none. *)
Clearances(a) == {NoDecision, decision[a]}

(* The wire accepts: the idempotency key makes a repeated initiation the same prompt.    *)
(* A malformed echo throws after the prompt went out; a rejection changes nothing.       *)
initiateStkPush(a, d) ==
    /\ mayInitiate(a, d) /\ now + TTL <= MaxTime
    /\ rail' = [rail EXCEPT ![a] = IF @ = Nothing THEN "prompted" ELSE @]
    /\ \/ attempt' = [attempt EXCEPT ![a].state = "initiated", ![a].expiresAt = now + TTL]
       \/ UNCHANGED attempt
    /\ UNCHANGED <<decision, payments, grants, now>>

CustomerAnswers(a) ==
    /\ rail[a] = "prompted"
    /\ \E answer \in {"confirmed", "failed"} : rail' = [rail EXCEPT ![a] = answer]
    /\ UNCHANGED <<attempt, decision, payments, grants, now>>

Resolved(t, outcome) ==
    [t EXCEPT !.state = IF outcome = "confirmed" THEN "reconciled" ELSE "failed",
              !.payment = TRUE, !.resolvedLate = t.state = "timed_out"]

(* A result that passes the boundary: success is derived from its code, and a success    *)
(* carries a receipt and the attempt's amount.  Junk is dead-lettered.                   *)
assertStkResultCallback(a) == rail[a] \in {"confirmed", "failed"}

(* One delivery of the result callback, the first or a repeated one: a checkout intake   *)
(* already knows is a duplicate and leaves the attempt alone.                            *)
reconcileStkCallback(a) ==
    /\ assertStkResultCallback(a) /\ attempt[a].expiresAt # 0
    /\ attempt[a].state \in {"initiated", "reconciled", "failed", "timed_out"}
    /\ payments[a] = NoPayment
    /\ attempt' = [attempt EXCEPT ![a] = Resolved(@, rail[a])]
    /\ payments' = [payments EXCEPT ![a] = [outcome |-> rail[a], door |-> "lane"]]
    /\ UNCHANGED <<decision, rail, grants, now>>

(* The same result through the adapter's parser: intake takes it under the same key and  *)
(* the payment is confirmed or failed; no attempt is looked at.                          *)
ParserIntake(a) ==
    /\ assertStkResultCallback(a) /\ payments[a] = NoPayment
    /\ payments' = [payments EXCEPT ![a] = [outcome |-> rail[a], door |-> "parser"]]
    /\ UNCHANGED <<attempt, decision, rail, grants, now>>

(* A poller that times out whatever has a deadline. *)
isStkPushDueAnyState(a) == attempt[a].expiresAt # 0 /\ now >= attempt[a].expiresAt

isStkPushDue(a) == attempt[a].state = "initiated" /\ now >= attempt[a].expiresAt

expireStkPushIfDue(a) ==
    /\ isStkPushDue(a)
    /\ attempt' = [attempt EXCEPT ![a].state = "timed_out", ![a].timedOut = TRUE]
    /\ UNCHANGED <<decision, payments, rail, grants, now>>

Next ==
    \/ Tick \/ GrantConsent \/ \E i \in DOMAIN grants, kept \in BOOLEAN : RevokeConsent(i, kept)
    \/ \E a \in Attempts :
          \/ proposeStkPush(a) \/ approveStkPush(a) \/ CustomerAnswers(a)
          \/ reconcileStkCallback(a) \/ ParserIntake(a) \/ expireStkPushIfDue(a)
          \/ gateStkPush(a)
          \/ \E d \in Clearances(a) : initiateStkPush(a, d)

Spec == Init /\ [][Next]_vars
--------------------------------------------------------------------------------
TypeOK ==
    /\ \A a \in Attempts :
          /\ attempt[a].state \in {"absent", "proposed", "awaiting_approval", "approved", "refused",
                                   "initiated", "reconciled", "failed", "timed_out"}
          /\ attempt[a].refusal \in {Nothing, "consent", "policy"}
          /\ attempt[a].state = "approved" => attempt[a].policyRef
          /\ decision[a] \in Decisions \cup {NoDecision}
    /\ now \in 1..MaxTime /\ Len(grants) <= MaxGrants

(* reconcileStkCallback: the attempt and the money tell one story, whatever was          *)
(* redelivered and whether the push had timed out: a resolved attempt has the rail's     *)
(* outcome and so has the payment, and a result the lane took resolved its attempt.  A   *)
(* result the parser took first leaves the attempt unresolved (the duplicate branch),    *)
(* and a gate repeated without consent marks even a resolved attempt refused.            *)
AttemptTellsMoney ==
    \A a \in Attempts :
        /\ attempt[a].state = "reconciled" => payments[a] = [outcome |-> "confirmed", door |-> "lane"]
        /\ attempt[a].state = "failed" => payments[a] = [outcome |-> "failed", door |-> "lane"]
        /\ payments[a].door = "lane" => \/ attempt[a].state \in {"reconciled", "failed"}
                                        \/ attempt[a].state = "refused" /\ attempt[a].payment
        /\ payments[a] # NoPayment => payments[a].outcome = rail[a]

(* No prompt reaches a handset unless the engine allowed it under conditions that still  *)
(* hold at that moment, or a human approved what the engine parked.                      *)
PromptOnlyWhenCleared ==
    [][\A a \in Attempts : rail[a] = Nothing /\ rail'[a] # Nothing =>
          \/ /\ decision[a].verdict = "allow" /\ decision[a].covers
             /\ decision[a].expiresAt = 0 \/ now < decision[a].expiresAt
          \/ decision[a].verdict = "requires_approval" /\ attempt[a].approval]_vars

(* resolvedLate is stamped exactly when the poller had given up before the result came,  *)
(* and it never gives up before the deadline (expireStkPushIfDue).                       *)
LateMeansTimedOut ==
    \A a \in Attempts :
        /\ attempt[a].state \in {"reconciled", "failed"} => (attempt[a].resolvedLate <=> attempt[a].timedOut)
        /\ attempt[a].timedOut => now >= attempt[a].expiresAt

(* A resolved or refused attempt never changes again (STK_PUSH_TERMINAL_STATES),         *)
(* replayed callbacks included.  One call reopens the question: gateStkPush looks at no  *)
(* state, so gating it again without consent marks it refused, and does nothing else.    *)
TerminalIsFinal ==
    [][\A a \in Attempts : attempt[a].state \in {"refused", "reconciled", "failed"} =>
          \/ attempt'[a] = attempt[a]
          \/ /\ consented(now) # "allowed"
             /\ attempt'[a] = [attempt[a] EXCEPT !.state = "refused", !.refusal = "consent"]]_vars

(* Every live push is closed, by its result or by the poller, and a result the customer  *)
(* gave to a recorded push reaches the attempt even after the timeout, unless the parser *)
(* took it: that attempt stays timed out beside its payment.                             *)
PushesResolved ==
    \A a \in Attempts :
        /\ attempt[a].state # "initiated"
        /\ attempt[a].state = "timed_out" /\ assertStkResultCallback(a) => payments[a].door = "parser"

================================================================================
