-------------------------------- MODULE StkPush --------------------------------
(***************************************************************************)
(* The execute path of one collect-now STK push: Services.ExecuteStkPush   *)
(* (application/stk.go) over the Daraja client (daraja/stk.go, client.go,  *)
(* oauth.go) and migration 0017.  Executions of an action run in several   *)
(* processes; each process has its own client, so the in-flight guard and  *)
(* the bearer token are per process, the initiation row is shared.         *)
(*                                                                         *)
(* The rail mints a checkout for every push that reaches it (its answer    *)
(* may still be lost); a checkout is its index in `minted`.  Commands that *)
(* the gates refuse before the probe change nothing and are left out.      *)
(***************************************************************************)
EXTENDS Naturals, Sequences, FiniteSets

CONSTANTS Executions, Actions, Processes, None,
          MaxRetries,   \* Config.MaxRetries
          Faults,       \* the faults of this instance
          MaxFaults     \* bound: faults injected

VARIABLES exec,         \* the executions
          live,         \* inFlight.live: the lead of each process and action
          token,        \* tokenManager.token of each process
          minted,       \* the rail: the execution behind each checkout
          initiation,   \* stk_initiations: the checkout of each action, 0 for none
          facts,        \* outbox facts of each action, in order
          faults

vars == <<exec, live, token, minted, initiation, facts, faults>>

Idle == [pc |-> "new", action |-> None, process |-> None, lead |-> None, calls |-> 0,
         attempt |-> 0, reauthed |-> FALSE, cancelled |-> FALSE, receipt |-> 0, outcome |-> "none"]

Init ==
    /\ exec = [e \in Executions |-> Idle]
    /\ live = [p \in Processes |-> [a \in Actions |-> None]]
    /\ token = [p \in Processes |-> "none"]
    /\ minted = <<>>
    /\ initiation = [a \in Actions |-> 0]
    /\ facts = [a \in Actions |-> <<>>]
    /\ faults = 0

Running(e) == exec[e].pc \notin {"new", "done", "dead"}

Fault(f) ==
    /\ f \in Faults /\ faults < MaxFaults
    /\ faults' = faults + 1

--------------------------------------------------------------------------------
(* ExecuteStkPush up to the wire. *)

Start(e, a, p) ==
    /\ exec[e].pc = "new"
    /\ exec' = [exec EXCEPT ![e].pc = "probe", ![e].action = a, ![e].process = p]
    /\ UNCHANGED <<live, token, minted, initiation, facts, faults>>

(* lookupIdempotencyKey: a committed initiation replays its receipt. *)
Probe(e) ==
    LET found == initiation[exec[e].action]
    IN /\ exec[e].pc = "probe"
       /\ exec' = IF found # 0
                  THEN [exec EXCEPT ![e].pc = "done", ![e].outcome = "accepted", ![e].receipt = found]
                  ELSE [exec EXCEPT ![e].pc = "join"]
       /\ UNCHANGED <<live, token, minted, initiation, facts, faults>>

(* The probe's read error is discarded: the key looks unclaimed. *)
ProbeFails(e) ==
    /\ exec[e].pc = "probe"
    /\ Fault("probe")
    /\ exec' = [exec EXCEPT ![e].pc = "join"]
    /\ UNCHANGED <<live, token, minted, initiation, facts>>

(* inFlight.join: the first caller leads, the others wait for that lead. *)
join(e) ==
    LET p == exec[e].process
        a == exec[e].action
    IN /\ exec[e].pc = "join"
       /\ IF live[p][a] = None
          THEN /\ live' = [live EXCEPT ![p][a] = e]
               /\ exec' = [exec EXCEPT ![e].pc = "wire"]
          ELSE /\ exec' = [exec EXCEPT ![e].pc = "wait", ![e].lead = live[p][a]]
               /\ UNCHANGED live
       /\ UNCHANGED <<token, minted, initiation, facts, faults>>

(* wg.Wait returns; the follower is refused DARAJA_DUPLICATE_IN_FLIGHT. *)
FollowerWakes(e) ==
    /\ exec[e].pc = "wait"
    /\ live[exec[e].process][exec[e].action] # exec[e].lead
    /\ exec' = [exec EXCEPT ![e].pc = "refused"]
    /\ UNCHANGED <<live, token, minted, initiation, facts, faults>>

--------------------------------------------------------------------------------
(* callJSON: attempts, re-authentication, backoff. *)

(* The deferred finish of the lead: it frees the slot and wakes followers. *)
finish(e) ==
    live' = [live EXCEPT ![exec[e].process][exec[e].action] = None]

Return(e, next) ==
    /\ exec' = [exec EXCEPT ![e] = next]
    /\ finish(e)

(* What the loop does with an error: one immediate re-authentication, then the retry budget. *)
afterError(e, next, auth, retryable) ==
    IF auth /\ ~next.reauthed
    THEN exec' = [exec EXCEPT ![e] = [next EXCEPT !.reauthed = TRUE]] /\ UNCHANGED live
    ELSE IF ~retryable \/ next.attempt + 1 > MaxRetries
         THEN Return(e, [next EXCEPT !.pc = "refused"])
         ELSE /\ exec' = [exec EXCEPT ![e] = [next EXCEPT !.pc = "backoff", !.attempt = @ + 1]]
              /\ UNCHANGED live

Called(e) == [exec[e] EXCEPT !.calls = @ + 1]

(* attemptOnce: the bearer, refreshed when there is none, then the rail's answer. *)
Accepted(e) ==
    /\ exec[e].pc = "wire" /\ ~exec[e].cancelled
    /\ token[exec[e].process] # "revoked"
    /\ token' = [token EXCEPT ![exec[e].process] = "valid"]
    /\ minted' = Append(minted, e)
    /\ Return(e, [Called(e) EXCEPT !.pc = "commit", !.receipt = Len(minted')])
    /\ UNCHANGED <<initiation, facts, faults>>

(* The rail took the push; a timeout or a 5xx hides its answer. *)
AnswerLost(e) ==
    /\ exec[e].pc = "wire" /\ ~exec[e].cancelled
    /\ token[exec[e].process] # "revoked"
    /\ Fault("lost")
    /\ token' = [token EXCEPT ![exec[e].process] = "valid"]
    /\ minted' = Append(minted, e)
    /\ afterError(e, Called(e), FALSE, TRUE)
    /\ UNCHANGED <<initiation, facts>>

(* The rail took the push; its body is not JSON, or its echo fails the checks. *)
AnswerMalformed(e, f) ==
    /\ f \in {"garbled", "echo"}
    /\ exec[e].pc = "wire" /\ ~exec[e].cancelled
    /\ token[exec[e].process] # "revoked"
    /\ Fault(f)
    /\ token' = [token EXCEPT ![exec[e].process] = "valid"]
    /\ minted' = Append(minted, e)
    /\ IF f = "garbled"
       THEN afterError(e, Called(e), FALSE, FALSE)
       ELSE Return(e, [Called(e) EXCEPT !.pc = "done", !.outcome = "error"])
    /\ UNCHANGED <<initiation, facts>>

(* The push never reached the rail (transport failure or 5xx), or was refused with a 4xx *)
(* or a non-zero ResponseCode.                                                           *)
NotTaken(e, f) ==
    /\ f \in {"unreached", "refused"}
    /\ exec[e].pc = "wire" /\ ~exec[e].cancelled
    /\ Fault(f)
    /\ afterError(e, Called(e), FALSE, f = "unreached")
    /\ UNCHANGED <<token, minted, initiation, facts>>

(* 401: invalidate the cached token. *)
Unauthorised(e) ==
    /\ exec[e].pc = "wire" /\ ~exec[e].cancelled
    /\ token[exec[e].process] = "revoked"
    /\ token' = [token EXCEPT ![exec[e].process] = "none"]
    /\ afterError(e, Called(e), TRUE, FALSE)
    /\ UNCHANGED <<minted, initiation, facts, faults>>

(* The rail revokes a token that a client has cached. *)
TokenRevoked(p) ==
    /\ token[p] = "valid"
    /\ Fault("unauthorised")
    /\ token' = [token EXCEPT ![p] = "revoked"]
    /\ UNCHANGED <<exec, live, minted, initiation, facts>>

(* The caller's context ends: the call in progress fails as a transport error, *)
(* and the sleep that follows returns DARAJA_DEADLINE_EXCEEDED.                *)
Cancel(e) ==
    /\ Running(e) /\ ~exec[e].cancelled
    /\ Fault("cancel")
    /\ exec' = [exec EXCEPT ![e].cancelled = TRUE]
    /\ UNCHANGED <<live, token, minted, initiation, facts>>

CancelledCall(e) ==
    /\ exec[e].pc = "wire" /\ exec[e].cancelled
    /\ afterError(e, exec[e], FALSE, TRUE)
    /\ UNCHANGED <<token, minted, initiation, facts, faults>>

Backoff(e) ==
    /\ exec[e].pc = "backoff"
    /\ IF exec[e].cancelled
       THEN Return(e, [exec[e] EXCEPT !.pc = "refused"])
       ELSE exec' = [exec EXCEPT ![e].pc = "wire"] /\ UNCHANGED live
    /\ UNCHANGED <<token, minted, initiation, facts, faults>>

--------------------------------------------------------------------------------
(* Recording the outcome. *)

Finish(e, outcome, receipt) ==
    exec' = [exec EXCEPT ![e].pc = "done", ![e].outcome = outcome, ![e].receipt = receipt]

(* appendStkFact in its own transaction, then the refusal as a value. *)
RecordRefusal(e) ==
    /\ exec[e].pc = "refused" /\ ~exec[e].cancelled
    /\ facts' = [facts EXCEPT ![exec[e].action] = Append(@, [name |-> "notInitiated", checkout |-> 0])]
    /\ Finish(e, "rejected", 0)
    /\ UNCHANGED <<live, token, minted, initiation, faults>>

(* The loser of the race answers with the receipt it holds. *)
CommitOwnReceipt(e) ==
    LET a == exec[e].action
    IN /\ exec[e].pc = "commit" /\ ~exec[e].cancelled
       /\ Finish(e, "accepted", exec[e].receipt)
       /\ IF initiation[a] # 0
          THEN UNCHANGED <<initiation, facts>>
          ELSE /\ initiation' = [initiation EXCEPT ![a] = exec[e].receipt]
               /\ facts' = [facts EXCEPT ![a] =
                      Append(@, [name |-> "initiated", checkout |-> exec[e].receipt])]
       /\ UNCHANGED <<live, token, minted, faults>>

(* InsertStkInitiation, the key claim and the fact in one transaction; on the unique *)
(* index the transaction rolls back and the committed winner is replayed.            *)
Commit(e) ==
    LET a == exec[e].action
    IN /\ exec[e].pc = "commit" /\ ~exec[e].cancelled
       /\ IF initiation[a] # 0
          THEN /\ Finish(e, "accepted", initiation[a])
               /\ UNCHANGED <<initiation, facts>>
          ELSE /\ initiation' = [initiation EXCEPT ![a] = exec[e].receipt]
               /\ facts' = [facts EXCEPT ![a] =
                      Append(@, [name |-> "initiated", checkout |-> exec[e].receipt])]
               /\ Finish(e, "accepted", exec[e].receipt)
       /\ UNCHANGED <<live, token, minted, faults>>

(* Either transaction fails, for the database or for the caller's ended context. *)
OutcomeLost(e) ==
    /\ exec[e].pc \in {"refused", "commit"}
    /\ \/ exec[e].cancelled /\ UNCHANGED faults
       \/ ~exec[e].cancelled /\ Fault("tx")
    /\ Finish(e, "error", 0)
    /\ UNCHANGED <<live, token, minted, initiation, facts>>

(* A process dies with its executions, its in-flight table and its token. *)
Crash(p) ==
    /\ \E e \in Executions : Running(e) /\ exec[e].process = p
    /\ Fault("crash")
    /\ exec' = [e \in Executions |->
                  IF Running(e) /\ exec[e].process = p
                  THEN [exec[e] EXCEPT !.pc = "dead", !.outcome = "error", !.receipt = 0]
                  ELSE exec[e]]
    /\ live' = [live EXCEPT ![p] = [a \in Actions |-> None]]
    /\ token' = [token EXCEPT ![p] = "none"]
    /\ UNCHANGED <<minted, initiation, facts>>

--------------------------------------------------------------------------------
Call(e) ==
    \/ Accepted(e) \/ AnswerLost(e) \/ Unauthorised(e) \/ CancelledCall(e)
    \/ \E f \in {"garbled", "echo"} : AnswerMalformed(e, f)
    \/ \E f \in {"unreached", "refused"} : NotTaken(e, f)

Step(e) ==
    \/ Probe(e) \/ ProbeFails(e) \/ join(e) \/ FollowerWakes(e) \/ Call(e)
    \/ Backoff(e) \/ RecordRefusal(e) \/ Commit(e) \/ OutcomeLost(e)

AllDone == \A e \in Executions : exec[e].pc \in {"done", "dead"}

Next ==
    \/ \E e \in Executions :
          \/ \E a \in Actions, p \in Processes : Start(e, a, p)
          \/ Step(e) \/ Cancel(e)
    \/ \E p \in Processes : TokenRevoked(p) \/ Crash(p)
    \/ AllDone /\ UNCHANGED vars

Spec == Init /\ [][Next]_vars

--------------------------------------------------------------------------------
(* Properties. *)

TypeOK ==
    /\ \A e \in Executions :
          /\ exec[e].action \in Actions \cup {None} /\ exec[e].process \in Processes \cup {None}
          /\ exec[e].attempt \in 0..MaxRetries
          /\ exec[e].receipt \in 0..Len(minted)
          /\ exec[e].outcome \in {"none", "accepted", "rejected", "error"}
    /\ \A p \in Processes, a \in Actions : live[p][a] \in Executions \cup {None}
    /\ token \in [Processes -> {"none", "valid", "revoked"}]
    /\ initiation \in [Actions -> 0..Len(minted)]
    /\ faults \in 0..MaxFaults

(* Every accepted execution of an action answers with the recorded checkout: the loser  *)
(* of the insert race drops the receipt it holds, and a replay returns the winner's     *)
(* (errStkRaceReplay, stkReplay).                                                       *)
ReceiptIsTheRecord ==
    \A e \in Executions :
        exec[e].outcome = "accepted" => exec[e].receipt = initiation[exec[e].action]

(* The double-click guard: within one process at most one execution of an action is on  *)
(* the wire (inFlight.join), whatever the interleaving of leads, followers and retries. *)
OneCallPerProcess ==
    \A d, e \in Executions :
        /\ d # e /\ exec[d].action = exec[e].action /\ exec[d].process = exec[e].process
        => ~(exec[d].pc \in {"wire", "backoff"} /\ exec[e].pc \in {"wire", "backoff"})

(* One execution makes at most MaxRetries + 2 calls, the extra one for its only          *)
(* re-authentication, even when the token is revoked again and again (callJSON).         *)
CallsBounded == \A e \in Executions : exec[e].calls <= MaxRetries + 2

(* The row and the log agree: one stkPushInitiated fact for an initiation, carrying its *)
(* checkout, and the recorded checkout was minted for that action.                      *)
FactMatchesInitiation ==
    \A a \in Actions :
        LET initiated == {i \in 1..Len(facts[a]) : facts[a][i].name = "initiated"}
        IN /\ Cardinality(initiated) = (IF initiation[a] = 0 THEN 0 ELSE 1)
           /\ \A i \in initiated : facts[a][i].checkout = initiation[a]
           /\ initiation[a] # 0 => exec[minted[initiation[a]]].action = a

(* Every execution ends: no follower waits for a lead that is gone, and the retry loop *)
(* ends (inFlight's finish is deferred, the retry budget is finite).                   *)
ExecutionsEnd == \A e \in Executions : (exec[e].pc = "probe") ~> (exec[e].pc \in {"done", "dead"})

================================================================================
