----------------------------- MODULE UssdSession -------------------------------
(***************************************************************************)
(* The USSD self-service channel (src/domain/ussd): the check of a menu    *)
(* graph, a session that walks it keypress by keypress, going back by      *)
(* replaying its own input history, and the flows a keypress dispatches to *)
(* a port that may refuse, throw or answer without evidence.               *)
(*                                                                         *)
(* A menu maps a node to its options (key to target), and whether it is    *)
(* terminal or a root.  Text is kept as its cost against the screen budget.*)
(***************************************************************************)
EXTENDS Integers, Sequences, SequencesExt, FiniteSets

CONSTANTS Menus,        \* candidate menus: functions from node keys
          Inputs,       \* the keys a customer may press
          Answers,      \* what a port may answer: [kind, bad, items, badAt]
          Wired,        \* the flows that have a handler
          Ttl, MaxLines, Budget,
          MaxInputs, MaxTime,
          None

VARIABLES menu, session, log, now

state == <<menu, session, log, now>>

ABORT_KEY == "#"
DEFAULT_BACK_KEY == "0"
USSD_FLOW_ACTIONS == {"balance_query", "invoice_list", "statement_query", "plan_request", "payment_handoff"}

Node(to) == [kind |-> "node", to |-> to]
Flow(to) == [kind |-> "flow", to |-> to]

--------------------------------------------------------------------------------
(* assertMenuGraph. *)

Keys(m, n) == DOMAIN m[n].options
Targets(m, n) == {m[n].options[k].to : k \in {j \in Keys(m, n) : m[n].options[j].kind = "node"}}
Exits(m) == {n \in DOMAIN m : m[n].terminal \/ \E k \in Keys(m, n) : m[n].options[k].kind = "flow"}

assertNodeShape(m, n) ==
    /\ m[n].terminal => Keys(m, n) = {}
    /\ Keys(m, n) \cap {ABORT_KEY, DEFAULT_BACK_KEY} = {}
    /\ \A k \in Keys(m, n) : m[n].options[k].kind = "flow" => m[n].options[k].to \in USSD_FLOW_ACTIONS

Roots(m) == {n \in DOMAIN m : m[n].isRoot}
rootKey(m) == CHOOSE n \in Roots(m) : TRUE

reachable(m) ==
    LET Reached[k \in 0 .. Cardinality(DOMAIN m)] ==
           IF k = 0 THEN {rootKey(m)} ELSE Reached[k - 1] \cup UNION {Targets(m, n) : n \in Reached[k - 1]}
    IN  Reached[Cardinality(DOMAIN m)]

canExit(m) ==
    LET Grown[k \in 0 .. Cardinality(DOMAIN m)] ==
           IF k = 0 THEN Exits(m)
           ELSE Grown[k - 1] \cup {n \in DOMAIN m : Targets(m, n) \cap Grown[k - 1] # {}}
    IN  Grown[Cardinality(DOMAIN m)]

NodeCost(m, n) == 1 + Cardinality(Keys(m, n))

assertMenuGraph(m) ==
    /\ DOMAIN m # {}
    /\ \A n \in DOMAIN m : assertNodeShape(m, n)
    /\ Cardinality(Roots(m)) = 1
    /\ \A n \in DOMAIN m : Targets(m, n) \subseteq DOMAIN m
    /\ reachable(m) = DOMAIN m
    /\ reachable(m) \subseteq canExit(m)
    /\ \A n \in DOMAIN m : NodeCost(m, n) <= Budget

--------------------------------------------------------------------------------
(* Flows: the outcome of a port's answer. *)

Failed(code) == [status |-> "failed", code |-> code, lines |-> 0, evidence |-> FALSE]
Complete(lines) == [status |-> "completed", code |-> "none", lines |-> lines, evidence |-> TRUE]
Malformed == Failed("USSD_FLOW_PORT_MALFORMED")

(* None when the port answered with data and evidence; tryPort makes a throw a refusal. *)
answerOr(a) ==
    CASE a.kind = "garbage"                 -> Malformed
      [] a.kind \in {"refused", "thrown"}   -> Failed("USSD_FLOW_UNAVAILABLE")
      [] a.kind = "unproven"                -> Failed("USSD_FLOW_EVIDENCE_REQUIRED")
      [] OTHER                              -> None

balanceQueryFlow(a) == IF a.bad \in {"amount", "currency"} THEN Malformed ELSE Complete(1)

(* Every entry is checked, the ones past the limit too; only the first are shown. *)
invoiceListFlow(a) ==
    IF a.badAt \in 1 .. a.items THEN Malformed ELSE Complete(IF a.items > MaxLines THEN MaxLines ELSE a.items)

statementQueryFlow(a) == IF a.bad \in {"ref", "period", "amount", "currency"} THEN Malformed ELSE Complete(2)

planRequestFlow(a) == IF a.bad \in {"ref", "receivable"} THEN Malformed ELSE Complete(1)

paymentHandoffFlow(a) == IF a.bad \in {"ref", "invoice", "payBy"} THEN Malformed ELSE Complete(1)

handlerOutcome(flow, a) ==
    IF flow \notin Wired THEN Failed("USSD_FLOW_NOT_WIRED")
    ELSE IF answerOr(a) # None THEN answerOr(a)
    ELSE CASE flow = "balance_query"   -> balanceQueryFlow(a)
           [] flow = "invoice_list"    -> invoiceListFlow(a)
           [] flow = "statement_query" -> statementQueryFlow(a)
           [] flow = "plan_request"    -> planRequestFlow(a)
           [] flow = "payment_handoff" -> paymentHandoffFlow(a)

screenCost(o) == 1 + o.lines

(* An answer that does not fit the screen becomes a failure, which does. *)
flowOutcome(flow, a) ==
    LET outcome == handlerOutcome(flow, a)
    IN  IF screenCost(outcome) > Budget THEN Failed("USSD_SCREEN_OVERBUDGET") ELSE outcome

--------------------------------------------------------------------------------
(* The session. *)

Live(s) == s # None /\ s.state \in {"started", "active"}

Tell(names) == log' = log \o [k \in DOMAIN names |-> [name |-> names[k], at |-> now]]

startUssdSession ==
    /\ session = None
    /\ assertMenuGraph(menu)
    /\ session' = [state |-> "started", current |-> rootKey(menu), history |-> <<>>, expiresAt |-> now + Ttl,
                   screen |-> 1, evidence |-> FALSE]
    /\ Tell(<<"sessionStarted">>)
    /\ UNCHANGED <<menu, now>>

(* The nodes the history leads through, replayed from the root. *)
nodeTrail(m, history) ==
    LET Press(trail, key) ==
           IF key = DEFAULT_BACK_KEY THEN (IF Len(trail) > 1 THEN Front(trail) ELSE trail)
           ELSE IF key \in Keys(m, Last(trail)) /\ m[Last(trail)].options[key].kind = "node"
                THEN Append(trail, m[Last(trail)].options[key].to)
                ELSE trail
    IN  FoldLeft(Press, <<rootKey(m)>>, history)

(* The stamps of an accepted input. *)
Stamped(key) == [session EXCEPT !.state = "active", !.expiresAt = now + Ttl, !.history = Append(@, key)]

navigationStep(to, key) ==
    LET moved == [Stamped(key) EXCEPT !.current = to, !.screen = NodeCost(menu, to)]
    IN  IF menu[to].terminal
        THEN session' = [moved EXCEPT !.state = "ended"] /\ Tell(<<"navigated", "sessionEnded">>)
        ELSE session' = moved /\ Tell(<<"navigated">>)

repromptStep(key) ==
    /\ session' = [Stamped(key) EXCEPT !.screen = NodeCost(menu, session.current)]
    /\ Tell(<<"inputRejected">>)

(* Going back to the first screen. *)
BackStepOfLast(key) ==
    LET trail == nodeTrail(menu, session.history)
    IN  IF session.current # rootKey(menu) THEN navigationStep(trail[1], key) ELSE repromptStep(key)

backStep(key) ==
    LET trail == nodeTrail(menu, session.history)
    IN  IF Len(trail) >= 2 THEN navigationStep(trail[Len(trail) - 1], key) ELSE repromptStep(key)

flowStep(key, flow, a) ==
    LET outcome == flowOutcome(flow, a)
    IN  /\ session' = [Stamped(key) EXCEPT !.state = "ended", !.screen = screenCost(outcome),
                                           !.evidence = outcome.evidence]
        /\ Tell(<<IF outcome.status = "completed" THEN "flowCompleted" ELSE "flowFailed", "sessionEnded">>)

expired ==
    /\ session' = [session EXCEPT !.state = "expired", !.screen = 1]
    /\ Tell(<<"sessionExpired">>)

optionStep(key, a) ==
    IF key \notin Keys(menu, session.current) THEN repromptStep(key)
    ELSE LET target == menu[session.current].options[key]
         IN  IF target.kind = "node" THEN navigationStep(target.to, key) ELSE flowStep(key, target.to, a)

respond(key, a) ==
    /\ Live(session)
    /\ Len(session.history) < MaxInputs
    /\ IF now >= session.expiresAt THEN expired
       ELSE IF key = ABORT_KEY
            THEN /\ session' = [Stamped(key) EXCEPT !.state = "aborted", !.screen = 1]
                 /\ Tell(<<"sessionAborted">>)
       ELSE IF key = DEFAULT_BACK_KEY THEN backStep(key)
       ELSE optionStep(key, a)
    /\ UNCHANGED <<menu, now>>

expireUssdSession ==
    /\ Live(session)
    /\ now >= session.expiresAt
    /\ expired
    /\ UNCHANGED <<menu, now>>

endUssdSession ==
    /\ Live(session)
    /\ session' = [session EXCEPT !.state = "ended"]
    /\ Tell(<<"sessionEnded">>)
    /\ UNCHANGED <<menu, now>>

Tick ==
    /\ session # None /\ now < MaxTime
    /\ now' = now + 1
    /\ UNCHANGED <<menu, session, log>>

Init == menu \in Menus /\ session = None /\ log = <<>> /\ now = 0

Next ==
    \/ startUssdSession
    \/ \E key \in Inputs, a \in Answers : respond(key, a)
    \/ expireUssdSession \/ endUssdSession \/ Tick

Spec == Init /\ [][Next]_state

--------------------------------------------------------------------------------
TypeOK ==
    /\ now \in 0 .. MaxTime
    /\ session # None =>
          /\ session.state \in {"started", "active", "ended", "expired", "aborted"}
          /\ session.current \in DOMAIN menu

(* A menu that assertMenuGraph accepts has one root, reaches every node and traps nobody: *)
(* no set of nodes without an exit is closed under its options (menu.ts).                 *)
MenusTrapNobody ==
    assertMenuGraph(menu) =>
       /\ \A S \in SUBSET DOMAIN menu :
             (S # {} /\ \A n \in S : Targets(menu, n) \subseteq S) => S \cap Exits(menu) # {}
       /\ \A S \in SUBSET DOMAIN menu :
             (rootKey(menu) \in S /\ \A n \in S : Targets(menu, n) \subseteq S) => S = DOMAIN menu

(* The back key is right because the history tells where the customer is: replaying it,   *)
(* rejected keys and earlier steps back included, ends on the current node (session.ts    *)
(* nodeTrail, respond).                                                                   *)
HistoryLeadsHere == session # None => Last(nodeTrail(menu, session.history)) = session.current

(* A session tells how it ended exactly once and last, after the flow it ran if it ran    *)
(* one; a completed flow showed its evidence; and what was shown fitted the screen.       *)
SessionTellsItsEnd ==
    LET Endings == {"sessionEnded", "sessionExpired", "sessionAborted"}
        Of(names) == {k \in DOMAIN log : log[k].name \in names}
        flows == Of({"flowCompleted", "flowFailed"})
    IN  session # None =>
           /\ IF Live(session) THEN Of(Endings) = {} ELSE Of(Endings) = {Len(log)}
           /\ \A k \in flows : k = Len(log) - 1 /\ Last(log).name = "sessionEnded"
           /\ Of({"flowCompleted"}) # {} <=> session.evidence
           /\ session.screen <= Budget

(* No keypress is taken once the session has idled its time away (session.ts respond):    *)
(* between two inputs less than the idle time passed, however late the expiry is noticed. *)
IdleSessionsAnswerNothing ==
    \A k \in 2 .. Len(log) :
       log[k].name \notin {"sessionEnded", "sessionExpired"} => log[k].at - log[k - 1].at < Ttl

(* An ended session stays as it ended, and inputs are only ever added.                    *)
SessionStep ==
    session # None =>
       /\ ~Live(session) => session' = session
       /\ IsPrefix(session.history, session'.history)
       /\ IsPrefix(log, log')
================================================================================
