----------------------------- MODULE CommsDelivery -----------------------------
(***************************************************************************)
(* A conversation (src/domain/communications), the workers that dispatch   *)
(* its outbound messages over a transport (src/adapters/comm-sms,          *)
(* -whatsapp, -email), the durable store that keys their wire calls, and   *)
(* the receipts.  A worker dispatches, awaits, records, and only then runs *)
(* the pure attemptSend over the message as it is by then.                 *)
(***************************************************************************)
EXTENDS Integers, FiniteSets, Sequences

CONSTANTS Msgs, Refs, Workers,
          MaxAttempts,   \* RetryPolicy.maxAttempts of the organisation
          MaxFacts,      \* bound on the consent trail
          MaxCrashes,    \* bound on worker crashes
          None           \* no message, no consentRef, no entry

--------------------------------------------------------------------------------
(* What the four transports make of a provider's reply.  A reply is a status and the *)
(* shape of its body, or a network fault; a result is accepted, or refused with the  *)
(* transport's knowledge of whether a retry may help.                                *)

Accepted == [ok |-> TRUE, retryable |-> FALSE]
Refused(retryable) == [ok |-> FALSE, retryable |-> retryable]

Statuses == {200, 400, 401, 429, 503}

africasTalkingParseResponse(status, body) ==
    CASE status = 401 -> Refused(FALSE)
      [] status = 429 -> Refused(TRUE)
      [] status >= 500 -> Refused(TRUE)
      [] OTHER -> CASE body = "unreadable" -> Refused(status >= 400)
                    [] body \in {"no recipients", "no messageId", "not Success"} -> Refused(FALSE)
                    [] body = "Success" -> Accepted
AfricasTalkingBodies == {"unreadable", "no recipients", "no messageId", "not Success", "Success"}

twilioParseResponse(status, body) ==
    CASE status = 429 -> Refused(TRUE)
      [] status >= 500 -> Refused(TRUE)
      [] OTHER -> CASE body = "unreadable" -> Refused(status >= 400)
                    [] body # "unreadable" /\ status >= 400 -> Refused(FALSE)
                    [] body \in {"no sid", "undelivered"} /\ status < 400 -> Refused(FALSE)
                    [] body = "queued" /\ status < 400 -> Accepted
TwilioBodies == {"unreadable", "no sid", "undelivered", "queued"}

(* Meta error codes by what the taxonomy says of them. *)
classifyProviderError(error) == Refused(error = "131048")
MetaErrors == {"190", "131047", "131048", "131026", "132000", "other"}

whatsappParseResponse(status, body) ==
    CASE status = 401 -> Refused(FALSE)
      [] status = 429 -> Refused(TRUE)
      [] status >= 500 -> Refused(TRUE)
      [] OTHER -> CASE body = "unreadable" -> Refused(status >= 400)
                    [] body \in MetaErrors -> classifyProviderError(body)
                    [] body = "no message id" -> Refused(FALSE)
                    [] body = "wamid" -> Accepted
WhatsAppBodies == {"unreadable", "no message id", "wamid"} \cup MetaErrors

(* The relay's final reply; a code outside the SMTP space is a broken session. *)
smtpParseResponse(code) ==
    CASE code < 200 \/ code > 599 -> Refused(TRUE)
      [] code \in 200..299 -> Accepted
      [] code \in 300..599 -> Refused(code < 500)
SmtpCodes == {0, 250, 421, 550}

(* dispatch: a reply parsed, or the fault of the network caught. *)
ResultsOf(transport) ==
    {Refused(TRUE)} \cup
    CASE transport = "africastalking" ->
            {africasTalkingParseResponse(s, b) : s \in Statuses, b \in AfricasTalkingBodies}
      [] transport = "twilio" -> {twilioParseResponse(s, b) : s \in Statuses, b \in TwilioBodies}
      [] transport = "whatsapp" -> {whatsappParseResponse(s, b) : s \in Statuses, b \in WhatsAppBodies}
      [] transport = "smtp" -> {smtpParseResponse(c) : c \in SmtpCodes}
Transports == {"africastalking", "twilio", "whatsapp", "smtp"}

(* A permanent refusal gets a ladder of one attempt. *)
policyForWireResult(result, standard) == IF result.ok \/ result.retryable THEN standard ELSE 1

--------------------------------------------------------------------------------
VARIABLES transport,
          open,      \* the conversation was started
          msgs,      \* thread: Msgs -> message or None
          facts,     \* consent trail: sequence of [type, ref]
          store,     \* dispatch store: <<message, attemptNo>> -> entry or None
          calls,     \* wire calls made for each key
          accepted,  \* keys some call of which the provider accepted
          worker,    \* Workers -> [pc, msg, no, result]
          crashes

vars == <<transport, open, msgs, facts, store, calls, accepted, worker, crashes>>

Keys == Msgs \X (1..MaxAttempts)
Idle == [pc |-> "idle", msg |-> None, no |-> 0, result |-> None]
Placeholder == [result |-> None, stale |-> FALSE]

Init ==
    /\ transport \in Transports /\ open = FALSE /\ facts = <<>>
    /\ msgs = [m \in Msgs |-> None] /\ store = [k \in Keys |-> None]
    /\ calls = [k \in Keys |-> 0] /\ accepted = {}
    /\ worker = [w \in Workers |-> Idle] /\ crashes = 0

--------------------------------------------------------------------------------
(* The conversation and its consent trail. *)
latestOf(trail, ref) ==
    LET at == {i \in DOMAIN trail : trail[i].ref = ref} IN
    IF at = {} THEN "never" ELSE trail[CHOOSE i \in at : \A j \in at : j <= i].type

conversationOnly == UNCHANGED <<transport, store, calls, accepted, worker, crashes>>

startConversation == ~open /\ open' = TRUE /\ UNCHANGED <<msgs, facts>> /\ conversationOnly

appendConsentGranted(ref) ==
    /\ open /\ Len(facts) < MaxFacts /\ latestOf(facts, ref) # "granted"
    /\ facts' = Append(facts, [type |-> "granted", ref |-> ref])
    /\ UNCHANGED <<open, msgs>> /\ conversationOnly

appendConsentRevoked(ref) ==
    /\ open /\ Len(facts) < MaxFacts /\ latestOf(facts, ref) = "granted"
    /\ facts' = Append(facts, [type |-> "revoked", ref |-> ref])
    /\ UNCHANGED <<open, msgs>> /\ conversationOnly

Outbound(ref) == [status |-> "queued", ref |-> ref, basis |-> Len(facts), attempts |-> <<>>]

(* A manual reply, not screened. *)
queueOutboundMessage(m) ==
    /\ open /\ msgs[m] = None
    /\ msgs' = [msgs EXCEPT ![m] = Outbound(None)]
    /\ UNCHANGED <<open, facts>> /\ conversationOnly

(* sendAutomatedMessage: granted on this conversation and not revoked since. *)
mayAutomate(ref) ==
    /\ \E i \in DOMAIN facts : facts[i] = [type |-> "granted", ref |-> ref]
    /\ latestOf(facts, ref) # "revoked"

sendAutomatedMessage(m, ref) ==
    /\ open /\ msgs[m] = None /\ mayAutomate(ref)
    /\ msgs' = [msgs EXCEPT ![m] = Outbound(ref)]
    /\ UNCHANGED <<open, facts>> /\ conversationOnly

(* routeInbound and appendInboundMessage: an inbound for no conversation is only a fact. *)
appendInboundMessage(m) ==
    /\ open /\ msgs[m] = None
    /\ msgs' = [msgs EXCEPT ![m] = [status |-> "delivered", ref |-> None, basis |-> 0, attempts |-> <<>>]]
    /\ UNCHANGED <<open, facts>> /\ conversationOnly

--------------------------------------------------------------------------------
(* The worker: dispatch over the keyed transport. *)
workerOnly == UNCHANGED <<transport, open, facts>>
KeyOf(w) == <<worker[w].msg, worker[w].no>>
consented(m) == msgs[m].ref = None \/ latestOf(facts, msgs[m].ref) = "granted"

(* The number the next attempt will have: clientRef "<messageId>#<attemptNo>". *)
attemptNoOf(msg) == Len(msg.attempts) + 1

(* A worker takes a queued message. *)
Take(w, m) ==
    /\ worker[w].pc = "idle" /\ msgs[m] # None /\ msgs[m].status = "queued"
    /\ worker' = [worker EXCEPT ![w] = [pc |-> "claim", msg |-> m, no |-> attemptNoOf(msgs[m]), result |-> None]]
    /\ UNCHANGED <<msgs, store, calls, accepted, crashes>> /\ workerOnly

(* claim: no entry, or a placeholder past its lease. *)
claimWins(entry) == entry = None \/ (entry.result = None /\ entry.stale)

Claim(w) ==
    LET k == KeyOf(w) IN
    /\ worker[w].pc = "claim"
    /\ IF claimWins(store[k])
       THEN /\ store' = [store EXCEPT ![k] = Placeholder]
            /\ worker' = [worker EXCEPT ![w].pc = "dispatch"]
       ELSE /\ UNCHANGED store
            /\ worker' = [worker EXCEPT ![w] = IF store[k].result = None THEN Idle   \* IN_FLIGHT
                                               ELSE [@ EXCEPT !.pc = "apply", !.result = store[k].result]]
    /\ UNCHANGED <<msgs, calls, accepted, crashes>> /\ workerOnly

(* The wire call, as the provider sees it; its result comes back to the worker. *)
Dispatch(w) ==
    /\ worker[w].pc = "dispatch"
    /\ calls' = [calls EXCEPT ![KeyOf(w)] = @ + 1]
    /\ \E r \in ResultsOf(transport) :
          /\ worker' = [worker EXCEPT ![w].pc = "record", ![w].result = r]
          /\ accepted' = IF r.ok THEN accepted \cup {KeyOf(w)} ELSE accepted
    /\ UNCHANGED <<msgs, store, crashes>> /\ workerOnly

Record(w) ==
    /\ worker[w].pc = "record"
    /\ store' = [store EXCEPT ![KeyOf(w)] = [result |-> worker[w].result, stale |-> FALSE]]
    /\ worker' = [worker EXCEPT ![w].pc = "apply"]
    /\ UNCHANGED <<msgs, calls, accepted, crashes>> /\ workerOnly

assertSendable(msg, max) == msg.status = "queued" /\ Len(msg.attempts) < max

decideRetry(max, no) == IF no < max THEN "queued" ELSE "deadLettered"

(* attemptSend over the pre-resolved outcome, inside the consent boundary. *)
attemptSend(w) ==
    LET m == worker[w].msg
        max == policyForWireResult(worker[w].result, MaxAttempts)
        no == Len(msgs[m].attempts) + 1
        ok == worker[w].result.ok /\ consented(m)
        attempt == [no |-> no, key |-> KeyOf(w), status |-> IF ok THEN "sent" ELSE "failed"]
    IN  /\ worker[w].pc = "apply"
        /\ msgs' = IF assertSendable(msgs[m], max)
                   THEN [msgs EXCEPT ![m].attempts = Append(@, attempt),
                                     ![m].status = IF ok THEN "sent" ELSE decideRetry(max, no)]
                   ELSE msgs
        /\ worker' = [worker EXCEPT ![w] = Idle]
        /\ UNCHANGED <<store, calls, accepted, crashes>> /\ workerOnly

Crash(w) ==
    /\ worker[w].pc # "idle" /\ crashes < MaxCrashes
    /\ crashes' = crashes + 1 /\ worker' = [worker EXCEPT ![w] = Idle]
    /\ UNCHANGED <<msgs, store, calls, accepted>> /\ workerOnly

(* A placeholder whose worker is gone outlives its lease: calls return within it. *)
LeaseExpires(k) ==
    /\ store[k] # None /\ store[k].result = None /\ ~store[k].stale
    /\ \A w \in Workers : worker[w].pc \in {"dispatch", "record"} => KeyOf(w) # k
    /\ store' = [store EXCEPT ![k].stale = TRUE]
    /\ UNCHANGED <<msgs, calls, accepted, worker, crashes>> /\ workerOnly

(* Receipts, in whatever order they come: the last attempt is the one advanced. *)
Receipt(m, from, to) ==
    /\ msgs[m] # None /\ msgs[m].status = from
    /\ msgs' = [msgs EXCEPT ![m].status = to,
                            ![m].attempts = [i \in DOMAIN @ |-> IF i = Len(@) THEN [@[i] EXCEPT !.status = to] ELSE @[i]]]
    /\ UNCHANGED <<store, calls, accepted, worker, crashes>> /\ workerOnly
markDelivered(m) == Receipt(m, "sent", "delivered")
markRead(m) == Receipt(m, "delivered", "read")

WorkerStep(w) == (\E m \in Msgs : Take(w, m)) \/ Claim(w) \/ Dispatch(w) \/ Record(w) \/ attemptSend(w)

Next ==
    \/ startConversation
    \/ \E ref \in Refs : appendConsentGranted(ref) \/ appendConsentRevoked(ref)
    \/ \E m \in Msgs : \/ queueOutboundMessage(m) \/ appendInboundMessage(m)
                       \/ markDelivered(m) \/ markRead(m)
                       \/ \E ref \in Refs : sendAutomatedMessage(m, ref)
    \/ \E w \in Workers : WorkerStep(w) \/ Crash(w)
    \/ \E k \in Keys : LeaseExpires(k)

Spec == Init /\ [][Next]_vars

--------------------------------------------------------------------------------
Thread == {m \in Msgs : msgs[m] # None}

(* Types of the thread, the store and the workers. *)
TypeOK ==
    /\ transport \in Transports /\ open \in BOOLEAN
    /\ \A m \in Thread :
          /\ msgs[m].status \in {"queued", "sent", "delivered", "read", "deadLettered"}
          /\ Len(msgs[m].attempts) <= MaxAttempts
    /\ \A w \in Workers : /\ worker[w].pc \in {"idle", "claim", "dispatch", "record", "apply"}
                          /\ worker[w].no \in 0..MaxAttempts

(* guard.ts: an automated message is in the thread only if the fact current    *)
(* for its consentRef when it was queued was a grant, whatever was granted and *)
(* revoked before.                                                             *)
QueuedUnderConsent ==
    \A m \in Thread : msgs[m].ref # None =>
        latestOf(SubSeq(facts, 1, msgs[m].basis), msgs[m].ref) = "granted"

(* provider.ts, the delivery lifecycle: a message said to be sent has the      *)
(* provider's acceptance of its last attempt behind it, everything before that *)
(* attempt failed, and only a message all of whose attempts failed is dead.    *)
StatusTellsAttempts ==
    \A m \in Thread : LET a == msgs[m].attempts IN
        /\ \A i \in DOMAIN a : a[i].no = i /\ (i < Len(a) => a[i].status = "failed")
        /\ msgs[m].status = "queued" => \A i \in DOMAIN a : a[i].status = "failed"
        /\ msgs[m].status = "deadLettered" => Len(a) > 0 /\ a[Len(a)].status = "failed"
        /\ (msgs[m].status \in {"sent", "delivered", "read"} /\ Len(a) > 0) =>
              a[Len(a)].status = msgs[m].status /\ a[Len(a)].key \in accepted

(* idempotency.ts:4 "must never re-charge the provider call": one wire call    *)
(* for each message and attempt, however many workers hold it, and one more    *)
(* for each worker that crashed between its claim and the recorded result.     *)
OneWirePerKey == \A k \in Keys : calls[k] <= 1 + crashes

(* A later attempt was refused for good: the ladder of one attempt has no room *)
(* for it (COMMS_ATTEMPT_LIMIT_EXCEEDED), and every worker is given the        *)
(* recorded refusal again.                                                     *)
RefusedTooLate(m) ==
    LET k == <<m, attemptNoOf(msgs[m])>> IN
    k[2] \in 2..MaxAttempts /\ store[k] # None /\ store[k].result = Refused(FALSE)

(* provider.ts:10-13 has a dead letter for every failure that is not retried.  *)
(* Through crashes of the workers every queued message is at last sent or      *)
(* dead-lettered, but for one whose permanent refusal came after a failed      *)
(* attempt: it stays queued.                                                   *)
MessagesSettled == \A m \in Thread : msgs[m].status = "queued" => RefusedTooLate(m)

================================================================================
