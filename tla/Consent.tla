-------------------------------- MODULE Consent --------------------------------
(***************************************************************************)
(* The consent lane (src/domain/consent): its pure functions over a        *)
(* registry, a sequence of grant rows, and the registry kept with them     *)
(* beside the customers' own words.  Time is a natural number, revokedAt 0 *)
(* is null.  The keeper of the registry puts the row revokeConsent returns *)
(* in the place of the one it came from, as the lane's tests do, or beside *)
(* it, as its comment and README ask.                                      *)
(***************************************************************************)
EXTENDS Naturals, Sequences, SequencesExt, FiniteSets

(* A tie that goes to the grant. *)
isActiveAtTie(g, at) == g.grantedAt <= at /\ (g.revokedAt = 0 \/ g.revokedAt >= at)

isActiveAt(g, at) == g.grantedAt <= at /\ (g.revokedAt = 0 \/ g.revokedAt > at)

SameTriple(g, customer, channel, purpose) ==
    g.customer = customer /\ g.channel = channel /\ g.purpose = purpose

Rows(grants) == {grants[i] : i \in DOMAIN grants}

(* CONSENT_ALREADY_ACTIVE is the only refusal of a well-formed grant. *)
mayGrant(grants, customer, channel, purpose, now) ==
    ~\E g \in Rows(grants) : SameTriple(g, customer, channel, purpose) /\ isActiveAt(g, now)

grantConsent(id, customer, channel, purpose, now) ==
    [id |-> id, customer |-> customer, channel |-> channel, purpose |-> purpose,
     grantedAt |-> now, revokedAt |-> 0]

revokeConsent(g, now) == [g EXCEPT !.revokedAt = now]

(* The decision: "allowed" or the typed refusal, first match wins. *)
assertCanContact(grants, customer, channel, purpose, now) ==
    LET mine == {g \in Rows(grants) : g.customer = customer}
        exact == {g \in mine : SameTriple(g, customer, channel, purpose)}
        live == {g \in mine : isActiveAt(g, now)}
    IN CASE exact \cap live # {} -> "allowed"
         [] exact \cap live = {} /\ \E g \in exact : g.revokedAt # 0 -> "REVOKED"
         [] OTHER ->
              IF \E g \in live : g.purpose = purpose THEN "WRONG_CHANNEL"
              ELSE IF \E g \in live : g.channel = channel THEN "WRONG_PURPOSE"
              ELSE "NO_GRANT"

(* The grant that supports an allowed contact: the latest, a tie going to the later row. *)
supportingGrant(grants, customer, channel, purpose, now) ==
    LET active == SelectSeq(grants, LAMBDA g : SameTriple(g, customer, channel, purpose) /\ isActiveAt(g, now))
    IN FoldLeft(LAMBDA best, g : IF g.grantedAt >= best.grantedAt THEN g ELSE best, Head(active), active)

byTimeThenId(rows, timeOf(_)) ==
    SortSeq(rows, LAMBDA g, h : timeOf(g) < timeOf(h) \/ (timeOf(g) = timeOf(h) /\ g.id < h.id))

(* The subject-access export. *)
consentTrail(grants, customer) ==
    LET mine == SelectSeq(grants, LAMBDA g : g.customer = customer)
        granted == byTimeThenId(mine, LAMBDA g : g.grantedAt)
    IN [granted |-> granted,
        revoked |-> byTimeThenId(SelectSeq(mine, LAMBDA g : g.revokedAt # 0), LAMBDA g : g.revokedAt),
        active |-> SelectSeq(granted, LAMBDA g : g.revokedAt = 0)]

(* The registry after row i is revoked; kept: with the original beside the revoked copy. *)
revocation(grants, i, now, kept) ==
    Append(IF kept THEN grants ELSE RemoveAt(grants, i), revokeConsent(grants[i], now))

--------------------------------------------------------------------------------
CONSTANTS Customers, Channels, Purposes,
          MaxRows,    \* bound: rows of the registry
          MaxTime     \* bound: the clock

VARIABLES registry, now,
          word    \* what the customer last said of each triple

vars == <<registry, now, word>>

Triples == Customers \X Channels \X Purposes
NextId == 1 + Cardinality({g.id : g \in Rows(registry)})

Init ==
    /\ registry = <<>> /\ now = 1
    /\ word = [t \in Triples |-> "silent"]

Grant(c, ch, p) ==
    /\ Len(registry) < MaxRows
    /\ mayGrant(registry, c, ch, p, now)
    /\ registry' = Append(registry, grantConsent(NextId, c, ch, p, now))
    /\ word' = [word EXCEPT ![c, ch, p] = "granted"]
    /\ UNCHANGED now

(* revokeConsent refuses a row that is already revoked. *)
Revoke(i, kept) ==
    LET g == registry[i]
    IN /\ g.revokedAt = 0
       /\ kept => Len(registry) < MaxRows
       /\ registry' = revocation(registry, i, now, kept)
       /\ word' = [word EXCEPT ![g.customer, g.channel, g.purpose] = "revoked"]
       /\ UNCHANGED now

Tick ==
    /\ now < MaxTime
    /\ now' = now + 1
    /\ UNCHANGED <<registry, word>>

Next ==
    \/ \E c \in Customers, ch \in Channels, p \in Purposes : Grant(c, ch, p)
    \/ \E i \in DOMAIN registry, kept \in BOOLEAN : Revoke(i, kept)
    \/ Tick

Spec == Init /\ [][Next]_vars

--------------------------------------------------------------------------------
TypeOK ==
    /\ now \in 1..MaxTime /\ Len(registry) <= MaxRows
    /\ \A i \in DOMAIN registry :
          /\ registry[i].grantedAt \in 1..now
          /\ registry[i].revokedAt # 0 => registry[i].grantedAt <= registry[i].revokedAt
    /\ \A i, j \in DOMAIN registry : (registry[i].id = registry[j].id /\ i # j) => registry[j].revokedAt # 0 \/ registry[i].revokedAt # 0

(* A triple whose revoked grant is still in the registry as it was granted. *)
OriginalKept(c, ch, p) ==
    \E g, h \in Rows(registry) : /\ SameTriple(g, c, ch, p) /\ g.id = h.id
                                 /\ g.revokedAt = 0 /\ h.revokedAt # 0

(* A contact is allowed exactly when the customer's last word on that channel and purpose *)
(* was a grant: no other triple lends its consent, a re-grant in the instant of the       *)
(* revocation counts, and a revocation is outlived in one way only, by the original row   *)
(* kept beside its revoked copy as consent-grant.ts:119-121 asks, which isActiveAt goes   *)
(* on taking for a grant (assertCanContact).                                              *)
ContactFollowsWord ==
    \A c \in Customers, ch \in Channels, p \in Purposes :
        (assertCanContact(registry, c, ch, p, now) = "allowed") <=>
            (word[c, ch, p] = "granted" \/ OriginalKept(c, ch, p))

(* The decision does not depend on the order in which the rows are handed over, whatever *)
(* order revocations have left them in (guard.ts's comment on its reduce).               *)
OrderIndependent ==
    \A c \in Customers, ch \in Channels, p \in Purposes :
        /\ assertCanContact(registry, c, ch, p, now) = assertCanContact(Reverse(registry), c, ch, p, now)
        /\ assertCanContact(registry, c, ch, p, now) = "allowed" =>
              supportingGrant(registry, c, ch, p, now) = supportingGrant(Reverse(registry), c, ch, p, now)

(* The export agrees with the guard: the triples it shows as live are those that may be  *)
(* contacted, kept originals included, and no row is left out.                           *)
TrailMatchesGuard ==
    \A c \in Customers :
        LET trail == consentTrail(registry, c)
        IN /\ {<<g.channel, g.purpose>> : g \in Rows(trail.active)} =
                 {cp \in Channels \X Purposes :
                    assertCanContact(registry, c, cp[1], cp[2], now) = "allowed"}
           /\ Len(trail.granted) = Len(trail.revoked) + Len(trail.active)
           /\ \A i, j \in DOMAIN trail.granted :
                 i < j => trail.granted[i].grantedAt <= trail.granted[j].grantedAt
================================================================================
