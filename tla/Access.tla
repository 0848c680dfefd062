--------------------------------- MODULE Access ---------------------------------
(***************************************************************************)
(* Who may do what (domain/auth) and the door that asks (adapters/http,    *)
(* middleware/auth.ts, routes/auth.ts, runtime/memory.ts): users, roles,   *)
(* grants, API keys and sessions of one organisation, the guard that turns *)
(* them into a decision, and the administration routes behind that guard.  *)
(* A permission is a pair <<resource, action>>; <<resource, "*">> is the   *)
(* wildcard only a role may carry.  A secret is a pair <<prefix, rest>>.   *)
(* Ids come from idGen: each table numbers its rows, and a principal's id  *)
(* is a pair <<kind, number>> so that no user shares an id with a key.     *)
(***************************************************************************)
EXTENDS Integers, FiniteSets, Bags

CONSTANTS Names,        \* e-mail addresses and user names, trimmed and lower-cased
          RoleDefs,     \* permission sets a role may be defined with
          Scopes,       \* scope sets a key may be issued with
          Places,       \* resources a grant may be scoped to
          Secrets,      \* <<prefix, rest>>, sixteen characters or more
          Idle, Absolute, Lifetimes,   \* session timeouts; key lifetimes, 0 for none
          MaxUsers, MaxRoles, MaxGrants, MaxKeys, MaxSessions, MaxDenials, MaxSuspensions, MaxTime

VARIABLES users, roles, grants, keys, sessions, events, clock

vars == <<users, roles, grants, keys, sessions, events, clock>>

None == <<"none", 0>>

PERMISSIONS ==
    {<<"receivables", "read">>, <<"receivables", "write">>, <<"payments", "read">>, <<"payments", "intake">>,
     <<"payments", "refund">>, <<"collections", "read">>, <<"collections", "act">>, <<"adjustments", "request">>,
     <<"adjustments", "approve">>, <<"ledger", "read">>, <<"ledger", "post">>, <<"intelligence", "read">>,
     <<"admin", "manage-users">>, <<"policy", "manage">>}
RESOURCES == {p[1] : p \in PERMISSIONS}
ADMIN_MANAGE_USERS == <<"admin", "manage-users">>

isRoleWildcard(rule) == rule[2] = "*" /\ rule[1] \in RESOURCES
assertPermission(p) == ~isRoleWildcard(p) /\ p \in PERMISSIONS
assertRolePermission(p) == isRoleWildcard(p) \/ assertPermission(p)

Covers(rule, p) == rule = p \/ (isRoleWildcard(rule) /\ rule[1] = p[1])
roleCovers(role, p) == \E rule \in role.permissions : Covers(rule, p)
expandRolePermissions(role) == {p \in PERMISSIONS : roleCovers(role, p)}

User == [email : Names, username : Names, status : {"active", "suspended", "deactivated"}]
Role == [permissions : RoleDefs \cup {{ADMIN_MANAGE_USERS, <<"receivables", "read">>}}]
RoleGrant == [userId : 1..MaxUsers, roleId : 1..MaxRoles, resourceId : Places \cup {"any"}, revoked : BOOLEAN]
ApiKey == [createdBy : {"user", "key"} \X Nat, secret : Secrets, scopes : SUBSET PERMISSIONS, expiresAt : 0..2 * MaxTime,
           status : {"active", "revoked"}]
Session == [userId : 1..MaxUsers, status : {"active", "ended", "revoked", "expired"}, createdAt : 0..MaxTime,
            lastSeenAt : 0..MaxTime, endedReason : {"none", "given", "idle", "absolute"}]

(* An emitted event: its name, the record it is about, and why. *)
authEvent(name, of, why) == [name |-> name, of |-> of, why |-> why]
Emit(e) == events' = events (+) SetToBag({e})
Denials == BagCardinality([e \in {x \in DOMAIN events : x.name \in {"accessDenied", "escalationBlocked"}} |-> events[e]])

Fresh(table) == Cardinality(DOMAIN table) + 1
Insert(table, row) == [i \in 1..Fresh(table) |-> IF i \in DOMAIN table THEN table[i] ELSE row]
NextId(table, bound) == Fresh(table) <= bound
--------------------------------------------------------------------------------
(* Sessions: terminal statuses first, then the absolute horizon, then the idle one. *)
sessionState(s) ==
    CASE s.status # "active" -> s.status
      [] s.status = "active" /\ clock >= s.createdAt + Absolute -> "absoluteExpired"
      [] s.status = "active" /\ clock < s.createdAt + Absolute /\ clock >= s.lastSeenAt + Idle -> "idleExpired"
      [] OTHER -> "active"

SESSION_STATE_REASONS == [idleExpired |-> "SESSION_IDLE_EXPIRED", absoluteExpired |-> "SESSION_ABSOLUTE_EXPIRED",
                          expired |-> "SESSION_ABSOLUTE_EXPIRED", revoked |-> "SESSION_REVOKED", ended |-> "SESSION_ENDED"]
STATUS_REASONS == [suspended |-> "PRINCIPAL_SUSPENDED", deactivated |-> "PRINCIPAL_DEACTIVATED",
                   revoked |-> "PRINCIPAL_REVOKED"]

Held(u) == {g \in DOMAIN grants : grants[g].userId = u /\ ~grants[g].revoked}
effectivePermissions(u) == UNION {expandRolePermissions(roles[grants[g].roleId]) : g \in Held(u)}

userPrincipal(u) ==
    [kind |-> "user", id |-> <<"user", u>>, status |-> users[u].status,
     rules |-> UNION {{<<rule, grants[g].resourceId>> : rule \in roles[grants[g].roleId].permissions} : g \in Held(u)}]
apiKeyPrincipal(k) ==
    [kind |-> "apiKey", id |-> <<"key", k>>, status |-> IF keys[k].status = "active" THEN "active" ELSE "revoked",
     rules |-> keys[k].scopes \X {"any"}]

(* resource = "any" when the caller names none. *)
can(principal, permission, resource) ==
    LET covering == {r \in principal.rules : Covers(r[1], permission)}
        inScope == {r \in covering : resource = "any" \/ r[2] \in {"any", resource}}
    IN  CASE permission \notin PERMISSIONS -> "PERMISSION_UNKNOWN"
          [] permission \in PERMISSIONS /\ principal.status # "active" -> STATUS_REASONS[principal.status]
          [] OTHER -> IF inScope # {} THEN "allowed" ELSE IF covering # {} THEN "NOT_IN_RESOURCE_SCOPE" ELSE "NO_GRANT"

(* authorize(): the session, when one is given (0 for none), then the user, then the rules. *)
authorize(s, u, permission, resource) ==
    IF s # 0 /\ sessionState(sessions[s]) # "active" THEN SESSION_STATE_REASONS[sessionState(sessions[s])]
    ELSE IF u \notin DOMAIN users THEN "PRINCIPAL_UNKNOWN" ELSE can(userPrincipal(u), permission, resource)

(* A credential names a session token, or a key id with a secret. *)
Credential(kind, id, secret) == [kind |-> kind, id |-> id, secret |-> secret]
Credentials ==
    {Credential(k, 0, None) : k \in {"none", "malformed"}}
    \cup {Credential("bearer", i, None) : i \in 1..(MaxSessions + 1)}
    \cup {Credential("apiKey", i, x) : i \in 1..MaxKeys, x \in Secrets}

Refused(reason) == [reason |-> reason, principal |-> None]
Identified(principal) == [reason |-> "allowed", principal |-> principal]

authenticateKey(secret) ==
    LET candidates == {k \in DOMAIN keys : keys[k].secret[1] = secret[1]}
        matched == {k \in candidates : keys[k].secret = secret}
        key == keys[CHOOSE k \in matched : TRUE]
        owner == key.createdBy
    IN  CASE candidates = {} -> "KEY_UNKNOWN"
          [] candidates # {} /\ matched = {} -> "KEY_SECRET_MISMATCH"
          [] matched # {} /\ key.status = "revoked" -> "KEY_REVOKED"
          [] matched # {} /\ key.status = "active" /\ key.expiresAt # 0 /\ clock >= key.expiresAt -> "KEY_EXPIRED"
          [] OTHER -> IF owner[1] = "user" /\ users[owner[2]].status # "active" THEN "KEY_OWNER_INACTIVE" ELSE "allowed"

sessionPrincipal(token) ==
    LET s == sessions[token]
        u == s.userId
    IN  IF token \notin DOMAIN sessions THEN Refused("PRINCIPAL_UNKNOWN")
        ELSE IF sessionState(s) # "active" THEN Refused(SESSION_STATE_REASONS[sessionState(s)])
        ELSE IF users[u].status # "active" THEN Refused(STATUS_REASONS[users[u].status])
        ELSE Identified(userPrincipal(u))

keyPrincipal(id, secret) ==
    LET found == authenticateKey(secret)
    IN  IF id \notin DOMAIN keys THEN Refused("KEY_UNKNOWN")
        ELSE IF found # "allowed" THEN Refused(found)
        ELSE IF keys[id].secret # secret THEN Refused("KEY_UNKNOWN")
        ELSE Identified(apiKeyPrincipal(id))

authenticateRequest(c) ==
    CASE c.kind \in {"none", "malformed"} -> Refused("PRINCIPAL_UNKNOWN")
      [] c.kind = "bearer" -> sessionPrincipal(c.id)
      [] c.kind = "apiKey" -> keyPrincipal(c.id, c.secret)

(* The kernel's gate: who is asking, then whether they may. *)
authorizeRequest(c, permission) ==
    LET authn == authenticateRequest(c)
    IN  IF authn.reason # "allowed" THEN authn.reason ELSE can(authn.principal, permission, "any")

(* The ids of the principals the gate lets through to a handler. *)
Admitted(permission) ==
    {authenticateRequest(c).principal.id : c \in {x \in Credentials : authorizeRequest(x, permission) = "allowed"}}

accessDenied(c, permission) ==
    /\ Denials < MaxDenials /\ authorizeRequest(c, permission) # "allowed"
    /\ Emit(authEvent("accessDenied", 0, authorizeRequest(c, permission)))
    /\ UNCHANGED <<users, roles, grants, keys, sessions, clock>>
--------------------------------------------------------------------------------
(* The administration routes, run for an admitted principal. *)
createUser(by, email, username) ==
    /\ NextId(users, MaxUsers)
    /\ \A u \in DOMAIN users : users[u].email # email /\ users[u].username # username
    /\ users' = Insert(users, [email |-> email, username |-> username, status |-> "active"])
    /\ Emit(authEvent("userCreated", Fresh(users), ""))
    /\ UNCHANGED <<roles, grants, keys, sessions, clock>>

(* What the granter lacks: a concrete permission, or any permission at all of a wildcard's resource. *)
Missing(role, granterPermissions) ==
    {rule \in role.permissions : IF isRoleWildcard(rule) THEN \A p \in granterPermissions : p[1] # rule[1]
                                 ELSE rule \notin granterPermissions}

grantRole(by, u, r, place) ==
    LET replay == {g \in Held(u) : grants[g].roleId = r /\ grants[g].resourceId = place}
        granterPermissions == IF by[1] = "user" THEN effectivePermissions(by[2]) ELSE {}
        blocked == IF ADMIN_MANAGE_USERS \notin granterPermissions THEN "GRANTER_NOT_ADMIN"
                   ELSE IF Missing(roles[r], granterPermissions) # {} THEN "GRANTER_LACKS_PERMISSION" ELSE "no"
    IN  /\ replay = {}
        /\ IF blocked = "no"
           THEN /\ NextId(grants, MaxGrants)
                /\ grants' = Insert(grants, [userId |-> u, roleId |-> r, resourceId |-> place, revoked |-> FALSE])
                /\ Emit(authEvent("roleGranted", Fresh(grants), ""))
           ELSE Denials < MaxDenials /\ Emit(authEvent("escalationBlocked", u, blocked)) /\ UNCHANGED grants
        /\ UNCHANGED <<users, roles, keys, sessions, clock>>

(* The route revokes organisation-wide grants: it passes no resource. *)
revokeRole(u, r) ==
    /\ \E g \in Held(u) : /\ grants[g].roleId = r /\ grants[g].resourceId = "any"
                          /\ grants' = [grants EXCEPT ![g].revoked = TRUE]
                          /\ Emit(authEvent("roleRevoked", g, ""))
    /\ UNCHANGED <<users, roles, keys, sessions, clock>>

issueKey(by, secret, scopes, lifetime) ==
    /\ NextId(keys, MaxKeys)
    /\ scopes # {} /\ \A p \in scopes : assertPermission(p)
    /\ \A k \in DOMAIN keys : keys[k].secret[1] # secret[1]
    /\ keys' = Insert(keys, [createdBy |-> by, secret |-> secret, scopes |-> scopes,
                             expiresAt |-> IF lifetime = 0 THEN 0 ELSE clock + lifetime, status |-> "active"])
    /\ Emit(authEvent("apiKeyIssued", Fresh(keys), ""))
    /\ UNCHANGED <<users, roles, grants, sessions, clock>>

(* A second revocation answers alreadyRevoked, without an event. *)
revokeKey(k) ==
    /\ keys[k].status = "active"
    /\ keys' = [keys EXCEPT ![k].status = "revoked"]
    /\ Emit(authEvent("apiKeyRevoked", k, ""))
    /\ UNCHANGED <<users, roles, grants, sessions, clock>>

EndWith(s, status, why) == sessions' = [sessions EXCEPT ![s].status = status, ![s].endedReason = why]

revokeSession(s) ==
    /\ sessionState(sessions[s]) = "active"
    /\ EndWith(s, "revoked", "given") /\ UNCHANGED <<users, roles, grants, keys, events, clock>>
--------------------------------------------------------------------------------
(* The operations no route exposes: sign-in, sign-out, the expiry sweep, user status, roles. *)
openSession(u) ==
    /\ NextId(sessions, MaxSessions)
    /\ sessions' = Insert(sessions, [userId |-> u, status |-> "active", createdAt |-> clock, lastSeenAt |-> clock,
                                     endedReason |-> "none"])
    /\ UNCHANGED <<users, roles, grants, keys, events, clock>>

touchSession(s) ==
    /\ sessionState(sessions[s]) = "active" /\ sessions' = [sessions EXCEPT ![s].lastSeenAt = clock]
    /\ UNCHANGED <<users, roles, grants, keys, events, clock>>

endSession(s) ==
    /\ sessionState(sessions[s]) = "active" /\ EndWith(s, "ended", "given")
    /\ UNCHANGED <<users, roles, grants, keys, events, clock>>

expireSession(s) ==
    /\ sessionState(sessions[s]) \in {"idleExpired", "absoluteExpired"}
    /\ LET why == IF sessionState(sessions[s]) = "idleExpired" THEN "idle" ELSE "absolute"
       IN  EndWith(s, "expired", why) /\ Emit(authEvent("sessionExpired", s, why))
    /\ UNCHANGED <<users, roles, grants, keys, clock>>

revokeSessionsForUser(u) ==
    /\ sessions' = [s \in DOMAIN sessions |->
                      IF sessions[s].userId = u /\ sessionState(sessions[s]) = "active"
                      THEN [sessions[s] EXCEPT !.status = "revoked", !.endedReason = "given"] ELSE sessions[s]]
    /\ UNCHANGED <<users, roles, grants, keys, events, clock>>

suspendUser(u) ==
    /\ users[u].status = "active" /\ users' = [users EXCEPT ![u].status = "suspended"]
    /\ Emit(authEvent("userSuspended", u, ""))
    /\ CopiesIn(authEvent("userSuspended", u, ""), events) < MaxSuspensions
    /\ UNCHANGED <<roles, grants, keys, sessions, clock>>

ReactivateAny(u) ==
    /\ users[u].status # "active" /\ users' = [users EXCEPT ![u].status = "active"]
    /\ UNCHANGED <<roles, grants, keys, sessions, events, clock>>

reactivateUser(u) ==
    /\ users[u].status = "suspended" /\ users' = [users EXCEPT ![u].status = "active"]
    /\ UNCHANGED <<roles, grants, keys, sessions, events, clock>>

deactivateUser(u) ==
    /\ users[u].status # "deactivated" /\ users' = [users EXCEPT ![u].status = "deactivated"]
    /\ UNCHANGED <<roles, grants, keys, sessions, events, clock>>

(* Role names are unique in the organisation; a definition never changes. *)
defineRole(permissions) ==
    /\ NextId(roles, MaxRoles) /\ permissions # {} /\ \A p \in permissions : assertRolePermission(p)
    /\ roles' = Insert(roles, [permissions |-> permissions])
    /\ UNCHANGED <<users, grants, keys, sessions, events, clock>>

Tick == clock < MaxTime /\ clock' = clock + 1 /\ UNCHANGED <<users, roles, grants, keys, sessions, events>>

(* seedWorld(): an administrator with a role, a grant, a session and a key. *)
AdminRole == [permissions |-> {ADMIN_MANAGE_USERS, <<"receivables", "read">>}]
Init ==
    /\ clock = 0
    /\ LET name == CHOOSE n \in Names : TRUE
       IN  users = <<[email |-> name, username |-> name, status |-> "active"]>>
    /\ roles = <<AdminRole>>
    /\ grants = <<[userId |-> 1, roleId |-> 1, resourceId |-> "any", revoked |-> FALSE]>>
    /\ sessions = <<[userId |-> 1, status |-> "active", createdAt |-> 0, lastSeenAt |-> 0, endedReason |-> "none"]>>
    /\ keys = <<[createdBy |-> <<"user", 1>>, secret |-> CHOOSE x \in Secrets : TRUE,
                scopes |-> {<<"receivables", "read">>}, expiresAt |-> 0, status |-> "active"]>>
    /\ events = SetToBag({authEvent("userCreated", 1, ""), authEvent("roleGranted", 1, ""), authEvent("apiKeyIssued", 1, "")})

Next ==
    \/ \E c \in Credentials, p \in {ADMIN_MANAGE_USERS, <<"payments", "read">>} : accessDenied(c, p)
    \/ \E by \in Admitted(ADMIN_MANAGE_USERS) :
          \/ \E e, n \in Names : createUser(by, e, n)
          \/ \E u \in DOMAIN users, r \in DOMAIN roles, at \in Places \cup {"any"} : grantRole(by, u, r, at)
          \/ \E u \in DOMAIN users, r \in DOMAIN roles : revokeRole(u, r)
          \/ \E x \in Secrets, scopes \in Scopes, life \in Lifetimes : issueKey(by, x, scopes, life)
          \/ \E k \in DOMAIN keys : revokeKey(k)
          \/ \E s \in DOMAIN sessions : revokeSession(s)
    \/ \E u \in DOMAIN users : \/ openSession(u) \/ revokeSessionsForUser(u)
                              \/ suspendUser(u) \/ reactivateUser(u) \/ deactivateUser(u)
    \/ \E s \in DOMAIN sessions : touchSession(s) \/ endSession(s) \/ expireSession(s)
    \/ \E permissions \in RoleDefs : defineRole(permissions)
    \/ Tick

Spec == Init /\ [][Next]_vars
--------------------------------------------------------------------------------
TypeOK ==
    /\ \A u \in DOMAIN users : users[u] \in User
    /\ \A r \in DOMAIN roles : roles[r] \in Role
    /\ \A g \in DOMAIN grants : grants[g] \in RoleGrant
    /\ \A k \in DOMAIN keys : keys[k] \in ApiKey
    /\ \A s \in DOMAIN sessions : sessions[s] \in Session
    /\ clock \in 0..MaxTime

(* A request the gate lets through is backed by records that hold now: a session within     *)
(* both horizons, however often it was touched, of an active user with a live grant of a    *)
(* role that covers the permission; or a live key with that scope, whose owner, when the    *)
(* owner is a user, is active.  The domain's authorize() agrees with the gate.              *)
AccessIsBacked ==
    \A c \in Credentials :
        LET who == authenticateRequest(c)
            may == {p \in PERMISSIONS : can(who.principal, p, "any") = "allowed"}
            s == sessions[c.id]
            k == keys[c.id]
        IN  who.reason = "allowed" =>
              \/ /\ c.kind = "bearer" /\ may = effectivePermissions(s.userId)
                 /\ s.status = "active" /\ clock - s.createdAt < Absolute /\ clock - s.lastSeenAt < Idle
                 /\ users[s.userId].status = "active"
                 /\ \A p \in PERMISSIONS : (authorize(c.id, s.userId, p, "any") = "allowed") <=> p \in may
              \/ /\ c.kind = "apiKey" /\ may = k.scopes /\ k.secret = c.secret
                 /\ k.status = "active" /\ (k.expiresAt = 0 \/ clock < k.expiresAt)
                 /\ k.createdBy[1] = "user" => users[k.createdBy[2]].status = "active"

(* No chain of grants reaches a resource the seeded administrator had no permission on, nor *)
(* a permission they lacked unless a role's wildcard names its resource (grantRole).        *)
AuthorityStaysInResource ==
    LET seeded == expandRolePermissions(AdminRole)
        wild == {rule[1] : rule \in {x \in UNION {roles[r].permissions : r \in DOMAIN roles} : isRoleWildcard(x)}}
    IN  \A u \in DOMAIN users : \A p \in effectivePermissions(u) :
            p \in seeded \/ (p[1] \in wild /\ \E q \in seeded : q[1] = p[1])

(* Among live grants none repeats user, role and place (the replay check), no two keys share *)
(* a prefix, revoked or not, and no two users an e-mail or a user name; so a secret finds    *)
(* one key.                                                                                  *)
RecordsAreUnique ==
    /\ \A g, h \in DOMAIN grants :
          (g # h /\ ~grants[g].revoked /\ ~grants[h].revoked) =>
              <<grants[g].userId, grants[g].roleId, grants[g].resourceId>>
                # <<grants[h].userId, grants[h].roleId, grants[h].resourceId>>
    /\ \A k, l \in DOMAIN keys : k # l => keys[k].secret[1] # keys[l].secret[1]
    /\ \A u, v \in DOMAIN users : u # v => users[u].email # users[v].email /\ users[u].username # users[v].username

(* Every grant, key and expired session has its event, once, and every revocation of a      *)
(* grant or a key has one (authEvent, store.record); a session's revocation has none.       *)
EventsTellRecords ==
    LET Once(name, ids, why) ==
            /\ \A i \in ids : CopiesIn(authEvent(name, i, why), events) = 1
            /\ {e.of : e \in {x \in DOMAIN events : x.name = name /\ x.why = why}} = ids
    IN  /\ Once("userCreated", DOMAIN users, "")
        /\ Once("roleGranted", DOMAIN grants, "")
        /\ Once("roleRevoked", {g \in DOMAIN grants : grants[g].revoked}, "")
        /\ Once("apiKeyIssued", DOMAIN keys, "")
        /\ Once("apiKeyRevoked", {k \in DOMAIN keys : keys[k].status = "revoked"}, "")
        /\ \A why \in {"idle", "absolute"} :
              Once("sessionExpired", {s \in DOMAIN sessions : sessions[s].status = "expired" /\ sessions[s].endedReason = why}, why)

Usable(k) == keys[k].status = "active" /\ (keys[k].expiresAt = 0 \/ clock < keys[k].expiresAt)

(* What has ended never returns: a session that is no longer active (swept or not), a key    *)
(* revoked or past its expiry, a revoked grant, a deactivated user.                          *)
EndedStays ==
    /\ \A s \in DOMAIN sessions : sessionState(sessions[s]) # "active" => (sessionState(sessions[s]) # "active")'
    /\ \A k \in DOMAIN keys : ~Usable(k) => ~Usable(k)'
    /\ \A g \in DOMAIN grants : grants[g].revoked => grants'[g] = grants[g]
    /\ \A u \in DOMAIN users : users[u].status = "deactivated" => users'[u].status = "deactivated"
================================================================================
