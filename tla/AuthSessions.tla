----------------------------- MODULE AuthSessions -----------------------------
(***************************************************************************)
(* Login, logout and the guard of the HTTP handlers over PostgreSQL:       *)
(* PersistentService of internal/auth, its repository, and                 *)
(* requirePermission, requireAnyPermission and resolveReviewApprovalLevel  *)
(* of internal/httpapi.  A repository method is one SQL statement and one  *)
(* step; what a request does between two statements goes with the first.   *)
(*                                                                         *)
(* Meanwhile an administrator changes members, roles and statuses, the     *)
(* clock runs and the server restarts.  A token stands for its hash.       *)
(***************************************************************************)
EXTENDS GuardRules, FiniteSets

CONSTANTS
    Tenants, Users, Roles,
    Tokens,          \* random access tokens a login may draw
    Forged,          \* a token no login draws
    Calls,           \* requests being served
    Commands,        \* what clients ask
    InitialRoles,    \* role of each <<tenant, user>> at first, or None
    InitialGrants,   \* permissions of each role at first
    SessionTTL,      \* life of a session
    MaxTime,         \* bound: the clock stops there
    MaxChanges,      \* bound: changes by the administrator
    MaxRestarts,     \* bound: restarts of the server
    None

Members == Tenants \X Users
Times == 0 .. MaxTime

BearerToken == Tokens \cup {Forged, None}

\* known: e-mail and password are those of the user; tenant = None: no tenant_id
\* in the body; token = None: no bearer token; complete = FALSE: a blank field.
LoginCommand == [op: {"login"}, user: Users, known: BOOLEAN,
                 tenant: Tenants \cup {None}, complete: BOOLEAN]
LogoutCommand == [op: {"logout"}, token: BearerToken]
GuardedCommand == [op: GuardedOps, token: BearerToken, level: Int]
Command == LoginCommand \cup LogoutCommand \cup GuardedCommand

SessionRecord == [token: Tokens, tenant: Tenants, user: Users, createdAt: Times,
                  expiresAt: Nat, revokedAt: Times \cup {None}]

\* The actor in a handler's context, and the level it reviews at (0: no review).
Actor == [tenant: Tenants, user: Users, permissions: SUBSET Permissions,
          level: 0 .. 2]

ASSUME AuthAssumption ==
    /\ IsFiniteSet(Tenants)
    /\ Commands \subseteq Command
    /\ InitialRoles \in [Members -> Roles \cup {None}]
    /\ InitialGrants \in [Roles -> SUBSET Permissions]
    /\ SessionTTL \in Nat \ {0}
    /\ {MaxTime, MaxChanges, MaxRestarts} \subseteq Nat
    /\ Forged \notin Tokens
    /\ None \notin Tenants \cup Roles \cup Tokens \cup {Forged} \cup Times
    /\ None \notin SessionRecord /\ None \notin Actor /\ None \notin Command

VARIABLES
    roleOf,     \* tenant_members: the role of a member, or None
    active,     \* users and tenants whose status is ACTIVE
    grants,     \* permissions of every role
    sessions,   \* rows of auth_sessions
    clock, changes, restarts,
    handedOut,  \* tokens clients have received
    pc,         \* per call: its next statement, "Handling" or "Done"
    cmd,        \* per call: what it serves
    row,        \* per call: the session row read, or to be written
    readAt,     \* per call: the time a logout has read
    actor,      \* per call: the actor admitted, or logged in for good
    error       \* per call: the error it answers, or "OK"

directoryVars == <<roleOf, active, grants>>
worldVars == <<clock, changes, restarts>>
callVars == <<pc, cmd, row, readAt, actor, error>>
vars == <<directoryVars, sessions, worldVars, handedOut, callVars>>

Statements == {"FindUserByEmail", "ResolveLogin", "CreateSession",
               "FindSessionByTokenHash", "ResolveActor", "RevokeSession"}
Errors == {"ErrFieldRequired", "ErrInvalidCredentials", "ErrTenantNotFound",
           "ErrNoActiveMembership", "ErrAmbiguousMembership", "ErrTokenRequired",
           "ErrInvalidToken", "ErrSessionExpired", "ErrPermissionDenied",
           "ErrApprovalLevelInvalid", "ErrInternal"}

TypeOK ==
    /\ roleOf \in [Members -> Roles \cup {None}]
    /\ active \subseteq Tenants \cup Users
    /\ grants \in [Roles -> SUBSET Permissions]
    /\ sessions \subseteq SessionRecord
    /\ clock \in Times /\ changes \in 0 .. MaxChanges /\ restarts \in 0 .. MaxRestarts
    /\ handedOut \subseteq Tokens
    /\ pc \in [Calls -> Statements \cup {"Idle", "Handling", "Done"}]
    /\ cmd \in [Calls -> Command \cup {None}]
    /\ row \in [Calls -> SessionRecord \cup {None}]
    /\ readAt \in [Calls -> Times]
    /\ actor \in [Calls -> Actor \cup {None}]
    /\ error \in [Calls -> Errors \cup {"OK"}]

CallsAtRest(p, m, r, t, a, e) ==
    /\ p = [c \in Calls |-> "Idle"]
    /\ m = [c \in Calls |-> None]
    /\ r = [c \in Calls |-> None]
    /\ t = [c \in Calls |-> 0]
    /\ a = [c \in Calls |-> None]
    /\ e = [c \in Calls |-> "OK"]

Init ==
    /\ roleOf = InitialRoles
    /\ active = Tenants \cup Users
    /\ grants = InitialGrants
    /\ sessions = {}
    /\ clock = 0 /\ changes = 0 /\ restarts = 0
    /\ handedOut = {}
    /\ CallsAtRest(pc, cmd, row, readAt, actor, error)

-----------------------------------------------------------------------------
(* Moves of one call. *)

\* Goes on to the statement label with session row r in hand.
Carry(c, r, label) ==
    /\ pc' = [pc EXCEPT ![c] = label]
    /\ row' = [row EXCEPT ![c] = r]
    /\ UNCHANGED <<cmd, readAt, actor, error>>

Finish(c, a, e) ==
    /\ pc' = [pc EXCEPT ![c] = "Done"]
    /\ row' = [row EXCEPT ![c] = None]
    /\ readAt' = [readAt EXCEPT ![c] = 0]
    /\ actor' = [actor EXCEPT ![c] = a]
    /\ error' = [error EXCEPT ![c] = e]
    /\ UNCHANGED cmd

Fail(c, e) == Finish(c, None, e)

\* What a request goes through before its first statement.
FirstRefusal(m) ==
    IF m.op = "login" THEN IF m.complete THEN "OK" ELSE "ErrFieldRequired"
    ELSE IF m.token = None THEN "ErrTokenRequired" ELSE "OK"

FirstStatement(m) ==
    CASE m.op = "login"      -> "FindUserByEmail"
      [] m.op = "logout"     -> "RevokeSession"
      [] m.op \in GuardedOps -> "FindSessionByTokenHash"

\* A client sends m; it knows no token but those it was handed.
Begin(c, m) ==
    /\ pc[c] \in {"Idle", "Done"}
    /\ m.op # "login" => m.token \in handedOut \cup {Forged, None}
    /\ cmd' = [cmd EXCEPT ![c] = m]
    /\ LET refusal == FirstRefusal(m) IN
       /\ pc' = [pc EXCEPT ![c] = IF refusal = "OK" THEN FirstStatement(m) ELSE "Done"]
       /\ error' = [error EXCEPT ![c] = refusal]
    /\ readAt' = [readAt EXCEPT ![c] = IF m.op = "logout" THEN clock ELSE 0]
    /\ actor' = [actor EXCEPT ![c] = None]
    /\ UNCHANGED <<directoryVars, sessions, worldVars, handedOut, row>>

-----------------------------------------------------------------------------
(* ResolveActor *)

\* The tenants in which the statement finds user u; tenant = None asks for any.
FoundTenants(u, tenant) ==
    {t \in Tenants : /\ tenant \in {None, t}
                     /\ roleOf[<<t, u>>] # None
                     /\ {t, u} \subseteq active}

ResolveRefusal(u, tenant) ==
    LET found == FoundTenants(u, tenant) IN
    IF Cardinality(found) > 1 THEN "ErrAmbiguousMembership"
    ELSE IF found # {} THEN "OK"
    ELSE IF tenant # None THEN "ErrTenantNotFound"
    ELSE "ErrNoActiveMembership"

ResolvedActor(u, t) ==
    [tenant |-> t, user |-> u, permissions |-> grants[roleOf[<<t, u>>]], level |-> 0]

-----------------------------------------------------------------------------
(* Login *)

FindUserByEmail(c) ==
    /\ pc[c] = "FindUserByEmail"
    /\ \/ /\ ~ cmd[c].known \/ cmd[c].user \notin active
          /\ Fail(c, "ErrInvalidCredentials")
       \/ /\ cmd[c].known /\ cmd[c].user \in active
          /\ Carry(c, None, "ResolveLogin")
    /\ UNCHANGED <<directoryVars, sessions, worldVars, handedOut>>

\* Random tokens differ from every one in use or in a client's hands.
FreshTokens ==
    Tokens \ (handedOut \cup {s.token : s \in sessions}
                        \cup {row[c].token : c \in {d \in Calls : row[d] # None}})

NewSession(k, t, u) ==
    [token |-> k, tenant |-> t, user |-> u, createdAt |-> clock,
     expiresAt |-> clock + SessionTTL, revokedAt |-> None]

\* Mutant: with several tenants to choose from, one is taken.
ResolveLogin_FirstTenant(c) ==
    /\ pc[c] = "ResolveLogin"
    /\ \E k \in FreshTokens, t \in FoundTenants(cmd[c].user, cmd[c].tenant) :
          /\ pc' = [pc EXCEPT ![c] = "CreateSession"]
          /\ row' = [row EXCEPT ![c] = NewSession(k, t, cmd[c].user)]
          /\ actor' = [actor EXCEPT ![c] = ResolvedActor(cmd[c].user, t)]
          /\ UNCHANGED <<cmd, readAt, error>>
    /\ UNCHANGED <<directoryVars, sessions, worldVars, handedOut>>

ResolveLogin(c) ==
    /\ pc[c] = "ResolveLogin"
    /\ LET m == cmd[c]
           refusal == ResolveRefusal(m.user, m.tenant)
       IN  \/ /\ refusal # "OK"
              /\ Fail(c, refusal)
           \/ /\ refusal = "OK"
              /\ \E k \in FreshTokens, t \in FoundTenants(m.user, m.tenant) :
                    /\ row' = [row EXCEPT ![c] = NewSession(k, t, m.user)]
                    /\ actor' = [actor EXCEPT ![c] = ResolvedActor(m.user, t)]
              /\ pc' = [pc EXCEPT ![c] = "CreateSession"]
              /\ UNCHANGED <<cmd, readAt, error>>
    /\ UNCHANGED <<directoryVars, sessions, worldVars, handedOut>>

\* The foreign key refuses a row whose member is gone; an acknowledgement that
\* is lost leaves a session whose token nobody has.
CreateSession(c) ==
    /\ pc[c] = "CreateSession"
    /\ \/ /\ roleOf[<<row[c].tenant, row[c].user>>] # None
          /\ sessions' = sessions \cup {row[c]}
          /\ \/ /\ handedOut' = handedOut \cup {row[c].token}
                /\ Finish(c, actor[c], "OK")
             \/ /\ Fail(c, "ErrInternal")
                /\ UNCHANGED handedOut
       \/ /\ roleOf[<<row[c].tenant, row[c].user>>] = None
          /\ Fail(c, "ErrInternal")
          /\ UNCHANGED <<sessions, handedOut>>
    /\ UNCHANGED <<directoryVars, worldVars>>

-----------------------------------------------------------------------------
(* The guard: Authenticate, then requirePermission or requireAnyPermission,  *)
(* and for a review resolveReviewApprovalLevel.                              *)

RowsOf(k) == {s \in sessions : s.token = k}

\* Mutants: a logged-out session is not told from another one, or a session
\* is good for one tick longer.
SessionRefusal_IgnoresLogout(s) ==
    IF clock >= s.expiresAt THEN "ErrSessionExpired" ELSE "OK"

SessionRefusal_Late(s) ==
    IF s.revokedAt # None THEN "ErrInvalidToken"
    ELSE IF clock > s.expiresAt THEN "ErrSessionExpired"
    ELSE "OK"

SessionRefusal(s) ==
    IF s.revokedAt # None THEN "ErrInvalidToken"
    ELSE IF clock >= s.expiresAt THEN "ErrSessionExpired"
    ELSE "OK"

FindSessionByTokenHash(c) ==
    /\ pc[c] = "FindSessionByTokenHash"
    /\ \/ /\ RowsOf(cmd[c].token) = {}
          /\ Fail(c, "ErrInvalidToken")
       \/ \E s \in RowsOf(cmd[c].token) :
            LET refusal == SessionRefusal(s) IN
            \/ refusal # "OK" /\ Fail(c, refusal)
            \/ refusal = "OK" /\ Carry(c, s, "ResolveActor")
    /\ UNCHANGED <<directoryVars, sessions, worldVars, handedOut>>

Admitted(m, a) ==
    IF m.op = "review" THEN [a EXCEPT !.level = ReviewLevel(a.permissions, m.level)]
    ELSE a

ResolveActor(c) ==
    /\ pc[c] = "ResolveActor"
    /\ LET m == cmd[c]
           s == row[c]
           found == ResolveRefusal(s.user, s.tenant)
           resolved == ResolvedActor(s.user, s.tenant)
           refusal == GuardRefusal(m, resolved.permissions)
       IN  \/ /\ found # "OK"
              /\ Fail(c, "ErrInvalidToken")
           \/ /\ found = "OK"
              /\ refusal # "OK"
              /\ Fail(c, refusal)
           \/ /\ found = "OK"
              /\ refusal = "OK"
              /\ pc' = [pc EXCEPT ![c] = "Handling"]
              /\ row' = [row EXCEPT ![c] = None]
              /\ actor' = [actor EXCEPT ![c] = Admitted(m, resolved)]
              /\ UNCHANGED <<cmd, readAt, error>>
    /\ UNCHANGED <<directoryVars, sessions, worldVars, handedOut>>

\* The handler behind the guard; what it does to refunds is RefundService.
Handle(c) ==
    /\ pc[c] = "Handling"
    /\ Finish(c, None, "OK")
    /\ UNCHANGED <<directoryVars, sessions, worldVars, handedOut>>

-----------------------------------------------------------------------------
(* Logout *)

\* Mutant: the last logout's time is kept, not the first one's.
Revoked_Last(s, time) == [s EXCEPT !.revokedAt = time]

Revoked(s, time) ==
    [s EXCEPT !.revokedAt = IF s.revokedAt = None THEN time ELSE s.revokedAt]

\* A token without a session is logged out already.
RevokeSession(c) ==
    /\ pc[c] = "RevokeSession"
    /\ sessions' = {IF s.token = cmd[c].token THEN Revoked(s, readAt[c]) ELSE s :
                       s \in sessions}
    /\ Finish(c, None, "OK") \/ Fail(c, "ErrInternal")
    /\ UNCHANGED <<directoryVars, worldVars, handedOut>>

-----------------------------------------------------------------------------
(* The environment. *)

\* A statement returns a database error or a cancelled context.
CallFails(c) ==
    /\ pc[c] \in Statements
    /\ Fail(c, "ErrInternal")
    /\ UNCHANGED <<directoryVars, sessions, worldVars, handedOut>>

\* The server stops and starts again over the same database.
Restart ==
    /\ restarts < MaxRestarts
    /\ restarts' = restarts + 1
    /\ CallsAtRest(pc', cmd', row', readAt', actor', error')
    /\ UNCHANGED <<directoryVars, sessions, clock, changes, handedOut>>

Tick ==
    /\ clock < MaxTime
    /\ clock' = clock + 1
    /\ UNCHANGED <<directoryVars, sessions, changes, restarts, handedOut, callVars>>

Change ==
    /\ changes < MaxChanges
    /\ changes' = changes + 1
    /\ UNCHANGED <<clock, restarts, handedOut, callVars>>

\* Hires a member, or gives one another role.
AssignRole(m, r) ==
    /\ Change
    /\ roleOf[m] # r
    /\ roleOf' = [roleOf EXCEPT ![m] = r]
    /\ UNCHANGED <<active, grants, sessions>>

\* Mutant: sessions do not go with their member.
RemoveMember_KeepsSessions(m) ==
    /\ Change
    /\ roleOf[m] # None
    /\ roleOf' = [roleOf EXCEPT ![m] = None]
    /\ UNCHANGED <<active, grants, sessions>>

\* ON DELETE CASCADE takes the member's sessions along.
RemoveMember(m) ==
    /\ Change
    /\ roleOf[m] # None
    /\ roleOf' = [roleOf EXCEPT ![m] = None]
    /\ sessions' = {s \in sessions : <<s.tenant, s.user>> # m}
    /\ UNCHANGED <<active, grants>>

\* Disables a user or a tenant, or enables it again.
ChangeStatus(x) ==
    /\ Change
    /\ active' = IF x \in active THEN active \ {x} ELSE active \cup {x}
    /\ UNCHANGED <<roleOf, grants, sessions>>

RevokePermission(r, p) ==
    /\ Change
    /\ p \in grants[r]
    /\ grants' = [grants EXCEPT ![r] = @ \ {p}]
    /\ UNCHANGED <<roleOf, active, sessions>>

CallStep(c) ==
    \/ FindUserByEmail(c) \/ ResolveLogin(c) \/ CreateSession(c)
    \/ FindSessionByTokenHash(c) \/ ResolveActor(c) \/ Handle(c)
    \/ RevokeSession(c)

Administration ==
    \/ \E m \in Members : RemoveMember(m)
    \/ \E m \in Members, r \in Roles : AssignRole(m, r)
    \/ \E x \in Tenants \cup Users : ChangeStatus(x)
    \/ \E r \in Roles, p \in Permissions : RevokePermission(r, p)

Next ==
    \/ \E c \in Calls, m \in Commands : Begin(c, m)
    \/ \E c \in Calls : CallStep(c) \/ CallFails(c)
    \/ Restart \/ Tick \/ Administration

Spec == Init /\ [][Next]_vars
=============================================================================
