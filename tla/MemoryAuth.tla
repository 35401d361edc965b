------------------------------ MODULE MemoryAuth ------------------------------
(***************************************************************************)
(* The in-memory authenticator of internal/auth/service.go with the HTTP   *)
(* guard before it.  Each of its methods holds the service's mutex from    *)
(* its first look to its last write and is one step; what the guard makes  *)
(* of the actor, outside the mutex, is of that request alone and goes with *)
(* the step.  The directory never changes; a session carries the actor its *)
(* login found, and is lost with the process.  A token stands for its hash.*)
(***************************************************************************)
EXTENDS GuardRules, FiniteSets

CONSTANTS
    Tenants, Users, Roles,
    Tokens,          \* random access tokens a login may draw
    Forged,          \* a token no login draws
    Calls,           \* requests being served
    Commands,        \* what clients ask
    Memberships,     \* <<tenant, user, role>>s of the directory
    RoleByCode,      \* the permissions of the roles there are
    Active,          \* users and tenants whose status is ACTIVE
    SessionTTL,      \* life of a session
    MaxTime,         \* bound: the clock stops there
    MaxRestarts,     \* bound: restarts of the server
    None

BearerToken == Tokens \cup {Forged, None}

\* As in AuthSessions: a login with its credentials known or not, a logout, or
\* a request to a guarded route.
Command ==
    [op: {"login"}, user: Users, known: BOOLEAN, tenant: Tenants \cup {None},
     complete: BOOLEAN]
    \cup [op: {"logout"}, token: BearerToken]
    \cup [op: GuardedOps, token: BearerToken, level: Int]

Actor == [tenant: Tenants, user: Users, permissions: SUBSET Permissions]
StoredSession == [actor: Actor, expiresAt: Nat]

ASSUME MemoryAuthAssumption ==
    /\ Commands \subseteq Command
    /\ Memberships \subseteq Tenants \X Users \X Roles
    /\ RoleByCode \in [Roles -> SUBSET Permissions]
    /\ Active \subseteq Tenants \cup Users
    /\ SessionTTL \in Nat \ {0}
    /\ {MaxTime, MaxRestarts} \subseteq Nat
    /\ Forged \notin Tokens

VARIABLES
    sessions,   \* Service.sessions, or None
    clock, restarts,
    handedOut,  \* tokens clients have received
    cmd,        \* per call: what it serves, or None
    actor,      \* per call: the actor in the context of a handler, or None
    error       \* per call: the error it answers, or "OK"

callVars == <<cmd, actor, error>>
vars == <<sessions, clock, restarts, handedOut, callVars>>

NoSessions == [k \in Tokens |-> None]

CallsAtRest(m, a, e) ==
    /\ m = [c \in Calls |-> None]
    /\ a = [c \in Calls |-> None]
    /\ e = [c \in Calls |-> "OK"]

Init ==
    /\ sessions = NoSessions
    /\ clock = 0 /\ restarts = 0
    /\ handedOut = {}
    /\ CallsAtRest(cmd, actor, error)

Finish(c, m, e) ==
    /\ cmd' = [cmd EXCEPT ![c] = m]
    /\ actor' = [actor EXCEPT ![c] = None]
    /\ error' = [error EXCEPT ![c] = e]

AtRest(c) == actor[c] = None

-----------------------------------------------------------------------------
(* Login *)

Matching(m) ==
    {s \in Memberships : s[2] = m.user /\ m.tenant \in {None, s[1]}}

\* Several tenants are ambiguous even if some of them are disabled.
ActorRefusal(m) ==
    LET tenants == {s[1] : s \in Matching(m)} IN
    IF tenants = {} THEN IF m.tenant = None THEN "ErrNoActiveMembership"
                         ELSE "ErrTenantNotFound"
    ELSE IF Cardinality(tenants) > 1 THEN "ErrAmbiguousMembership"
    ELSE IF tenants \subseteq Active THEN "OK"
    ELSE "ErrTenantNotFound"

LoginRefusal(m) ==
    IF ~ m.complete THEN "ErrFieldRequired"
    ELSE IF ~ m.known \/ m.user \notin Active THEN "ErrInvalidCredentials"
    ELSE ActorRefusal(m)

ActorFor(m) ==
    [tenant |-> (CHOOSE s \in Matching(m) : TRUE)[1], user |-> m.user,
     permissions |-> UNION {RoleByCode[s[3]] : s \in Matching(m)}]

FreshTokens == {k \in Tokens \ handedOut : sessions[k] = None}

\* The response may be lost on its way.
Login(c, m) ==
    /\ AtRest(c)
    /\ m.op = "login"
    /\ Finish(c, m, LoginRefusal(m))
    /\ \/ /\ LoginRefusal(m) # "OK"
          /\ UNCHANGED <<sessions, handedOut>>
       \/ /\ LoginRefusal(m) = "OK"
          /\ \E k \in FreshTokens :
                /\ sessions' = [sessions EXCEPT ![k] =
                       [actor |-> ActorFor(m), expiresAt |-> clock + SessionTTL]]
                /\ handedOut' \in {handedOut, handedOut \cup {k}}
    /\ UNCHANGED <<clock, restarts>>

-----------------------------------------------------------------------------
(* Authenticate, with the guard *)

Presents(c, token) == AtRest(c) /\ token \in handedOut \cup {Forged, None}

SessionOf(token) == IF token \in Tokens THEN sessions[token] ELSE None

\* Mutant: a session found is taken for one that is good.
TokenRefusal_Found(token) ==
    IF token = None THEN "ErrTokenRequired"
    ELSE IF SessionOf(token) = None THEN "ErrInvalidToken"
    ELSE "OK"

TokenRefusal(token) ==
    IF token = None THEN "ErrTokenRequired"
    ELSE IF SessionOf(token) = None THEN "ErrInvalidToken"
    ELSE IF clock >= SessionOf(token).expiresAt THEN "ErrSessionExpired"
    ELSE "OK"

RequestRefusal(m) ==
    IF TokenRefusal(m.token) # "OK" THEN TokenRefusal(m.token)
    ELSE GuardRefusal(m, SessionOf(m.token).actor.permissions)

Authenticate(c, m) ==
    /\ m.op \in GuardedOps
    /\ Presents(c, m.token)
    /\ \/ /\ RequestRefusal(m) # "OK"
          /\ Finish(c, m, RequestRefusal(m))
       \/ /\ RequestRefusal(m) = "OK"
          /\ cmd' = [cmd EXCEPT ![c] = m]
          /\ actor' = [actor EXCEPT ![c] = SessionOf(m.token).actor]
          /\ error' = [error EXCEPT ![c] = "OK"]
    /\ UNCHANGED <<sessions, clock, restarts, handedOut>>

\* The handler behind the guard.
Handle(c) ==
    /\ ~ AtRest(c)
    /\ Finish(c, cmd[c], "OK")
    /\ UNCHANGED <<sessions, clock, restarts, handedOut>>

-----------------------------------------------------------------------------
(* Logout, and the world *)

Logout(c, m) ==
    /\ m.op = "logout"
    /\ Presents(c, m.token)
    /\ Finish(c, m, IF m.token = None THEN "ErrTokenRequired" ELSE "OK")
    /\ sessions' = [k \in Tokens |-> IF k = m.token THEN None ELSE sessions[k]]
    /\ UNCHANGED <<clock, restarts, handedOut>>

Restart ==
    /\ restarts < MaxRestarts
    /\ restarts' = restarts + 1
    /\ sessions' = NoSessions
    /\ CallsAtRest(cmd', actor', error')
    /\ UNCHANGED <<clock, handedOut>>

Tick ==
    /\ clock < MaxTime
    /\ clock' = clock + 1
    /\ UNCHANGED <<sessions, restarts, handedOut, callVars>>

Next ==
    \/ \E c \in Calls, m \in Commands : Login(c, m) \/ Authenticate(c, m) \/ Logout(c, m)
    \/ \E c \in Calls : Handle(c)
    \/ Restart \/ Tick

Spec == Init /\ [][Next]_vars

-----------------------------------------------------------------------------
(* It is an Authenticator, as AuthSessions is. *)

OpenSessions ==
    {[token |-> k, tenant |-> sessions[k].actor.tenant, user |-> sessions[k].actor.user] :
        k \in {t \in Tokens : sessions[t] # None /\ clock < sessions[t].expiresAt}}

AdmittedBy ==
    [c \in Calls |-> IF AtRest(c) THEN None
        ELSE [token |-> cmd[c].token, tenant |-> actor[c].tenant, user |-> actor[c].user]]

Promise == INSTANCE Authenticator WITH open <- OpenSessions, admitted <- AdmittedBy

\* The interface's promise holds over the memory of a process too: logouts and
\* expiry close a session for good, and so does a restart (auth/service.go:33).
AuthenticatorSpec == Promise!Spec
===============================================================================
