--------------------------- MODULE MemoryAuthProofs ---------------------------
(***************************************************************************)
(* The in-memory authenticator keeps the promise of the interface, for any *)
(* directory, requests, tokens and life of a session: every step of it is  *)
(* a step of an Authenticator, or none that shows.                         *)
(***************************************************************************)
EXTENDS MemoryAuth, TLAPS

MemoryTyped ==
    /\ sessions \in [Tokens -> StoredSession \cup {None}]
    /\ clock \in Nat
    /\ cmd \in [Calls -> Command \cup {None}]
    /\ actor \in [Calls -> Actor \cup {None}]

-----------------------------------------------------------------------------
(* Logins *)

\* A login that is let in has a membership to stand on, and gets the actor of
\* one of its tenants.
LEMMA ActorType ==
    ASSUME NEW m \in Command, m.op = "login", LoginRefusal(m) = "OK"
    PROVE  ActorFor(m) \in Actor
<1>1. m.user \in Users
  BY DEF Command, GuardedOps
<1>2. PICK s \in Matching(m) : s = CHOOSE x \in Matching(m) : TRUE
  <2>1. {s[1] : s \in Matching(m)} # {}
    BY Zenon DEF LoginRefusal, ActorRefusal
  <2> QED BY <2>1
<1>3. s[1] \in Tenants
  BY MemoryAuthAssumption DEF Matching
<1>4. UNION {RoleByCode[x[3]] : x \in Matching(m)} \subseteq Permissions
  <2>1. ASSUME NEW x \in Matching(m) PROVE RoleByCode[x[3]] \subseteq Permissions
    BY MemoryAuthAssumption DEF Matching
  <2> QED BY <2>1
<1> QED BY <1>1, <1>2, <1>3, <1>4 DEF ActorFor, Actor

-----------------------------------------------------------------------------
(* Types *)

LEMMA FinishTyped ==
    ASSUME MemoryTyped, NEW c \in Calls, NEW m \in Command \cup {None}, NEW e, Finish(c, m, e)
    PROVE  /\ cmd' \in [Calls -> Command \cup {None}]
           /\ actor' \in [Calls -> Actor \cup {None}]
BY DEF MemoryTyped, Finish

LEMMA NextTyped == MemoryTyped /\ [Next]_vars => MemoryTyped'
<1> SUFFICES ASSUME MemoryTyped, [Next]_vars PROVE MemoryTyped'
  OBVIOUS
<1>1. ASSUME NEW c \in Calls, NEW m \in Commands, Login(c, m) PROVE MemoryTyped'
  <2>1. m \in Command
    BY MemoryAuthAssumption
  <2>2. sessions' \in [Tokens -> StoredSession \cup {None}]
    <3>1. CASE LoginRefusal(m) # "OK"
      BY <1>1, <3>1 DEF Login, MemoryTyped
    <3>2. CASE LoginRefusal(m) = "OK"
      <4>1. [actor |-> ActorFor(m), expiresAt |-> clock + SessionTTL] \in StoredSession
        BY <1>1, <2>1, <3>2, ActorType, MemoryAuthAssumption DEF Login, StoredSession, MemoryTyped
      <4> QED BY <1>1, <3>2, <4>1 DEF Login, MemoryTyped
    <3> QED BY <3>1, <3>2
  <2> QED BY <1>1, <2>1, <2>2, FinishTyped DEF Login, MemoryTyped
<1>2. ASSUME NEW c \in Calls, NEW m \in Commands, Authenticate(c, m) PROVE MemoryTyped'
  <2>1. m \in Command
    BY MemoryAuthAssumption
  <2>2. UNCHANGED <<sessions, clock>>
    BY <1>2 DEF Authenticate
  <2>3. CASE Finish(c, m, RequestRefusal(m))
    BY <2>1, <2>2, <2>3, FinishTyped DEF MemoryTyped
  <2>4. CASE RequestRefusal(m) = "OK" /\ ~ Finish(c, m, RequestRefusal(m))
    <3>1. SessionOf(m.token) # None
      BY <2>4, Zenon DEF RequestRefusal, TokenRefusal
    <3>2. SessionOf(m.token).actor \in Actor
      BY <3>1 DEF SessionOf, MemoryTyped, StoredSession
    <3> QED BY <1>2, <2>1, <2>2, <2>4, <3>2 DEF Authenticate, MemoryTyped
  <2> QED BY <1>2, <2>3, <2>4 DEF Authenticate
<1>3. ASSUME NEW c \in Calls, NEW m \in Commands, Logout(c, m) PROVE MemoryTyped'
  <2>1. m \in Command
    BY MemoryAuthAssumption
  <2>2. sessions' \in [Tokens -> StoredSession \cup {None}]
    BY <1>3 DEF Logout, MemoryTyped
  <2>3. PICK e : Finish(c, m, e)
    BY <1>3 DEF Logout
  <2> QED BY <1>3, <2>1, <2>2, <2>3, FinishTyped DEF Logout, MemoryTyped
<1>4. ASSUME NEW c \in Calls, Handle(c) PROVE MemoryTyped'
  BY <1>4, FinishTyped DEF Handle, MemoryTyped
<1>5. CASE Restart
  BY <1>5 DEF Restart, CallsAtRest, NoSessions, MemoryTyped
<1>6. CASE Tick
  BY <1>6 DEF Tick, callVars, MemoryTyped
<1>7. CASE UNCHANGED vars
  BY <1>7 DEF vars, callVars, MemoryTyped
<1> QED BY <1>1, <1>2, <1>3, <1>4, <1>5, <1>6, <1>7 DEF Next

-----------------------------------------------------------------------------
(* What shows of a step *)

SessionUnder(k) ==
    [token |-> k, tenant |-> sessions[k].actor.tenant, user |-> sessions[k].actor.user]
OpenTokens == {t \in Tokens : sessions[t] # None /\ clock < sessions[t].expiresAt}

LEMMA OpenIs ==
    /\ OpenSessions = {SessionUnder(k) : k \in OpenTokens}
    /\ OpenSessions' = {SessionUnder(k)' : k \in OpenTokens'}
BY DEF OpenSessions, SessionUnder, OpenTokens

\* A call at rest that finishes with an error shows nothing.
LEMMA FinishAtRest ==
    ASSUME MemoryTyped, NEW c \in Calls, AtRest(c), NEW m, NEW e, Finish(c, m, e)
    PROVE  AdmittedBy' = AdmittedBy
<1>1. \A d \in Calls : actor'[d] = actor[d] /\ (actor[d] # None => cmd'[d] = cmd[d])
  BY DEF Finish, AtRest, MemoryTyped
<1> QED BY <1>1 DEF AdmittedBy, AtRest

LEMMA LoginOpens ==
    ASSUME MemoryTyped, NEW c \in Calls, NEW m \in Commands, Login(c, m)
    PROVE  [Promise!Next]_(Promise!authenticator)
<1> USE DEF Promise!authenticator
<1>1. AdmittedBy' = AdmittedBy
  BY FinishAtRest DEF Login
<1>2. CASE LoginRefusal(m) # "OK"
  <2>1. OpenSessions' = OpenSessions
    BY <1>2 DEF Login, OpenSessions
  <2> QED BY <1>1, <1>2, <2>1 DEF Login
<1>3. CASE LoginRefusal(m) = "OK"
  <2> DEFINE session == [actor |-> ActorFor(m), expiresAt |-> clock + SessionTTL]
  <2>1. PICK k \in FreshTokens : /\ sessions' = [sessions EXCEPT ![k] = session]
                                 /\ handedOut' \in {handedOut, handedOut \cup {k}}
    BY <1>3 DEF Login
  <2>2. k \in Tokens /\ k \notin handedOut /\ sessions[k] = None
    BY DEF FreshTokens
  <2>3. m \in Command /\ m.op = "login"
    BY MemoryAuthAssumption DEF Login
  <2>4. ActorFor(m) \in Actor
    BY <1>3, <2>3, ActorType
  <2> DEFINE s == [token |-> k, tenant |-> ActorFor(m).tenant, user |-> ActorFor(m).user]
  <2>5. s \in Promise!OpenSession
    BY <2>2, <2>4 DEF Promise!OpenSession, Actor
  <2>6. clock' = clock /\ clock < session.expiresAt
    BY MemoryAuthAssumption DEF Login, MemoryTyped
  <2>7. /\ \A t \in Tokens \ {k} : sessions'[t] = sessions[t]
        /\ sessions'[k] = session
    BY <2>1, <2>2 DEF MemoryTyped
  <2>8. OpenTokens' = IF session = None THEN OpenTokens ELSE OpenTokens \cup {k}
    <3> HIDE DEF session
    <3> QED BY <2>2, <2>6, <2>7 DEF OpenTokens
  <2>9. k \notin OpenTokens /\ \A t \in OpenTokens : SessionUnder(t)' = SessionUnder(t)
    BY <2>2, <2>7 DEF OpenTokens, SessionUnder
  <2>10. SessionUnder(k)' = s
    BY <2>7 DEF SessionUnder
  <2>11. OpenSessions' \in {OpenSessions, OpenSessions \cup {s}}
    <3>1. CASE session = None
      <4>1. OpenTokens' = OpenTokens
        BY <2>8, <3>1
      <4> QED BY <2>9, <4>1, OpenIs
    <3>2. CASE session # None
      <4>1. OpenTokens' = OpenTokens \cup {k}
        BY <2>8, <3>2
      <4> HIDE DEF s
      <4> QED BY <2>9, <2>10, <4>1, OpenIs
    <3> QED BY <3>1, <3>2
  <2>12. s.token \notin handedOut \cup {o.token : o \in OpenSessions}
    BY <2>2, <2>9, OpenIs DEF SessionUnder
  <2> HIDE DEF s
  <2>13. Promise!Opens(s)
    BY <1>1, <2>1, <2>11, <2>12 DEF Promise!Opens, s
  <2> QED BY <2>5, <2>13 DEF Promise!Next
<1> QED BY <1>2, <1>3

LEMMA AuthenticateAdmits ==
    ASSUME MemoryTyped, NEW c \in Calls, NEW m \in Commands, Authenticate(c, m)
    PROVE  [Promise!Next]_(Promise!authenticator)
<1> USE DEF Promise!authenticator
<1>1. OpenSessions' = OpenSessions /\ handedOut' = handedOut
  BY DEF Authenticate, OpenSessions
<1>2. AtRest(c)
  BY DEF Authenticate, Presents
<1>3. CASE Finish(c, m, RequestRefusal(m))
  BY <1>1, <1>2, <1>3, FinishAtRest
<1>4. CASE RequestRefusal(m) = "OK" /\ ~ Finish(c, m, RequestRefusal(m))
  <2>1. TokenRefusal(m.token) = "OK"
    BY <1>4, Zenon DEF RequestRefusal
  <2>2. SessionOf(m.token) # None /\ ~ (clock >= SessionOf(m.token).expiresAt)
    BY <2>1, Zenon DEF TokenRefusal
  <2> DEFINE k == m.token
  <2>3. k \in Tokens /\ sessions[k] # None /\ SessionOf(k) = sessions[k]
    BY <2>2 DEF SessionOf
  <2>4. sessions[k] \in StoredSession
    BY <2>3 DEF MemoryTyped
  <2>5. k \in OpenTokens
    BY <2>2, <2>3, <2>4 DEF OpenTokens, StoredSession, MemoryTyped
  <2>6. /\ cmd' = [cmd EXCEPT ![c] = m]
        /\ actor' = [actor EXCEPT ![c] = sessions[k].actor]
    BY <1>4, <2>3 DEF Authenticate
  <2>7. CASE sessions[k].actor = None
    <3>1. actor' = actor
      BY <1>2, <2>6, <2>7 DEF AtRest, MemoryTyped
    <3>2. \A d \in Calls : actor[d] # None => cmd'[d] = cmd[d]
      BY <1>2, <2>6 DEF AtRest, MemoryTyped
    <3> QED BY <1>1, <3>1, <3>2 DEF AdmittedBy, AtRest
  <2>8. CASE sessions[k].actor # None
    <3> DEFINE s == SessionUnder(k)
    <3>1. s \in OpenSessions
      BY <2>5, OpenIs
    <3>2. AdmittedBy' = [AdmittedBy EXCEPT ![c] = s]
      BY <2>6, <2>8 DEF AdmittedBy, AtRest, MemoryTyped, SessionUnder
    <3>3. AdmittedBy[c] = None
      BY <1>2 DEF AdmittedBy
    <3> HIDE DEF s
    <3>4. Promise!Admits(c, s)
      BY <1>1, <3>1, <3>2, <3>3 DEF Promise!Admits
    <3> QED BY <3>1, <3>4 DEF Promise!Next
  <2> QED BY <2>7, <2>8
<1> QED BY <1>3, <1>4 DEF Authenticate

LEMMA HandleFinishes ==
    ASSUME MemoryTyped, NEW c \in Calls, Handle(c)
    PROVE  Promise!Finishes(c)
<1>1. OpenSessions' = OpenSessions /\ handedOut' = handedOut
  BY DEF Handle, OpenSessions
<1>2. AdmittedBy' = [AdmittedBy EXCEPT ![c] = None]
  BY DEF Handle, Finish, AdmittedBy, AtRest, MemoryTyped
<1> QED BY <1>1, <1>2 DEF Promise!Finishes

LEMMA LogoutCloses ==
    ASSUME MemoryTyped, NEW c \in Calls, NEW m \in Commands, Logout(c, m)
    PROVE  Promise!Closes
<1>1. AdmittedBy' = AdmittedBy
  <2>1. PICK e : Finish(c, m, e)
    BY DEF Logout
  <2> QED BY <2>1, FinishAtRest DEF Logout, Presents
<1>2. \A t \in Tokens : sessions'[t] = None \/ sessions'[t] = sessions[t]
  BY DEF Logout
<1>3. OpenTokens' \subseteq OpenTokens /\ \A t \in OpenTokens' : SessionUnder(t)' = SessionUnder(t)
  BY <1>2 DEF OpenTokens, SessionUnder, Logout
<1>4. OpenSessions' \subseteq OpenSessions
  BY <1>3, OpenIs
<1> QED BY <1>1, <1>4 DEF Promise!Closes, Logout

LEMMA TickCloses ==
    ASSUME MemoryTyped, Tick
    PROVE  Promise!Closes
<1>1. AdmittedBy' = AdmittedBy
  BY DEF Tick, callVars, AdmittedBy, AtRest
<1>2. \A t \in Tokens : sessions[t] # None => sessions[t].expiresAt \in Nat
  BY DEF MemoryTyped, StoredSession
<1>3. OpenTokens' \subseteq OpenTokens /\ \A t \in OpenTokens' : SessionUnder(t)' = SessionUnder(t)
  BY <1>2 DEF OpenTokens, SessionUnder, Tick, MemoryTyped
<1>4. OpenSessions' \subseteq OpenSessions
  BY <1>3, OpenIs
<1> QED BY <1>1, <1>4 DEF Promise!Closes, Tick

LEMMA RestartCloses ==
    ASSUME Restart
    PROVE  Promise!Closes
<1>1. AdmittedBy' = [c \in Calls |-> None]
  BY DEF Restart, CallsAtRest, AdmittedBy, AtRest
<1>2. OpenTokens' = {}
  BY DEF Restart, NoSessions, OpenTokens
<1>3. OpenSessions' = {}
  BY <1>2, OpenIs
<1> QED BY <1>1, <1>3 DEF Promise!Closes, Restart

\* Whoever opens, loses or closes a session, and whenever it expires or the
\* process restarts: a closed session's token opens nothing any more, and a
\* request is let in by a session that is open, as its owner (auth/service.go:33).
THEOREM MemoryAuthImplemented == Spec => AuthenticatorSpec
<1>1. Init => MemoryTyped
  BY DEF Init, NoSessions, CallsAtRest, MemoryTyped
<1>2. Init => Promise!Init
  <2> SUFFICES ASSUME Init PROVE Promise!Init
    OBVIOUS
  <2>1. OpenTokens = {}
    BY DEF Init, NoSessions, OpenTokens
  <2>2. OpenSessions = {}
    BY <2>1, OpenIs
  <2>3. AdmittedBy = [c \in Calls |-> None]
    BY DEF Init, CallsAtRest, AdmittedBy, AtRest
  <2> QED BY <2>2, <2>3 DEF Promise!Init, Init
<1>3. ASSUME MemoryTyped, [Next]_vars PROVE [Promise!Next]_(Promise!authenticator)
  <2>1. CASE UNCHANGED vars
    <3>1. OpenSessions' = OpenSessions /\ AdmittedBy' = AdmittedBy
      BY <2>1 DEF vars, callVars, OpenSessions, AdmittedBy, AtRest
    <3> QED BY <2>1, <3>1 DEF vars, Promise!authenticator
  <2>2. ASSUME NEW c \in Calls, NEW m \in Commands,
               Login(c, m) \/ Authenticate(c, m) \/ Logout(c, m)
        PROVE  [Promise!Next]_(Promise!authenticator)
    BY <1>3, <2>2, LoginOpens, AuthenticateAdmits, LogoutCloses DEF Promise!Next
  <2>3. ASSUME NEW c \in Calls, Handle(c) PROVE Promise!Next
    BY <1>3, <2>3, HandleFinishes DEF Promise!Next
  <2>4. CASE Restart \/ Tick
    BY <1>3, <2>4, RestartCloses, TickCloses DEF Promise!Next
  <2> QED BY <1>3, <2>1, <2>2, <2>3, <2>4 DEF Next
<1> QED BY <1>1, <1>2, <1>3, NextTyped, PTL DEF Spec, AuthenticatorSpec, Promise!Spec
===============================================================================
