------------------------------ MODULE AuthProofs ------------------------------
(***************************************************************************)
(* Proofs about AuthSessions for any tenants, users, tokens and requests:  *)
(* types, sound sessions that are kept, and the promises of the guard and  *)
(* of the login about what held while a request was served.                *)
(***************************************************************************)
EXTENDS AuthRefinement, FiniteSetTheorems, TLAPS

LoginCalls == {"FindUserByEmail", "ResolveLogin", "CreateSession"}
GuardCalls == {"FindSessionByTokenHash", "ResolveActor", "Handling"}

StoreTyped ==
    /\ roleOf \in [Members -> Roles \cup {None}]
    /\ active \subseteq Tenants \cup Users
    /\ grants \in [Roles -> SUBSET Permissions]
    /\ sessions \subseteq SessionRecord
    /\ clock \in Times /\ changes \in 0 .. MaxChanges /\ restarts \in 0 .. MaxRestarts
    /\ handedOut \subseteq Tokens

CallsTyped ==
    /\ pc \in [Calls -> Statements \cup {"Idle", "Handling", "Done"}]
    /\ cmd \in [Calls -> Command \cup {None}]
    /\ row \in [Calls -> SessionRecord \cup {None}]
    /\ readAt \in [Calls -> Times]
    /\ actor \in [Calls -> Actor \cup {None}]
    /\ error \in [Calls -> Errors \cup {"OK"}]

\* What a call holds at each of its statements.
CallsHold ==
    \A c \in Calls :
        /\ pc[c] \in LoginCalls => cmd[c] \in LoginCommand
        /\ pc[c] \in GuardCalls => cmd[c] \in GuardedCommand
        /\ pc[c] = "RevokeSession" => cmd[c] \in LogoutCommand
        /\ pc[c] \in {"CreateSession", "ResolveActor"} => row[c] \in SessionRecord
        /\ pc[c] \in {"CreateSession", "Handling"} => actor[c] \in Actor

TypeInv == StoreTyped /\ CallsTyped /\ CallsHold

-----------------------------------------------------------------------------
(* Moves of one call *)

LEMMA FinishType ==
    ASSUME TypeInv, NEW c \in Calls, NEW a \in Actor \cup {None},
           NEW e \in Errors \cup {"OK"}, Finish(c, a, e)
    PROVE  CallsTyped' /\ CallsHold'
<1> USE DEF TypeInv, CallsTyped, Finish
<1>1. CallsTyped'
  <2>1. 0 \in Times
    BY AuthAssumption DEF Times
  <2> QED BY <2>1
<1>2. CallsHold'
  BY SMT DEF CallsHold, LoginCalls, GuardCalls
<1> QED BY <1>1, <1>2

LEMMA FailType ==
    ASSUME TypeInv, NEW c \in Calls, NEW e \in Errors \cup {"OK"}, Fail(c, e)
    PROVE  CallsTyped' /\ CallsHold'
BY FinishType DEF Fail

LEMMA CarryType ==
    ASSUME TypeInv, NEW c \in Calls, NEW r \in SessionRecord \cup {None},
           NEW label \in Statements \ {"CreateSession"}, Carry(c, r, label),
           /\ label \in LoginCalls => cmd[c] \in LoginCommand
           /\ label \in GuardCalls => cmd[c] \in GuardedCommand
           /\ label = "RevokeSession" => cmd[c] \in LogoutCommand
           /\ label = "ResolveActor" => r \in SessionRecord
    PROVE  CallsTyped' /\ CallsHold'
<1> USE DEF TypeInv, CallsTyped, Carry
<1>1. CallsTyped'
  OBVIOUS
<1>2. CallsHold'
  BY SMT DEF CallsHold, LoginCalls, GuardCalls, Statements
<1> QED BY <1>1, <1>2

LEMMA BeginType ==
    ASSUME TypeInv, NEW c \in Calls, NEW m \in Commands, Begin(c, m)
    PROVE  TypeInv'
<1> USE DEF TypeInv, Begin
<1>1. m \in Command /\ FirstRefusal(m) \in Errors \cup {"OK"}
  BY AuthAssumption DEF FirstRefusal, Errors
<1>2. StoreTyped'
  BY DEF StoreTyped, directoryVars, worldVars
<1>3. /\ m.op = "login" => m \in LoginCommand /\ FirstStatement(m) = "FindUserByEmail"
      /\ m.op = "logout" => m \in LogoutCommand /\ FirstStatement(m) = "RevokeSession"
      /\ m.op \notin {"login", "logout"} =>
             m \in GuardedCommand /\ FirstStatement(m) = "FindSessionByTokenHash"
  BY <1>1, SMT DEF Command, LoginCommand, LogoutCommand, GuardedCommand, GuardedOps,
     FirstStatement
<1>4. CallsTyped'
  <2>1. 0 \in Times /\ clock \in Times
    BY AuthAssumption DEF Times, StoreTyped
  <2>2. FirstStatement(m) \in Statements
    BY <1>3 DEF Statements
  <2> HIDE DEF Times
  <2> QED BY <1>1, <2>1, <2>2 DEF CallsTyped
<1>5. CallsHold'
  BY <1>3, SMT DEF CallsTyped, CallsHold, LoginCalls, GuardCalls
<1> QED BY <1>2, <1>4, <1>5

-----------------------------------------------------------------------------
(* Actors *)

LEMMA RefusalTypes ==
    /\ \A u, t : ResolveRefusal(u, t) \in Errors \cup {"OK"}
    /\ \A s : SessionRefusal(s) \in Errors \cup {"OK"}
    /\ \A m, p : GuardRefusal(m, p) \in Errors \cup {"OK"}
<1>1. \A u, t : ResolveRefusal(u, t) \in Errors \cup {"OK"}
  BY Zenon DEF ResolveRefusal, Errors
<1>2. \A s : SessionRefusal(s) \in Errors \cup {"OK"}
  BY Zenon DEF SessionRefusal, Errors
<1>3. \A m, p : GuardRefusal(m, p) \in Errors \cup {"OK"}
  BY Zenon DEF GuardRefusal, LevelRefusal, Errors
<1> QED BY <1>1, <1>2, <1>3

\* A tenant that the statement finds is one of an active member's.
LEMMA ResolvedType ==
    ASSUME TypeInv, NEW u \in Users, NEW tenant \in Tenants \cup {None},
           NEW t \in FoundTenants(u, tenant)
    PROVE  /\ t \in Tenants /\ <<t, u>> \in Members
           /\ roleOf[<<t, u>>] \in Roles /\ {t, u} \subseteq active
           /\ tenant # None => t = tenant
           /\ ResolvedActor(u, t) \in Actor
<1>1. t \in Tenants /\ roleOf[<<t, u>>] # None /\ {t, u} \subseteq active /\ tenant \in {None, t}
  BY DEF FoundTenants
<1>2. <<t, u>> \in Members
  BY <1>1 DEF Members
<1>3. roleOf[<<t, u>>] \in Roles
  BY <1>1, <1>2 DEF TypeInv, StoreTyped
<1>4. ResolvedActor(u, t) \in Actor
  BY <1>1, <1>3 DEF ResolvedActor, Actor, TypeInv, StoreTyped
<1> QED BY <1>1, <1>2, <1>3, <1>4

LEMMA FoundNotEmpty ==
    ASSUME NEW u, NEW t, ResolveRefusal(u, t) = "OK"
    PROVE  FoundTenants(u, t) # {}
BY Zenon DEF ResolveRefusal

\* An admitted reviewer has a level and its permission, any other actor the
\* permission of its route.
LEMMA AdmittedType ==
    ASSUME NEW m \in GuardedCommand, NEW a \in Actor, a.level = 0,
           GuardRefusal(m, a.permissions) = "OK"
    PROVE  /\ Admitted(m, a) \in Actor
           /\ Admitted(m, a).tenant = a.tenant /\ Admitted(m, a).user = a.user
           /\ \E p \in RightFor(m.op, Admitted(m, a).level) : p \in a.permissions
<1>1. Needed(m.op) \cap a.permissions # {}
  BY Zenon DEF GuardRefusal
<1>2. CASE m.op # "review"
  BY <1>1, <1>2 DEF Admitted, RightFor
<1>3. CASE m.op = "review"
  <2> DEFINE l == ReviewLevel(a.permissions, m.level)
  <2>1. LevelRefusal(a.permissions, m.level) = "OK" /\ m.level \in Int
    BY <1>3 DEF GuardRefusal, GuardedCommand
  <2>2. /\ m.level \in 0 .. 2
        /\ m.level = 1 => "refund_request:review" \in a.permissions
        /\ m.level = 2 => "refund_request:high_amount_review" \in a.permissions
    BY <2>1, SMT DEF LevelRefusal
  <2>3. \/ "refund_request:review" \in a.permissions
        \/ "refund_request:high_amount_review" \in a.permissions
    BY <1>1, <1>3 DEF Needed
  <2>4. /\ l \in 1 .. 2
        /\ l = 1 => "refund_request:review" \in a.permissions
        /\ l # 1 => "refund_request:high_amount_review" \in a.permissions
    BY <2>2, <2>3, SMT DEF ReviewLevel
  <2> HIDE DEF l
  <2>5. Admitted(m, a) = [a EXCEPT !.level = l]
    BY <1>3 DEF Admitted, l
  <2>6. /\ [a EXCEPT !.level = l] \in Actor
        /\ [a EXCEPT !.level = l].tenant = a.tenant
        /\ [a EXCEPT !.level = l].user = a.user
        /\ [a EXCEPT !.level = l].level = l
    BY <2>4, SMT DEF Actor
  <2> QED BY <1>3, <2>4, <2>5, <2>6 DEF RightFor
<1> QED BY <1>2, <1>3

-----------------------------------------------------------------------------
(* Statements *)

LEMMA StoreStill ==
    ASSUME TypeInv, UNCHANGED <<directoryVars, sessions, worldVars, handedOut>>
    PROVE  StoreTyped'
BY DEF TypeInv, StoreTyped, directoryVars, worldVars

LEMMA FindUserByEmailType ==
    ASSUME TypeInv, NEW c \in Calls, FindUserByEmail(c) PROVE TypeInv'
<1>1. StoreTyped'
  BY StoreStill DEF FindUserByEmail
<1>2. cmd[c] \in LoginCommand
  BY DEF TypeInv, CallsHold, FindUserByEmail, LoginCalls
<1>3. CASE Fail(c, "ErrInvalidCredentials")
  BY <1>1, <1>3, FailType DEF Errors, TypeInv
<1>4. CASE Carry(c, None, "ResolveLogin")
  BY <1>1, <1>2, <1>4, CarryType DEF Statements, GuardCalls, TypeInv
<1> QED BY <1>3, <1>4 DEF FindUserByEmail

\* A login that goes on holds a new session of the actor it resolved.
LEMMA ResolveLoginFinds ==
    ASSUME TypeInv, NEW c \in Calls, ResolveLogin(c)
    PROVE  \/ /\ ResolveRefusal(cmd[c].user, cmd[c].tenant) # "OK"
              /\ Fail(c, ResolveRefusal(cmd[c].user, cmd[c].tenant))
           \/ /\ ResolveRefusal(cmd[c].user, cmd[c].tenant) = "OK"
              /\ \E k \in FreshTokens, t \in FoundTenants(cmd[c].user, cmd[c].tenant) :
                    /\ row' = [row EXCEPT ![c] = NewSession(k, t, cmd[c].user)]
                    /\ actor' = [actor EXCEPT ![c] = ResolvedActor(cmd[c].user, t)]
              /\ pc' = [pc EXCEPT ![c] = "CreateSession"]
              /\ UNCHANGED <<cmd, readAt, error>>
BY Zenon DEF ResolveLogin

LEMMA NewSessionType ==
    ASSUME TypeInv, NEW k \in Tokens, NEW t \in Tenants, NEW u \in Users
    PROVE  NewSession(k, t, u) \in SessionRecord
<1>1. clock \in Times /\ clock + SessionTTL \in Nat
  BY AuthAssumption DEF TypeInv, StoreTyped, Times
<1> QED BY <1>1 DEF NewSession, SessionRecord

LEMMA ResolveLoginType ==
    ASSUME TypeInv, NEW c \in Calls, ResolveLogin(c) PROVE TypeInv'
<1> DEFINE u == cmd[c].user
           tenant == cmd[c].tenant
<1>1. StoreTyped'
  BY StoreStill DEF ResolveLogin
<1>2. cmd[c] \in LoginCommand
  BY DEF TypeInv, CallsHold, ResolveLogin, LoginCalls
<1>3. u \in Users /\ tenant \in Tenants \cup {None}
  BY <1>2 DEF LoginCommand
<1>4. CASE Fail(c, ResolveRefusal(u, tenant))
  BY <1>1, <1>4, FailType, RefusalTypes DEF TypeInv
<1>5. ASSUME NEW k \in FreshTokens, NEW t \in FoundTenants(u, tenant),
             row' = [row EXCEPT ![c] = NewSession(k, t, u)],
             actor' = [actor EXCEPT ![c] = ResolvedActor(u, t)],
             pc' = [pc EXCEPT ![c] = "CreateSession"],
             UNCHANGED <<cmd, readAt, error>>
      PROVE  TypeInv'
  <2>1. NewSession(k, t, u) \in SessionRecord /\ ResolvedActor(u, t) \in Actor
    BY <1>3, NewSessionType, ResolvedType DEF FreshTokens
  <2>2. CallsTyped'
    BY <1>5, <2>1 DEF CallsTyped, TypeInv, Statements
  <2>3. CallsHold'
    BY <1>2, <1>5, <2>1, SMT DEF CallsHold, CallsTyped, TypeInv, LoginCalls, GuardCalls
  <2> QED BY <1>1, <2>2, <2>3 DEF TypeInv
<1> QED BY <1>4, <1>5, ResolveLoginFinds

LEMMA CreateSessionType ==
    ASSUME TypeInv, NEW c \in Calls, CreateSession(c) PROVE TypeInv'
<1>1. row[c] \in SessionRecord /\ actor[c] \in Actor
  BY DEF TypeInv, CallsHold, CreateSession
<1>2. sessions' \in {sessions, sessions \cup {row[c]}}
      /\ handedOut' \in {handedOut, handedOut \cup {row[c].token}}
      /\ UNCHANGED <<directoryVars, worldVars>>
  BY DEF CreateSession
<1>3. StoreTyped'
  BY <1>1, <1>2 DEF TypeInv, StoreTyped, directoryVars, worldVars, SessionRecord
<1>4. Finish(c, actor[c], "OK") \/ Fail(c, "ErrInternal")
  BY DEF CreateSession
<1> QED BY <1>1, <1>3, <1>4, FinishType, FailType DEF Errors, TypeInv

LEMMA FindSessionType ==
    ASSUME TypeInv, NEW c \in Calls, FindSessionByTokenHash(c) PROVE TypeInv'
<1>1. StoreTyped'
  BY StoreStill DEF FindSessionByTokenHash
<1>2. cmd[c] \in GuardedCommand
  BY DEF TypeInv, CallsHold, FindSessionByTokenHash, GuardCalls
<1>3. ASSUME NEW e \in Errors, Fail(c, e) PROVE TypeInv'
  BY <1>1, <1>3, FailType DEF TypeInv
<1>4. ASSUME NEW s \in sessions, Carry(c, s, "ResolveActor") PROVE TypeInv'
  <2>1. s \in SessionRecord
    BY DEF TypeInv, StoreTyped
  <2> QED BY <1>1, <1>2, <1>4, <2>1, CarryType DEF Statements, LoginCalls, TypeInv
<1>5. ASSUME NEW s PROVE SessionRefusal(s) # "OK" => SessionRefusal(s) \in Errors
  BY RefusalTypes
<1>6. "ErrInvalidToken" \in Errors
  BY DEF Errors
<1> QED BY <1>3, <1>4, <1>5, <1>6, Zenon DEF FindSessionByTokenHash, RowsOf

\* A request let in has the actor of its session.
LEMMA ResolveActorFinds ==
    ASSUME TypeInv, NEW c \in Calls, ResolveActor(c)
    PROVE  \/ \E e \in Errors : Fail(c, e)
           \/ LET s == row[c]
                  resolved == ResolvedActor(s.user, s.tenant)
              IN  /\ ResolveRefusal(s.user, s.tenant) = "OK"
                  /\ GuardRefusal(cmd[c], resolved.permissions) = "OK"
                  /\ pc' = [pc EXCEPT ![c] = "Handling"]
                  /\ row' = [row EXCEPT ![c] = None]
                  /\ actor' = [actor EXCEPT ![c] = Admitted(cmd[c], resolved)]
                  /\ UNCHANGED <<cmd, readAt, error>>
<1>1. "ErrInvalidToken" \in Errors
  BY DEF Errors
<1>2. \A m, p : GuardRefusal(m, p) # "OK" => GuardRefusal(m, p) \in Errors
  BY RefusalTypes, Zenon
<1> QED BY <1>1, <1>2, Zenon DEF ResolveActor

\* What such a request has seen of its actor.
LEMMA ActorAdmitted ==
    ASSUME TypeInv, NEW c \in Calls, pc[c] = "ResolveActor",
           ResolveRefusal(row[c].user, row[c].tenant) = "OK",
           GuardRefusal(cmd[c], ResolvedActor(row[c].user, row[c].tenant).permissions) = "OK"
    PROVE  LET s == row[c]
               resolved == ResolvedActor(s.user, s.tenant)
               a == Admitted(cmd[c], resolved)
           IN  /\ s \in SessionRecord /\ cmd[c] \in GuardedCommand
               /\ <<s.tenant, s.user>> \in Members
               /\ roleOf[<<s.tenant, s.user>>] \in Roles /\ {s.tenant, s.user} \subseteq active
               /\ a \in Actor /\ a.tenant = s.tenant /\ a.user = s.user
               /\ \E p \in RightFor(cmd[c].op, a.level) :
                      p \in grants[roleOf[<<s.tenant, s.user>>]]
<1> DEFINE s == row[c]
           resolved == ResolvedActor(s.user, s.tenant)
<1>1. s \in SessionRecord /\ cmd[c] \in GuardedCommand
  BY DEF TypeInv, CallsHold, GuardCalls
<1>2. s.user \in Users /\ s.tenant \in Tenants /\ s.tenant # None
  BY <1>1, AuthAssumption DEF SessionRecord
<1>3. PICK t \in FoundTenants(s.user, s.tenant) : TRUE
  BY FoundNotEmpty
<1>4. /\ t = s.tenant /\ <<t, s.user>> \in Members
      /\ roleOf[<<t, s.user>>] \in Roles /\ {t, s.user} \subseteq active
      /\ ResolvedActor(s.user, t) \in Actor
  BY <1>2, <1>3, ResolvedType
<1>5. /\ resolved \in Actor
      /\ resolved.level = 0 /\ resolved.tenant = s.tenant /\ resolved.user = s.user
      /\ resolved.permissions = grants[roleOf[<<s.tenant, s.user>>]]
  BY <1>4 DEF ResolvedActor
<1>6. GuardRefusal(cmd[c], resolved.permissions) = "OK"
  OBVIOUS
<1> HIDE DEF resolved
<1>7. /\ Admitted(cmd[c], resolved) \in Actor
      /\ Admitted(cmd[c], resolved).tenant = resolved.tenant
      /\ Admitted(cmd[c], resolved).user = resolved.user
      /\ \E p \in RightFor(cmd[c].op, Admitted(cmd[c], resolved).level) :
             p \in resolved.permissions
  BY <1>1, <1>5, <1>6, AdmittedType
<1> QED BY <1>1, <1>4, <1>5, <1>7 DEF resolved

LEMMA ResolveActorType ==
    ASSUME TypeInv, NEW c \in Calls, ResolveActor(c) PROVE TypeInv'
<1> DEFINE a == Admitted(cmd[c], ResolvedActor(row[c].user, row[c].tenant))
<1>1. StoreTyped'
  BY StoreStill DEF ResolveActor
<1>2. ASSUME NEW e \in Errors, Fail(c, e) PROVE TypeInv'
  BY <1>1, <1>2, FailType DEF TypeInv
<1>3. ASSUME ResolveRefusal(row[c].user, row[c].tenant) = "OK",
             GuardRefusal(cmd[c], ResolvedActor(row[c].user, row[c].tenant).permissions) = "OK",
             pc' = [pc EXCEPT ![c] = "Handling"],
             row' = [row EXCEPT ![c] = None],
             actor' = [actor EXCEPT ![c] = a],
             UNCHANGED <<cmd, readAt, error>>
      PROVE  TypeInv'
  <2>1. a \in Actor /\ cmd[c] \in GuardedCommand
    BY <1>3, ActorAdmitted DEF ResolveActor
  <2> HIDE DEF a
  <2>2. CallsTyped'
    BY <1>3, <2>1 DEF CallsTyped, TypeInv
  <2>3. CallsHold'
    BY <1>3, <2>1, SMT DEF CallsHold, CallsTyped, TypeInv, LoginCalls, GuardCalls
  <2> QED BY <1>1, <2>2, <2>3 DEF TypeInv
<1> QED BY <1>2, <1>3, ResolveActorFinds

LEMMA RevokedType ==
    ASSUME NEW s \in SessionRecord, NEW time \in Times
    PROVE  /\ Revoked(s, time) \in SessionRecord
           /\ Revoked(s, time) = [s EXCEPT !.revokedAt = Revoked(s, time).revokedAt]
           /\ Revoked(s, time).token = s.token /\ Revoked(s, time).tenant = s.tenant
           /\ Revoked(s, time).user = s.user /\ Revoked(s, time).createdAt = s.createdAt
           /\ Revoked(s, time).expiresAt = s.expiresAt
           /\ Revoked(s, time).revokedAt = IF s.revokedAt = None THEN time ELSE s.revokedAt
           /\ s.revokedAt # None => Revoked(s, time) = s
BY SMT DEF Revoked, SessionRecord

LEMMA RevokeSessionType ==
    ASSUME TypeInv, NEW c \in Calls, RevokeSession(c) PROVE TypeInv'
<1>1. readAt[c] \in Times
  BY DEF TypeInv, CallsTyped
<1>2. sessions' \subseteq SessionRecord
  BY <1>1, RevokedType DEF RevokeSession, TypeInv, StoreTyped
<1>3. StoreTyped'
  BY <1>2 DEF RevokeSession, TypeInv, StoreTyped, directoryVars, worldVars
<1> QED BY <1>3, FinishType, FailType DEF RevokeSession, Errors, TypeInv

LEMMA HandleType == ASSUME TypeInv, NEW c \in Calls, Handle(c) PROVE TypeInv'
BY StoreStill, FinishType DEF Handle, TypeInv

LEMMA CallFailsType == ASSUME TypeInv, NEW c \in Calls, CallFails(c) PROVE TypeInv'
BY StoreStill, FailType DEF CallFails, Errors, TypeInv

-----------------------------------------------------------------------------
(* The world *)

LEMMA RestartType == ASSUME TypeInv, Restart PROVE TypeInv'
<1>1. StoreTyped'
  BY SMT, AuthAssumption DEF TypeInv, StoreTyped, Restart, directoryVars
<1>2. 0 \in Times
  BY AuthAssumption DEF Times
<1>3. CallsTyped'
  BY <1>2 DEF CallsTyped, Restart, CallsAtRest
<1>4. CallsHold'
  BY DEF CallsHold, Restart, CallsAtRest, LoginCalls, GuardCalls
<1> QED BY <1>1, <1>3, <1>4 DEF TypeInv

LEMMA CallsStill ==
    ASSUME TypeInv, UNCHANGED callVars PROVE CallsTyped' /\ CallsHold'
BY DEF TypeInv, callVars, CallsTyped, CallsHold

LEMMA TickType == ASSUME TypeInv, Tick PROVE TypeInv'
<1>1. clock + 1 \in Times
  BY AuthAssumption DEF Tick, TypeInv, StoreTyped, Times
<1>2. StoreTyped'
  BY <1>1 DEF Tick, TypeInv, StoreTyped, directoryVars
<1> QED BY <1>2, CallsStill DEF Tick, TypeInv

LEMMA AdministrationType == ASSUME TypeInv, Administration PROVE TypeInv'
<1>1. CallsTyped' /\ CallsHold'
  BY CallsStill DEF Administration, AssignRole, RemoveMember, ChangeStatus, RevokePermission,
     Change
<1>2. /\ clock' \in Times /\ changes' \in 0 .. MaxChanges /\ restarts' \in 0 .. MaxRestarts
      /\ handedOut' \subseteq Tokens
  BY AuthAssumption, SMT DEF Administration, AssignRole, RemoveMember, ChangeStatus,
     RevokePermission, Change, TypeInv, StoreTyped
<1> DEFINE Typed == /\ roleOf' \in [Members -> Roles \cup {None}]
                    /\ active' \subseteq Tenants \cup Users
                    /\ grants' \in [Roles -> SUBSET Permissions]
                    /\ sessions' \subseteq SessionRecord
<1>3. Typed
  <2> USE DEF TypeInv, StoreTyped
  <2>1. ASSUME NEW m \in Members, RemoveMember(m) PROVE Typed
    BY <2>1 DEF RemoveMember
  <2>2. ASSUME NEW m \in Members, NEW r \in Roles, AssignRole(m, r) PROVE Typed
    BY <2>2 DEF AssignRole
  <2>3. ASSUME NEW x \in Tenants \cup Users, ChangeStatus(x) PROVE Typed
    BY <2>3 DEF ChangeStatus
  <2>4. ASSUME NEW r \in Roles, NEW p \in Permissions, RevokePermission(r, p) PROVE Typed
    BY <2>4 DEF RevokePermission
  <2> QED BY <2>1, <2>2, <2>3, <2>4 DEF Administration
<1> QED BY <1>1, <1>2, <1>3 DEF TypeInv, StoreTyped

LEMMA NextType == TypeInv /\ [Next]_vars => TypeInv'
<1> SUFFICES ASSUME TypeInv, [Next]_vars PROVE TypeInv'
  OBVIOUS
<1>1. ASSUME NEW c \in Calls, CallStep(c) PROVE TypeInv'
  BY <1>1, FindUserByEmailType, ResolveLoginType, CreateSessionType, FindSessionType,
     ResolveActorType, HandleType, RevokeSessionType DEF CallStep
<1>2. CASE UNCHANGED vars
  BY <1>2, CallsStill, StoreStill DEF vars, TypeInv
<1> QED BY <1>1, <1>2, BeginType, CallFailsType, RestartType, TickType, AdministrationType
        DEF Next

LEMMA InitType == Init => TypeInv
<1> SUFFICES ASSUME Init PROVE TypeInv
  OBVIOUS
<1>1. 0 \in Times /\ 0 \in 0 .. MaxChanges /\ 0 \in 0 .. MaxRestarts
  BY AuthAssumption DEF Times
<1>2. StoreTyped
  BY <1>1, AuthAssumption DEF Init, StoreTyped
<1>3. CallsTyped
  BY <1>1 DEF Init, CallsAtRest, CallsTyped
<1>4. CallsHold
  BY DEF Init, CallsAtRest, CallsHold, LoginCalls, GuardCalls
<1> QED BY <1>2, <1>3, <1>4 DEF TypeInv

\* The history variables never constrain a step.
LEMMA HistoryIsSpec == HistorySpec => Spec
<1>1. HistoryInit => Init
  BY DEF HistoryInit
<1>2. [HistoryNext]_<<vars, histVars>> => [Next]_vars
  BY DEF HistoryNext
<1> QED BY <1>1, <1>2, PTL DEF HistorySpec, Spec

LEMMA TypeInvHolds == Spec => []TypeInv
BY InitType, NextType, PTL DEF Spec

\* Directory, sessions and requests keep their types.
THEOREM AuthTypes == Spec => []TypeOK
<1>1. TypeInv => TypeOK
  BY DEF TypeInv, StoreTyped, CallsTyped, TypeOK
<1> QED BY <1>1, TypeInvHolds, PTL

-----------------------------------------------------------------------------
(* What a step does to the calls *)

CallMoves(d) == CallStep(d) \/ CallFails(d) \/ \E m \in Commands : Begin(d, m)

Stands(c) ==
    /\ pc'[c] = pc[c] /\ cmd'[c] = cmd[c] /\ row'[c] = row[c]
    /\ readAt'[c] = readAt[c] /\ actor'[c] = actor[c] /\ error'[c] = error[c]

LEMMA OthersStand ==
    ASSUME TypeInv, NEW c \in Calls, NEW d \in Calls, c # d, CallMoves(d)
    PROVE  Stands(c)
<1> USE DEF TypeInv, CallsTyped, Stands
<1>1. ASSUME NEW a, NEW e, Finish(d, a, e) PROVE Stands(c)
  BY <1>1 DEF Finish
<1>2. ASSUME NEW r, NEW label, Carry(d, r, label) PROVE Stands(c)
  BY <1>2 DEF Carry
<1>3. ASSUME NEW m \in Commands, Begin(d, m) PROVE Stands(c)
  BY <1>3, SMT DEF Begin
<1>4. CASE FindUserByEmail(d) \/ FindSessionByTokenHash(d) \/ CreateSession(d)
  BY <1>1, <1>2, <1>4, Zenon DEF FindUserByEmail, FindSessionByTokenHash, CreateSession, Fail
<1>5. CASE RevokeSession(d) \/ Handle(d) \/ CallFails(d)
  BY <1>1, <1>5, Zenon DEF RevokeSession, Handle, CallFails, Fail
<1>6. CASE ResolveLogin(d)
  <2>1. CASE \E e : Fail(d, e)
    BY <1>1, <2>1 DEF Fail
  <2>2. CASE \E k, t : /\ row' = [row EXCEPT ![d] = NewSession(k, t, cmd[d].user)]
                       /\ actor' = [actor EXCEPT ![d] = ResolvedActor(cmd[d].user, t)]
                       /\ pc' = [pc EXCEPT ![d] = "CreateSession"]
                       /\ UNCHANGED <<cmd, readAt, error>>
    BY <2>2
  <2> QED BY <1>6, <2>1, <2>2, ResolveLoginFinds, Zenon
<1>7. CASE ResolveActor(d)
  <2>1. CASE \E e : Fail(d, e)
    BY <1>1, <2>1 DEF Fail
  <2>2. CASE /\ pc' = [pc EXCEPT ![d] = "Handling"]
             /\ row' = [row EXCEPT ![d] = None]
             /\ \E a : actor' = [actor EXCEPT ![d] = a]
             /\ UNCHANGED <<cmd, readAt, error>>
    BY <2>2
  <2> QED BY <1>7, <2>1, <2>2, ResolveActorFinds, Zenon
<1> QED BY <1>3, <1>4, <1>5, <1>6, <1>7 DEF CallMoves, CallStep

\* A call stands, moves, or starts afresh with the server.
LEMMA CallSteps ==
    ASSUME TypeInv, [Next]_vars, NEW c \in Calls
    PROVE  Stands(c) \/ CallMoves(c) \/ (Restart /\ pc'[c] = "Idle")
<1>1. CASE \E d \in Calls : CallMoves(d)
  BY <1>1, OthersStand
<1>2. CASE Restart
  BY <1>2 DEF Restart, CallsAtRest
<1>3. CASE Tick
  BY <1>3 DEF Tick, callVars, Stands
<1>4. CASE Administration
  BY <1>4 DEF Administration, AssignRole, RemoveMember, ChangeStatus, RevokePermission,
     Change, callVars, Stands
<1>5. CASE UNCHANGED vars
  BY <1>5 DEF vars, callVars, Stands
<1> QED BY <1>1, <1>2, <1>3, <1>4, <1>5 DEF Next, CallMoves

\* Which statement brings a call where it is.
LEMMA Arrives ==
    ASSUME TypeInv, NEW c \in Calls, CallMoves(c)
    PROVE  /\ pc'[c] = "CreateSession" => ResolveLogin(c)
           /\ pc'[c] = "ResolveActor" => FindSessionByTokenHash(c)
           /\ pc'[c] = "Handling" => ResolveActor(c)
           /\ pc'[c] = "RevokeSession" => \E m \in Commands : Begin(c, m)
           /\ pc'[c] = "Idle" => FALSE
<1> USE DEF TypeInv, CallsTyped
<1>1. ASSUME NEW a, NEW e, Finish(c, a, e) PROVE pc'[c] = "Done"
  BY <1>1 DEF Finish
<1>2. ASSUME NEW m \in Commands, Begin(c, m)
      PROVE  pc'[c] \in {"Done", "FindUserByEmail", "RevokeSession", "FindSessionByTokenHash"}
  <2>1. m \in Command
    BY AuthAssumption
  <2>2. FirstStatement(m) \in {"FindUserByEmail", "RevokeSession", "FindSessionByTokenHash"}
    BY <2>1, SMT DEF Command, LoginCommand, LogoutCommand, GuardedCommand, GuardedOps,
       FirstStatement
  <2> QED BY <1>2, <2>2 DEF Begin
<1>3. CASE FindUserByEmail(c)
  <2>1. pc'[c] \in {"Done", "ResolveLogin"}
    BY <1>1, <1>3, Zenon DEF FindUserByEmail, Fail, Carry
  <2> QED BY <2>1
<1>4. CASE CreateSession(c) \/ RevokeSession(c) \/ Handle(c) \/ CallFails(c)
  BY <1>1, <1>4, Zenon DEF CreateSession, RevokeSession, Handle, CallFails, Fail
<1>5. CASE FindSessionByTokenHash(c)
  <2>1. pc'[c] \in {"Done", "ResolveActor"}
    <3>1. ASSUME NEW s, Carry(c, s, "ResolveActor") PROVE pc'[c] = "ResolveActor"
      BY <3>1 DEF Carry
    <3> QED BY <1>1, <1>5, <3>1, Zenon DEF FindSessionByTokenHash, Fail
  <2> QED BY <1>5, <2>1
<1>6. CASE ResolveLogin(c)
  <2>1. pc'[c] \in {"Done", "CreateSession"}
    <3>1. CASE \E e : Fail(c, e)
      BY <1>1, <3>1 DEF Fail
    <3>2. CASE pc' = [pc EXCEPT ![c] = "CreateSession"]
      BY <3>2
    <3> QED BY <1>6, <3>1, <3>2, ResolveLoginFinds, Zenon
  <2> QED BY <1>6, <2>1
<1>7. CASE ResolveActor(c)
  <2>1. pc'[c] \in {"Done", "Handling"}
    <3>1. CASE \E e : Fail(c, e)
      BY <1>1, <3>1 DEF Fail
    <3>2. CASE pc' = [pc EXCEPT ![c] = "Handling"]
      BY <3>2
    <3> QED BY <1>7, <3>1, <3>2, ResolveActorFinds, Zenon
  <2> QED BY <1>7, <2>1
<1> QED BY <1>2, <1>3, <1>4, <1>5, <1>6, <1>7 DEF CallMoves, CallStep

-----------------------------------------------------------------------------
(* Sessions *)

\* Call d opens its session in this step.
Opens(d) ==
    /\ pc[d] = "CreateSession" /\ pc'[d] = "Done"
    /\ roleOf[<<row[d].tenant, row[d].user>>] # None
    /\ sessions' = sessions \cup {row[d]}

\* All that becomes of the sessions and of the tokens handed out.
SessionStep ==
    \/ UNCHANGED <<sessions, handedOut>>
    \/ \E d \in Calls : /\ Opens(d) /\ UNCHANGED roleOf
                        /\ handedOut' \in {handedOut, handedOut \cup {row[d].token}}
    \/ \E d \in Calls : /\ pc[d] = "RevokeSession" /\ UNCHANGED <<handedOut, roleOf>>
                        /\ sessions' = {IF s.token = cmd[d].token THEN Revoked(s, readAt[d])
                                        ELSE s : s \in sessions}
    \/ \E m \in Members : /\ sessions' = {s \in sessions : <<s.tenant, s.user>> # m}
                          /\ roleOf' = [roleOf EXCEPT ![m] = None]
                          /\ UNCHANGED handedOut

LEMMA SessionSteps == ASSUME TypeInv, [Next]_vars PROVE SessionStep
<1>1. ASSUME NEW d \in Calls, CreateSession(d) PROVE SessionStep
  <2>1. pc \in [Calls -> Statements \cup {"Idle", "Handling", "Done"}]
    BY DEF TypeInv, CallsTyped
  <2>2. pc'[d] = "Done"
    BY <1>1, <2>1 DEF CreateSession, Finish, Fail
  <2>3. roleOf' = roleOf
    BY <1>1 DEF CreateSession, directoryVars
  <2>4. CASE UNCHANGED <<sessions, handedOut>>
    BY <2>4 DEF SessionStep
  <2>5. CASE /\ roleOf[<<row[d].tenant, row[d].user>>] # None
             /\ sessions' = sessions \cup {row[d]}
             /\ handedOut' \in {handedOut, handedOut \cup {row[d].token}}
    BY <1>1, <2>2, <2>3, <2>5 DEF SessionStep, Opens, CreateSession
  <2> QED BY <1>1, <2>4, <2>5, Zenon DEF CreateSession
<1>2. ASSUME NEW d \in Calls, RevokeSession(d) PROVE SessionStep
  BY <1>2 DEF RevokeSession, SessionStep, directoryVars
<1>3. ASSUME NEW d \in Calls,
             \/ FindUserByEmail(d) \/ ResolveLogin(d) \/ FindSessionByTokenHash(d)
             \/ ResolveActor(d) \/ Handle(d) \/ CallFails(d)
      PROVE  SessionStep
  BY <1>3, Zenon DEF FindUserByEmail, ResolveLogin, FindSessionByTokenHash, ResolveActor, Handle,
     CallFails, SessionStep
<1>4. ASSUME NEW c \in Calls, NEW m \in Commands, Begin(c, m) PROVE SessionStep
  BY <1>4 DEF Begin, SessionStep
<1>5. CASE Restart \/ Tick
  BY <1>5 DEF Restart, Tick, SessionStep
<1>6. CASE Administration
  <2>1. ASSUME NEW m \in Members, RemoveMember(m) PROVE SessionStep
    BY <2>1 DEF RemoveMember, Change, SessionStep
  <2>2. ASSUME NEW m \in Members, NEW r \in Roles, AssignRole(m, r) PROVE SessionStep
    BY <2>2 DEF AssignRole, Change, SessionStep
  <2>3. ASSUME NEW x \in Tenants \cup Users, ChangeStatus(x) PROVE SessionStep
    BY <2>3 DEF ChangeStatus, Change, SessionStep
  <2>4. ASSUME NEW r \in Roles, NEW p \in Permissions, RevokePermission(r, p) PROVE SessionStep
    BY <2>4 DEF RevokePermission, Change, SessionStep
  <2> QED BY <1>6, <2>1, <2>2, <2>3, <2>4 DEF Administration
<1>7. CASE UNCHANGED vars
  BY <1>7 DEF vars, SessionStep
<1> QED BY <1>1, <1>2, <1>3, <1>4, <1>5, <1>6, <1>7 DEF Next, CallStep

\* No member is lost but with its sessions.
LEMMA MembersStay ==
    ASSUME TypeInv, [Next]_vars, NEW s \in sessions',
           NEW m \in Members, m = <<s.tenant, s.user>>, roleOf[m] # None
    PROVE  roleOf'[m] # None
<1> USE DEF TypeInv, StoreTyped
<1>1. ASSUME NEW n \in Members, RemoveMember(n) PROVE roleOf'[m] # None
  BY <1>1 DEF RemoveMember
<1>2. ASSUME NEW n \in Members, NEW r \in Roles, AssignRole(n, r) PROVE roleOf'[m] # None
  BY <1>2, AuthAssumption DEF AssignRole
<1>3. ASSUME UNCHANGED roleOf PROVE roleOf'[m] # None
  BY <1>3
<1>4. ASSUME NEW d \in Calls, CallMoves(d) PROVE UNCHANGED roleOf
  BY <1>4, Zenon DEF CallMoves, CallStep, FindUserByEmail, ResolveLogin, FindSessionByTokenHash,
     ResolveActor, Handle, CallFails, CreateSession, RevokeSession, Begin, directoryVars
<1>5. CASE Restart \/ Tick
  BY <1>3, <1>5 DEF Restart, Tick, directoryVars
<1>6. ASSUME NEW x \in Tenants \cup Users, ChangeStatus(x) PROVE UNCHANGED roleOf
  BY <1>6 DEF ChangeStatus
<1>7. ASSUME NEW r \in Roles, NEW p \in Permissions, RevokePermission(r, p)
      PROVE  UNCHANGED roleOf
  BY <1>7 DEF RevokePermission
<1>8. CASE UNCHANGED vars
  BY <1>3, <1>8 DEF vars, directoryVars
<1> QED BY <1>1, <1>2, <1>3, <1>4, <1>5, <1>6, <1>7, <1>8 DEF Next, CallMoves, Administration

LEMMA ClockRuns == ASSUME TypeInv, [Next]_vars PROVE clock' >= clock
<1>1. clock \in Nat
  BY AuthAssumption DEF TypeInv, StoreTyped, Times
<1>2. ASSUME NEW d \in Calls, CallMoves(d) PROVE UNCHANGED clock
  BY <1>2, Zenon DEF CallMoves, CallStep, FindUserByEmail, ResolveLogin, FindSessionByTokenHash,
     ResolveActor, Handle, CallFails, CreateSession, RevokeSession, Begin, worldVars
<1>3. CASE Restart
  BY <1>1, <1>3 DEF Restart
<1>4. CASE Tick
  BY <1>1, <1>4 DEF Tick
<1>5. CASE Administration
  BY <1>1, <1>5 DEF Administration, AssignRole, RemoveMember, ChangeStatus, RevokePermission,
     Change
<1>6. CASE UNCHANGED vars
  BY <1>1, <1>6 DEF vars, worldVars
<1> QED BY <1>1, <1>2, <1>3, <1>4, <1>5, <1>6 DEF Next, CallMoves

\* A session of the next state is one of this state, perhaps revoked by now, or
\* the row a login opens.
LEMMA Descends ==
    ASSUME TypeInv, [Next]_vars, NEW x \in sessions'
    PROVE  \/ \E s \in sessions :
                  \/ x = s
                  \/ \E d \in Calls : /\ pc[d] = "RevokeSession" /\ s.token = cmd[d].token
                                      /\ x = Revoked(s, readAt[d])
           \/ \E d \in Calls : Opens(d) /\ x = row[d]
BY SessionSteps, Zenon DEF SessionStep, Opens

LEMMA TokensSpread ==
    ASSUME TypeInv, [Next]_vars, NEW k \in handedOut'
    PROVE  k \in handedOut \/ \E d \in Calls : Opens(d) /\ k = row[d].token
BY SessionSteps DEF SessionStep

LEMMA TokensStay ==
    ASSUME TypeInv, [Next]_vars PROVE handedOut \subseteq handedOut'
BY SessionSteps DEF SessionStep

\* SessionsSound, and no session is from the future.
Sound == SessionsSound /\ \A s \in sessions : s.createdAt <= clock

\* A login about to open a session holds a row that no other session or login
\* has the token of, nor any client.
Creating(c) ==
    /\ row[c].revokedAt = None /\ row[c].createdAt <= clock
    /\ row[c].token \notin handedOut
    /\ \A s \in sessions : s.token # row[c].token
    /\ \A d \in Calls : d # c /\ pc[d] = "CreateSession" => row[d].token # row[c].token

\* A logout names a session opened before its time was read.
Revoking(c) ==
    /\ cmd[c].token \in handedOut \cup {Forged}
    /\ readAt[c] <= clock
    /\ \A s \in sessions : s.token = cmd[c].token => s.createdAt <= readAt[c]

CallsSound ==
    \A c \in Calls : /\ pc[c] = "CreateSession" => Creating(c)
                     /\ pc[c] = "RevokeSession" => Revoking(c)

SoundInv == TypeInv /\ Sound /\ CallsSound

LEMMA NextUnique ==
    ASSUME SoundInv, [Next]_vars,
           NEW x \in sessions', NEW y \in sessions', x.token = y.token
    PROVE  x = y
<1>1. TypeInv /\ SessionsSound
  BY DEF SoundInv, Sound
<1>2. \A s, u \in sessions : s.token = u.token => s = u
  BY <1>1 DEF SessionsSound
<1>3. CASE sessions' \subseteq sessions
  BY <1>2, <1>3
<1>4. ASSUME NEW d \in Calls, Opens(d) PROVE x = y
  <2>1. \A s \in sessions : s.token # row[d].token
    BY <1>4 DEF SoundInv, CallsSound, Creating, Opens
  <2> QED BY <1>2, <1>4, <2>1 DEF Opens
<1>5. ASSUME NEW d \in Calls,
             sessions' = {IF s.token = cmd[d].token THEN Revoked(s, readAt[d]) ELSE s :
                              s \in sessions}
      PROVE  x = y
  <2>1. PICK s \in sessions : x = IF s.token = cmd[d].token THEN Revoked(s, readAt[d]) ELSE s
    BY <1>5
  <2>2. PICK u \in sessions : y = IF u.token = cmd[d].token THEN Revoked(u, readAt[d]) ELSE u
    BY <1>5
  <2>3. x.token = s.token /\ y.token = u.token
    BY <1>1, <2>1, <2>2, RevokedType DEF TypeInv, StoreTyped, CallsTyped
  <2> QED BY <1>2, <2>1, <2>2, <2>3
<1> QED BY <1>1, <1>3, <1>4, <1>5, SessionSteps DEF SessionStep

\* What a session keeps of the one it descends from.
LEMMA RevokedKeeps ==
    ASSUME TypeInv, NEW s \in sessions, NEW d \in Calls
    PROVE  LET x == Revoked(s, readAt[d]) IN
           /\ x.token = s.token /\ x.tenant = s.tenant /\ x.user = s.user
           /\ x.createdAt = s.createdAt /\ x.expiresAt = s.expiresAt
           /\ x.revokedAt = IF s.revokedAt = None THEN readAt[d] ELSE s.revokedAt
           /\ s.revokedAt # None => x = s
           /\ x = [s EXCEPT !.revokedAt = x.revokedAt]
BY RevokedType DEF TypeInv, StoreTyped, CallsTyped

LEMMA DescendsFrom ==
    ASSUME TypeInv, [Next]_vars, NEW x \in sessions'
    PROVE  \/ \E s \in sessions : x.token = s.token /\ x.createdAt = s.createdAt
           \/ \E d \in Calls : Opens(d) /\ x = row[d]
<1>1. ASSUME NEW s \in sessions, NEW d \in Calls, x = Revoked(s, readAt[d])
      PROVE  x.token = s.token /\ x.createdAt = s.createdAt
  BY <1>1, RevokedKeeps
<1> QED BY <1>1, Descends

LEMMA NextSound == ASSUME SoundInv, TypeInv', [Next]_vars PROVE Sound'
<1>1. TypeInv /\ clock' >= clock /\ clock \in Int /\ clock' \in Int
  BY ClockRuns DEF SoundInv, TypeInv, StoreTyped, Times
<1>2. ASSUME NEW x \in sessions'
      PROVE  /\ roleOf'[<<x.tenant, x.user>>] # None
             /\ x.revokedAt # None => x.createdAt <= x.revokedAt /\ x.revokedAt <= clock'
             /\ x.createdAt <= clock'
  <2>1. x \in SessionRecord
    BY DEF TypeInv, StoreTyped
  <2>2. <<x.tenant, x.user>> \in Members
    BY <2>1 DEF SessionRecord, Members
  <2>3. ASSUME NEW s \in sessions, x = s PROVE <1>2!2
    <3>1. /\ roleOf[<<x.tenant, x.user>>] # None
          /\ x.revokedAt # None => x.createdAt <= x.revokedAt /\ x.revokedAt <= clock
          /\ x.createdAt <= clock
      BY <2>3 DEF SoundInv, Sound, SessionsSound
    <3>2. x.createdAt \in Int /\ (x.revokedAt # None => x.revokedAt \in Int)
      BY <2>1 DEF SessionRecord, Times
    <3> QED BY <1>1, <2>2, <3>1, <3>2, MembersStay
  <2>4. ASSUME NEW s \in sessions, NEW d \in Calls, pc[d] = "RevokeSession",
               s.token = cmd[d].token, x = Revoked(s, readAt[d])
        PROVE  <1>2!2
    <3>1. /\ x.tenant = s.tenant /\ x.user = s.user /\ x.createdAt = s.createdAt
          /\ x.revokedAt = IF s.revokedAt = None THEN readAt[d] ELSE s.revokedAt
      BY <1>1, <2>4, RevokedKeeps
    <3>2. /\ roleOf[<<s.tenant, s.user>>] # None
          /\ s.revokedAt # None => s.createdAt <= s.revokedAt /\ s.revokedAt <= clock
          /\ s.createdAt <= clock
      BY DEF SoundInv, Sound, SessionsSound
    <3>3. s.createdAt <= readAt[d] /\ readAt[d] <= clock
      BY <2>4 DEF SoundInv, CallsSound, Revoking
    <3>4. /\ s.createdAt \in Int /\ (s.revokedAt # None => s.revokedAt \in Int)
          /\ readAt[d] \in Int
      BY <1>1 DEF TypeInv, StoreTyped, CallsTyped, SessionRecord, Times
    <3>5. roleOf'[<<x.tenant, x.user>>] # None
      BY <1>1, <2>2, <3>1, <3>2, MembersStay
    <3> QED BY <1>1, <3>1, <3>2, <3>3, <3>4, <3>5
  <2>5. ASSUME NEW d \in Calls, Opens(d), x = row[d] PROVE <1>2!2
    <3>1. x.revokedAt = None /\ x.createdAt <= clock /\ roleOf[<<x.tenant, x.user>>] # None
      BY <2>5 DEF SoundInv, CallsSound, Creating, Opens
    <3>2. x.createdAt \in Int
      BY <2>1 DEF SessionRecord, Times
    <3> QED BY <1>1, <2>2, <3>1, <3>2, MembersStay
  <2> QED BY <1>1, <2>3, <2>4, <2>5, Descends
<1> QED BY <1>2, NextUnique DEF Sound, SessionsSound

\* The row of a login that has just resolved is of this moment, under a token
\* that no session, no client and no other login has.
LEMMA FreshRow ==
    ASSUME TypeInv, NEW c \in Calls, ResolveLogin(c), pc'[c] = "CreateSession"
    PROVE  /\ row'[c].token \in FreshTokens /\ row'[c].revokedAt = None
           /\ row'[c].createdAt = clock
           /\ UNCHANGED <<sessions, handedOut, clock>>
<1>1. CASE \E e : Fail(c, e)
  BY <1>1 DEF Fail, Finish, TypeInv, CallsTyped
<1>2. CASE \E k \in FreshTokens, t \in FoundTenants(cmd[c].user, cmd[c].tenant) :
               row' = [row EXCEPT ![c] = NewSession(k, t, cmd[c].user)]
  BY <1>2 DEF NewSession, TypeInv, CallsTyped, ResolveLogin, worldVars
<1> QED BY <1>1, <1>2, ResolveLoginFinds, Zenon

LEMMA FreshApart ==
    ASSUME TypeInv, NEW k \in FreshTokens
    PROVE  /\ k \notin handedOut
           /\ \A s \in sessions : s.token # k
           /\ \A d \in Calls : pc[d] = "CreateSession" => row[d].token # k
<1>1. \A d \in Calls : pc[d] = "CreateSession" => row[d] # None
  BY AuthAssumption DEF TypeInv, CallsHold
<1> QED BY <1>1, Zenon DEF FreshTokens

LEMMA NextCreating ==
    ASSUME SoundInv, TypeInv', [Next]_vars, NEW c \in Calls, pc'[c] = "CreateSession"
    PROVE  Creating(c)'
<1>1. TypeInv /\ clock' >= clock /\ clock \in Int /\ clock' \in Int
  BY ClockRuns DEF SoundInv, TypeInv, StoreTyped, Times
<1>2. \A d \in Calls : Opens(d) => d # c
  BY DEF Opens
<1>3. ASSUME NEW d \in Calls, d # c, pc'[d] = "CreateSession"
      PROVE  (Stands(d) /\ pc[d] = "CreateSession") \/ ResolveLogin(d)
  BY <1>1, <1>3, CallSteps, Arrives DEF Stands
<1>4. CASE Stands(c)
  <2>1. Creating(c) /\ pc[c] = "CreateSession" /\ row'[c] = row[c]
    BY <1>4 DEF Stands, SoundInv, CallsSound
  <2>2. ASSUME NEW d \in Calls, Opens(d) PROVE row[d].token # row[c].token
    BY <1>2, <2>1, <2>2 DEF Creating, Opens
  <2>3. row'[c].token \notin handedOut'
    BY <1>1, <2>1, <2>2, TokensSpread DEF Creating
  <2>4. ASSUME NEW x \in sessions' PROVE x.token # row'[c].token
    <3>1. CASE \E s \in sessions : x.token = s.token
      BY <2>1, <3>1 DEF Creating
    <3> QED BY <1>1, <2>1, <2>2, <3>1, DescendsFrom
  <2>5. ASSUME NEW d \in Calls, d # c, pc'[d] = "CreateSession"
        PROVE  row'[d].token # row'[c].token
    <3>1. CASE Stands(d) /\ pc[d] = "CreateSession"
      BY <2>1, <2>5, <3>1 DEF Creating, Stands
    <3>2. CASE ResolveLogin(d)
      BY <1>1, <2>1, <2>5, <3>2, FreshRow, FreshApart
    <3> QED BY <1>3, <2>5, <3>1, <3>2
  <2>6. row'[c].createdAt <= clock'
    <3>1. row[c].createdAt \in Int
      BY <1>1, <2>1 DEF TypeInv, CallsHold, SessionRecord, Times
    <3> QED BY <1>1, <2>1, <3>1 DEF Creating
  <2> QED BY <2>1, <2>3, <2>4, <2>5, <2>6 DEF Creating
<1>5. CASE CallMoves(c)
  <2>1. ResolveLogin(c)
    BY <1>1, <1>5, Arrives
  <2>2. PICK k \in FreshTokens : k = row'[c].token
    BY <1>1, <2>1, FreshRow
  <2>3. /\ k \notin handedOut'
        /\ \A s \in sessions' : s.token # k
    BY <1>1, <2>1, FreshRow, FreshApart
  <2>4. ASSUME NEW d \in Calls, d # c, pc'[d] = "CreateSession"
        PROVE  row'[d].token # k
    BY <1>1, <1>5, <2>4, OthersStand, FreshApart DEF Stands
  <2> QED BY <1>1, <2>1, <2>2, <2>3, <2>4, FreshRow DEF Creating
<1> QED BY <1>1, <1>4, <1>5, CallSteps

LEMMA NextRevoking ==
    ASSUME SoundInv, TypeInv', [Next]_vars, NEW c \in Calls, pc'[c] = "RevokeSession"
    PROVE  Revoking(c)'
<1>1. TypeInv /\ clock' >= clock /\ clock \in Int /\ clock' \in Int
  BY ClockRuns DEF SoundInv, TypeInv, StoreTyped, Times
<1>2. CASE Stands(c)
  <2>1. Revoking(c) /\ cmd'[c] = cmd[c] /\ readAt'[c] = readAt[c] /\ readAt[c] \in Int
    BY <1>1, <1>2 DEF Stands, SoundInv, CallsSound, TypeInv, CallsTyped, Times
  <2>2. ASSUME NEW d \in Calls, Opens(d) PROVE row[d].token # cmd[c].token
    <3>1. row[d].token \notin handedOut
      BY <2>2 DEF Opens, SoundInv, CallsSound, Creating
    <3>2. row[d].token # Forged
      BY <1>1, <2>2, AuthAssumption DEF Opens, TypeInv, CallsHold, SessionRecord
    <3> QED BY <2>1, <3>1, <3>2 DEF Revoking
  <2>3. ASSUME NEW x \in sessions', x.token = cmd'[c].token PROVE x.createdAt <= readAt'[c]
    <3>1. CASE \E s \in sessions : x.token = s.token /\ x.createdAt = s.createdAt
      BY <2>1, <2>3, <3>1 DEF Revoking
    <3> QED BY <1>1, <2>1, <2>2, <2>3, <3>1, DescendsFrom
  <2> QED BY <1>1, <2>1, <2>3, TokensStay DEF Revoking
<1>3. CASE CallMoves(c)
  <2>1. PICK m \in Commands : Begin(c, m)
    BY <1>1, <1>3, Arrives
  <2>2. m \in Command
    BY AuthAssumption
  <2>3. m.op = "logout" /\ m.token # None
    <3>1. cmd'[c] = m /\ pc'[c] = "RevokeSession"
      BY <1>1, <2>1 DEF Begin, TypeInv, CallsTyped
    <3>2. m \in LogoutCommand
      BY <3>1 DEF TypeInv, CallsHold
    <3>3. FirstRefusal(m) = "OK"
      BY <1>1, <2>1, <3>1 DEF Begin, TypeInv, CallsTyped
    <3> QED BY <3>2, <3>3 DEF LogoutCommand, FirstRefusal
  <2>4. /\ cmd'[c] = m /\ readAt'[c] = clock
        /\ m.token \in handedOut \cup {Forged}
        /\ UNCHANGED <<sessions, handedOut, clock>>
    BY <1>1, <2>1, <2>3 DEF Begin, TypeInv, CallsTyped, worldVars
  <2>5. \A s \in sessions : s.createdAt <= clock
    BY DEF SoundInv, Sound
  <2> QED BY <1>1, <2>4, <2>5 DEF Revoking
<1> QED BY <1>1, <1>2, <1>3, CallSteps

LEMMA SoundInvHolds == Spec => []SoundInv
<1>1. Init => SoundInv
  BY InitType DEF Init, CallsAtRest, SoundInv, Sound, SessionsSound, CallsSound
<1>2. SoundInv /\ [Next]_vars => SoundInv'
  <2> SUFFICES ASSUME SoundInv, [Next]_vars PROVE SoundInv'
    OBVIOUS
  <2>1. TypeInv'
    BY NextType DEF SoundInv
  <2> QED BY <2>1, NextSound, NextCreating, NextRevoking DEF SoundInv, CallsSound
<1> QED BY <1>1, <1>2, PTL DEF Spec

\* Sessions belong to members, one token to one session, and none is logged out
\* before it was opened: while a login holds its row, no other login, session or
\* client has the token, so a logout only names sessions older than the time it
\* has read.
THEOREM SessionsAreSound == Spec => []SessionsSound
<1>1. SoundInv => SessionsSound
  BY DEF SoundInv, Sound
<1> QED BY <1>1, SoundInvHolds, PTL

\* A session keeps owner, expiry and the time of its logout; only the loss of
\* its member ends it.
THEOREM SessionsAreKept == Spec => SessionsKept
<1> DEFINE Kept(s) == \/ roleOf'[<<s.tenant, s.user>>] = None
                      \/ s \in sessions'
                      \/ /\ s.revokedAt = None
                         /\ \E x \in sessions' : /\ x = [s EXCEPT !.revokedAt = x.revokedAt]
                                                 /\ x.revokedAt # None
<1>1. ASSUME TypeInv, [Next]_vars PROVE \A s \in sessions : Kept(s)
  <2> SUFFICES ASSUME NEW s \in sessions PROVE Kept(s)
    OBVIOUS
  <2>1. CASE s \in sessions'
    BY <2>1
  <2>2. ASSUME NEW d \in Calls,
               sessions' = {IF y.token = cmd[d].token THEN Revoked(y, readAt[d]) ELSE y :
                                y \in sessions}
        PROVE  Kept(s)
    <3>1. CASE s.token # cmd[d].token \/ s.revokedAt # None
      <4>1. s \in sessions'
        BY <1>1, <2>2, <3>1, RevokedKeeps
      <4> QED BY <4>1
    <3>2. CASE s.token = cmd[d].token /\ s.revokedAt = None
      <4>1. Revoked(s, readAt[d]) \in sessions'
        BY <2>2, <3>2
      <4>2. readAt[d] # None
        BY <1>1, AuthAssumption DEF TypeInv, CallsTyped
      <4> QED BY <1>1, <3>2, <4>1, <4>2, RevokedKeeps
    <3> QED BY <3>1, <3>2
  <2>3. ASSUME NEW m \in Members,
               sessions' = {y \in sessions : <<y.tenant, y.user>> # m},
               roleOf' = [roleOf EXCEPT ![m] = None]
        PROVE  Kept(s)
    BY <1>1, <2>3 DEF TypeInv, StoreTyped
  <2> QED BY <1>1, <2>1, <2>2, <2>3, SessionSteps DEF SessionStep, Opens
<1>2. TypeInv /\ [Next]_vars => [\A s \in sessions : Kept(s)]_vars
  BY <1>1
<1> QED BY <1>2, TypeInvHolds, PTL DEF Spec, SessionsKept

-----------------------------------------------------------------------------
(* What a request has seen *)

\* The history of a call in service grows with what holds at every step.
LEMMA HistoryStays ==
    ASSUME [HistoryNext]_<<vars, histVars>>, NEW c \in Calls,
           pc[c] \notin {"Idle", "Done"}, pc'[c] \notin {"Idle", "Done"}
    PROVE  (live[c] => live'[c]) /\ held[c] \subseteq held'[c]
<1>1. CASE HistoryNext
  <2>1. live'[c] = LiveNext(c) /\ held'[c] = HeldNext(c)
    BY <1>1 DEF HistoryNext
  <2>2. live[c] => LiveNext(c)
    BY Zenon DEF LiveNext, InService
  <2>3. held[c] \subseteq HeldNext(c)
    BY Zenon DEF HeldNext, InService
  <2> QED BY <2>1, <2>2, <2>3, Zenon
<1>2. CASE UNCHANGED <<vars, histVars>>
  BY <1>2 DEF histVars
<1> QED BY <1>1, <1>2

LEMMA HistoryAdds ==
    ASSUME HistoryNext, NEW c \in Calls, pc'[c] \notin {"Idle", "Done"}
    PROVE  /\ cmd'[c].op # "login" /\ LiveNow(c)' => live'[c]
           /\ HeldNow' \subseteq held'[c]
<1>1. live'[c] = LiveNext(c) /\ held'[c] = HeldNext(c)
  BY DEF HistoryNext
<1>2. cmd'[c].op # "login" /\ LiveNow(c)' => LiveNext(c)
  BY Zenon DEF LiveNext, InService
<1>3. HeldNow' \subseteq HeldNext(c)
  BY Zenon DEF HeldNext, InService
<1> QED BY <1>1, <1>2, <1>3, Zenon

\* An answered call keeps what it has seen along with its actor.
LEMMA HistoryKeeps ==
    ASSUME [HistoryNext]_<<vars, histVars>>, NEW c \in Calls,
           pc'[c] = "Done", actor'[c] # None
    PROVE  held'[c] = held[c]
<1>1. CASE HistoryNext
  BY <1>1, Zenon DEF HistoryNext, HeldNext, InService
<1>2. CASE UNCHANGED <<vars, histVars>>
  BY <1>2 DEF histVars
<1> QED BY <1>1, <1>2

\* The rights of an active member.
LEMMA MemberHolds ==
    ASSUME NEW t, NEW u, <<t, u>> \in Members, roleOf[<<t, u>>] # None,
           {t, u} \subseteq active, NEW p \in grants[roleOf[<<t, u>>]] \cup {"member"}
    PROVE  <<t, u, p>> \in HeldNow
<1>1. <<t, u>> \in Standing
  BY DEF Standing
<1>2. <<t, u, p>> \in {<<<<t, u>>[1], <<t, u>>[2], q>> :
                          q \in grants[roleOf[<<t, u>>]] \cup {"member"}}
  OBVIOUS
<1>3. <<t, u, p>> \in UNION {{<<m[1], m[2], q>> : q \in grants[roleOf[m]] \cup {"member"}} :
                               m \in Standing}
  BY <1>1, <1>2
<1> QED BY <1>3, Zenon DEF HeldNow

LEMMA OnlyOneHolds ==
    ASSUME NEW t, NEW u, <<t, u>> \in Members, FoundTenants(u, None) = {t}
    PROVE  <<t, u, "single">> \in HeldNow
<1>1. <<t, u>> \in Standing
  BY DEF FoundTenants, Standing
<1>2. ASSUME NEW k \in Standing, k[2] = u PROVE k = <<t, u>>
  <2>1. k = <<k[1], u>> /\ k[1] \in Tenants
    BY <1>2 DEF Members, Standing
  <2>2. k[1] \in FoundTenants(u, None)
    BY <1>2, <2>1 DEF FoundTenants, Standing
  <2> QED BY <2>1, <2>2
<1>3. <<t, u>> \in Single
  BY <1>1, <1>2 DEF Single
<1>4. <<t, u, "single">> = <<<<t, u>>[1], <<t, u>>[2], "single">>
  OBVIOUS
<1>5. <<t, u, "single">> \in {<<m[1], m[2], "single">> : m \in Single}
  BY <1>3, <1>4, Zenon
<1> QED BY <1>5 DEF HeldNow


-----------------------------------------------------------------------------
(* The promises of the guard and of the login *)

\* The actor of call c is a member, in the tenant named or his only one.
Bound(c) ==
    /\ <<actor[c].tenant, actor[c].user, "member">> \in held[c]
    /\ IF cmd[c].tenant = None
       THEN <<actor[c].tenant, actor[c].user, "single">> \in held[c]
       ELSE actor[c].tenant = cmd[c].tenant

Entitled(c) ==
    \E p \in RightFor(cmd[c].op, actor[c].level) :
        <<actor[c].tenant, actor[c].user, p>> \in held[c]

LoggedIn(c) == pc[c] = "Done" /\ error[c] = "OK" /\ cmd[c].op = "login"

Seen(c) ==
    /\ pc[c] \in {"ResolveActor", "Handling"} => live[c]
    /\ pc[c] = "Handling" => Entitled(c)
    /\ pc[c] = "CreateSession" => Bound(c)
    /\ LoggedIn(c) => actor[c] \in Actor /\ Bound(c)

\* A call that stands has seen at least as much.
LEMMA StandingSeen ==
    ASSUME TypeInv, [HistoryNext]_<<vars, histVars>>, NEW c \in Calls, Stands(c), Seen(c)
    PROVE  Seen(c)'
<1>1. /\ pc'[c] = pc[c] /\ cmd'[c] = cmd[c] /\ actor'[c] = actor[c] /\ error'[c] = error[c]
  BY DEF Stands
<1>2. CASE pc[c] \notin {"Idle", "Done"}
  <2>1. (live[c] => live'[c]) /\ held[c] \subseteq held'[c]
    BY <1>1, <1>2, HistoryStays
  <2>2. Entitled(c) => Entitled(c)'
    BY <1>1, <2>1 DEF Entitled
  <2>3. Bound(c) => Bound(c)'
    BY <1>1, <2>1 DEF Bound
  <2> QED BY <1>1, <1>2, <2>1, <2>2, <2>3, Zenon DEF Seen, LoggedIn
<1>3. CASE pc[c] = "Done"
  <2>1. CASE ~ LoggedIn(c)
    BY <1>1, <1>3, <2>1 DEF Seen, LoggedIn
  <2>2. CASE LoggedIn(c)
    <3>1. actor'[c] \in Actor /\ actor'[c] # None
      BY <1>1, <2>2, AuthAssumption DEF Seen
    <3>2. held'[c] = held[c]
      BY <1>1, <1>3, <3>1, HistoryKeeps
    <3>3. Bound(c)'
      BY <1>1, <2>2, <3>2 DEF Seen, Bound
    <3> QED BY <1>1, <1>3, <3>1, <3>3 DEF Seen
  <2> QED BY <2>1, <2>2
<1>4. CASE pc[c] = "Idle"
  BY <1>1, <1>4 DEF Seen, LoggedIn
<1> QED BY <1>2, <1>3, <1>4

LEMMA FindSessionSees ==
    ASSUME TypeInv, HistoryNext, NEW c \in Calls, FindSessionByTokenHash(c),
           pc'[c] = "ResolveActor"
    PROVE  live'[c]
<1>1. cmd[c] \in GuardedCommand
  BY DEF TypeInv, CallsHold, FindSessionByTokenHash, GuardCalls
<1>2. cmd[c].op # "login"
  BY <1>1 DEF GuardedCommand, GuardedOps
<1>3. ASSUME NEW e, Fail(c, e) PROVE FALSE
  BY <1>3 DEF Fail, Finish, TypeInv, CallsTyped
<1>4. PICK s \in RowsOf(cmd[c].token) : SessionRefusal(s) = "OK" /\ UNCHANGED cmd
  BY <1>3, Zenon DEF FindSessionByTokenHash, Carry
<1>5. s \in sessions /\ s.token = cmd[c].token
  BY <1>4 DEF RowsOf
<1>6. s.revokedAt = None /\ clock < s.expiresAt
  <2>1. s.expiresAt \in Int /\ clock \in Int
    BY <1>5 DEF TypeInv, StoreTyped, SessionRecord, Times
  <2> QED BY <1>4, <2>1 DEF SessionRefusal
<1>7. UNCHANGED <<sessions, clock>>
  BY DEF FindSessionByTokenHash, worldVars
<1>8. LiveNow(c)'
  BY <1>4, <1>5, <1>6, <1>7 DEF LiveNow
<1> QED BY <1>2, <1>4, <1>8, HistoryAdds

LEMMA ResolveActorSees ==
    ASSUME TypeInv, HistoryNext, NEW c \in Calls, Seen(c), ResolveActor(c),
           pc'[c] = "Handling"
    PROVE  live'[c] /\ Entitled(c)'
<1> DEFINE s == row[c]
           a == Admitted(cmd[c], ResolvedActor(s.user, s.tenant))
<1>1. pc[c] = "ResolveActor"
  BY DEF ResolveActor
<1>2. live'[c]
  BY <1>1, HistoryStays DEF Seen
<1>3. ASSUME NEW e, Fail(c, e) PROVE FALSE
  BY <1>3 DEF Fail, Finish, TypeInv, CallsTyped
<1>4. /\ ResolveRefusal(s.user, s.tenant) = "OK"
      /\ GuardRefusal(cmd[c], ResolvedActor(s.user, s.tenant).permissions) = "OK"
      /\ actor' = [actor EXCEPT ![c] = a] /\ UNCHANGED cmd
  BY <1>3, ResolveActorFinds
<1>5. /\ <<s.tenant, s.user>> \in Members
      /\ roleOf[<<s.tenant, s.user>>] \in Roles /\ {s.tenant, s.user} \subseteq active
      /\ a.tenant = s.tenant /\ a.user = s.user
      /\ \E p \in RightFor(cmd[c].op, a.level) : p \in grants[roleOf[<<s.tenant, s.user>>]]
  BY <1>1, <1>4, ActorAdmitted
<1>6. actor'[c] = a
  BY <1>4 DEF TypeInv, CallsTyped
<1> HIDE DEF a
<1>7. PICK p \in RightFor(cmd[c].op, a.level) : p \in grants[roleOf[<<s.tenant, s.user>>]]
  BY <1>5
<1>8. <<s.tenant, s.user, p>> \in HeldNow
  BY <1>5, <1>7, MemberHolds, AuthAssumption
<1>9. HeldNow' = HeldNow
  BY DEF HeldNow, Single, Standing, ResolveActor, directoryVars
<1>10. <<s.tenant, s.user, p>> \in held'[c]
  BY <1>8, <1>9, HistoryAdds
<1>11. Entitled(c)'
  BY <1>4, <1>5, <1>6, <1>7, <1>10 DEF Entitled
<1> QED BY <1>2, <1>11

\* A statement that does not find two tenants, and finds one, finds it alone.
LEMMA FoundAlone ==
    ASSUME NEW u, NEW t \in FoundTenants(u, None), ResolveRefusal(u, None) = "OK"
    PROVE  FoundTenants(u, None) = {t}
<1> DEFINE found == FoundTenants(u, None)
<1>1. ~ (Cardinality(found) > 1)
  BY Zenon DEF ResolveRefusal
<1>2. found \in SUBSET Tenants
  BY DEF FoundTenants
<1> HIDE DEF found
<1>3. IsFiniteSet(found)
  BY <1>2, FS_Subset, AuthAssumption
<1>4. t \in found
  BY DEF found
<1>5. Cardinality(found) \in Nat /\ Cardinality(found) # 0
  BY <1>3, <1>4, FS_CardinalityType, FS_EmptySet
<1>6. Cardinality(found) = 1
  BY <1>1, <1>5
<1>7. PICK x : found = {x}
  BY <1>3, <1>6, FS_Singleton
<1> QED BY <1>4, <1>7 DEF found

LEMMA ResolveLoginSees ==
    ASSUME TypeInv, HistoryNext, NEW c \in Calls, ResolveLogin(c), pc'[c] = "CreateSession"
    PROVE  Bound(c)'
<1> DEFINE u == cmd[c].user
           tenant == cmd[c].tenant
<1>1. cmd[c] \in LoginCommand
  BY DEF TypeInv, CallsHold, ResolveLogin, LoginCalls
<1>2. u \in Users /\ tenant \in Tenants \cup {None}
  BY <1>1 DEF LoginCommand
<1>3. ASSUME NEW e, Fail(c, e) PROVE FALSE
  BY <1>3 DEF Fail, Finish, TypeInv, CallsTyped
<1>4. PICK t \in FoundTenants(u, tenant) :
          actor' = [actor EXCEPT ![c] = ResolvedActor(u, t)]
  BY <1>3, ResolveLoginFinds
<1>5. ResolveRefusal(u, tenant) = "OK" /\ UNCHANGED cmd
  BY <1>3, ResolveLoginFinds
<1>6. /\ <<t, u>> \in Members /\ roleOf[<<t, u>>] \in Roles /\ {t, u} \subseteq active
      /\ tenant # None => t = tenant
  BY <1>2, ResolvedType
<1>7. actor'[c].tenant = t /\ actor'[c].user = u
  BY <1>4 DEF ResolvedActor, TypeInv, CallsTyped
<1>8. HeldNow' = HeldNow
  BY DEF HeldNow, Single, Standing, ResolveLogin, directoryVars
<1>9. <<t, u, "member">> \in held'[c]
  BY <1>6, <1>8, MemberHolds, HistoryAdds, AuthAssumption
<1>10. ASSUME tenant = None PROVE <<t, u, "single">> \in held'[c]
  BY <1>4, <1>5, <1>6, <1>8, <1>10, FoundAlone, OnlyOneHolds, HistoryAdds
<1> QED BY <1>5, <1>6, <1>7, <1>9, <1>10 DEF Bound

\* Only a login that has opened its session is answered with success.
LEMMA LoginAnswers ==
    ASSUME TypeInv, NEW c \in Calls, CallMoves(c), LoggedIn(c)'
    PROVE  CreateSession(c) /\ actor'[c] = actor[c] /\ cmd'[c] = cmd[c]
<1> USE DEF TypeInv, CallsTyped
<1>1. pc'[c] = "Done" /\ error'[c] = "OK" /\ cmd'[c].op = "login"
  BY DEF LoggedIn
<1>2. ASSUME NEW a, Finish(c, a, "OK"), CreateSession(c) \/ RevokeSession(c) \/ Handle(c)
      PROVE  CreateSession(c) /\ cmd'[c] = cmd[c]
  <2>1. cmd'[c].op = cmd[c].op /\ cmd'[c] = cmd[c]
    BY <1>2 DEF Finish
  <2>2. RevokeSession(c) => cmd[c].op = "logout"
    BY DEF RevokeSession, CallsHold, LogoutCommand
  <2>3. Handle(c) => cmd[c] \in GuardedCommand
    BY DEF Handle, CallsHold, GuardCalls
  <2>4. cmd[c] \in GuardedCommand => cmd[c].op # "login"
    BY DEF GuardedCommand, GuardedOps
  <2> QED BY <1>1, <1>2, <2>1, <2>2, <2>3, <2>4
<1>3. ASSUME NEW e, e # "OK", Fail(c, e) PROVE FALSE
  BY <1>1, <1>3 DEF Fail, Finish
<1>4. ASSUME NEW m \in Commands, Begin(c, m) PROVE FALSE
  <2>1. m \in Command /\ m.op = "login"
    BY <1>1, <1>4, AuthAssumption DEF Begin
  <2>2. FirstStatement(m) # "Done" /\ FirstRefusal(m) = "OK"
    BY <1>1, <1>4, <2>1 DEF Begin, FirstStatement
  <2> QED BY <1>1, <1>4, <2>2 DEF Begin
<1>5. CASE FindUserByEmail(c) \/ FindSessionByTokenHash(c)
  <2>1. ASSUME NEW s, NEW label \in {"ResolveLogin", "ResolveActor"}, Carry(c, s, label)
        PROVE  FALSE
    BY <1>1, <2>1 DEF Carry
  <2> QED BY <1>3, <1>5, <2>1, Zenon DEF FindUserByEmail, FindSessionByTokenHash
<1>6. CASE ResolveLogin(c)
  <2>1. CASE pc' = [pc EXCEPT ![c] = "CreateSession"]
    BY <1>1, <2>1
  <2> QED BY <1>3, <1>6, <2>1, ResolveLoginFinds, Zenon
<1>7. CASE ResolveActor(c)
  <2>1. CASE pc' = [pc EXCEPT ![c] = "Handling"]
    BY <1>1, <2>1
  <2>2. \A e \in Errors : e # "OK"
    BY DEF Errors
  <2> QED BY <1>3, <1>7, <2>1, <2>2, ResolveActorFinds, Zenon
<1>8. CASE CreateSession(c)
  <2>1. Finish(c, actor[c], "OK")
    BY <1>3, <1>8, Zenon DEF CreateSession
  <2> QED BY <1>2, <1>8, <2>1 DEF Finish
<1>9. CASE RevokeSession(c) \/ Handle(c)
  <2>1. FALSE
    <3>1. CreateSession(c)
      BY <1>2, <1>3, <1>9, Zenon DEF RevokeSession, Handle
    <3> QED BY <1>9, <3>1 DEF CreateSession, RevokeSession, Handle
  <2> QED BY <2>1
<1>10. CASE CallFails(c)
  BY <1>3, <1>10, Zenon DEF CallFails
<1> QED BY <1>4, <1>5, <1>6, <1>7, <1>8, <1>9, <1>10, Zenon DEF CallMoves, CallStep

LEMMA NextSeen ==
    ASSUME TypeInv, TypeInv', [HistoryNext]_<<vars, histVars>>, NEW c \in Calls, Seen(c)
    PROVE  Seen(c)'
<1>1. [Next]_vars
  BY DEF HistoryNext
<1>2. CASE Stands(c)
  BY <1>2, StandingSeen
<1>3. CASE UNCHANGED <<vars, histVars>>
  BY <1>2, <1>3 DEF vars, callVars, Stands
<1>4. CASE HistoryNext /\ CallMoves(c)
  <2>1. pc'[c] = "ResolveActor" => live'[c]
    BY <1>4, Arrives, FindSessionSees
  <2>2. pc'[c] = "Handling" => live'[c] /\ Entitled(c)'
    BY <1>4, Arrives, ResolveActorSees
  <2>3. pc'[c] = "CreateSession" => Bound(c)'
    BY <1>4, Arrives, ResolveLoginSees
  <2>4. ASSUME LoggedIn(c)' PROVE actor'[c] \in Actor /\ Bound(c)'
    <3>1. CreateSession(c) /\ actor'[c] = actor[c] /\ cmd'[c] = cmd[c]
      BY <1>4, <2>4, LoginAnswers
    <3>2. pc[c] = "CreateSession" /\ actor[c] \in Actor
      BY <3>1 DEF CreateSession, TypeInv, CallsHold
    <3>3. held'[c] = held[c]
      BY <2>4, <3>1, <3>2, HistoryKeeps, AuthAssumption DEF LoggedIn
    <3>4. Bound(c)
      BY <3>2 DEF Seen
    <3> QED BY <3>1, <3>2, <3>3, <3>4 DEF Bound
  <2> QED BY <2>1, <2>2, <2>3, <2>4, Zenon DEF Seen
<1>5. CASE pc'[c] = "Idle"
  BY <1>5 DEF Seen, LoggedIn
<1> QED BY <1>1, <1>2, <1>3, <1>4, <1>5, CallSteps

SeenInv == TypeInv /\ \A c \in Calls : Seen(c)

LEMMA SeenInvHolds == HistorySpec => []SeenInv
<1>1. HistoryInit => SeenInv
  BY InitType DEF HistoryInit, Init, CallsAtRest, SeenInv, Seen, LoggedIn
<1>2. SeenInv /\ [HistoryNext]_<<vars, histVars>> => SeenInv'
  <2> SUFFICES ASSUME SeenInv, [HistoryNext]_<<vars, histVars>> PROVE SeenInv'
    OBVIOUS
  <2>1. [Next]_vars
    BY DEF HistoryNext
  <2>2. TypeInv'
    BY <2>1, NextType DEF SeenInv
  <2> QED BY <2>2, NextSeen DEF SeenInv
<1> QED BY <1>1, <1>2, PTL DEF HistorySpec

\* A request reaches its handler only if, since it began, its session was once
\* good and its actor once had the right the handler relies on.
THEOREM AdmittedWasEntitled == HistorySpec => []AdmittedEntitled
<1>1. SeenInv => AdmittedEntitled
  BY DEF SeenInv, Seen, Entitled, AdmittedEntitled
<1> QED BY <1>1, SeenInvHolds, PTL

\* A login lands in a tenant its user was a member of while it was served: the
\* one named, or the only one.
THEOREM LoginBound == HistorySpec => []LoginBindsTenant
<1>1. SeenInv => LoginBindsTenant
  BY DEF SeenInv, Seen, LoggedIn, Bound, LoginBindsTenant
<1> QED BY <1>1, SeenInvHolds, PTL

-----------------------------------------------------------------------------
(* Authenticator is implemented *)

\* The row a guard has found is that of its token.
Found(c) == pc[c] = "ResolveActor" => row[c].token = cmd[c].token

LEMMA NextFound ==
    ASSUME TypeInv, [Next]_vars, NEW c \in Calls, Found(c) PROVE Found(c)'
<1>1. CASE FindSessionByTokenHash(c) /\ pc'[c] = "ResolveActor"
  <2>1. ASSUME NEW e, Fail(c, e) PROVE FALSE
    BY <1>1, <2>1 DEF Fail, Finish, TypeInv, CallsTyped
  <2>2. PICK s \in RowsOf(cmd[c].token) : Carry(c, s, "ResolveActor")
    BY <1>1, <2>1, Zenon DEF FindSessionByTokenHash
  <2> QED BY <2>2 DEF RowsOf, Carry, Found, TypeInv, CallsTyped
<1>2. CASE Stands(c)
  BY <1>2 DEF Stands, Found
<1> QED BY <1>1, <1>2, CallSteps, Arrives DEF Found

LEMMA OpenIsOwned ==
    ASSUME TypeInv, NEW s \in SessionRecord
    PROVE  Owner(s) \in Promise!OpenSession /\ Owner(s).token = s.token
BY DEF Owner, Promise!OpenSession, SessionRecord

\* How the calls let in change with one call.
LEMMA OneLetIn ==
    ASSUME TypeInv, NEW c \in Calls, CallMoves(c)
    PROVE  AdmittedBy' = [AdmittedBy EXCEPT ![c] = LetIn(c)']
<1>1. \A d \in Calls : d # c => LetIn(d)' = LetIn(d)
  BY OthersStand DEF Stands, LetIn
<1> QED BY <1>1, Zenon DEF AdmittedBy

LEMMA NoneLetIn ==
    ASSUME NEW c \in Calls, pc[c] \notin {"ResolveActor", "Handling"}
    PROVE  LetIn(c) = None
BY DEF LetIn

LEMMA CallsLetIn ==
    ASSUME UNCHANGED callVars PROVE AdmittedBy' = AdmittedBy
BY DEF callVars, AdmittedBy, LetIn

\* A call whose statement touches no session goes on, or is let out.
LEMMA QuietStep ==
    ASSUME TypeInv, NEW c \in Calls, CallMoves(c), UNCHANGED <<sessions, clock, handedOut>>,
           LetIn(c)' \in {LetIn(c), None}
    PROVE  [Promise!Next]_Promise!authenticator
<1>1. OpenSessions' = OpenSessions
  BY DEF OpenSessions
<1>2. CASE LetIn(c)' = LetIn(c)
  <2>1. AdmittedBy' = AdmittedBy
    BY <1>2, OneLetIn DEF AdmittedBy
  <2> QED BY <1>1, <2>1 DEF Promise!authenticator
<1>3. CASE LetIn(c)' = None
  <2>1. Promise!Finishes(c)
    BY <1>1, <1>3, OneLetIn DEF Promise!Finishes
  <2> QED BY <2>1 DEF Promise!Next
<1> QED BY <1>2, <1>3

LEMMA ClosingStep ==
    ASSUME OpenSessions' \subseteq OpenSessions, UNCHANGED handedOut,
           AdmittedBy' \in {AdmittedBy, [c \in Calls |-> None]}
    PROVE  Promise!Next
BY DEF Promise!Next, Promise!Closes

LEMMA BeginStep ==
    ASSUME TypeInv, NEW c \in Calls, NEW m \in Commands, Begin(c, m)
    PROVE  [Promise!Next]_Promise!authenticator
<1>1. pc'[c] \notin {"ResolveActor", "Handling"}
  <2>1. CallMoves(c)
    BY DEF CallMoves
  <2>2. m \in Command
    BY AuthAssumption
  <2>3. FirstStatement(m) \in {"FindUserByEmail", "RevokeSession", "FindSessionByTokenHash"}
    BY <2>2, SMT DEF Command, LoginCommand, LogoutCommand, GuardedCommand, GuardedOps,
       FirstStatement
  <2> QED BY <2>3 DEF Begin, TypeInv, CallsTyped
<1>2. LetIn(c)' = None
  BY <1>1 DEF LetIn
<1> QED BY <1>2, QuietStep DEF CallMoves, Begin, worldVars

LEMMA FindSessionStep ==
    ASSUME TypeInv, NEW c \in Calls, FindSessionByTokenHash(c)
    PROVE  [Promise!Next]_Promise!authenticator
<1>1. CallMoves(c) /\ UNCHANGED <<sessions, clock, handedOut>>
  BY DEF CallMoves, CallStep, FindSessionByTokenHash, worldVars
<1>2. ASSUME NEW e, Fail(c, e) PROVE [Promise!Next]_Promise!authenticator
  <2>1. LetIn(c)' = None
    BY <1>2 DEF Fail, Finish, LetIn, TypeInv, CallsTyped
  <2> QED BY <1>1, <2>1, QuietStep
<1>3. ASSUME NEW s \in RowsOf(cmd[c].token), SessionRefusal(s) = "OK",
             Carry(c, s, "ResolveActor")
      PROVE  [Promise!Next]_Promise!authenticator
  <2>1. s \in SessionRecord /\ s \in sessions
    BY DEF RowsOf, TypeInv, StoreTyped
  <2>2. s.revokedAt = None /\ clock < s.expiresAt
    <3>1. s.expiresAt \in Int /\ clock \in Int
      BY <2>1 DEF TypeInv, StoreTyped, SessionRecord, Times
    <3> QED BY <1>3, <3>1 DEF SessionRefusal
  <2>3. Owner(s) \in OpenSessions /\ OpenSessions' = OpenSessions
    BY <1>1, <2>1, <2>2 DEF OpenSessions
  <2>4. LetIn(c)' = Owner(s)
    BY <1>3 DEF Carry, LetIn, Owner, TypeInv, CallsTyped
  <2>5. AdmittedBy[c] = None
    BY DEF FindSessionByTokenHash, AdmittedBy, LetIn
  <2>6. Promise!Admits(c, Owner(s))
    BY <1>1, <2>3, <2>4, <2>5, OneLetIn DEF Promise!Admits
  <2> QED BY <2>3, <2>6 DEF Promise!Next
<1> QED BY <1>2, <1>3, Zenon DEF FindSessionByTokenHash

LEMMA ResolveActorStep ==
    ASSUME TypeInv, NEW c \in Calls, Found(c), ResolveActor(c)
    PROVE  [Promise!Next]_Promise!authenticator
<1>1. CallMoves(c) /\ UNCHANGED <<sessions, clock, handedOut>>
  BY DEF CallMoves, CallStep, ResolveActor, worldVars
<1>2. ASSUME NEW e, Fail(c, e) PROVE LetIn(c)' = None
  BY <1>2 DEF Fail, Finish, LetIn, TypeInv, CallsTyped
<1> DEFINE s == row[c]
           a == Admitted(cmd[c], ResolvedActor(s.user, s.tenant))
<1>3. ASSUME ResolveRefusal(s.user, s.tenant) = "OK",
             GuardRefusal(cmd[c], ResolvedActor(s.user, s.tenant).permissions) = "OK",
             pc' = [pc EXCEPT ![c] = "Handling"],
             actor' = [actor EXCEPT ![c] = a],
             UNCHANGED cmd
      PROVE  LetIn(c)' = LetIn(c)
  <2>1. a.tenant = s.tenant /\ a.user = s.user
    BY <1>3, ActorAdmitted DEF ResolveActor
  <2>2. actor'[c] = a /\ pc'[c] = "Handling" /\ pc[c] = "ResolveActor"
    BY <1>3 DEF TypeInv, CallsTyped, ResolveActor
  <2> HIDE DEF a
  <2>3. LetIn(c) = [token |-> cmd[c].token, tenant |-> s.tenant, user |-> s.user]
    BY <2>2 DEF LetIn, Owner, Found
  <2>4. LetIn(c)' = [token |-> cmd[c].token, tenant |-> a.tenant, user |-> a.user]
    BY <1>3, <2>2 DEF LetIn
  <2> QED BY <2>1, <2>3, <2>4
<1>4. LetIn(c)' \in {LetIn(c), None}
  BY <1>2, <1>3, ResolveActorFinds
<1> QED BY <1>1, <1>4, QuietStep

\* A login opens its session, under a token that is nobody's yet, or nothing.
LEMMA CreateSessionStep ==
    ASSUME SoundInv, NEW c \in Calls, CreateSession(c)
    PROVE  [Promise!Next]_Promise!authenticator
<1>1. TypeInv /\ pc[c] = "CreateSession" /\ Creating(c) /\ row[c] \in SessionRecord
  BY DEF SoundInv, CallsSound, CreateSession, TypeInv, CallsHold
<1>2. CallMoves(c) /\ UNCHANGED clock
  BY DEF CallMoves, CallStep, CreateSession, worldVars
<1>3. AdmittedBy' = AdmittedBy
  <2>1. pc'[c] = "Done"
    BY <1>1 DEF CreateSession, Fail, Finish, TypeInv, CallsTyped
  <2>2. LetIn(c)' = None /\ LetIn(c) = None
    BY <1>1, <2>1 DEF LetIn
  <2> QED BY <1>1, <1>2, <2>2, OneLetIn DEF AdmittedBy
<1> DEFINE s == Owner(row[c])
<1>4. s \in Promise!OpenSession /\ s.token = row[c].token
  BY <1>1, OpenIsOwned
<1>5. s.token \notin handedOut \cup {o.token : o \in OpenSessions}
  BY <1>1, <1>4 DEF Creating, OpenSessions, Owner
<1>6. CASE sessions' = sessions \cup {row[c]}
           /\ handedOut' \in {handedOut, handedOut \cup {row[c].token}}
  <2>1. OpenSessions' \in {OpenSessions, OpenSessions \cup {s}}
    <3>1. CASE clock < row[c].expiresAt
      <4>1. {x \in sessions' : x.revokedAt = None /\ clock' < x.expiresAt} =
                {x \in sessions : x.revokedAt = None /\ clock < x.expiresAt} \cup {row[c]}
        BY <1>1, <1>2, <1>6, <3>1 DEF Creating
      <4> QED BY <4>1 DEF OpenSessions
    <3>2. CASE ~ (clock < row[c].expiresAt)
      <4>1. {x \in sessions' : x.revokedAt = None /\ clock' < x.expiresAt} =
                {x \in sessions : x.revokedAt = None /\ clock < x.expiresAt}
        BY <1>2, <1>6, <3>2
      <4> QED BY <4>1 DEF OpenSessions
    <3> QED BY <3>1, <3>2
  <2> HIDE DEF s
  <2>2. Promise!Opens(s)
    BY <1>3, <1>4, <1>5, <1>6, <2>1 DEF Promise!Opens
  <2> QED BY <1>4, <2>2 DEF Promise!Next
<1>7. CASE UNCHANGED <<sessions, handedOut>>
  BY <1>2, <1>3, <1>7 DEF OpenSessions, Promise!authenticator
<1> QED BY <1>6, <1>7, Zenon DEF CreateSession

LEMMA RevokeSessionStep ==
    ASSUME TypeInv, NEW c \in Calls, RevokeSession(c)
    PROVE  [Promise!Next]_Promise!authenticator
<1>1. CallMoves(c) /\ UNCHANGED <<clock, handedOut>>
  BY DEF CallMoves, CallStep, RevokeSession, worldVars
<1>2. AdmittedBy' = AdmittedBy
  <2>1. pc'[c] = "Done" /\ pc[c] = "RevokeSession"
    BY DEF RevokeSession, Fail, Finish, TypeInv, CallsTyped
  <2>2. LetIn(c)' = None /\ LetIn(c) = None
    BY <2>1 DEF LetIn
  <2> QED BY <1>1, <2>2, OneLetIn DEF AdmittedBy
<1>3. ASSUME NEW x \in sessions', x.revokedAt = None PROVE x \in sessions
  <2>1. PICK s \in sessions :
            x = IF s.token = cmd[c].token THEN Revoked(s, readAt[c]) ELSE s
    BY DEF RevokeSession
  <2>2. readAt[c] # None
    BY AuthAssumption DEF TypeInv, CallsTyped
  <2>3. CASE s.token # cmd[c].token
    BY <2>1, <2>3
  <2>4. CASE s.token = cmd[c].token
    BY <1>3, <2>1, <2>2, <2>4, RevokedKeeps
  <2> QED BY <2>3, <2>4
<1>4. OpenSessions' \subseteq OpenSessions
  BY <1>1, <1>3 DEF OpenSessions
<1> QED BY <1>1, <1>2, <1>4, ClosingStep

LEMMA OtherCallStep ==
    ASSUME TypeInv, NEW c \in Calls,
           FindUserByEmail(c) \/ ResolveLogin(c) \/ Handle(c) \/ CallFails(c)
    PROVE  [Promise!Next]_Promise!authenticator
<1>1. CallMoves(c) /\ UNCHANGED <<sessions, clock, handedOut>>
  BY Zenon DEF CallMoves, CallStep, FindUserByEmail, ResolveLogin, Handle, CallFails, worldVars
<1>2. pc'[c] \notin {"ResolveActor", "Handling"}
  <2>1. (~ FindSessionByTokenHash(c) /\ ~ ResolveActor(c)) \/ CallFails(c)
    BY DEF FindSessionByTokenHash, ResolveActor, FindUserByEmail, ResolveLogin, Handle
  <2>2. CallFails(c) => pc'[c] = "Done"
    BY DEF CallFails, Fail, Finish, TypeInv, CallsTyped
  <2> QED BY <1>1, <2>1, <2>2, Arrives
<1>3. LetIn(c)' = None
  BY <1>2 DEF LetIn
<1> QED BY <1>1, <1>3, QuietStep

LEMMA WorldStep ==
    ASSUME TypeInv, Restart \/ Tick \/ Administration
    PROVE  [Promise!Next]_Promise!authenticator
<1>1. CASE Restart
  <2>1. OpenSessions' = OpenSessions
    BY <1>1 DEF Restart, OpenSessions
  <2>2. AdmittedBy' = [c \in Calls |-> None]
    BY <1>1 DEF Restart, CallsAtRest, AdmittedBy, LetIn
  <2> QED BY <1>1, <2>1, <2>2, ClosingStep DEF Restart
<1>2. CASE Tick
  <2>1. ASSUME NEW s \in sessions, clock' < s.expiresAt PROVE clock < s.expiresAt
    <3>1. s.expiresAt \in Int /\ clock \in Int
      BY DEF TypeInv, StoreTyped, SessionRecord, Times
    <3> QED BY <1>2, <2>1, <3>1 DEF Tick
  <2>2. OpenSessions' \subseteq OpenSessions
    BY <1>2, <2>1 DEF Tick, OpenSessions
  <2> QED BY <1>2, <2>2, ClosingStep, CallsLetIn DEF Tick
<1>3. CASE Administration
  <2>1. sessions' \subseteq sessions /\ UNCHANGED <<clock, handedOut, callVars>>
    BY <1>3 DEF Administration, RemoveMember, AssignRole, ChangeStatus, RevokePermission, Change
  <2>2. OpenSessions' \subseteq OpenSessions
    BY <2>1 DEF OpenSessions
  <2> QED BY <2>1, <2>2, ClosingStep, CallsLetIn
<1> QED BY <1>1, <1>2, <1>3

\* Login, Authenticate and Logout over PostgreSQL, statement by statement,
\* implement the Authenticator that the HTTP layer is written against.
THEOREM AuthenticatorImplemented == Spec => AuthenticatorSpec
<1> DEFINE Inv == SoundInv /\ \A c \in Calls : Found(c)
<1>1. Init => Inv /\ Promise!Init
  <2> SUFFICES ASSUME Init PROVE Inv /\ Promise!Init
    OBVIOUS
  <2>1. SoundInv
    BY InitType DEF Init, CallsAtRest, SoundInv, Sound, SessionsSound, CallsSound
  <2>2. \A c \in Calls : Found(c)
    BY DEF Init, CallsAtRest, Found
  <2>3. Promise!Init
    BY DEF Init, CallsAtRest, Promise!Init, OpenSessions, AdmittedBy, LetIn
  <2> QED BY <2>1, <2>2, <2>3
<1>2. ASSUME Inv, [Next]_vars PROVE [Promise!Next]_Promise!authenticator
  <2>1. TypeInv
    BY <1>2 DEF SoundInv
  <2>2. ASSUME NEW c \in Calls, CallStep(c) \/ CallFails(c)
        PROVE  [Promise!Next]_Promise!authenticator
    BY <1>2, <2>1, <2>2, OtherCallStep, CreateSessionStep, FindSessionStep, ResolveActorStep,
       RevokeSessionStep, Zenon DEF CallStep
  <2>3. ASSUME NEW c \in Calls, NEW m \in Commands, Begin(c, m)
        PROVE  [Promise!Next]_Promise!authenticator
    BY <2>1, <2>3, BeginStep
  <2>4. CASE UNCHANGED vars
    <3>1. OpenSessions' = OpenSessions
      BY <2>4 DEF vars, worldVars, OpenSessions
    <3> QED BY <2>4, <3>1, CallsLetIn DEF vars, Promise!authenticator
  <2> QED BY <1>2, <2>1, <2>2, <2>3, <2>4, WorldStep, Zenon DEF Next
<1>3. Inv /\ [Next]_vars => (\A c \in Calls : Found(c))'
  BY NextFound DEF SoundInv
<1>4. Spec => []SoundInv
  BY SoundInvHolds
<1>5. SoundInv /\ SoundInv' /\ (\A c \in Calls : Found(c)) /\ [Next]_vars
      => (\A c \in Calls : Found(c))' /\ [Promise!Next]_Promise!authenticator
  BY <1>2, <1>3
<1> QED BY <1>1, <1>4, <1>5, PTL DEF Spec, AuthenticatorSpec, Promise!Spec
===============================================================================
