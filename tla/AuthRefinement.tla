---------------------------- MODULE AuthRefinement ----------------------------
(***************************************************************************)
(* AuthSessions, the guard over PostgreSQL, is an Authenticator: a session *)
(* is open while its row is there, not revoked and not expired.            *)
(***************************************************************************)
EXTENDS AuthProperties

Owner(s) == [token |-> s.token, tenant |-> s.tenant, user |-> s.user]

OpenSessions ==
    {Owner(s) : s \in {x \in sessions : x.revokedAt = None /\ clock < x.expiresAt}}

\* A call is let in when the statement that finds its session has run.
LetIn(c) ==
    CASE pc[c] = "ResolveActor" -> Owner(row[c])
      [] pc[c] = "Handling" -> [token |-> cmd[c].token, tenant |-> actor[c].tenant,
                                user |-> actor[c].user]
      [] OTHER -> None

AdmittedBy == [c \in Calls |-> LetIn(c)]

Promise == INSTANCE Authenticator WITH open <- OpenSessions, admitted <- AdmittedBy

\* Logins, logouts, the clock and dismissals, statement by statement, keep the
\* promise of the interface (auth/service.go:33).
AuthenticatorSpec == Promise!Spec
===============================================================================
