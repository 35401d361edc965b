---------------------------- MODULE AuthProperties ----------------------------
(***************************************************************************)
(* What the guard promises.  It reads the session and the member's role in *)
(* two statements, while sessions, members and the clock move on, so its   *)
(* promises are about what held at some moment of a request.  Two history  *)
(* variables remember that; they never constrain a step.                   *)
(***************************************************************************)
EXTENDS AuthSessions

VARIABLES
    live,   \* per call: its token's session has been good since it began
    held    \* per call: the rights <<tenant, user, right>> seen since it began

histVars == <<live, held>>

LiveNow(c) ==
    \E s \in sessions : /\ s.token = cmd[c].token
                        /\ s.revokedAt = None
                        /\ clock < s.expiresAt

\* The active members, and those active in a single tenant.
Standing == {m \in Members : roleOf[m] # None /\ {m[1], m[2]} \subseteq active}
Single == {m \in Standing : \A k \in Standing : k[2] = m[2] => k = m}

HeldNow ==
    (UNION {{<<m[1], m[2], p>> : p \in grants[roleOf[m]] \cup {"member"}} : m \in Standing})
    \cup {<<m[1], m[2], "single">> : m \in Single}

InService(c) == pc[c] \notin {"Idle", "Done"}

HistoryInit ==
    /\ Init
    /\ live = [c \in Calls |-> FALSE]
    /\ held = [c \in Calls |-> {}]

\* A call that begins sees what holds then; one in service adds what it passes.
LiveNext(c) ==
    IF ~ InService(c)' THEN FALSE
    ELSE \/ InService(c) /\ live[c]
         \/ cmd[c]'.op # "login" /\ LiveNow(c)'

HeldNext(c) ==
    IF pc[c]' = "Idle" THEN {}
    ELSE IF ~ InService(c)' THEN (IF actor[c]' = None THEN {} ELSE held[c])
    ELSE (IF InService(c) THEN held[c] ELSE {}) \cup HeldNow'

HistoryNext ==
    /\ Next
    /\ live' = [c \in Calls |-> LiveNext(c)]
    /\ held' = [c \in Calls |-> HeldNext(c)]

HistorySpec == HistoryInit /\ [][HistoryNext]_<<vars, histVars>>

-----------------------------------------------------------------------------

\* A request that reaches its handler had, at some moment since it began, a
\* session neither logged out nor expired, and at some moment the right the
\* handler relies on, in the session's tenant; so none that begins after a
\* logout, an expiry, a removal or a loss of the permission gets there
\* (persistent_service.go:118, README.md:26).
AdmittedEntitled ==
    \A c \in Calls : pc[c] = "Handling" =>
        /\ live[c]
        /\ \E p \in RightFor(cmd[c].op, actor[c].level) :
               <<actor[c].tenant, actor[c].user, p>> \in held[c]

\* A login lands in a tenant of which the user was an active member while it
\* was served, and in one the user named or had no alternative to.
LoginBindsTenant ==
    \A c \in Calls :
        pc[c] = "Done" /\ error[c] = "OK" /\ cmd[c].op = "login" =>
            /\ <<actor[c].tenant, actor[c].user, "member">> \in held[c]
            /\ IF cmd[c].tenant = None
               THEN <<actor[c].tenant, actor[c].user, "single">> \in held[c]
               ELSE actor[c].tenant = cmd[c].tenant

\* Sessions belong to members, one token to one session, and none is logged
\* out before it was opened, although a login writes its row, and a logout its
\* time, after what they read has changed.
SessionsSound ==
    \A s \in sessions :
        /\ roleOf[<<s.tenant, s.user>>] # None
        /\ \A x \in sessions : x.token = s.token => x = s
        /\ s.revokedAt # None => s.createdAt <= s.revokedAt /\ s.revokedAt <= clock

\* A session keeps owner and expiry and, once logged out, the time of that for
\* good, however many logouts follow; only the loss of its member ends it, and
\* then no hiring brings it back (postgres_repository.go:174).
SessionsKept ==
    [][ \A s \in sessions :
           \/ roleOf'[<<s.tenant, s.user>>] = None
           \/ s \in sessions'
           \/ /\ s.revokedAt = None
              /\ \E x \in sessions' : /\ x = [s EXCEPT !.revokedAt = x.revokedAt]
                                      /\ x.revokedAt # None ]_vars
=============================================================================
