----------------------------- MODULE Authenticator -----------------------------
(***************************************************************************)
(* What the HTTP layer may assume of an Authenticator, whichever store is  *)
(* behind it: a session is opened under a token no client holds yet, it    *)
(* belongs to one member for good, it may close at any time, and once      *)
(* closed its token opens nothing any more; a request is let in by a       *)
(* session that is open at some moment of the request, as its owner.       *)
(***************************************************************************)
CONSTANTS Tenants, Users, Tokens, Calls, None

VARIABLES
    open,       \* sessions that are open
    handedOut,  \* tokens clients have received
    admitted    \* per call: the session that has let it in, or None

authenticator == <<open, handedOut, admitted>>

OpenSession == [token: Tokens, tenant: Tenants, user: Users]

Init ==
    /\ open = {}
    /\ handedOut = {}
    /\ admitted = [c \in Calls |-> None]

\* The token reaches its client, or is lost on the way; a login that takes
\* longer than a session lives hands out a token that is closed already.
Opens(s) ==
    /\ s.token \notin handedOut \cup {o.token : o \in open}
    /\ open' \in {open, open \cup {s}}
    /\ handedOut' \in {handedOut, handedOut \cup {s.token}}
    /\ UNCHANGED admitted

\* Logout, expiry, dismissal, and with a restart of the server what it kept
\* in its memory; the requests it served are then gone too.
Closes ==
    /\ open' \in SUBSET open
    /\ admitted' \in {admitted, [c \in Calls |-> None]}
    /\ UNCHANGED handedOut

Admits(c, s) ==
    /\ admitted[c] = None
    /\ s \in open
    /\ admitted' = [admitted EXCEPT ![c] = s]
    /\ UNCHANGED <<open, handedOut>>

Finishes(c) ==
    /\ admitted' = [admitted EXCEPT ![c] = None]
    /\ UNCHANGED <<open, handedOut>>

Next ==
    \/ \E s \in OpenSession : Opens(s)
    \/ Closes
    \/ \E c \in Calls : Finishes(c) \/ \E s \in open : Admits(c, s)

Spec == Init /\ [][Next]_authenticator
===============================================================================
