----------------------------- MODULE MCMemoryAuth -----------------------------
(***************************************************************************)
(* A small instance of MemoryAuth: an agent of two tenants, one of them    *)
(* disabled, and a reviewer of the other one.                              *)
(***************************************************************************)
EXTENDS MemoryAuth, TLC

CONSTANTS c1, c2, k1, k2, t1, t2, agent, reviewer, service, lead

MemorySymmetry == Permutations(Calls) \cup Permutations(Tokens)

Directory == {<<t1, agent, service>>, <<t2, agent, service>>, <<t1, reviewer, lead>>,
              <<t1, reviewer, service>>}
Permitted == [r \in Roles |-> IF r = lead THEN {"refund_request:review"} ELSE {"order:read"}]
AllButTenant2 == {t1, agent, reviewer}

LoginBy(u, t) ==
    [op |-> "login", user |-> u, known |-> TRUE, tenant |-> t, complete |-> TRUE]
Guarded(op, l) == {[op |-> op, token |-> k, level |-> l] : k \in Tokens}

\* Logins that are let in, ambiguous, for a disabled tenant, or of nobody; good
\* requests and ill-formed ones.
Requests ==
    {LoginBy(reviewer, None), LoginBy(agent, t1), LoginBy(agent, None), LoginBy(agent, t2),
     LoginBy(reviewer, t2), [LoginBy(agent, t1) EXCEPT !.known = FALSE],
     [LoginBy(agent, t1) EXCEPT !.complete = FALSE]}
    \cup {[op |-> "logout", token |-> k] : k \in Tokens \cup {None}}
    \cup Guarded("review", 0) \cup Guarded("get_order", 0)
    \cup {[op |-> "review", token |-> Forged, level |-> 0]}
===============================================================================
