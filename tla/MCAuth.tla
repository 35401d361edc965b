-------------------------------- MODULE MCAuth --------------------------------
(***************************************************************************)
(* A small instance of AuthSessions: one reviewer who is a member of two   *)
(* tenants, or becomes one.                                                *)
(***************************************************************************)
EXTENDS AuthRefinement, TLC

CONSTANTS c1, c2,              \* calls
          k1, k2,              \* tokens
          t1, t2,              \* tenants
          reviewer,            \* a user
          lead                 \* a role

AuthSymmetry == Permutations(Calls) \cup Permutations(Tokens)

RolesAtFirst == [m \in Members |-> IF m[1] = t1 THEN lead ELSE None]

GrantsAtFirst == [r \in Roles |-> {"refund_request:review"}]

Login(t) == [op |-> "login", user |-> reviewer, known |-> TRUE, tenant |-> t,
             complete |-> TRUE]

Guarded(op, l) ==
    {[op |-> op, token |-> k, level |-> l] : k \in BearerToken \ {None, Forged}}

Logouts == {[op |-> "logout", token |-> k] : k \in Tokens}

\* The reviewer logs in, here or there, reviews and logs out; level 3 and a
\* logout without a token are refused.
Requests ==
    {Login(None), Login(t2), [op |-> "logout", token |-> None]} \cup Logouts \cup
    Guarded("review", 0) \cup Guarded("review", 3)
=============================================================================
