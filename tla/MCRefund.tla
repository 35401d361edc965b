------------------------------- MODULE MCRefund -------------------------------
(***************************************************************************)
(* Small instances of RefundService: one or two tenants, a few users and   *)
(* orders, and for each run the commands its question is about.            *)
(***************************************************************************)
EXTENDS RefundProperties, RefundRefinement

CONSTANTS c1, c2,                 \* calls
          t1, t2,                 \* tenants
          agent, lead, manager,   \* users
          o1, o2,                 \* orders
          k1, k2,                 \* idempotency keys
          p1, p2                  \* provider refund numbers

CallSymmetry == Permutations(Calls)

Create(t, u, k, o, a) ==
    [op |-> "create", tenant |-> t, by |-> u, key |-> k, orderNo |-> o,
     amount |-> a, complete |-> TRUE]
Review(t, u, no, d, l) ==
    [op |-> "review", tenant |-> t, by |-> u, requestNo |-> no, decision |-> d,
     level |-> l, complete |-> TRUE]
Record(t, u, k, no, a, p, s) ==
    [op |-> "record", tenant |-> t, by |-> u, key |-> k, requestNo |-> no,
     amount |-> a, providerRefundNo |-> p, status |-> s, complete |-> TRUE]
Get(t, no) == [op |-> "get", tenant |-> t, requestNo |-> no]

-----------------------------------------------------------------------------
(* Orders *)

Unshipped == [paid |-> 3, refunded |-> 0, payment |-> "PAID", fulfillment |-> "NOT_SHIPPED"]
Shipped == [Unshipped EXCEPT !.fulfillment = "SHIPPED"]

AllUnshipped == [k \in OrderKeys |-> Unshipped]
OneForTenant2 == [k \in OrderKeys |-> IF k = <<t2, o2>> THEN None ELSE Unshipped]
NeverChanges == {}
Ships == {Shipped}

-----------------------------------------------------------------------------
(* Commands *)

\* Two agents race for one order; one of them retries, and once mistakes the
\* amount under the same key; another tenant has an order and a user of the
\* same names.  The last command has a blank field.
CreateRaces ==
    {Create(t1, agent, k1, o1, 2), Create(t1, agent, k1, o1, 1),
     Create(t1, lead, k1, o1, 2), Create(t1, lead, k2, o1, 4),
     Create(t1, lead, k2, o2, 1), Create(t2, agent, k1, o1, 2),
     [Create(t1, agent, k2, o1, 1) EXCEPT !.complete = FALSE]}

\* Two reviewers race for the levels of a request, and its submitter joins.
ReviewRaces ==
    {Create(t1, agent, k1, o1, 2), Create(t1, agent, k2, o1, 3),
     Review(t1, agent, 1, "APPROVED", 0),
     Review(t1, lead, 1, "APPROVED", 1),
     Review(t1, lead, 1, "APPROVED", 0),
     Review(t1, manager, 1, "APPROVED", 0),
     Review(t1, manager, 1, "REJECTED", 2),
     Review(t1, manager, 2, "REJECTED", 0),
     Get(t1, 1)}

\* Two requests are settled with one provider refund number, one of them
\* twice, with two keys and two outcomes, and one key settles both.
RecordRaces ==
    {Create(t1, agent, k1, o1, 1), Create(t1, agent, k2, o2, 1),
     Review(t1, lead, 1, "APPROVED", 0), Review(t1, lead, 2, "APPROVED", 0),
     Record(t1, manager, k1, 1, 1, p1, "SUCCEEDED"),
     Record(t1, manager, k1, 2, 1, p1, "SUCCEEDED"),
     Record(t1, manager, k2, 2, 1, p1, "SUCCEEDED"),
     Record(t1, lead, k2, 2, 2, p2, "SUCCEEDED"),
     Record(t1, lead, k1, 2, 1, None, "FAILED")}

\* Requests for two orders.
TwoOrders == {Create(t1, agent, k1, o1, 1), Create(t1, agent, k2, o2, 1)}

\* One order refunded, and refunded again.
Refunds ==
    {Create(t1, agent, k1, o1, 2), Create(t1, agent, k2, o1, 2),
     Review(t1, lead, 1, "APPROVED", 0), Review(t1, lead, 2, "APPROVED", 0),
     Record(t1, manager, k1, 1, 2, p1, "SUCCEEDED"),
     Record(t1, manager, k2, 2, 2, p2, "SUCCEEDED")}
=============================================================================
