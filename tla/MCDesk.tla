-------------------------------- MODULE MCDesk --------------------------------
(***************************************************************************)
(* Small instances of RefundDesk: an agent, a supervisor and a financial   *)
(* one of a single tenant.                                                 *)
(***************************************************************************)
EXTENDS RefundDeskProperties

CONSTANTS c1, c2,                 \* calls
          t1,                     \* tenant
          agent, lead, manager,   \* users
          o1,                     \* order
          k1,                     \* idempotency key
          p1,                     \* provider refund number
          service, supervisor, finance  \* roles

CallSymmetry == Permutations(Calls)

Unshipped == [paid |-> 3, refunded |-> 0, payment |-> "PAID", fulfillment |-> "NOT_SHIPPED"]
OneOrder == [k \in OrderKeys |-> Unshipped]
Ships == {[Unshipped EXCEPT !.fulfillment = "SHIPPED"]}

RolesAtFirst ==
    [m \in Members |->
        CASE m = <<t1, agent>>   -> service
          [] m = <<t1, lead>>    -> supervisor
          [] m = <<t1, manager>> -> finance
          [] OTHER               -> None]

GrantsAtFirst ==
    [r \in Roles |->
        CASE r = service    -> {"order:read", "refund_request:create", "refund_request:read"}
          [] r = supervisor -> {"refund_request:review"}
          [] r = finance    -> {"refund_request:high_amount_review",
                                "refund_transaction:write"}]

-----------------------------------------------------------------------------
(* Requests.  Their headers and bodies claim to come from somebody else.     *)

Create(u, a) ==
    <<<<t1, u>>, [op |-> "create", tenant |-> t1, by |-> manager, key |-> k1,
                  orderNo |-> o1, amount |-> a, complete |-> TRUE]>>
Review(u, d, l) ==
    <<<<t1, u>>, [op |-> "review", tenant |-> t1, by |-> manager, requestNo |-> 1,
                  decision |-> d, level |-> l, complete |-> TRUE]>>
Record(u, a) ==
    <<<<t1, u>>, [op |-> "record", tenant |-> t1, by |-> lead, key |-> k1,
                  requestNo |-> 1, amount |-> a, providerRefundNo |-> p1,
                  status |-> "SUCCEEDED", complete |-> TRUE]>>
ReadOrder(u, o) ==
    <<<<t1, u>>, [op |-> "get_order", tenant |-> t1, by |-> manager, orderNo |-> o]>>

\* A request from creation to receipt, with a reviewer who asks for a level not
\* his own and an agent who reads the order.  Its amount is the one threshold
\* and below the other: it needs two approvals or one.
Lives ==
    {Create(agent, 2),
     Review(lead, "APPROVED", 0), Review(lead, "APPROVED", 2),
     Review(manager, "APPROVED", 0), Record(manager, 2),
     ReadOrder(agent, o1)}

HandlerCommands ==
    {HandlerCommand(a[1], a[2], p) :
        a \in {b \in Requests : b[2].op # "get_order"}, p \in SUBSET Permissions}

\* One thing happens to the two calls: a change by the administrator, by the
\* order system, or a restart.
OneEvent ==
    changes + restarts + Cardinality({k \in OrderKeys : orders[k] # InitialOrders[k]}) <= 1
===============================================================================
