-------------------------------- MODULE MCRefundTx --------------------------------
(***************************************************************************)
(* A small instance of PostgresRefundTx: two requests on record, one under *)
(* review and one approved, and three calls of the store at once.          *)
(***************************************************************************)
EXTENDS PostgresRefundTxProperties

CONSTANTS t1,                     \* tenant
          agent, lead, manager,   \* users
          o1, o2,                 \* orders
          k1, k2,                 \* idempotency keys
          p1                      \* provider refund number

Unshipped == [paid |-> 3, refunded |-> 0, payment |-> "PAID", fulfillment |-> "NOT_SHIPPED"]

RequestFor(o, no, by, status) ==
    [no |-> no, orderNo |-> o, snapshot |-> Unshipped, amount |-> 1,
     status |-> status, submittedBy |-> by]

CreateM(u, k, o, a) ==
    [op |-> "create", tenant |-> t1, by |-> u, key |-> k, orderNo |-> o,
     amount |-> a, complete |-> TRUE]

\* The agent's requests: number 1, for o1, is under review; number 2, for o2,
\* has the lead's approval.
OnRecord ==
    [orders |-> [k \in OrderKeys |-> Unshipped],
     requests |-> [k \in RequestKeys |->
        CASE k[2] = 1 -> RequestFor(o1, 1, agent, "PENDING_REVIEW")
          [] k[2] = 2 -> RequestFor(o2, 2, agent, "APPROVED")
          [] OTHER -> None],
     approvals |-> [k \in RequestKeys |->
        IF k[2] = 2 THEN <<[level |-> 1, status |-> "APPROVED", decisionBy |-> lead]>>
        ELSE <<>>],
     transactions |-> [k \in RequestKeys |-> <<>>],
     providerRefundNo |-> {},
     auditLogs |-> [k \in RequestKeys |->
        CASE k[2] = 1 -> <<[before |-> "NONE", after |-> "PENDING_REVIEW", operator |-> agent]>>
          [] k[2] = 2 -> <<[before |-> "NONE", after |-> "PENDING_REVIEW", operator |-> agent],
                           [before |-> "PENDING_REVIEW", after |-> "APPROVED",
                            operator |-> lead]>>
          [] OTHER -> <<>>],
     idempotencyRecords |-> [s \in Scopes |->
        CASE s = <<t1, agent, "create", k1>> ->
                [hash |-> CreateRequestHash(CreateM(agent, k1, o1, 1)),
                 request |-> RequestFor(o1, 1, agent, "PENDING_REVIEW"), transaction |-> None]
          [] s = <<t1, agent, "create", k2>> ->
                [hash |-> CreateRequestHash(CreateM(agent, k2, o2, 1)),
                 request |-> RequestFor(o2, 2, agent, "PENDING_REVIEW"), transaction |-> None]
          [] OTHER -> None]]

OnlyOnRecord == {OnRecord}

-----------------------------------------------------------------------------
(* Calls *)

Create(u, k, o, a, no) ==
    [m |-> CreateM(u, k, o, a),
     request |-> [RequestFor(o, no, u, "PENDING_REVIEW") EXCEPT !.amount = a]]
Review(u, no, d, after) ==
    [m |-> [op |-> "review", tenant |-> t1, by |-> u, requestNo |-> no, decision |-> d,
            level |-> 0, complete |-> TRUE],
     approval |-> [level |-> 1, status |-> d, decisionBy |-> u],
     before |-> "PENDING_REVIEW", after |-> after]
Record(u, k, no, p, s) ==
    [m |-> [op |-> "record", tenant |-> t1, by |-> u, key |-> k, requestNo |-> no,
            amount |-> 1, providerRefundNo |-> p, status |-> s, complete |-> TRUE],
     before |-> "APPROVED"]

\* Creations that clash in key, number and order; a retry is a pair of equal
\* calls, and one that mistakes the amount; decisions on request 1, under a
\* threshold that its amount reaches and under one that it does not; receipts
\* for both requests that clash in number, key and outcome, and one for a
\* request that is not there, or not yet.
Calls ==
    <<Create(lead, k1, o1, 1, 3), Create(lead, k1, o1, 2, 3), Create(manager, k1, o1, 1, 3),
      Create(manager, k2, o2, 1, 1),
      Review(lead, 1, "REJECTED", "REJECTED"), Review(manager, 1, "APPROVED", "APPROVED"),
      Review(manager, 1, "APPROVED", "PENDING_REVIEW"),
      Record(manager, k1, 2, p1, "SUCCEEDED"), Record(lead, k1, 2, None, "FAILED"),
      Record(lead, k1, 1, p1, "SUCCEEDED"), Record(lead, k2, 3, p1, "SUCCEEDED")>>

\* Three of them at a time.  Which transaction makes which call makes no
\* difference, so they come in the order above.
ThreeCalls ==
    {[t \in 1 .. 3 |-> Calls[i[t]]] :
        i \in {j \in [1 .. 3 -> DOMAIN Calls] : j[1] <= j[2] /\ j[2] <= j[3]}}
=============================================================================
