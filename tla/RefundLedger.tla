----------------------------- MODULE RefundLedger -----------------------------
(***************************************************************************)
(* What the refund desk promises of its requests: a book in which every    *)
(* operation is one indivisible step and every rule is judged against the  *)
(* book as it is at that step, with no stale reads, no retries and no      *)
(* lost answers.  RefundService implements it (RefundRefinement).          *)
(***************************************************************************)
EXTENDS RefundDomain

CONSTANTS Snapshots,   \* what an order may have looked like at some time
          Thresholds   \* thresholds for the second level

VARIABLES book,  \* the entry of every request, or None
          used   \* for every scope, whether its operation has taken effect

ledger == <<book, used>>

Entry == [orderNo: OrderNos, snapshot: Snapshots, amount: Nat, submittedBy: Users,
          status: RequestStatuses, deciders: Seq(Users),
          receipt: ProviderRefundNos \cup {None}]

Init ==
    /\ book = [k \in RequestKeys |-> None]
    /\ used = [s \in Scopes |-> FALSE]

OrderIsFree(tenant, orderNo) ==
    \A no \in RequestNos :
        LET e == book[<<tenant, no>>] IN
        e # None /\ e.orderNo = orderNo => ~ IsActiveStatus(e.status)

Submit(k, u, key, o, snapshot, a) ==
    LET scope == <<k[1], u, "create", key>> IN
    /\ book[k] = None
    /\ ~ used[scope]
    /\ OrderIsFree(k[1], o)
    /\ CanRequestUnshippedRefund(snapshot)
    /\ a <= RefundableAmount(snapshot)
    /\ book' = [book EXCEPT ![k] =
           [orderNo |-> o, snapshot |-> snapshot, amount |-> a, submittedBy |-> u,
            status |-> "PENDING_REVIEW", deciders |-> <<>>, receipt |-> None]]
    /\ used' = [used EXCEPT ![scope] = TRUE]

Decided(entry, u, status) ==
    [entry EXCEPT !.status = status, !.deciders = Append(@, u)]

\* u takes the next decision on k and leaves it with a status.
Decide(k, u, status) ==
    /\ book[k].status = "PENDING_REVIEW"
    /\ u # book[k].submittedBy
    /\ \A i \in DOMAIN book[k].deciders : book[k].deciders[i] # u
    /\ book' = [book EXCEPT ![k] = Decided(@, u, status)]
    /\ UNCHANGED used

\* The first approval passes an amount below the threshold, and the second one
\* any amount it was asked for.
Approve(k, u) ==
    \E th \in Thresholds :
        LET high == RequiresHighAmountApproval(book[k].amount, th) IN
        \/ /\ book[k].deciders = <<>>
           /\ Decide(k, u, IF high THEN "PENDING_REVIEW" ELSE "APPROVED")
        \/ /\ Len(book[k].deciders) = 1
           /\ high
           /\ Decide(k, u, "APPROVED")

Reject(k, u) ==
    /\ Len(book[k].deciders) <= 1
    /\ Decide(k, u, "REJECTED")

ReceiptIsNew(tenant, p) ==
    \A no \in RequestNos :
        book[<<tenant, no>>] # None => book[<<tenant, no>>].receipt # p

Paid(entry, p, status) == [entry EXCEPT !.status = status, !.receipt = p]

Settle(k, u, key, p, status) ==
    LET scope == <<k[1], u, "record", key>> IN
    /\ book[k].status = "APPROVED"
    /\ ~ used[scope]
    /\ IF p = None THEN status = "FAILED" ELSE ReceiptIsNew(k[1], p)
    /\ book' = [book EXCEPT ![k] = Paid(@, p, status)]
    /\ used' = [used EXCEPT ![scope] = TRUE]

SubmitAny(k) ==
    /\ book[k] = None
    /\ \E u \in Users, key \in Keys, o \in OrderNos, snapshot \in Snapshots :
          \E a \in 1 .. snapshot.paid : Submit(k, u, key, o, snapshot, a)

DecideAny(k) ==
    /\ book[k] # None
    /\ \E u \in Users : Approve(k, u) \/ Reject(k, u)

SettleAny(k) ==
    /\ book[k] # None
    /\ \E u \in Users, key \in Keys, p \in ProviderRefundNos \cup {None},
          status \in TransactionStatuses : Settle(k, u, key, p, status)

\* Every operation changes the entry of its request.  Saying so first changes
\* nothing, but spares TLC the search for one when the book stands still.
Next ==
    \E k \in RequestKeys :
        /\ book'[k] # book[k]
        /\ SubmitAny(k) \/ DecideAny(k) \/ SettleAny(k)

Spec == Init /\ [][Next]_ledger
=============================================================================
