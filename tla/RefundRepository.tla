--------------------------- MODULE RefundRepository ---------------------------
(***************************************************************************)
(* The refund desk's store behind the interface Repository of              *)
(* internal/refund/service.go.  Every method is atomic: the in-memory      *)
(* implementation holds its mutex, the PostgreSQL one commits or rolls     *)
(* back a transaction whose row locks and unique indexes order it among    *)
(* the others.  A method that writes is a pair of operators: the refusal   *)
(* it ends with, its checks taken in the order of the code, and what it    *)
(* stores when nothing refuses it.                                         *)
(***************************************************************************)
EXTENDS RefundDomain

VARIABLES
    orders,             \* external order snapshots the desk reads
    requests,           \* refund requests, or None
    approvals,          \* decisions per request, in the order taken
    transactions,       \* provider receipts per request
    providerRefundNo,   \* provider refund numbers registered, per tenant
    auditLogs,          \* audit trail per request
    idempotencyRecords  \* first successful result per scope, or None

ledgerVars == <<requests, approvals, transactions, providerRefundNo,
                auditLogs, idempotencyRecords>>
storeVars == <<orders, ledgerVars>>

StoreTypeOK ==
    /\ orders \in [OrderKeys -> Order \cup {None}]
    /\ requests \in [RequestKeys -> Request \cup {None}]
    /\ approvals \in [RequestKeys -> Seq(Approval)]
    /\ transactions \in [RequestKeys -> Seq(Transaction)]
    /\ providerRefundNo \subseteq Tenants \X ProviderRefundNos
    /\ auditLogs \in [RequestKeys -> Seq(AuditLog)]
    /\ idempotencyRecords \in [Scopes -> IdempotencyRecord \cup {None}]

StoreInit ==
    /\ requests = [k \in RequestKeys |-> None]
    /\ approvals = [k \in RequestKeys |-> <<>>]
    /\ transactions = [k \in RequestKeys |-> <<>>]
    /\ providerRefundNo = {}
    /\ auditLogs = [k \in RequestKeys |-> <<>>]
    /\ idempotencyRecords = [s \in Scopes |-> None]

-----------------------------------------------------------------------------
(* FindRefundRequestByIdempotency, FindRefundTransactionByIdempotency *)

IdempotencyMiss(m) == idempotencyRecords[Scope(m)] = None

IdempotencyHit(m) ==
    /\ ~ IdempotencyMiss(m)
    /\ idempotencyRecords[Scope(m)].hash = RequestHash(m)

IdempotencyConflict(m) == ~ IdempotencyMiss(m) /\ ~ IdempotencyHit(m)

-----------------------------------------------------------------------------
(* CreateRefundRequest, when the scope has no record yet. *)

HasActiveRequest(tenant, orderNo) ==
    \E no \in RequestNos :
        /\ requests[<<tenant, no>>] # None
        /\ requests[<<tenant, no>>].orderNo = orderNo
        /\ IsActiveStatus(requests[<<tenant, no>>].status)

\* Mutants: the database lacks the partial index on active requests, or the
\* unique constraint on request numbers.
CreateRefusal_NoActiveIndex(tenant, request) ==
    IF requests[<<tenant, request.no>>] # None THEN "ErrRequestNoExists" ELSE "OK"

CreateRefusal_NoNumberConstraint(tenant, request) ==
    IF HasActiveRequest(tenant, request.orderNo) THEN "ErrActiveRefundRequestExists"
    ELSE "OK"

\* A taken number is the insert's unique violation of (tenant_id, request_no),
\* which the service hands on as it is.
CreateRefusal(tenant, request) ==
    IF HasActiveRequest(tenant, request.orderNo) THEN "ErrActiveRefundRequestExists"
    ELSE IF requests[<<tenant, request.no>>] # None THEN "ErrRequestNoExists"
    ELSE "OK"

\* Mutant: the idempotency record is not part of the transaction.
StoreCreated_NoRecord(m, request) ==
    LET k == <<m.tenant, request.no>> IN
    /\ requests' = [requests EXCEPT ![k] = request]
    /\ auditLogs' = [auditLogs EXCEPT ![k] =
           Append(@, [before |-> "NONE", after |-> request.status, operator |-> m.by])]
    /\ UNCHANGED <<orders, approvals, transactions, providerRefundNo, idempotencyRecords>>

StoreCreated(m, request) ==
    LET k == <<m.tenant, request.no>> IN
    /\ requests' = [requests EXCEPT ![k] = request]
    /\ auditLogs' = [auditLogs EXCEPT ![k] =
           Append(@, [before |-> "NONE", after |-> request.status, operator |-> m.by])]
    /\ idempotencyRecords' = [idempotencyRecords EXCEPT ![Scope(m)] =
           [hash |-> RequestHash(m), request |-> request, transaction |-> None]]
    /\ UNCHANGED <<orders, approvals, transactions, providerRefundNo>>

-----------------------------------------------------------------------------
(* ReviewRefundRequest *)

\* Mutants: the level is not checked again, or nothing is.
ReviewRefusal_NoLevelCheck(k, level) ==
    IF requests[k] = None THEN "ErrRefundRequestNotFound"
    ELSE IF requests[k].status # "PENDING_REVIEW" THEN "ErrRefundRequestNotReviewable"
    ELSE "OK"

ReviewRefusal_NoCheck(k, level) ==
    IF requests[k] = None THEN "ErrRefundRequestNotFound" ELSE "OK"

ReviewRefusal(k, level) ==
    IF requests[k] = None THEN "ErrRefundRequestNotFound"
    ELSE IF requests[k].status # "PENDING_REVIEW" THEN "ErrRefundRequestNotReviewable"
    ELSE IF \E i \in DOMAIN approvals[k] : approvals[k][i].level = level
         THEN "ErrApprovalLevelAlreadyProcessed"
    ELSE "OK"

\* Mutant: the approval is not stored with the status.
StoreReviewed_NoApproval(k, approval, before, after) ==
    /\ requests' = [requests EXCEPT ![k] = [@ EXCEPT !.status = after]]
    /\ auditLogs' = [auditLogs EXCEPT ![k] =
           Append(@, [before |-> before, after |-> after,
                      operator |-> approval.decisionBy])]
    /\ UNCHANGED <<orders, approvals, transactions, providerRefundNo, idempotencyRecords>>

\* before is the status the service read, not the one it overwrites.
StoreReviewed(k, approval, before, after) ==
    /\ requests' = [requests EXCEPT ![k] = [@ EXCEPT !.status = after]]
    /\ approvals' = [approvals EXCEPT ![k] = Append(@, approval)]
    /\ auditLogs' = [auditLogs EXCEPT ![k] =
           Append(@, [before |-> before, after |-> after,
                      operator |-> approval.decisionBy])]
    /\ UNCHANGED <<orders, transactions, providerRefundNo, idempotencyRecords>>

-----------------------------------------------------------------------------
(* RecordRefundTransaction, when the scope has no record yet. *)

\* Mutants: the status is not checked under the row lock, or provider refund
\* numbers have no unique index.
RecordRefusal_NoStatusCheck(m) ==
    IF requests[RequestKey(m)] = None THEN "ErrRefundRequestNotFound"
    ELSE IF <<m.tenant, m.providerRefundNo>> \in providerRefundNo
         THEN "ErrProviderRefundNoExists"
    ELSE "OK"

RecordRefusal_NoProviderIndex(m) ==
    IF requests[RequestKey(m)] = None THEN "ErrRefundRequestNotFound"
    ELSE IF requests[RequestKey(m)].status # "APPROVED" THEN "ErrRefundRequestNotApproved"
    ELSE "OK"

RecordRefusal(m) ==
    LET k == RequestKey(m) IN
    IF requests[k] = None THEN "ErrRefundRequestNotFound"
    ELSE IF requests[k].status # "APPROVED" THEN "ErrRefundRequestNotApproved"
    ELSE IF <<m.tenant, m.providerRefundNo>> \in providerRefundNo
         THEN "ErrProviderRefundNoExists"
    ELSE "OK"

TransactionOf(m) ==
    [providerRefundNo |-> m.providerRefundNo, amount |-> m.amount,
     status |-> m.status, processedBy |-> m.by]

\* A transaction's status is the status it settles its request with.
StoreRecorded(m, before) ==
    LET k == RequestKey(m)
        settled == [requests[k] EXCEPT !.status = m.status]
    IN  /\ requests' = [requests EXCEPT ![k] = settled]
        /\ transactions' = [transactions EXCEPT ![k] = Append(@, TransactionOf(m))]
        /\ providerRefundNo' = IF m.providerRefundNo = None THEN providerRefundNo
               ELSE providerRefundNo \cup {<<m.tenant, m.providerRefundNo>>}
        /\ auditLogs' = [auditLogs EXCEPT ![k] =
               Append(@, [before |-> before, after |-> m.status, operator |-> m.by])]
        /\ idempotencyRecords' = [idempotencyRecords EXCEPT ![Scope(m)] =
               [hash |-> RequestHash(m), request |-> settled,
                transaction |-> TransactionOf(m)]]
        /\ UNCHANGED <<orders, approvals>>
=============================================================================
