---------------------------- MODULE RepositoryCalls ----------------------------
(***************************************************************************)
(* The calls the refund service makes of its store, one transaction each:  *)
(* CreateRefundRequest, ReviewRefundRequest and RecordRefundTransaction,   *)
(* what each may answer against the tables as they are, and what it stores.*)
(***************************************************************************)
EXTENDS RefundRepository

CONSTANTS
    Transactions,   \* calls of the store, one transaction each
    InitialCalls,   \* what they may have been called for
    InitialStores   \* what the tables may hold at first

\* A command with what the service has made of it: the request to create, the
\* approval and the statuses of a review, the status a receipt found.
CreateCall == [m: CreateCommand, request: Request]
ReviewCall == [m: ReviewCommand, approval: Approval,
               before: RequestStatuses, after: RequestStatuses]
RecordCall == [m: RecordCommand, before: RequestStatuses]

Errors == {"ErrInternal", "ErrIdempotencyKeyConflict", "ErrActiveRefundRequestExists",
           "ErrRequestNoExists", "ErrRefundRequestNotFound", "ErrRefundRequestNotReviewable",
           "ErrApprovalLevelAlreadyProcessed", "ErrRefundRequestNotApproved",
           "ErrProviderRefundNoExists"}
VerdictTypes == Errors \cup {"OK", "Replayed", "pending"}

StoreCall == CreateCall \cup ReviewCall \cup RecordCall

ASSUME InitialCallsAssumption == InitialCalls \subseteq [Transactions -> StoreCall]

ASSUME InitialStoresAssumption ==
    \A s \in InitialStores :
        /\ s.requests \in [RequestKeys -> Request \cup {None}]
        /\ s.approvals \in [RequestKeys -> Seq(Approval)]
        /\ s.providerRefundNo \subseteq Tenants \X ProviderRefundNos
        /\ s.idempotencyRecords \in [Scopes -> IdempotencyRecord \cup {None}]

VARIABLES
    call,       \* what a transaction was called for
    verdict     \* how it ended, or "pending"

\* The reasons a creation may be refused for; when both hold, either.
CreateReasons(tenant, request) ==
    (IF HasActiveRequest(tenant, request.orderNo)
     THEN {"ErrActiveRefundRequestExists"} ELSE {})
    \cup (IF requests[<<tenant, request.no>>] # None THEN {"ErrRequestNoExists"} ELSE {})

\* What a call may answer against the tables as they are.  A review or a
\* receipt may find no request before it looks at anything else.
Verdicts(c) ==
    (IF c.m.op # "create" /\ requests[RequestKey(c.m)] = None
     THEN {"ErrRefundRequestNotFound"} ELSE {})
    \cup
    CASE c.m.op # "review" /\ IdempotencyHit(c.m) -> {"Replayed"}
      [] c.m.op # "review" /\ IdempotencyConflict(c.m) -> {"ErrIdempotencyKeyConflict"}
      [] c.m.op = "create" /\ IdempotencyMiss(c.m) ->
            IF CreateRefusal(c.m.tenant, c.request) = "OK" THEN {"OK"}
            ELSE CreateReasons(c.m.tenant, c.request)
      [] c.m.op = "record" /\ IdempotencyMiss(c.m) -> {RecordRefusal(c.m)}
      [] c.m.op = "review" -> {ReviewRefusal(RequestKey(c.m), c.approval.level)}

Stored(c) ==
    CASE c.m.op = "create" -> StoreCreated(c.m, c.request)
      [] c.m.op = "review" ->
            StoreReviewed(RequestKey(c.m), c.approval, c.before, c.after)
      [] c.m.op = "record" -> StoreRecorded(c.m, c.before)

-----------------------------------------------------------------------------
StoreIsInitial ==
    \E s \in InitialStores :
        /\ orders = s.orders
        /\ requests = s.requests
        /\ approvals = s.approvals
        /\ transactions = s.transactions
        /\ providerRefundNo = s.providerRefundNo
        /\ auditLogs = s.auditLogs
        /\ idempotencyRecords = s.idempotencyRecords
===============================================================================
