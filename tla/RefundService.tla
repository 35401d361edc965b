----------------------------- MODULE RefundService -----------------------------
(***************************************************************************)
(* The refund service of internal/refund/service.go under concurrent       *)
(* calls.  A call is one service method at work for one HTTP request; it   *)
(* makes one repository call per step, and its pc names the repository     *)
(* call it makes next.  Between two steps other calls run, so everything a *)
(* call has read may be stale when it writes.                              *)
(*                                                                         *)
(* Over PostgreSQL any repository call may fail, a commit may succeed      *)
(* without its caller learning so, and the process may restart, with a     *)
(* new approval threshold, over the store it left.  The behaviours of the  *)
(* in-memory repository are those in which none of this happens: there a   *)
(* restart begins a new behaviour.                                         *)
(***************************************************************************)
EXTENDS RefundRepository

CONSTANTS
    Calls,          \* calls in progress at a time
    Commands,       \* commands the clients send, and send again
    InitialOrders,  \* the orders the desk starts with
    OrderVersions,  \* what an order may become in the order system
    Thresholds,     \* values of refund.high_amount_approval_threshold
    MaxRestarts     \* bound: restarts of the process

ASSUME ServiceAssumption ==
    /\ Commands \subseteq Command
    /\ InitialOrders \in [OrderKeys -> Order \cup {None}]
    /\ OrderVersions \subseteq Order
    /\ Thresholds \subseteq Nat \ {0}
    /\ MaxRestarts \in Nat

VARIABLES
    pc,        \* the repository call each call makes next
    cmd,       \* its command
    request,   \* the refund request it has in hand
    level,     \* the approval level it is about to record, or 0
    reply,     \* the answer it builds, and then holds
    sequence,  \* SequentialRequestNumberGenerator.sequenceByTenant
    threshold, \* Service.highAmountApprovalThreshold
    restarts

callVars == <<pc, cmd, request, level, reply>>
processVars == <<sequence, threshold, restarts>>
vars == <<storeVars, callVars, processVars>>

RepositoryCalls ==
    {"FindCreated", "FindOrder", "CreateRefundRequest",
     "FindReviewed", "ListForLevel", "ReviewRefundRequest",
     "FindRecorded", "FindApproved", "FindRecordedAgain", "RecordRefundTransaction",
     "GetRequest", "ListApprovals", "ListTransactions"}

Errors ==
    {"ErrInvalidCommand", "ErrIdempotencyKeyConflict", "ErrOrderNotFound",
     "ErrOrderNotRefundable", "ErrAmountExceedsRefundable",
     "ErrActiveRefundRequestExists", "ErrRequestNoExists",
     "ErrRefundRequestNotFound", "ErrRefundRequestNotReviewable",
     "ErrApprovalActorSameAsSubmitter", "ErrApprovalActorAlreadyReviewed",
     "ErrApprovalLevelMismatch", "ErrApprovalLevelAlreadyProcessed",
     "ErrRefundRequestNotApproved", "ErrTransactionAmountMismatch",
     "ErrProviderRefundNoExists", "ErrInternal"}

\* RequestDetail, TransactionResult and the error beside them.
Reply == [error: Errors \cup {"OK"}, request: Request \cup {None},
          approvals: Seq(Approval), transactions: Seq(Transaction),
          transaction: Transaction \cup {None}, replayed: BOOLEAN]

NoReply == [error |-> "OK", request |-> None, approvals |-> <<>>,
            transactions |-> <<>>, transaction |-> None, replayed |-> FALSE]

CallTypeOK ==
    /\ pc \in [Calls -> RepositoryCalls \cup {"Idle", "Done"}]
    /\ cmd \in [Calls -> Command \cup {None}]
    /\ request \in [Calls -> Request \cup {None}]
    /\ level \in [Calls -> Levels \cup {0}]
    /\ reply \in [Calls -> Reply]

ProcessTypeOK ==
    /\ sequence \in [Tenants -> 0 .. MaxRequestNo]
    /\ threshold \in Thresholds
    /\ restarts \in 0 .. MaxRestarts

TypeOK == StoreTypeOK /\ CallTypeOK /\ ProcessTypeOK

CallsIdle ==
    /\ pc = [c \in Calls |-> "Idle"]
    /\ cmd = [c \in Calls |-> None]
    /\ request = [c \in Calls |-> None]
    /\ level = [c \in Calls |-> 0]
    /\ reply = [c \in Calls |-> NoReply]

Init ==
    /\ StoreInit
    /\ orders = InitialOrders
    /\ CallsIdle
    /\ sequence = [t \in Tenants |-> 0]
    /\ threshold \in Thresholds
    /\ restarts = 0

-----------------------------------------------------------------------------
(* Moves of one call. *)

Goto(c, label) == pc' = [pc EXCEPT ![c] = label]

\* Takes up request r and goes on to the repository call label.
Carry(c, r, label) ==
    /\ Goto(c, label)
    /\ request' = [request EXCEPT ![c] = r]

Answer(c, r) ==
    /\ Goto(c, "Done")
    /\ reply' = [reply EXCEPT ![c] = r]
    /\ request' = [request EXCEPT ![c] = None]
    /\ level' = [level EXCEPT ![c] = 0]
    /\ cmd' = cmd

Fail(c, error) == Answer(c, [NoReply EXCEPT !.error = error])

\* Mutant: a replayed creation shows the request as it is now.
AnswerCreated_Current(c, r, replayed) ==
    LET now == requests[<<cmd[c].tenant, r.no>>] IN
    Answer(c, [NoReply EXCEPT !.request = IF now = None THEN r ELSE now,
                              !.replayed = replayed])

\* Mutant: a replay is not marked as one.
AnswerCreated_Unmarked(c, r, replayed) ==
    Answer(c, [NoReply EXCEPT !.request = r])

\* createdRequestDetail: an empty timeline, nothing is read again.
AnswerCreated(c, r, replayed) ==
    Answer(c, [NoReply EXCEPT !.request = r, !.replayed = replayed])

\* transactionResult: the result in hand, then detail reads the timeline.
CarryRecorded(c, r, transaction, replayed) ==
    /\ Carry(c, r, "ListApprovals")
    /\ reply' = [reply EXCEPT ![c] =
           [NoReply EXCEPT !.transaction = transaction, !.replayed = replayed]]
    /\ UNCHANGED <<cmd, level>>

FirstCall(m) ==
    CASE m.op = "create" -> "FindCreated"
      [] m.op = "review" -> "FindReviewed"
      [] m.op = "record" -> "FindRecorded"
      [] OTHER           -> "GetRequest"

\* A client sends a command, for the first time or again.
Begin(c, m) ==
    /\ pc[c] \in {"Idle", "Done"}
    /\ cmd' = [cmd EXCEPT ![c] = m]
    /\ \/ /\ IsValid(m)
          /\ Goto(c, FirstCall(m))
          /\ reply' = [reply EXCEPT ![c] = NoReply]
       \/ /\ ~ IsValid(m)
          /\ Goto(c, "Done")
          /\ reply' = [reply EXCEPT ![c] =
                 [NoReply EXCEPT !.error = "ErrInvalidCommand"]]
    /\ UNCHANGED <<storeVars, request, level, processVars>>

-----------------------------------------------------------------------------
(* CreateRequest *)

FindCreated(c) ==
    /\ pc[c] = "FindCreated"
    /\ \/ /\ IdempotencyConflict(cmd[c])
          /\ Fail(c, "ErrIdempotencyKeyConflict")
       \/ /\ IdempotencyHit(cmd[c])
          /\ AnswerCreated(c, idempotencyRecords[Scope(cmd[c])].request, TRUE)
       \/ /\ IdempotencyMiss(cmd[c])
          /\ Goto(c, "FindOrder")
          /\ UNCHANGED <<cmd, request, level, reply>>
    /\ UNCHANGED <<storeVars, processVars>>

OrderRefusal(order, amount) ==
    IF order = None THEN "ErrOrderNotFound"
    ELSE IF ~ CanRequestUnshippedRefund(order) THEN "ErrOrderNotRefundable"
    ELSE IF amount > RefundableAmount(order) THEN "ErrAmountExceedsRefundable"
    ELSE "OK"

\* Mutant: the request is left a draft.
NewRequest_Draft(m, order, no) ==
    [no |-> no, orderNo |-> m.orderNo, snapshot |-> order, amount |-> m.amount,
     status |-> "DRAFT", submittedBy |-> m.by]

NewRequest(m, order, no) ==
    [no |-> no, orderNo |-> m.orderNo, snapshot |-> order, amount |-> m.amount,
     status |-> "PENDING_REVIEW", submittedBy |-> m.by]

\* SequentialRequestNumberGenerator.Next; the date in a number is one day's, the
\* day on which two numbers can be equal.  MaxRequestNo is a bound of the model.
DrawNumber(tenant) ==
    /\ sequence[tenant] < MaxRequestNo
    /\ sequence' = [sequence EXCEPT ![tenant] = @ + 1]

\* Drawing the number is part of the step: it commutes with every step of
\* another call but a draw of the same tenant.
FindOrder(c) ==
    /\ pc[c] = "FindOrder"
    /\ LET m == cmd[c]
           order == orders[<<m.tenant, m.orderNo>>]
           refusal == OrderRefusal(order, m.amount)
       IN  \/ /\ refusal # "OK"
              /\ Fail(c, refusal)
              /\ UNCHANGED sequence
           \/ /\ refusal = "OK"
              /\ DrawNumber(m.tenant)
              /\ Carry(c, NewRequest(m, order, sequence[m.tenant] + 1),
                       "CreateRefundRequest")
              /\ UNCHANGED <<cmd, level, reply>>
    /\ UNCHANGED <<storeVars, threshold, restarts>>

\* The second answer is that of a commit whose acknowledgement is lost.
CreateRefundRequest(c) ==
    /\ pc[c] = "CreateRefundRequest"
    /\ LET m == cmd[c]
           refusal == CreateRefusal(m.tenant, request[c])
       IN  \/ /\ IdempotencyConflict(m)
              /\ Fail(c, "ErrIdempotencyKeyConflict")
              /\ UNCHANGED storeVars
           \/ /\ IdempotencyHit(m)
              /\ AnswerCreated(c, idempotencyRecords[Scope(m)].request, TRUE)
              /\ UNCHANGED storeVars
           \/ /\ IdempotencyMiss(m)
              /\ refusal # "OK"
              /\ Fail(c, refusal)
              /\ UNCHANGED storeVars
           \/ /\ IdempotencyMiss(m)
              /\ refusal = "OK"
              /\ StoreCreated(m, request[c])
              /\ AnswerCreated(c, request[c], FALSE) \/ Fail(c, "ErrInternal")
    /\ UNCHANGED processVars

-----------------------------------------------------------------------------
(* ApproveRequest, RejectRequest: reviewRequest *)

FindReviewedRefusal(m) ==
    IF requests[RequestKey(m)] = None THEN "ErrRefundRequestNotFound"
    ELSE IF requests[RequestKey(m)].status # "PENDING_REVIEW"
         THEN "ErrRefundRequestNotReviewable"
    ELSE IF requests[RequestKey(m)].submittedBy = m.by
         THEN "ErrApprovalActorSameAsSubmitter"
    ELSE "OK"

FindReviewed(c) ==
    /\ pc[c] = "FindReviewed"
    /\ LET refusal == FindReviewedRefusal(cmd[c]) IN
       \/ /\ refusal # "OK"
          /\ Fail(c, refusal)
       \/ /\ refusal = "OK"
          /\ Carry(c, requests[RequestKey(cmd[c])], "ListForLevel")
          /\ UNCHANGED <<cmd, level, reply>>
    /\ UNCHANGED <<storeVars, processVars>>

\* Mutant: one reviewer may decide both levels.
ListForLevelRefusal_AnyReviewer(m, list, next) ==
    IF m.level # 0 /\ m.level # next THEN "ErrApprovalLevelMismatch"
    ELSE IF next > 2 THEN "ErrRefundRequestNotReviewable"
    ELSE "OK"

ListForLevelRefusal(m, list, next) ==
    IF m.level # 0 /\ m.level # next THEN "ErrApprovalLevelMismatch"
    ELSE IF next > 2 THEN "ErrRefundRequestNotReviewable"
    ELSE IF \E i \in DOMAIN list : list[i].decisionBy = m.by
         THEN "ErrApprovalActorAlreadyReviewed"
    ELSE "OK"

ListForLevel(c) ==
    /\ pc[c] = "ListForLevel"
    /\ LET list == approvals[RequestKey(cmd[c])]
           next == NextApprovalLevel(request[c].amount, list, threshold)
           refusal == ListForLevelRefusal(cmd[c], list, next)
       IN  \/ /\ refusal # "OK"
              /\ Fail(c, refusal)
           \/ /\ refusal = "OK"
              /\ Goto(c, "ReviewRefundRequest")
              /\ level' = [level EXCEPT ![c] = next]
              /\ UNCHANGED <<cmd, request, reply>>
    /\ UNCHANGED <<storeVars, processVars>>

ReviewRefundRequest(c) ==
    /\ pc[c] = "ReviewRefundRequest"
    /\ LET m == cmd[c]
           k == RequestKey(m)
           refusal == ReviewRefusal(k, level[c])
           after == ReviewedStatus(m.decision, request[c].amount, level[c], threshold)
           approval == [level |-> level[c], status |-> m.decision, decisionBy |-> m.by]
       IN  \/ /\ refusal # "OK"
              /\ Fail(c, refusal)
              /\ UNCHANGED storeVars
           \/ /\ refusal = "OK"
              /\ StoreReviewed(k, approval, request[c].status, after)
              /\ \/ /\ Carry(c, [requests[k] EXCEPT !.status = after], "ListApprovals")
                    /\ level' = [level EXCEPT ![c] = 0]
                    /\ UNCHANGED <<cmd, reply>>
                 \/ Fail(c, "ErrInternal")
    /\ UNCHANGED processVars

-----------------------------------------------------------------------------
(* RecordTransaction *)

CarryFirstResult(c) ==
    LET record == idempotencyRecords[Scope(cmd[c])] IN
    CarryRecorded(c, record.request, record.transaction, TRUE)

FindRecorded(c) ==
    /\ pc[c] = "FindRecorded"
    /\ \/ /\ IdempotencyConflict(cmd[c])
          /\ Fail(c, "ErrIdempotencyKeyConflict")
       \/ /\ IdempotencyHit(cmd[c])
          /\ CarryFirstResult(c)
       \/ /\ IdempotencyMiss(cmd[c])
          /\ Goto(c, "FindApproved")
          /\ UNCHANGED <<cmd, request, level, reply>>
    /\ UNCHANGED <<storeVars, processVars>>

FindApproved(c) ==
    /\ pc[c] = "FindApproved"
    /\ LET m == cmd[c]
           found == requests[RequestKey(m)]
       IN  \/ /\ found = None
              /\ Fail(c, "ErrRefundRequestNotFound")
           \/ /\ found # None
              /\ found.status # "APPROVED"
              /\ Goto(c, "FindRecordedAgain")
              /\ UNCHANGED <<cmd, request, level, reply>>
           \/ /\ found # None
              /\ found.status = "APPROVED"
              /\ found.amount # m.amount
              /\ Fail(c, "ErrTransactionAmountMismatch")
           \/ /\ found # None
              /\ found.status = "APPROVED"
              /\ found.amount = m.amount
              /\ Carry(c, found, "RecordRefundTransaction")
              /\ UNCHANGED <<cmd, level, reply>>
    /\ UNCHANGED <<storeVars, processVars>>

\* Mutant: a retry that finds its request settled does not look again.
FindRecordedAgain_NoLookup(c) ==
    /\ pc[c] = "FindRecordedAgain"
    /\ Fail(c, "ErrRefundRequestNotApproved")
    /\ UNCHANGED <<storeVars, processVars>>

\* The first attempt may have committed since the first lookup missed it.
FindRecordedAgain(c) ==
    /\ pc[c] = "FindRecordedAgain"
    /\ \/ /\ IdempotencyConflict(cmd[c])
          /\ Fail(c, "ErrIdempotencyKeyConflict")
       \/ /\ IdempotencyHit(cmd[c])
          /\ CarryFirstResult(c)
       \/ /\ IdempotencyMiss(cmd[c])
          /\ Fail(c, "ErrRefundRequestNotApproved")
    /\ UNCHANGED <<storeVars, processVars>>

RecordRefundTransaction(c) ==
    /\ pc[c] = "RecordRefundTransaction"
    /\ LET m == cmd[c]
           refusal == RecordRefusal(m)
       IN  \/ /\ IdempotencyConflict(m)
              /\ Fail(c, "ErrIdempotencyKeyConflict")
              /\ UNCHANGED storeVars
           \/ /\ IdempotencyHit(m)
              /\ CarryFirstResult(c)
              /\ UNCHANGED storeVars
           \/ /\ IdempotencyMiss(m)
              /\ refusal # "OK"
              /\ Fail(c, refusal)
              /\ UNCHANGED storeVars
           \/ /\ IdempotencyMiss(m)
              /\ refusal = "OK"
              /\ StoreRecorded(m, request[c].status)
              /\ \/ CarryRecorded(c, requests'[RequestKey(m)], TransactionOf(m), FALSE)
                 \/ Fail(c, "ErrInternal")
    /\ UNCHANGED processVars

-----------------------------------------------------------------------------
(* GetRequest, and detail, which every answer but a creation's ends with. *)

GetRequest(c) ==
    /\ pc[c] = "GetRequest"
    /\ LET found == requests[RequestKey(cmd[c])] IN
       \/ /\ found = None
          /\ Fail(c, "ErrRefundRequestNotFound")
       \/ /\ found # None
          /\ Carry(c, found, "ListApprovals")
          /\ UNCHANGED <<cmd, level, reply>>
    /\ UNCHANGED <<storeVars, processVars>>

ListApprovals(c) ==
    /\ pc[c] = "ListApprovals"
    /\ Goto(c, "ListTransactions")
    /\ reply' = [reply EXCEPT ![c] =
           [@ EXCEPT !.approvals = approvals[RequestKey(cmd[c])]]]
    /\ UNCHANGED <<storeVars, cmd, request, level, processVars>>

ListTransactions(c) ==
    /\ pc[c] = "ListTransactions"
    /\ Answer(c, [reply[c] EXCEPT !.request = request[c],
                                  !.transactions = transactions[RequestKey(cmd[c])]])
    /\ UNCHANGED <<storeVars, processVars>>

-----------------------------------------------------------------------------
(* The environment. *)

\* A repository call returns a database error or a cancelled context.
CallFails(c) ==
    /\ pc[c] \in RepositoryCalls
    /\ Fail(c, "ErrInternal")
    /\ UNCHANGED <<storeVars, processVars>>

\* The process stops and starts again over the same database.
Restart ==
    /\ restarts < MaxRestarts
    /\ restarts' = restarts + 1
    /\ sequence' = [t \in Tenants |-> 0]
    /\ threshold' \in Thresholds
    /\ pc' = [c \in Calls |-> "Idle"]
    /\ cmd' = [c \in Calls |-> None]
    /\ request' = [c \in Calls |-> None]
    /\ level' = [c \in Calls |-> 0]
    /\ reply' = [c \in Calls |-> NoReply]
    /\ UNCHANGED storeVars

\* The order system behind the desk moves an order on.
OrderChanges(k, order) ==
    /\ orders[k] # None
    /\ orders[k] # order
    /\ orders' = [orders EXCEPT ![k] = order]
    /\ UNCHANGED <<ledgerVars, callVars, processVars>>

CallStep(c) ==
    \/ FindCreated(c) \/ FindOrder(c) \/ CreateRefundRequest(c)
    \/ FindReviewed(c) \/ ListForLevel(c) \/ ReviewRefundRequest(c)
    \/ FindRecorded(c) \/ FindApproved(c) \/ FindRecordedAgain(c)
    \/ RecordRefundTransaction(c)
    \/ GetRequest(c) \/ ListApprovals(c) \/ ListTransactions(c)

Next ==
    \/ \E c \in Calls, m \in Commands : Begin(c, m)
    \/ \E c \in Calls : CallStep(c) \/ CallFails(c)
    \/ Restart
    \/ \E k \in OrderKeys, order \in OrderVersions : OrderChanges(k, order)

Spec == Init /\ [][Next]_vars
=============================================================================
