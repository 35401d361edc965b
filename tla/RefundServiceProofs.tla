------------------------- MODULE RefundServiceProofs -------------------------
(***************************************************************************)
(* Proofs about RefundService for any tenants, users, orders, calls,       *)
(* commands, thresholds and bounds, in three parts: types and what a call  *)
(* carries; reviews of two levels; and what the store promises whatever    *)
(* the calls above it have read.                                           *)
(***************************************************************************)
EXTENDS RefundProperties, SequenceTheorems, TLAPS

CreateCalls == {"FindCreated", "FindOrder", "CreateRefundRequest"}
ReviewCalls == {"FindReviewed", "ListForLevel", "ReviewRefundRequest"}
RecordCalls == {"FindRecorded", "FindApproved", "FindRecordedAgain",
                "RecordRefundTransaction"}
DetailCalls == {"GetRequest", "ListApprovals", "ListTransactions"}
CarryingCalls == {"CreateRefundRequest", "ListForLevel", "ReviewRefundRequest",
                  "RecordRefundTransaction", "ListApprovals", "ListTransactions"}

\* What a call holds at each of its repository calls.
CallsHold ==
    \A c \in Calls :
        /\ pc[c] \in CreateCalls => cmd[c] \in CreateCommand
        /\ pc[c] \in ReviewCalls => cmd[c] \in ReviewCommand
        /\ pc[c] \in RecordCalls => cmd[c] \in RecordCommand
        /\ pc[c] \in DetailCalls =>
              cmd[c] \in ReviewCommand \cup RecordCommand \cup GetCommand
        /\ pc[c] \in CarryingCalls => request[c] \in Request
        /\ pc[c] = "ReviewRefundRequest" => level[c] \in Levels

TypeInv == TypeOK /\ CallsHold

-----------------------------------------------------------------------------

\* The greatest of the numbers NextApprovalLevel chooses among.
LEMMA MaxOfThree ==
    ASSUME NEW S \in SUBSET (1 .. 3), S # {}
    PROVE  Max(S) \in S /\ \A x \in S : x <= Max(S)
<1>1. \E x \in S : \A y \in S : x >= y
  <2>1. CASE 3 \in S
    BY <2>1, SMT
  <2>2. CASE 3 \notin S /\ 2 \in S
    BY <2>2, SMT
  <2>3. CASE 3 \notin S /\ 2 \notin S
    <3>1. PICK x \in S : TRUE
      OBVIOUS
    <3>2. \A y \in S : y = 1
      BY <2>3, SMT
    <3> QED BY <3>1, <3>2, SMT
  <2> QED BY <2>1, <2>2, <2>3
<1>2. Max(S) \in S /\ \A y \in S : Max(S) >= y
  BY <1>1, Zenon DEF Max
<1> QED BY <1>2, SMT

\* The next level of a request is one more than a level on record, or 1.
LEMMA NextApprovalLevelType ==
    ASSUME NEW a \in Nat, NEW th \in Nat, NEW list \in Seq(Approval)
    PROVE  LET next == NextApprovalLevel(a, list, th) IN
           /\ next \in 1 .. 3
           /\ a < th => next = 1
           /\ next = 1 \/ \E i \in DOMAIN list : list[i].level = next - 1
           /\ a >= th => \A i \in DOMAIN list : list[i].level < next
<1> DEFINE S == {1} \cup {list[i].level + 1 : i \in DOMAIN list}
<1>1. \A i \in DOMAIN list : list[i] \in Approval
  BY ElementOfSeq, LenProperties, SMT
<1>2. S \in SUBSET (1 .. 3) /\ S # {}
  BY <1>1, SMT DEF Approval, Levels
<1>3. Max(S) \in S /\ \A x \in S : x <= Max(S)
  BY <1>2, MaxOfThree
<1>4. CASE a < th
  BY <1>4, SMT DEF NextApprovalLevel, RequiresHighAmountApproval
<1>5. CASE a >= th
  <2>1. NextApprovalLevel(a, list, th) = Max(S)
    BY <1>5, SMT DEF NextApprovalLevel, RequiresHighAmountApproval
  <2> HIDE DEF S
  <2>2. Max(S) \in 1 .. 3
    BY <1>2, <1>3
  <2>3. Max(S) = 1 \/ \E i \in DOMAIN list : list[i].level + 1 = Max(S)
    BY <1>3 DEF S
  <2>4. \A i \in DOMAIN list : list[i].level + 1 <= Max(S)
    BY <1>3 DEF S
  <2> QED BY <1>1, <1>5, <2>1, <2>2, <2>3, <2>4, SMT DEF Approval, Levels
<1> QED BY <1>4, <1>5, SMT

-----------------------------------------------------------------------------
(* Moves of one call keep the types of the calls. *)

\* Replies of errors, of creations and of results under construction.
LEMMA ReplyTypes ==
    /\ NoReply \in Reply
    /\ \A e \in Errors : [NoReply EXCEPT !.error = e] \in Reply
    /\ \A r \in Request, b \in BOOLEAN :
          [NoReply EXCEPT !.request = r, !.replayed = b] \in Reply
    /\ \A t \in Transaction \cup {None}, b \in BOOLEAN :
          [NoReply EXCEPT !.transaction = t, !.replayed = b] \in Reply
<1>1. <<>> \in Seq(Approval) /\ <<>> \in Seq(Transaction)
  BY EmptySeq
<1>2. NoReply \in Reply
  BY <1>1, SMT DEF NoReply, Reply
<1>3. ASSUME NEW e \in Errors PROVE [NoReply EXCEPT !.error = e] \in Reply
  BY <1>2, SMT DEF Reply
<1>4. ASSUME NEW r \in Request, NEW b \in BOOLEAN
      PROVE  [NoReply EXCEPT !.request = r, !.replayed = b] \in Reply
  <2>1. [NoReply EXCEPT !.request = r] \in Reply
    BY <1>2, SMT DEF Reply
  <2>2. \A q \in Reply : [q EXCEPT !.replayed = b] \in Reply
    BY Zenon DEF Reply
  <2> QED BY <2>1, <2>2, Zenon DEF NoReply
<1>5. ASSUME NEW t \in Transaction \cup {None}, NEW b \in BOOLEAN
      PROVE  [NoReply EXCEPT !.transaction = t, !.replayed = b] \in Reply
  <2>1. [NoReply EXCEPT !.transaction = t] \in Reply
    BY <1>2, SMT DEF Reply
  <2>2. \A q \in Reply : [q EXCEPT !.replayed = b] \in Reply
    BY Zenon DEF Reply
  <2> QED BY <2>1, <2>2, Zenon DEF NoReply
<1> QED BY <1>2, <1>3, <1>4, <1>5

\* A call that answers is done and has nothing in hand.
LEMMA AnswerType ==
    ASSUME TypeInv, NEW c \in Calls, NEW r \in Reply, Answer(c, r)
    PROVE  CallTypeOK' /\ CallsHold'
<1> USE DEF TypeInv, TypeOK, Answer, Goto
<1>1. CallTypeOK'
  BY SMT DEF CallTypeOK, RepositoryCalls
<1>2. CallsHold'
  BY SMT DEF CallTypeOK, CallsHold, CreateCalls, ReviewCalls, RecordCalls, DetailCalls,
             CarryingCalls
<1> QED BY <1>1, <1>2

\* So is a call that answers an error.
LEMMA FailType ==
    ASSUME TypeInv, NEW c \in Calls, NEW e \in Errors, Fail(c, e)
    PROVE  CallTypeOK' /\ CallsHold'
BY AnswerType, ReplyTypes DEF Fail

\* So is a creation that answers a request, its own or the first one.
LEMMA AnswerCreatedType ==
    ASSUME TypeInv, NEW c \in Calls, NEW r \in Request, NEW b \in BOOLEAN,
           AnswerCreated(c, r, b)
    PROVE  CallTypeOK' /\ CallsHold'
BY AnswerType, ReplyTypes DEF AnswerCreated

\* A call with a receipt in hand goes on to read the timeline.
LEMMA CarryRecordedType ==
    ASSUME TypeInv, NEW c \in Calls, pc[c] \in RecordCalls,
           NEW r \in Request, NEW t \in Transaction \cup {None}, NEW b \in BOOLEAN,
           CarryRecorded(c, r, t, b)
    PROVE  CallTypeOK' /\ CallsHold'
<1> USE DEF TypeInv, TypeOK, CarryRecorded, Carry, Goto
<1>1. CallTypeOK'
  <2>1. PICK a \in Reply : reply' = [reply EXCEPT ![c] = a]
    BY ReplyTypes, Zenon
  <2> QED BY <2>1, SMT DEF CallTypeOK, RepositoryCalls
<1>2. CallsHold'
  BY SMT DEF CallTypeOK, CallsHold, CreateCalls, ReviewCalls, RecordCalls, DetailCalls,
             CarryingCalls
<1> QED BY <1>1, <1>2

-----------------------------------------------------------------------------
(* Every step keeps TypeInv. *)

\* A record that is found names a request of the store's types.
LEMMA RecordType ==
    ASSUME StoreTypeOK, NEW m, Scope(m) \in Scopes, ~ IdempotencyMiss(m)
    PROVE  /\ idempotencyRecords[Scope(m)].request \in Request
           /\ idempotencyRecords[Scope(m)].transaction \in Transaction \cup {None}
<1>1. idempotencyRecords[Scope(m)] \in IdempotencyRecord
  BY SMT DEF StoreTypeOK, IdempotencyMiss
<1> QED BY <1>1, SMT DEF IdempotencyRecord

\* The commands with an idempotency key have a scope.
LEMMA ScopeType ==
    /\ \A m \in CreateCommand : Scope(m) \in Scopes
    /\ \A m \in RecordCommand : Scope(m) \in Scopes
<1>1. ASSUME NEW m \in CreateCommand PROVE Scope(m) \in Scopes
  BY SMT DEF CreateCommand, Scope, Scopes, Operations
<1>2. ASSUME NEW m \in RecordCommand PROVE Scope(m) \in Scopes
  BY SMT DEF RecordCommand, Scope, Scopes, Operations
<1> QED BY <1>1, <1>2

\* What is left alone keeps its type.
LEMMA UnchangedTypes ==
    /\ StoreTypeOK /\ UNCHANGED storeVars => StoreTypeOK'
    /\ ProcessTypeOK /\ UNCHANGED processVars => ProcessTypeOK'
BY SMT DEF StoreTypeOK, ProcessTypeOK, storeVars, ledgerVars, processVars

\* A call that goes on with nothing new in hand.
LEMMA GotoType ==
    ASSUME TypeInv, NEW c \in Calls,
           NEW label \in RepositoryCalls \ CarryingCalls, Goto(c, label),
           UNCHANGED <<cmd, request, level, reply>>,
           /\ label \in CreateCalls => cmd[c] \in CreateCommand
           /\ label \in ReviewCalls => cmd[c] \in ReviewCommand
           /\ label \in RecordCalls => cmd[c] \in RecordCommand
           /\ label \in DetailCalls => cmd[c] \in GetCommand
    PROVE  CallTypeOK' /\ CallsHold'
<1> USE DEF TypeInv, TypeOK, Goto
<1>1. CallTypeOK'
  BY SMT DEF CallTypeOK
<1>2. CallsHold'
  BY SMT DEF CallTypeOK, CallsHold, CarryingCalls
<1> QED BY <1>1, <1>2

\* A call that goes on with a request in hand.
LEMMA CarryType ==
    ASSUME TypeInv, NEW c \in Calls, NEW r \in Request,
           NEW label \in CarryingCalls \ {"ReviewRefundRequest"}, Carry(c, r, label),
           level' = level \/ level' = [level EXCEPT ![c] = 0],
           UNCHANGED <<cmd, reply>>,
           /\ label \in CreateCalls => cmd[c] \in CreateCommand
           /\ label \in ReviewCalls => cmd[c] \in ReviewCommand
           /\ label \in RecordCalls => cmd[c] \in RecordCommand
           /\ label \in DetailCalls =>
                cmd[c] \in ReviewCommand \cup RecordCommand \cup GetCommand
    PROVE  CallTypeOK' /\ CallsHold'
<1> USE DEF TypeInv, TypeOK, Carry, Goto
<1>1. CallTypeOK'
  BY SMT DEF CallTypeOK, CarryingCalls, RepositoryCalls
<1>2. CallsHold'
  BY SMT DEF CallTypeOK, CallsHold, CarryingCalls
<1> QED BY <1>1, <1>2

\* A client that sends a command, well-formed or not, keeps the types.
LEMMA BeginType ==
    ASSUME TypeInv, NEW c \in Calls, NEW m \in Commands, Begin(c, m)
    PROVE  TypeInv'
<1> USE DEF TypeInv, TypeOK
<1>1. m \in Command
  BY ServiceAssumption
<1>2. StoreTypeOK' /\ ProcessTypeOK'
  BY SMT DEF Begin, StoreTypeOK, ProcessTypeOK, storeVars, ledgerVars, processVars
<1>3. /\ FirstCall(m) \in RepositoryCalls
      /\ FirstCall(m) \in CreateCalls => m \in CreateCommand
      /\ FirstCall(m) \in ReviewCalls => m \in ReviewCommand
      /\ FirstCall(m) \in RecordCalls => m \in RecordCommand
      /\ FirstCall(m) \in DetailCalls => m \in GetCommand
      /\ FirstCall(m) \notin CarryingCalls
  BY <1>1, SMT DEF FirstCall, Command, CreateCommand, ReviewCommand, RecordCommand,
     GetCommand, RepositoryCalls, CreateCalls, ReviewCalls, RecordCalls, DetailCalls,
     CarryingCalls
<1>4. CallTypeOK'
  <2>1. "ErrInvalidCommand" \in Errors
    BY DEF Errors
  <2>2. PICK a \in Reply : reply' = [reply EXCEPT ![c] = a]
    BY <2>1, ReplyTypes, Zenon DEF Begin
  <2>3. PICK l \in RepositoryCalls \cup {"Done"} : pc' = [pc EXCEPT ![c] = l]
    BY <1>3, Zenon DEF Begin, Goto
  <2> QED BY <1>1, <2>2, <2>3, SMT DEF Begin, CallTypeOK
<1>5. CASE pc' = [pc EXCEPT ![c] = FirstCall(m)]
  BY <1>2, <1>3, <1>4, <1>5, SMT DEF Begin, CallTypeOK, CallsHold, CarryingCalls
<1>6. CASE pc' = [pc EXCEPT ![c] = "Done"]
  BY <1>2, <1>4, <1>6, SMT DEF Begin, CallTypeOK, CallsHold, CreateCalls, ReviewCalls,
     RecordCalls, DetailCalls, CarryingCalls
<1> QED BY <1>5, <1>6 DEF Begin, Goto

\* The lookup before a creation: a conflict, the first result or a miss.
LEMMA FindCreatedType ==
    ASSUME TypeInv, NEW c \in Calls, FindCreated(c)
    PROVE  TypeInv'
<1>1. cmd[c] \in CreateCommand
  BY SMT DEF TypeInv, CallsHold, FindCreated, CreateCalls
<1>2. StoreTypeOK' /\ ProcessTypeOK'
  BY UnchangedTypes DEF FindCreated, TypeInv, TypeOK
<1>3. CASE Fail(c, "ErrIdempotencyKeyConflict")
  BY <1>2, <1>3, FailType DEF TypeInv, TypeOK, Errors
<1>4. CASE /\ IdempotencyHit(cmd[c])
           /\ AnswerCreated(c, idempotencyRecords[Scope(cmd[c])].request, TRUE)
  <2>1. idempotencyRecords[Scope(cmd[c])].request \in Request
    BY <1>1, <1>4, ScopeType, RecordType DEF IdempotencyHit, TypeInv, TypeOK
  <2> QED BY <1>2, <1>4, <2>1, AnswerCreatedType DEF TypeInv, TypeOK
<1>5. CASE Goto(c, "FindOrder") /\ UNCHANGED <<cmd, request, level, reply>>
  <2>1. "FindOrder" \in RepositoryCalls \ CarryingCalls
    BY DEF RepositoryCalls, CarryingCalls
  <2>2. "FindOrder" \notin ReviewCalls \cup RecordCalls \cup DetailCalls
    BY DEF ReviewCalls, RecordCalls, DetailCalls
  <2> QED BY <1>1, <1>2, <1>5, <2>1, <2>2, GotoType DEF TypeInv, TypeOK
<1> QED BY <1>3, <1>4, <1>5 DEF FindCreated

\* Every refusal is one of the errors, or "OK".
LEMMA RefusalTypes ==
    /\ \A o, a : OrderRefusal(o, a) # "OK" => OrderRefusal(o, a) \in Errors
    /\ \A t, r : CreateRefusal(t, r) # "OK" => CreateRefusal(t, r) \in Errors
    /\ \A m : FindReviewedRefusal(m) # "OK" => FindReviewedRefusal(m) \in Errors
    /\ \A m, l, n : ListForLevelRefusal(m, l, n) # "OK" =>
          ListForLevelRefusal(m, l, n) \in Errors
    /\ \A k, l : ReviewRefusal(k, l) # "OK" => ReviewRefusal(k, l) \in Errors
    /\ \A m : RecordRefusal(m) # "OK" => RecordRefusal(m) \in Errors
BY Zenon DEF Errors, OrderRefusal, CreateRefusal, FindReviewedRefusal, ListForLevelRefusal,
   ReviewRefusal, RecordRefusal

\* The read of the order, and the request and the number made after it.
LEMMA FindOrderType ==
    ASSUME TypeInv, NEW c \in Calls, FindOrder(c)
    PROVE  TypeInv'
<1> DEFINE m == cmd[c]
           order == orders[<<m.tenant, m.orderNo>>]
           no == sequence[m.tenant] + 1
<1>1. m \in CreateCommand
  BY SMT DEF TypeInv, CallsHold, FindOrder, CreateCalls
<1>2. StoreTypeOK'
  BY UnchangedTypes DEF FindOrder, TypeInv, TypeOK
<1>3. CASE /\ OrderRefusal(order, m.amount) # "OK"
           /\ Fail(c, OrderRefusal(order, m.amount))
           /\ UNCHANGED sequence
  <2>1. ProcessTypeOK'
    BY <1>3, UnchangedTypes DEF FindOrder, TypeInv, TypeOK, processVars
  <2> QED BY <1>2, <1>3, <2>1, FailType, RefusalTypes DEF TypeInv, TypeOK
<1>4. CASE /\ OrderRefusal(order, m.amount) = "OK"
           /\ DrawNumber(m.tenant)
           /\ Carry(c, NewRequest(m, order, no), "CreateRefundRequest")
           /\ UNCHANGED <<cmd, level, reply>>
  <2>1. m.tenant \in Tenants /\ m.orderNo \in OrderNos /\ m.amount \in Nat /\ m.by \in Users
    BY <1>1, SMT DEF CreateCommand
  <2>2. ProcessTypeOK'
    BY <1>4, <2>1, MaxRequestNoAssumption, SMT
       DEF FindOrder, TypeInv, TypeOK, ProcessTypeOK, DrawNumber
  <2>3. no \in RequestNos
    BY <1>4, <2>1, MaxRequestNoAssumption, SMT
       DEF TypeInv, TypeOK, ProcessTypeOK, DrawNumber, RequestNos
  <2>4. order \in Order
    <3>1. order \in Order \cup {None}
      BY <2>1, SMT DEF TypeInv, TypeOK, StoreTypeOK, OrderKeys
    <3>2. order # None
      BY <1>4, Zenon DEF OrderRefusal
    <3> QED BY <3>1, <3>2
  <2> HIDE DEF order, no
  <2>5. NewRequest(m, order, no) \in Request
    BY <2>1, <2>3, <2>4, SMT DEF NewRequest, Request, RequestStatuses
  <2>6. "CreateRefundRequest" \in CarryingCalls \ {"ReviewRefundRequest"}
    BY DEF CarryingCalls
  <2>7. "CreateRefundRequest" \notin ReviewCalls \cup RecordCalls \cup DetailCalls
    BY DEF ReviewCalls, RecordCalls, DetailCalls
  <2>8. CallTypeOK' /\ CallsHold'
    BY <1>1, <1>4, <2>5, <2>6, <2>7, CarryType
  <2> QED BY <1>2, <2>2, <2>8 DEF TypeInv, TypeOK
<1> QED BY <1>3, <1>4, Zenon DEF FindOrder

\* What a creation stores is of the types of the tables.
LEMMA StoreCreatedType ==
    ASSUME StoreTypeOK, NEW m \in CreateCommand, NEW r \in Request, StoreCreated(m, r)
    PROVE  StoreTypeOK'
<1> DEFINE k == <<m.tenant, r.no>>
           entry == [before |-> "NONE", after |-> r.status, operator |-> m.by]
           record == [hash |-> RequestHash(m), request |-> r, transaction |-> None]
<1>1. k \in RequestKeys
  BY SMT DEF RequestKeys, CreateCommand, Request
<1>2. entry \in AuditLog
  BY SMT DEF AuditLog, CreateCommand, Request
<1>3. record \in IdempotencyRecord
  <2>1. RequestHash(m) \in CreateHash
    BY SMT DEF RequestHash, CreateRequestHash, CreateHash, CreateCommand
  <2> QED BY <2>1, SMT DEF IdempotencyRecord
<1>4. Scope(m) \in Scopes
  BY ScopeType
<1> HIDE DEF k, entry, record
<1>5. /\ requests' = [requests EXCEPT ![k] = r]
      /\ auditLogs' = [auditLogs EXCEPT ![k] = Append(@, entry)]
      /\ idempotencyRecords' = [idempotencyRecords EXCEPT ![Scope(m)] = record]
      /\ UNCHANGED <<orders, approvals, transactions, providerRefundNo>>
  BY DEF StoreCreated, k, entry, record
<1>6. Append(auditLogs[k], entry) \in Seq(AuditLog)
  BY <1>1, <1>2, AppendProperties DEF StoreTypeOK
<1> QED BY <1>1, <1>3, <1>4, <1>5, <1>6, SMT DEF StoreTypeOK

\* What a review stores is of the types of the tables.
LEMMA StoreReviewedType ==
    ASSUME StoreTypeOK, NEW k \in RequestKeys, requests[k] # None,
           NEW approval \in Approval, NEW before \in RequestStatuses,
           NEW after \in RequestStatuses, StoreReviewed(k, approval, before, after)
    PROVE  StoreTypeOK'
<1> DEFINE entry == [before |-> before, after |-> after, operator |-> approval.decisionBy]
           row == [requests[k] EXCEPT !.status = after]
<1>1. entry \in AuditLog
  BY SMT DEF AuditLog, Approval
<1>2. row \in Request
  <2>1. requests[k] \in Request
    BY SMT DEF StoreTypeOK
  <2> QED BY <2>1, SMT DEF Request
<1> HIDE DEF entry, row
<1>3. /\ requests' = [requests EXCEPT ![k] = row]
      /\ approvals' = [approvals EXCEPT ![k] = Append(@, approval)]
      /\ auditLogs' = [auditLogs EXCEPT ![k] = Append(@, entry)]
      /\ UNCHANGED <<orders, transactions, providerRefundNo, idempotencyRecords>>
  BY DEF StoreReviewed, entry, row
<1>4. Append(auditLogs[k], entry) \in Seq(AuditLog)
  BY <1>1, AppendProperties DEF StoreTypeOK
<1>5. Append(approvals[k], approval) \in Seq(Approval)
  BY AppendProperties DEF StoreTypeOK
<1> QED BY <1>2, <1>3, <1>4, <1>5, SMT DEF StoreTypeOK

\* What a receipt stores is of the types of the tables.
LEMMA StoreRecordedType ==
    ASSUME StoreTypeOK, NEW m \in RecordCommand, requests[RequestKey(m)] # None,
           NEW before \in RequestStatuses, StoreRecorded(m, before)
    PROVE  /\ StoreTypeOK'
           /\ requests'[RequestKey(m)] \in Request
           /\ TransactionOf(m) \in Transaction
<1> DEFINE k == RequestKey(m)
           entry == [before |-> before, after |-> m.status, operator |-> m.by]
           row == [requests[k] EXCEPT !.status = m.status]
           record == [hash |-> RequestHash(m), request |-> row,
                      transaction |-> TransactionOf(m)]
<1>1. k \in RequestKeys
  BY SMT DEF RequestKeys, RecordCommand, RequestKey
<1>2. entry \in AuditLog
  BY SMT DEF AuditLog, RecordCommand, TransactionStatuses, RequestStatuses
<1>3. row \in Request
  <2>1. requests[k] \in Request
    BY <1>1, SMT DEF StoreTypeOK
  <2>2. m.status \in RequestStatuses
    BY SMT DEF RecordCommand, TransactionStatuses, RequestStatuses
  <2> QED BY <2>1, <2>2, SMT DEF Request
<1>4. TransactionOf(m) \in Transaction
  BY SMT DEF TransactionOf, Transaction, RecordCommand
<1> HIDE DEF row
<1>5. record \in IdempotencyRecord
  <2>1. RequestHash(m) \in RecordHash
    BY SMT DEF RequestHash, RecordTransactionHash, RecordHash, RecordCommand
  <2> QED BY <1>3, <1>4, <2>1, SMT DEF IdempotencyRecord
<1>6. Scope(m) \in Scopes
  BY ScopeType
<1>7. /\ m.providerRefundNo \in ProviderRefundNos \cup {None}
      /\ m.tenant \in Tenants
  BY SMT DEF RecordCommand
<1> HIDE DEF k, entry, record
<1>8. /\ requests' = [requests EXCEPT ![k] = row]
      /\ transactions' = [transactions EXCEPT ![k] = Append(@, TransactionOf(m))]
      /\ auditLogs' = [auditLogs EXCEPT ![k] = Append(@, entry)]
      /\ idempotencyRecords' = [idempotencyRecords EXCEPT ![Scope(m)] = record]
      /\ providerRefundNo' = IF m.providerRefundNo = None THEN providerRefundNo
            ELSE providerRefundNo \cup {<<m.tenant, m.providerRefundNo>>}
      /\ UNCHANGED <<orders, approvals>>
  BY DEF StoreRecorded, k, entry, row, record
<1>9. Append(auditLogs[k], entry) \in Seq(AuditLog)
  BY <1>1, <1>2, AppendProperties DEF StoreTypeOK
<1>10. Append(transactions[k], TransactionOf(m)) \in Seq(Transaction)
  BY <1>1, <1>4, AppendProperties DEF StoreTypeOK
<1>11. providerRefundNo' \subseteq Tenants \X ProviderRefundNos
  BY <1>7, <1>8, SMT DEF StoreTypeOK
<1>12. requests'[k] = row
  BY <1>1, <1>8, SMT DEF StoreTypeOK
<1>13. StoreTypeOK'
  BY <1>1, <1>3, <1>5, <1>6, <1>8, <1>9, <1>10, <1>11, SMT DEF StoreTypeOK
<1> QED BY <1>3, <1>4, <1>12, <1>13 DEF k

\* The transaction of a creation, with each of its ends.
LEMMA CreateRefundRequestType ==
    ASSUME TypeInv, NEW c \in Calls, CreateRefundRequest(c)
    PROVE  TypeInv'
<1> DEFINE m == cmd[c]
           refusal == CreateRefusal(m.tenant, request[c])
<1>1. m \in CreateCommand /\ request[c] \in Request
  BY SMT DEF TypeInv, CallsHold, CreateRefundRequest, CreateCalls, CarryingCalls
<1>2. ProcessTypeOK'
  BY UnchangedTypes DEF CreateRefundRequest, TypeInv, TypeOK
<1>3. "ErrInternal" \in Errors /\ "ErrIdempotencyKeyConflict" \in Errors
  BY DEF Errors
<1>4. CASE Fail(c, "ErrIdempotencyKeyConflict") /\ UNCHANGED storeVars
  BY <1>2, <1>3, <1>4, FailType, UnchangedTypes DEF TypeInv, TypeOK
<1>5. CASE /\ IdempotencyHit(m)
           /\ AnswerCreated(c, idempotencyRecords[Scope(m)].request, TRUE)
           /\ UNCHANGED storeVars
  <2>1. idempotencyRecords[Scope(m)].request \in Request
    BY <1>1, <1>5, ScopeType, RecordType DEF IdempotencyHit, TypeInv, TypeOK
  <2> QED BY <1>2, <1>5, <2>1, AnswerCreatedType, UnchangedTypes DEF TypeInv, TypeOK
<1>6. CASE refusal # "OK" /\ Fail(c, refusal) /\ UNCHANGED storeVars
  BY <1>2, <1>6, FailType, RefusalTypes, UnchangedTypes DEF TypeInv, TypeOK
<1>7. CASE /\ StoreCreated(m, request[c])
           /\ AnswerCreated(c, request[c], FALSE) \/ Fail(c, "ErrInternal")
  <2>1. StoreTypeOK'
    BY <1>1, <1>7, StoreCreatedType DEF TypeInv, TypeOK
  <2>2. CallTypeOK' /\ CallsHold'
    BY <1>1, <1>3, <1>7, AnswerCreatedType, FailType
  <2> QED BY <1>2, <2>1, <2>2 DEF TypeInv, TypeOK
<1> QED BY <1>4, <1>5, <1>6, <1>7, Zenon DEF CreateRefundRequest

\* The read of the request under review.
LEMMA FindReviewedType ==
    ASSUME TypeInv, NEW c \in Calls, FindReviewed(c)
    PROVE  TypeInv'
<1> DEFINE m == cmd[c]
<1>1. m \in ReviewCommand
  BY SMT DEF TypeInv, CallsHold, FindReviewed, ReviewCalls
<1>2. StoreTypeOK' /\ ProcessTypeOK'
  BY UnchangedTypes DEF FindReviewed, TypeInv, TypeOK
<1>3. CASE FindReviewedRefusal(m) # "OK" /\ Fail(c, FindReviewedRefusal(m))
  BY <1>2, <1>3, FailType, RefusalTypes DEF TypeInv, TypeOK
<1>4. CASE /\ FindReviewedRefusal(m) = "OK"
           /\ Carry(c, requests[RequestKey(m)], "ListForLevel")
           /\ UNCHANGED <<cmd, level, reply>>
  <2>1. requests[RequestKey(m)] \in Request \cup {None}
    BY <1>1, SMT DEF TypeInv, TypeOK, StoreTypeOK, RequestKeys, RequestKey, ReviewCommand
  <2>2. requests[RequestKey(m)] # None
    BY <1>4, Zenon DEF FindReviewedRefusal
  <2>3. "ListForLevel" \in CarryingCalls \ {"ReviewRefundRequest"}
    BY DEF CarryingCalls
  <2>4. "ListForLevel" \notin CreateCalls \cup RecordCalls \cup DetailCalls
    BY DEF CreateCalls, RecordCalls, DetailCalls
  <2> QED BY <1>1, <1>2, <1>4, <2>1, <2>2, <2>3, <2>4, CarryType DEF TypeInv, TypeOK
<1> QED BY <1>3, <1>4, Zenon DEF FindReviewed

\* The read of the earlier decisions and the level that follows from them.
LEMMA ListForLevelType ==
    ASSUME TypeInv, NEW c \in Calls, ListForLevel(c)
    PROVE  TypeInv'
<1> DEFINE m == cmd[c]
           list == approvals[RequestKey(m)]
           next == NextApprovalLevel(request[c].amount, list, threshold)
           refusal == ListForLevelRefusal(m, list, next)
<1>1. m \in ReviewCommand /\ request[c] \in Request
  BY SMT DEF TypeInv, CallsHold, ListForLevel, ReviewCalls, CarryingCalls
<1>2. StoreTypeOK' /\ ProcessTypeOK'
  BY UnchangedTypes DEF ListForLevel, TypeInv, TypeOK
<1>3. CASE refusal # "OK" /\ Fail(c, refusal)
  BY <1>2, <1>3, FailType, RefusalTypes DEF TypeInv, TypeOK
<1>4. CASE /\ refusal = "OK"
           /\ Goto(c, "ReviewRefundRequest")
           /\ level' = [level EXCEPT ![c] = next]
           /\ UNCHANGED <<cmd, request, reply>>
  <2>1. list \in Seq(Approval)
    BY <1>1, SMT DEF TypeInv, TypeOK, StoreTypeOK, RequestKeys, RequestKey, ReviewCommand
  <2>2. request[c].amount \in Nat /\ threshold \in Nat
    BY <1>1, ServiceAssumption, SMT DEF TypeInv, TypeOK, ProcessTypeOK, Request
  <2>3. next \in 1 .. 3
    BY <2>1, <2>2, NextApprovalLevelType
  <2>4. ~ (next > 2)
    BY <1>4, Zenon DEF ListForLevelRefusal
  <2> HIDE DEF next
  <2>5. next \in Levels
    BY <2>3, <2>4, SMT DEF Levels
  <2>6. CallTypeOK'
    BY <1>4, <2>5, SMT DEF Goto, TypeInv, TypeOK, CallTypeOK, RepositoryCalls
  <2>7. CallsHold'
    BY <1>1, <1>4, <2>5, SMT DEF Goto, TypeInv, TypeOK, CallTypeOK, CallsHold,
       CreateCalls, ReviewCalls, RecordCalls, DetailCalls, CarryingCalls
  <2> QED BY <1>2, <2>6, <2>7 DEF TypeInv, TypeOK
<1> QED BY <1>3, <1>4, Zenon DEF ListForLevel

\* A decision leads to a status.
LEMMA ReviewedStatusType ==
    \A d, a, l, th : ReviewedStatus(d, a, l, th) \in {"REJECTED", "PENDING_REVIEW", "APPROVED"}
BY SMT DEF ReviewedStatus

\* The transaction of a review, with each of its ends.
LEMMA ReviewRefundRequestType ==
    ASSUME TypeInv, NEW c \in Calls, ReviewRefundRequest(c)
    PROVE  TypeInv'
<1> DEFINE m == cmd[c]
           k == RequestKey(m)
           refusal == ReviewRefusal(k, level[c])
           after == ReviewedStatus(m.decision, request[c].amount, level[c], threshold)
           approval == [level |-> level[c], status |-> m.decision, decisionBy |-> m.by]
<1>1. m \in ReviewCommand /\ request[c] \in Request /\ level[c] \in Levels
  BY SMT DEF TypeInv, CallsHold, ReviewRefundRequest, ReviewCalls, CarryingCalls
<1>2. ProcessTypeOK'
  BY UnchangedTypes DEF ReviewRefundRequest, TypeInv, TypeOK
<1>3. CASE refusal # "OK" /\ Fail(c, refusal) /\ UNCHANGED storeVars
  BY <1>2, <1>3, FailType, RefusalTypes, UnchangedTypes DEF TypeInv, TypeOK
<1>4. CASE /\ refusal = "OK"
           /\ StoreReviewed(k, approval, request[c].status, after)
           /\ \/ /\ Carry(c, [requests[k] EXCEPT !.status = after], "ListApprovals")
                 /\ level' = [level EXCEPT ![c] = 0]
                 /\ UNCHANGED <<cmd, reply>>
              \/ Fail(c, "ErrInternal")
  <2>1. k \in RequestKeys
    BY <1>1, SMT DEF RequestKeys, RequestKey, ReviewCommand
  <2>2. requests[k] # None
    BY <1>4, Zenon DEF ReviewRefusal
  <2>3. approval \in Approval
    BY <1>1, SMT DEF Approval, ReviewCommand
  <2>4. after \in RequestStatuses /\ request[c].status \in RequestStatuses
    BY <1>1, ReviewedStatusType, SMT DEF Request, RequestStatuses
  <2>5. requests[k] \in Request
    BY <2>1, <2>2, SMT DEF TypeInv, TypeOK, StoreTypeOK
  <2> HIDE DEF k, approval, after
  <2>6. [requests[k] EXCEPT !.status = after] \in Request
    BY <2>4, <2>5, SMT DEF Request
  <2>7. StoreTypeOK'
    BY <1>4, <2>1, <2>2, <2>3, <2>4, StoreReviewedType DEF TypeInv, TypeOK
  <2>8. "ListApprovals" \in CarryingCalls \ {"ReviewRefundRequest"}
    BY DEF CarryingCalls
  <2>9. "ListApprovals" \notin CreateCalls \cup ReviewCalls \cup RecordCalls
    BY DEF CreateCalls, ReviewCalls, RecordCalls
  <2>10. "ErrInternal" \in Errors
    BY DEF Errors
  <2>11. CallTypeOK' /\ CallsHold'
    <3>1. CASE /\ Carry(c, [requests[k] EXCEPT !.status = after], "ListApprovals")
               /\ level' = [level EXCEPT ![c] = 0]
               /\ UNCHANGED <<cmd, reply>>
      BY <1>1, <2>6, <2>8, <2>9, <3>1, CarryType
    <3>2. CASE Fail(c, "ErrInternal")
      BY <2>10, <3>2, FailType
    <3> QED BY <1>4, <3>1, <3>2
  <2> QED BY <1>2, <2>7, <2>11 DEF TypeInv, TypeOK
<1> QED BY <1>3, <1>4, Zenon DEF ReviewRefundRequest

\* A replayed receipt carries a request and a transaction.
LEMMA CarryFirstResultType ==
    ASSUME TypeInv, NEW c \in Calls, pc[c] \in RecordCalls,
           IdempotencyHit(cmd[c]), CarryFirstResult(c)
    PROVE  CallTypeOK' /\ CallsHold'
<1> DEFINE record == idempotencyRecords[Scope(cmd[c])]
<1>1. cmd[c] \in RecordCommand
  BY DEF TypeInv, CallsHold
<1>2. record.request \in Request /\ record.transaction \in Transaction \cup {None}
  BY <1>1, ScopeType, RecordType DEF IdempotencyHit, TypeInv, TypeOK
<1>3. CarryRecorded(c, record.request, record.transaction, TRUE)
  BY DEF CarryFirstResult
<1> QED BY <1>2, <1>3, CarryRecordedType

\* The lookup before a receipt: a conflict, the first result or a miss.
LEMMA FindRecordedType ==
    ASSUME TypeInv, NEW c \in Calls, FindRecorded(c)
    PROVE  TypeInv'
<1>1. pc[c] \in RecordCalls /\ cmd[c] \in RecordCommand
  BY SMT DEF TypeInv, CallsHold, FindRecorded, RecordCalls
<1>2. StoreTypeOK' /\ ProcessTypeOK'
  BY UnchangedTypes DEF FindRecorded, TypeInv, TypeOK
<1>3. CASE Fail(c, "ErrIdempotencyKeyConflict")
  BY <1>2, <1>3, FailType DEF TypeInv, TypeOK, Errors
<1>4. CASE IdempotencyHit(cmd[c]) /\ CarryFirstResult(c)
  BY <1>1, <1>2, <1>4, CarryFirstResultType DEF TypeInv, TypeOK
<1>5. CASE Goto(c, "FindApproved") /\ UNCHANGED <<cmd, request, level, reply>>
  <2>1. "FindApproved" \in RepositoryCalls \ CarryingCalls
    BY DEF RepositoryCalls, CarryingCalls
  <2>2. "FindApproved" \notin CreateCalls \cup ReviewCalls \cup DetailCalls
    BY DEF CreateCalls, ReviewCalls, DetailCalls
  <2> QED BY <1>1, <1>2, <1>5, <2>1, <2>2, GotoType DEF TypeInv, TypeOK
<1> QED BY <1>3, <1>4, <1>5 DEF FindRecorded

\* The read of the request a receipt settles.
LEMMA FindApprovedType ==
    ASSUME TypeInv, NEW c \in Calls, FindApproved(c)
    PROVE  TypeInv'
<1> DEFINE found == requests[RequestKey(cmd[c])]
<1>1. pc[c] \in RecordCalls /\ cmd[c] \in RecordCommand
  BY SMT DEF TypeInv, CallsHold, FindApproved, RecordCalls
<1>2. StoreTypeOK' /\ ProcessTypeOK'
  BY UnchangedTypes DEF FindApproved, TypeInv, TypeOK
<1>3. CASE Fail(c, "ErrRefundRequestNotFound") \/ Fail(c, "ErrTransactionAmountMismatch")
  BY <1>2, <1>3, FailType DEF TypeInv, TypeOK, Errors
<1>4. CASE Goto(c, "FindRecordedAgain") /\ UNCHANGED <<cmd, request, level, reply>>
  <2>1. "FindRecordedAgain" \in RepositoryCalls \ CarryingCalls
    BY DEF RepositoryCalls, CarryingCalls
  <2>2. "FindRecordedAgain" \notin CreateCalls \cup ReviewCalls \cup DetailCalls
    BY DEF CreateCalls, ReviewCalls, DetailCalls
  <2> QED BY <1>1, <1>2, <1>4, <2>1, <2>2, GotoType DEF TypeInv, TypeOK
<1>5. CASE /\ found # None
           /\ Carry(c, found, "RecordRefundTransaction")
           /\ UNCHANGED <<cmd, level, reply>>
  <2>1. found \in Request
    BY <1>1, <1>5, SMT DEF TypeInv, TypeOK, StoreTypeOK, RequestKeys, RequestKey, RecordCommand
  <2>2. "RecordRefundTransaction" \in CarryingCalls \ {"ReviewRefundRequest"}
    BY DEF CarryingCalls
  <2>3. "RecordRefundTransaction" \notin CreateCalls \cup ReviewCalls \cup DetailCalls
    BY DEF CreateCalls, ReviewCalls, DetailCalls
  <2> QED BY <1>1, <1>2, <1>5, <2>1, <2>2, <2>3, CarryType DEF TypeInv, TypeOK
<1> QED BY <1>3, <1>4, <1>5, Zenon DEF FindApproved

\* The second lookup of a receipt whose request is settled already.
LEMMA FindRecordedAgainType ==
    ASSUME TypeInv, NEW c \in Calls, FindRecordedAgain(c)
    PROVE  TypeInv'
<1>1. pc[c] \in RecordCalls
  BY DEF FindRecordedAgain, RecordCalls
<1>2. StoreTypeOK' /\ ProcessTypeOK'
  BY UnchangedTypes DEF FindRecordedAgain, TypeInv, TypeOK
<1>3. CASE \/ Fail(c, "ErrIdempotencyKeyConflict")
           \/ Fail(c, "ErrRefundRequestNotApproved")
  BY <1>2, <1>3, FailType DEF TypeInv, TypeOK, Errors
<1>4. CASE IdempotencyHit(cmd[c]) /\ CarryFirstResult(c)
  BY <1>1, <1>2, <1>4, CarryFirstResultType DEF TypeInv, TypeOK
<1> QED BY <1>3, <1>4 DEF FindRecordedAgain

\* The transaction of a receipt, with each of its ends.
LEMMA RecordRefundTransactionType ==
    ASSUME TypeInv, NEW c \in Calls, RecordRefundTransaction(c)
    PROVE  TypeInv'
<1> DEFINE m == cmd[c]
           refusal == RecordRefusal(m)
<1>1. pc[c] \in RecordCalls /\ m \in RecordCommand /\ request[c] \in Request
  BY SMT DEF TypeInv, CallsHold, RecordRefundTransaction, RecordCalls, CarryingCalls
<1>2. ProcessTypeOK'
  BY UnchangedTypes DEF RecordRefundTransaction, TypeInv, TypeOK
<1>3. "ErrInternal" \in Errors /\ "ErrIdempotencyKeyConflict" \in Errors
  BY DEF Errors
<1>4. CASE Fail(c, "ErrIdempotencyKeyConflict") /\ UNCHANGED storeVars
  BY <1>2, <1>3, <1>4, FailType, UnchangedTypes DEF TypeInv, TypeOK
<1>5. CASE IdempotencyHit(m) /\ CarryFirstResult(c) /\ UNCHANGED storeVars
  BY <1>1, <1>2, <1>5, CarryFirstResultType, UnchangedTypes DEF TypeInv, TypeOK
<1>6. CASE refusal # "OK" /\ Fail(c, refusal) /\ UNCHANGED storeVars
  BY <1>2, <1>6, FailType, RefusalTypes, UnchangedTypes DEF TypeInv, TypeOK
<1>7. CASE /\ refusal = "OK"
           /\ StoreRecorded(m, request[c].status)
           /\ \/ CarryRecorded(c, requests'[RequestKey(m)], TransactionOf(m), FALSE)
              \/ Fail(c, "ErrInternal")
  <2>1. requests[RequestKey(m)] # None
    BY <1>7, Zenon DEF RecordRefusal
  <2>2. request[c].status \in RequestStatuses
    BY <1>1, SMT DEF Request
  <2>3. /\ StoreTypeOK'
        /\ requests'[RequestKey(m)] \in Request
        /\ TransactionOf(m) \in Transaction
    BY <1>1, <1>7, <2>1, <2>2, StoreRecordedType DEF TypeInv, TypeOK
  <2>4. CallTypeOK' /\ CallsHold'
    BY <1>1, <1>3, <1>7, <2>3, CarryRecordedType, FailType
  <2> QED BY <1>2, <2>3, <2>4 DEF TypeInv, TypeOK
<1> QED BY <1>4, <1>5, <1>6, <1>7, Zenon DEF RecordRefundTransaction

\* The read of one request for its detail.
LEMMA GetRequestType ==
    ASSUME TypeInv, NEW c \in Calls, GetRequest(c)
    PROVE  TypeInv'
<1> DEFINE m == cmd[c]
           found == requests[RequestKey(m)]
<1>1. m \in ReviewCommand \cup RecordCommand \cup GetCommand
  BY SMT DEF TypeInv, CallsHold, GetRequest, DetailCalls
<1>2. StoreTypeOK' /\ ProcessTypeOK'
  BY UnchangedTypes DEF GetRequest, TypeInv, TypeOK
<1>3. CASE Fail(c, "ErrRefundRequestNotFound")
  BY <1>2, <1>3, FailType DEF TypeInv, TypeOK, Errors
<1>4. CASE /\ found # None
           /\ Carry(c, found, "ListApprovals")
           /\ UNCHANGED <<cmd, level, reply>>
  <2>1. RequestKey(m) \in RequestKeys
    BY <1>1, SMT DEF RequestKeys, RequestKey, ReviewCommand, RecordCommand, GetCommand
  <2>2. found \in Request
    BY <1>4, <2>1, SMT DEF TypeInv, TypeOK, StoreTypeOK
  <2>3. "ListApprovals" \in CarryingCalls \ {"ReviewRefundRequest"}
    BY DEF CarryingCalls
  <2>4. "ListApprovals" \notin CreateCalls \cup ReviewCalls \cup RecordCalls
    BY DEF CreateCalls, ReviewCalls, RecordCalls
  <2> QED BY <1>1, <1>2, <1>4, <2>2, <2>3, <2>4, CarryType DEF TypeInv, TypeOK
<1> QED BY <1>3, <1>4, Zenon DEF GetRequest

\* The read of the decisions for an answer.
LEMMA ListApprovalsType ==
    ASSUME TypeInv, NEW c \in Calls, ListApprovals(c)
    PROVE  TypeInv'
<1> DEFINE m == cmd[c]
           list == approvals[RequestKey(m)]
<1>1. m \in ReviewCommand \cup RecordCommand \cup GetCommand /\ request[c] \in Request
  BY SMT DEF TypeInv, CallsHold, ListApprovals, DetailCalls, CarryingCalls
<1>2. StoreTypeOK' /\ ProcessTypeOK'
  BY SMT DEF ListApprovals, TypeInv, TypeOK, StoreTypeOK, ProcessTypeOK, storeVars,
     ledgerVars, processVars
<1>3. list \in Seq(Approval)
  <2>1. RequestKey(m) \in RequestKeys
    BY <1>1, SMT DEF RequestKeys, RequestKey, ReviewCommand, RecordCommand, GetCommand
  <2> QED BY <2>1, SMT DEF TypeInv, TypeOK, StoreTypeOK
<1>4. reply[c] \in Reply
  BY DEF TypeInv, TypeOK, CallTypeOK
<1> HIDE DEF list
<1>5. [reply[c] EXCEPT !.approvals = list] \in Reply
  BY <1>3, <1>4, Zenon DEF Reply
<1>6. PICK a \in Reply : reply' = [reply EXCEPT ![c] = a]
  BY <1>5, Zenon DEF ListApprovals, list
<1>7. CallTypeOK'
  BY <1>6, SMT DEF ListApprovals, Goto, TypeInv, TypeOK, CallTypeOK, RepositoryCalls
<1>8. CallsHold'
  BY <1>1, SMT DEF ListApprovals, Goto, TypeInv, TypeOK, CallTypeOK, CallsHold,
     CreateCalls, ReviewCalls, RecordCalls, DetailCalls, CarryingCalls
<1> QED BY <1>2, <1>7, <1>8 DEF TypeInv, TypeOK

\* The read of the receipts, with which an answer is complete.
LEMMA ListTransactionsType ==
    ASSUME TypeInv, NEW c \in Calls, ListTransactions(c)
    PROVE  TypeInv'
<1> DEFINE m == cmd[c]
           list == transactions[RequestKey(m)]
<1>1. m \in ReviewCommand \cup RecordCommand \cup GetCommand /\ request[c] \in Request
  BY SMT DEF TypeInv, CallsHold, ListTransactions, DetailCalls, CarryingCalls
<1>2. StoreTypeOK' /\ ProcessTypeOK'
  BY UnchangedTypes DEF ListTransactions, TypeInv, TypeOK
<1>3. list \in Seq(Transaction)
  <2>1. RequestKey(m) \in RequestKeys
    BY <1>1, SMT DEF RequestKeys, RequestKey, ReviewCommand, RecordCommand, GetCommand
  <2> QED BY <2>1, SMT DEF TypeInv, TypeOK, StoreTypeOK
<1>4. reply[c] \in Reply
  BY DEF TypeInv, TypeOK, CallTypeOK
<1>5. Answer(c, [reply[c] EXCEPT !.request = request[c], !.transactions = list])
  BY DEF ListTransactions
<1> HIDE DEF list
<1>6. [reply[c] EXCEPT !.request = request[c], !.transactions = list] \in Reply
  <2>1. [reply[c] EXCEPT !.request = request[c]] \in Reply
    BY <1>1, <1>4, Zenon DEF Reply
  <2>2. \A q \in Reply : [q EXCEPT !.transactions = list] \in Reply
    BY <1>3, Zenon DEF Reply
  <2> QED BY <2>1, <2>2, Zenon
<1> QED BY <1>2, <1>5, <1>6, AnswerType DEF TypeInv, TypeOK

\* A database error ends a call wherever it is.
LEMMA CallFailsType ==
    ASSUME TypeInv, NEW c \in Calls, CallFails(c)
    PROVE  TypeInv'
<1>1. "ErrInternal" \in Errors
  BY DEF Errors
<1> QED BY <1>1, FailType, UnchangedTypes DEF CallFails, TypeInv, TypeOK

\* No call is in progress when the process starts.
LEMMA IdleType ==
    ASSUME CallsIdle
    PROVE  CallTypeOK /\ CallsHold
<1>1. CallTypeOK
  <2>1. NoReply \in Reply
    BY ReplyTypes
  <2> QED BY <2>1, SMT DEF CallsIdle, CallTypeOK
<1>2. CallsHold
  BY SMT DEF CallsIdle, CallsHold, CreateCalls, ReviewCalls, RecordCalls, DetailCalls,
     CarryingCalls
<1> QED BY <1>1, <1>2

\* A restart forgets the calls and the sequence, not the store.
LEMMA RestartType ==
    ASSUME TypeInv, Restart
    PROVE  TypeInv'
<1>1. StoreTypeOK'
  BY UnchangedTypes DEF Restart, TypeInv, TypeOK
<1>2. ProcessTypeOK'
  BY MaxRequestNoAssumption, ServiceAssumption, SMT
     DEF Restart, TypeInv, TypeOK, ProcessTypeOK
<1>3. CallTypeOK'
  <2>1. NoReply \in Reply
    BY ReplyTypes
  <2> QED BY <2>1, SMT DEF Restart, CallTypeOK
<1>4. CallsHold'
  BY SMT DEF Restart, CallsHold, CreateCalls, ReviewCalls, RecordCalls, DetailCalls,
     CarryingCalls
<1> QED BY <1>1, <1>2, <1>3, <1>4 DEF TypeInv, TypeOK

\* An order that moves on is an order still.
LEMMA OrderChangesType ==
    ASSUME TypeInv, NEW k \in OrderKeys, NEW order \in OrderVersions, OrderChanges(k, order)
    PROVE  TypeInv'
<1>1. order \in Order
  BY ServiceAssumption
<1>2. StoreTypeOK'
  BY <1>1, SMT DEF OrderChanges, TypeInv, TypeOK, StoreTypeOK, ledgerVars
<1>3. ProcessTypeOK'
  BY UnchangedTypes DEF OrderChanges, TypeInv, TypeOK
<1>4. CallTypeOK' /\ CallsHold'
  BY SMT DEF OrderChanges, TypeInv, TypeOK, CallTypeOK, CallsHold, callVars
<1> QED BY <1>2, <1>3, <1>4 DEF TypeInv, TypeOK

\* A desk that starts over an empty store has the types.
LEMMA InitType == Init => TypeInv
<1> SUFFICES ASSUME Init PROVE TypeInv
  OBVIOUS
<1>1. StoreTypeOK
  <2>1. /\ [k \in RequestKeys |-> <<>>] \in [RequestKeys -> Seq(Approval)]
        /\ [k \in RequestKeys |-> <<>>] \in [RequestKeys -> Seq(Transaction)]
        /\ [k \in RequestKeys |-> <<>>] \in [RequestKeys -> Seq(AuditLog)]
    BY EmptySeq
  <2> QED BY <2>1, ServiceAssumption, SMT DEF Init, StoreInit, StoreTypeOK
<1>2. ProcessTypeOK
  BY MaxRequestNoAssumption, ServiceAssumption, SMT DEF Init, ProcessTypeOK
<1>3. CallTypeOK /\ CallsHold
  BY IdleType DEF Init
<1> QED BY <1>1, <1>2, <1>3 DEF TypeInv, TypeOK

\* The steps of the service, of its clients and of what surrounds it keep the types.
LEMMA NextType == TypeInv /\ [Next]_vars => TypeInv'
<1> SUFFICES ASSUME TypeInv, [Next]_vars PROVE TypeInv'
  OBVIOUS
<1>1. ASSUME NEW c \in Calls, NEW m \in Commands, Begin(c, m) PROVE TypeInv'
  BY <1>1, BeginType
<1>2. ASSUME NEW c \in Calls, CallStep(c) PROVE TypeInv'
  BY <1>2, FindCreatedType, FindOrderType, CreateRefundRequestType, FindReviewedType,
     ListForLevelType, ReviewRefundRequestType, FindRecordedType, FindApprovedType,
     FindRecordedAgainType, RecordRefundTransactionType, GetRequestType,
     ListApprovalsType, ListTransactionsType
     DEF CallStep
<1>3. ASSUME NEW c \in Calls, CallFails(c) PROVE TypeInv'
  BY <1>3, CallFailsType
<1>4. CASE Restart
  BY <1>4, RestartType
<1>5. ASSUME NEW k \in OrderKeys, NEW order \in OrderVersions, OrderChanges(k, order)
      PROVE  TypeInv'
  BY <1>5, OrderChangesType
<1>6. CASE UNCHANGED vars
  <2>1. UNCHANGED <<storeVars, callVars, processVars>>
    BY <1>6 DEF vars
  <2>2. CallTypeOK' /\ CallsHold'
    BY <2>1, SMT DEF TypeInv, TypeOK, CallTypeOK, CallsHold, callVars
  <2> QED BY <2>1, <2>2, UnchangedTypes DEF TypeInv, TypeOK
<1> QED BY <1>1, <1>2, <1>3, <1>4, <1>5, <1>6 DEF Next

\* Whatever its clients, its database and its order system do, the service
\* keeps the types of its store, of its calls and of its process.
THEOREM TypeCorrect == Spec => []TypeOK
<1>1. Init => TypeInv
  BY InitType
<1>2. TypeInv /\ [Next]_vars => TypeInv'
  BY NextType
<1>3. TypeInv => TypeOK
  BY DEF TypeInv
<1> QED BY <1>1, <1>2, <1>3, PTL DEF Spec

-----------------------------------------------------------------------------
(***************************************************************************)
(* Two-level review: duties stay separated and a request's status follows  *)
(* from its decisions, although every reviewer decides on a status and a   *)
(* list of decisions it read one or two steps before it writes.            *)
(***************************************************************************)

\* A reviewer knows its request and is not the one who submitted it.
Reviewing(c) ==
    LET k == RequestKey(cmd[c]) IN
    /\ Exists(k)
    /\ requests[k].amount = request[c].amount
    /\ requests[k].submittedBy # cmd[c].by

\* A reviewer about to write a level has not decided a lower one, and decides
\* the second for an amount that needed it.  Others may have decided the level
\* since it was chosen: the repository refuses it then.
Deciding(c) ==
    LET list == approvals[RequestKey(cmd[c])] IN
    /\ level[c] <= Len(list) + 1
    /\ \A i \in 1 .. level[c] - 1 : list[i].decisionBy # cmd[c].by
    /\ level[c] = 2 => \E th \in Thresholds : request[c].amount >= th

CallReviews(c) ==
    /\ pc[c] = "CreateRefundRequest" => request[c].status = "PENDING_REVIEW"
    /\ pc[c] \in {"ListForLevel", "ReviewRefundRequest"} => Reviewing(c)
    /\ pc[c] = "ReviewRefundRequest" => Deciding(c)

CallsReview == \A c \in Calls : CallReviews(c)

ReviewInv == TypeInv /\ DutiesSeparated /\ StatusFollowsApprovals /\ CallsReview

-----------------------------------------------------------------------------
(* What a step does to the calls. *)

Stands(c) ==
    /\ pc'[c] = pc[c]
    /\ cmd'[c] = cmd[c]
    /\ request'[c] = request[c]
    /\ level'[c] = level[c]

\* A step of call d leaves every other call where it is.
LEMMA OthersStand ==
    ASSUME TypeInv, NEW c \in Calls, NEW d \in Calls, c # d,
           CallStep(d) \/ CallFails(d) \/ \E m \in Commands : Begin(d, m)
    PROVE  Stands(c)
<1> USE DEF TypeInv, TypeOK, CallTypeOK, Stands, Goto, Carry, Answer, Fail
<1>1. ASSUME NEW m \in Commands, Begin(d, m) PROVE Stands(c)
  BY <1>1, SMT DEF Begin
<1>2. CASE FindCreated(d)
  BY <1>2, SMT DEF FindCreated, AnswerCreated
<1>3. CASE FindOrder(d)
  BY <1>3, SMT DEF FindOrder
<1>4. CASE CreateRefundRequest(d)
  BY <1>4, SMT DEF CreateRefundRequest, AnswerCreated
<1>5. CASE FindReviewed(d)
  BY <1>5, SMT DEF FindReviewed
<1>6. CASE ListForLevel(d)
  BY <1>6, SMT DEF ListForLevel
<1>7. CASE ReviewRefundRequest(d)
  BY <1>7, SMT DEF ReviewRefundRequest
<1>8. CASE FindRecorded(d)
  BY <1>8, SMT DEF FindRecorded, CarryFirstResult, CarryRecorded
<1>9. CASE FindApproved(d)
  BY <1>9, SMT DEF FindApproved
<1>10. CASE FindRecordedAgain(d)
  BY <1>10, SMT DEF FindRecordedAgain, CarryFirstResult, CarryRecorded
<1>11. CASE RecordRefundTransaction(d)
  BY <1>11, SMT DEF RecordRefundTransaction, CarryFirstResult, CarryRecorded
<1>12. CASE GetRequest(d) \/ ListApprovals(d) \/ ListTransactions(d)
  BY <1>12, SMT DEF GetRequest, ListApprovals, ListTransactions
<1>13. CASE CallFails(d)
  BY <1>13, SMT DEF CallFails
<1> QED BY <1>1, <1>2, <1>3, <1>4, <1>5, <1>6, <1>7, <1>8, <1>9, <1>10, <1>11, <1>12, <1>13
        DEF CallStep

\* Where a call is about to write a creation or a review, or to take its level.
Approaches == {"CreateRefundRequest", "ListForLevel", "ReviewRefundRequest"}

\* Only three steps bring a call to a write of a creation or of a review.
LEMMA StepApproaches ==
    ASSUME TypeInv, NEW c \in Calls,
           CallStep(c) \/ CallFails(c) \/ \E m \in Commands : Begin(c, m)
    PROVE  \/ pc'[c] \notin Approaches
           \/ FindOrder(c) \/ FindReviewed(c) \/ ListForLevel(c)
<1> USE DEF TypeInv, TypeOK, CallTypeOK, Approaches, Goto, Carry, Answer, Fail
<1>1. ASSUME NEW m \in Commands, Begin(c, m) PROVE pc'[c] \notin Approaches
  BY <1>1, SMT DEF Begin, FirstCall
<1>2. CASE FindCreated(c)
  BY <1>2, SMT DEF FindCreated, AnswerCreated
<1>3. CASE CreateRefundRequest(c)
  BY <1>3, SMT DEF CreateRefundRequest, AnswerCreated
<1>4. CASE ReviewRefundRequest(c)
  BY <1>4, SMT DEF ReviewRefundRequest
<1>5. CASE FindRecorded(c)
  BY <1>5, SMT DEF FindRecorded, CarryFirstResult, CarryRecorded
<1>6. CASE FindApproved(c)
  <2>1. \/ pc' = [pc EXCEPT ![c] = "Done"]
        \/ pc' = [pc EXCEPT ![c] = "FindRecordedAgain"]
        \/ pc' = [pc EXCEPT ![c] = "RecordRefundTransaction"]
    BY <1>6, Zenon DEF FindApproved
  <2> QED BY <2>1, SMT
<1>7. CASE FindRecordedAgain(c)
  BY <1>7, SMT DEF FindRecordedAgain, CarryFirstResult, CarryRecorded
<1>8. CASE RecordRefundTransaction(c)
  BY <1>8, SMT DEF RecordRefundTransaction, CarryFirstResult, CarryRecorded
<1>9. CASE GetRequest(c) \/ ListApprovals(c) \/ ListTransactions(c)
  BY <1>9, SMT DEF GetRequest, ListApprovals, ListTransactions
<1>10. CASE CallFails(c)
  BY <1>10, SMT DEF CallFails
<1> QED BY <1>1, <1>2, <1>3, <1>4, <1>5, <1>6, <1>7, <1>8, <1>9, <1>10 DEF CallStep

\* So much of a step is visible to a call that creates or reviews.
LEMMA CallSteps ==
    ASSUME TypeInv, [Next]_vars, NEW c \in Calls
    PROVE  \/ Stands(c)
           \/ pc'[c] \notin Approaches
           \/ FindOrder(c) \/ FindReviewed(c) \/ ListForLevel(c)
<1>1. CASE \E d \in Calls : \/ CallStep(d) \/ CallFails(d)
                            \/ \E m \in Commands : Begin(d, m)
  BY <1>1, OthersStand, StepApproaches
<1>2. CASE Restart
  BY <1>2, SMT DEF Restart, Approaches
<1>3. CASE \E k \in OrderKeys, order \in OrderVersions : OrderChanges(k, order)
  BY <1>3 DEF OrderChanges, callVars, Stands
<1>4. CASE UNCHANGED vars
  BY <1>4 DEF vars, callVars, Stands
<1> QED BY <1>1, <1>2, <1>3, <1>4 DEF Next

-----------------------------------------------------------------------------
(* What a step does to the requests and their decisions. *)

Created(c) ==
    LET k == <<cmd[c].tenant, request[c].no>> IN
    /\ pc[c] = "CreateRefundRequest"
    /\ requests[k] = None
    /\ requests' = [requests EXCEPT ![k] = request[c]]
    /\ approvals' = approvals

Reviewed(c) ==
    LET k == RequestKey(cmd[c])
        approval == [level |-> level[c], status |-> cmd[c].decision,
                     decisionBy |-> cmd[c].by]
    IN  /\ pc[c] = "ReviewRefundRequest"
        /\ ReviewRefusal(k, level[c]) = "OK"
        /\ requests' = [requests EXCEPT ![k] = [@ EXCEPT !.status =
               ReviewedStatus(cmd[c].decision, request[c].amount, level[c], threshold)]]
        /\ approvals' = [approvals EXCEPT ![k] = Append(@, approval)]

Recorded(c) ==
    LET k == RequestKey(cmd[c]) IN
    /\ pc[c] = "RecordRefundTransaction"
    /\ requests[k] # None
    /\ requests[k].status = "APPROVED"
    /\ requests' = [requests EXCEPT ![k] = [@ EXCEPT !.status = cmd[c].status]]
    /\ approvals' = approvals

\* A step leaves requests and decisions alone, or is one of the three writes.
LEMMA StoreSteps ==
    ASSUME [Next]_vars
    PROVE  \/ requests' = requests /\ approvals' = approvals
           \/ \E c \in Calls : Created(c) \/ Reviewed(c) \/ Recorded(c)
<1> DEFINE Still == requests' = requests /\ approvals' = approvals
<1> USE DEF storeVars, ledgerVars
<1>1. ASSUME NEW c \in Calls, NEW m \in Commands, Begin(c, m) PROVE Still
  BY <1>1 DEF Begin
<1>2. ASSUME NEW c \in Calls, CallFails(c) PROVE Still
  BY <1>2 DEF CallFails
<1>3. CASE Restart
  BY <1>3 DEF Restart
<1>4. ASSUME NEW k \in OrderKeys, NEW order \in OrderVersions, OrderChanges(k, order)
      PROVE  Still
  BY <1>4 DEF OrderChanges
<1>5. CASE UNCHANGED vars
  BY <1>5 DEF vars
<1>6. ASSUME NEW c \in Calls, CallStep(c)
      PROVE  Still \/ Created(c) \/ Reviewed(c) \/ Recorded(c)
  <2>1. CASE CreateRefundRequest(c)
    <3>1. CASE UNCHANGED storeVars
      BY <3>1
    <3>2. CASE /\ CreateRefusal(cmd[c].tenant, request[c]) = "OK"
               /\ StoreCreated(cmd[c], request[c])
      <4>1. requests[<<cmd[c].tenant, request[c].no>>] = None
        BY <3>2, Zenon DEF CreateRefusal
      <4> QED BY <2>1, <3>2, <4>1 DEF CreateRefundRequest, StoreCreated, Created
    <3> QED BY <2>1, <3>1, <3>2, Zenon DEF CreateRefundRequest
  <2>2. CASE ReviewRefundRequest(c)
    BY <2>2, Zenon DEF ReviewRefundRequest, StoreReviewed, Reviewed
  <2>3. CASE RecordRefundTransaction(c)
    <3>1. CASE UNCHANGED storeVars
      BY <3>1
    <3>2. CASE /\ RecordRefusal(cmd[c]) = "OK"
               /\ StoreRecorded(cmd[c], request[c].status)
      <4>1. /\ requests[RequestKey(cmd[c])] # None
            /\ requests[RequestKey(cmd[c])].status = "APPROVED"
        BY <3>2, Zenon DEF RecordRefusal
      <4> QED BY <2>3, <3>2, <4>1, Zenon DEF RecordRefundTransaction, StoreRecorded, Recorded
    <3> QED BY <2>3, <3>1, <3>2, Zenon DEF RecordRefundTransaction
  <2>4. CASE FindCreated(c) \/ FindOrder(c) \/ FindReviewed(c) \/ ListForLevel(c)
    BY <2>4, Zenon DEF FindCreated, FindOrder, FindReviewed, ListForLevel
  <2>5. CASE FindRecorded(c) \/ FindApproved(c) \/ FindRecordedAgain(c)
    BY <2>5, Zenon DEF FindRecorded, FindApproved, FindRecordedAgain
  <2>6. CASE GetRequest(c) \/ ListApprovals(c) \/ ListTransactions(c)
    BY <2>6, Zenon DEF GetRequest, ListApprovals, ListTransactions
  <2> QED BY <1>6, <2>1, <2>2, <2>3, <2>4, <2>5, <2>6 DEF CallStep
<1> QED BY <1>1, <1>2, <1>3, <1>4, <1>5, <1>6 DEF Next

-----------------------------------------------------------------------------

\* Requests keep their amount and submitter, and lists of decisions only grow.
Grows ==
    \A k \in RequestKeys :
        /\ Exists(k) => /\ Exists(k)'
                        /\ requests'[k].amount = requests[k].amount
                        /\ requests'[k].submittedBy = requests[k].submittedBy
        /\ Len(approvals'[k]) >= Len(approvals[k])
        /\ \A i \in 1 .. Len(approvals[k]) : approvals'[k][i] = approvals[k][i]

\* The keys of the steps that write.
LEMMA WrittenKeys ==
    ASSUME TypeInv, NEW c \in Calls
    PROVE  /\ Created(c) => <<cmd[c].tenant, request[c].no>> \in RequestKeys
           /\ Reviewed(c) \/ Recorded(c) => RequestKey(cmd[c]) \in RequestKeys
<1>1. CASE Created(c)
  <2>1. cmd[c] \in CreateCommand /\ request[c] \in Request
    BY <1>1 DEF TypeInv, CallsHold, Created, CreateCalls, CarryingCalls
  <2> QED BY <1>1, <2>1, SMT DEF CreateCommand, Request, RequestKeys, Created, Reviewed, Recorded
<1>2. CASE Reviewed(c)
  <2>1. cmd[c] \in ReviewCommand
    BY <1>2 DEF TypeInv, CallsHold, Reviewed, ReviewCalls
  <2> QED BY <1>2, <2>1, SMT DEF ReviewCommand, RequestKey, RequestKeys, Created, Reviewed
<1>3. CASE Recorded(c)
  <2>1. cmd[c] \in RecordCommand
    BY <1>3 DEF TypeInv, CallsHold, Recorded, RecordCalls
  <2> QED BY <1>3, <2>1, SMT DEF RecordCommand, RequestKey, RequestKeys, Created, Recorded
<1> QED BY <1>1, <1>2, <1>3

\* The decision a reviewer writes.
Decision(c) ==
    [level |-> level[c], status |-> cmd[c].decision, decisionBy |-> cmd[c].by]

\* What a reviewer that writes finds in the store.
LEMMA ReviewedFinds ==
    ASSUME TypeInv, NEW c \in Calls, Reviewed(c)
    PROVE  LET k == RequestKey(cmd[c]) IN
           /\ cmd[c] \in ReviewCommand
           /\ request[c] \in Request
           /\ level[c] \in Levels
           /\ requests[k] \in Request
           /\ requests[k].status = "PENDING_REVIEW"
           /\ \A i \in DOMAIN approvals[k] : approvals[k][i].level # level[c]
           /\ approvals[k] \in Seq(Approval)
           /\ Decision(c) \in Approval
<1> DEFINE k == RequestKey(cmd[c])
<1>1. /\ cmd[c] \in ReviewCommand
      /\ request[c] \in Request
      /\ level[c] \in Levels
  BY DEF TypeInv, CallsHold, Reviewed, ReviewCalls, CarryingCalls
<1>2. k \in RequestKeys
  BY WrittenKeys
<1>3. /\ requests[k] # None
      /\ requests[k].status = "PENDING_REVIEW"
      /\ \A i \in DOMAIN approvals[k] : approvals[k][i].level # level[c]
  BY Zenon DEF Reviewed, ReviewRefusal
<1>4. requests[k] \in Request /\ approvals[k] \in Seq(Approval)
  BY <1>2, <1>3 DEF TypeInv, TypeOK, StoreTypeOK
<1>5. Decision(c) \in Approval
  BY <1>1, SMT DEF Decision, Approval, ReviewCommand
<1> QED BY <1>1, <1>3, <1>4, <1>5

\* A request whose status changes is the same request otherwise.
LEMMA StatusChange ==
    ASSUME NEW r \in Request, NEW s \in RequestStatuses
    PROVE  LET q == [r EXCEPT !.status = s] IN
           /\ q \in Request
           /\ q # None
           /\ q.status = s
           /\ q.amount = r.amount
           /\ q.submittedBy = r.submittedBy
           /\ q.orderNo = r.orderNo
           /\ q.no = r.no
<1> DEFINE q == [r EXCEPT !.status = s]
<1>1. q \in Request
  BY SMT DEF Request
<1>2. q.status = s /\ q.amount = r.amount /\ q.submittedBy = r.submittedBy
      /\ q.orderNo = r.orderNo /\ q.no = r.no
  BY SMT DEF Request
<1> HIDE DEF q
<1> QED BY <1>1, <1>2, NoneAssumption DEF q

\* No step forgets a request, its submitter or amount, or a decision on it.
LEMMA StepsGrow ==
    ASSUME TypeInv, TypeInv', [Next]_vars
    PROVE  Grows
<1> USE DEF TypeInv, TypeOK, StoreTypeOK
<1>1. CASE requests' = requests /\ approvals' = approvals
  <2>1. ASSUME NEW k \in RequestKeys
        PROVE  Len(approvals[k]) \in Nat
    BY LenProperties
  <2> QED BY <1>1, <2>1, SMT DEF Grows, Exists
<1>2. ASSUME NEW c \in Calls, Created(c) PROVE Grows
  <2> DEFINE k == <<cmd[c].tenant, request[c].no>>
  <2>1. k \in RequestKeys /\ requests[k] = None
    BY <1>2, WrittenKeys DEF Created
  <2>2. requests' = [requests EXCEPT ![k] = request[c]] /\ approvals' = approvals
    BY <1>2 DEF Created
  <2> HIDE DEF k
  <2>3. ASSUME NEW j \in RequestKeys, Exists(j) PROVE requests'[j] = requests[j]
    BY <2>1, <2>2, <2>3, SMT DEF Exists
  <2>4. ASSUME NEW j \in RequestKeys PROVE Len(approvals[j]) \in Nat
    BY LenProperties
  <2> QED BY <2>2, <2>3, <2>4, SMT DEF Grows, Exists
<1>3. ASSUME NEW c \in Calls, Reviewed(c) PROVE Grows
  <2> DEFINE k == RequestKey(cmd[c])
             status == ReviewedStatus(cmd[c].decision, request[c].amount, level[c], threshold)
  <2>1. /\ k \in RequestKeys
        /\ requests[k] \in Request
        /\ approvals[k] \in Seq(Approval)
        /\ Decision(c) \in Approval
    BY <1>3, WrittenKeys, ReviewedFinds
  <2>2. /\ approvals' = [approvals EXCEPT ![k] = Append(@, Decision(c))]
        /\ requests' = [requests EXCEPT ![k] = [@ EXCEPT !.status = status]]
    BY <1>3 DEF Reviewed, Decision
  <2>3. status \in RequestStatuses
    BY ReviewedStatusType, Zenon DEF RequestStatuses
  <2> HIDE DEF k, status
  <2>4. ASSUME NEW j \in RequestKeys, Exists(j)
        PROVE  /\ Exists(j)'
               /\ requests'[j].amount = requests[j].amount
               /\ requests'[j].submittedBy = requests[j].submittedBy
    <3> DEFINE q == [requests[j] EXCEPT !.status = status]
    <3>1. requests[j] \in Request
      BY <2>4 DEF Exists
    <3>2. requests'[j] = requests[j] \/ requests'[j] = q
      BY <2>1, <2>2, Zenon
    <3>3. /\ q # None
          /\ q.amount = requests[j].amount
          /\ q.submittedBy = requests[j].submittedBy
      BY <2>3, <3>1, StatusChange
    <3> HIDE DEF q
    <3> QED BY <2>4, <3>2, <3>3, SMT DEF Exists
  <2>5. ASSUME NEW j \in RequestKeys
        PROVE  /\ Len(approvals'[j]) >= Len(approvals[j])
               /\ \A i \in 1 .. Len(approvals[j]) : approvals'[j][i] = approvals[j][i]
    <3>1. CASE j = k
      BY <2>1, <2>2, <3>1, AppendProperties, LenProperties, SMT
    <3>2. CASE j # k
      BY <2>2, <3>2, LenProperties, SMT
    <3> QED BY <3>1, <3>2
  <2> QED BY <2>4, <2>5 DEF Grows
<1>4. ASSUME NEW c \in Calls, Recorded(c) PROVE Grows
  <2> DEFINE k == RequestKey(cmd[c])
             status == cmd[c].status
  <2>1. k \in RequestKeys /\ requests[k] \in Request
    BY <1>4, WrittenKeys DEF Recorded
  <2>2. /\ requests' = [requests EXCEPT ![k] = [@ EXCEPT !.status = status]]
        /\ approvals' = approvals
    BY <1>4 DEF Recorded
  <2>3. status \in RequestStatuses
    BY <1>4, SMT DEF CallsHold, Recorded, RecordCalls, RecordCommand,
       TransactionStatuses, RequestStatuses
  <2> HIDE DEF k, status
  <2>4. ASSUME NEW j \in RequestKeys, Exists(j)
        PROVE  /\ Exists(j)'
               /\ requests'[j].amount = requests[j].amount
               /\ requests'[j].submittedBy = requests[j].submittedBy
    <3> DEFINE q == [requests[j] EXCEPT !.status = status]
    <3>1. requests[j] \in Request
      BY <2>4 DEF Exists
    <3>2. requests'[j] = requests[j] \/ requests'[j] = q
      BY <2>1, <2>2, Zenon
    <3>3. /\ q # None
          /\ q.amount = requests[j].amount
          /\ q.submittedBy = requests[j].submittedBy
      BY <2>3, <3>1, StatusChange
    <3> HIDE DEF q
    <3> QED BY <2>4, <3>2, <3>3, SMT DEF Exists
  <2>5. ASSUME NEW j \in RequestKeys PROVE Len(approvals[j]) \in Nat
    BY LenProperties
  <2> QED BY <2>2, <2>4, <2>5, SMT DEF Grows
<1> QED BY <1>1, <1>2, <1>3, <1>4, StoreSteps

-----------------------------------------------------------------------------
(* What a reviewer has read stays good enough. *)

\* Other calls do not invalidate what a standing reviewer relies on.
LEMMA StandingReviewer ==
    ASSUME TypeInv, NEW c \in Calls, CallReviews(c), Stands(c), Grows
    PROVE  CallReviews(c)'
<1> DEFINE k == RequestKey(cmd[c])
<1>1. ASSUME pc[c] \in {"ListForLevel", "ReviewRefundRequest"}
      PROVE  k \in RequestKeys /\ RequestKey(cmd'[c]) = k /\ approvals[k] \in Seq(Approval)
  <2>1. cmd[c] \in ReviewCommand
    BY <1>1 DEF TypeInv, CallsHold, ReviewCalls
  <2>2. k \in RequestKeys
    BY <2>1, SMT DEF ReviewCommand, RequestKey, RequestKeys
  <2> QED BY <2>2 DEF Stands, TypeInv, TypeOK, StoreTypeOK
<1> HIDE DEF k
<1>2. pc'[c] = "CreateRefundRequest" => request'[c].status = "PENDING_REVIEW"
  BY DEF Stands, CallReviews
<1>3. ASSUME pc'[c] \in {"ListForLevel", "ReviewRefundRequest"} PROVE Reviewing(c)'
  <2>1. pc[c] \in {"ListForLevel", "ReviewRefundRequest"}
    BY <1>3 DEF Stands
  <2>2. /\ Exists(k)
        /\ requests[k].amount = request[c].amount
        /\ requests[k].submittedBy # cmd[c].by
    BY <2>1 DEF CallReviews, Reviewing, k
  <2>3. /\ requests'[k] # None
        /\ requests'[k].amount = requests[k].amount
        /\ requests'[k].submittedBy = requests[k].submittedBy
    BY <1>1, <2>1, <2>2 DEF Grows, Exists
  <2>4. RequestKey(cmd'[c]) = k /\ request'[c] = request[c] /\ cmd'[c] = cmd[c]
    BY <1>1, <2>1 DEF Stands
  <2> QED BY <2>2, <2>3, <2>4, Zenon DEF Reviewing, Exists
<1>4. ASSUME pc'[c] = "ReviewRefundRequest" PROVE Deciding(c)'
  <2>1. pc[c] = "ReviewRefundRequest"
    BY <1>4 DEF Stands
  <2>2. /\ level[c] <= Len(approvals[k]) + 1
        /\ \A i \in 1 .. level[c] - 1 : approvals[k][i].decisionBy # cmd[c].by
        /\ level[c] = 2 => \E th \in Thresholds : request[c].amount >= th
    BY <2>1 DEF CallReviews, Deciding, k
  <2>3. k \in RequestKeys /\ RequestKey(cmd'[c]) = k /\ approvals[k] \in Seq(Approval)
    BY <1>1, <2>1
  <2>4. /\ Len(approvals'[k]) >= Len(approvals[k])
        /\ \A i \in 1 .. Len(approvals[k]) : approvals'[k][i] = approvals[k][i]
    BY <2>3 DEF Grows
  <2>5. /\ request'[c] = request[c] /\ cmd'[c] = cmd[c] /\ level'[c] = level[c]
        /\ level[c] \in Levels /\ Len(approvals[k]) \in Nat
    BY <2>1, <2>3, LenProperties DEF Stands, TypeInv, CallsHold
  <2> QED BY <2>2, <2>3, <2>4, <2>5, SMT DEF Deciding, Levels
<1> QED BY <1>2, <1>3, <1>4 DEF CallReviews

\* A request that is ready to be stored is new.
LEMMA FindOrderReviews ==
    ASSUME TypeInv, NEW c \in Calls, FindOrder(c)
    PROVE  CallReviews(c)'
<1> USE DEF TypeInv, TypeOK, CallTypeOK
<1>1. CASE pc' = [pc EXCEPT ![c] = "Done"]
  BY <1>1, SMT DEF CallReviews
<1>2. CASE \E o, n : Carry(c, NewRequest(cmd[c], o, n), "CreateRefundRequest")
  <2>1. PICK o, n : Carry(c, NewRequest(cmd[c], o, n), "CreateRefundRequest")
    BY <1>2
  <2>2. pc'[c] = "CreateRefundRequest" /\ request'[c] = NewRequest(cmd[c], o, n)
    BY <2>1, SMT DEF Carry, Goto
  <2> QED BY <2>2, SMT DEF NewRequest, CallReviews
<1> QED BY <1>1, <1>2, Zenon DEF FindOrder, Fail, Answer, Goto

\* A reviewer that goes on has found another's request.
LEMMA FindReviewedReviews ==
    ASSUME TypeInv, NEW c \in Calls, FindReviewed(c)
    PROVE  CallReviews(c)'
<1> USE DEF TypeInv, TypeOK, CallTypeOK
<1> DEFINE k == RequestKey(cmd[c])
<1>1. CASE pc' = [pc EXCEPT ![c] = "Done"]
  BY <1>1, SMT DEF CallReviews
<1>2. CASE /\ FindReviewedRefusal(cmd[c]) = "OK"
           /\ Carry(c, requests[k], "ListForLevel")
           /\ UNCHANGED <<cmd, level, reply>>
  <2>1. /\ pc'[c] = "ListForLevel" /\ request'[c] = requests[k] /\ cmd'[c] = cmd[c]
        /\ requests' = requests
    BY <1>2, SMT DEF Carry, Goto, FindReviewed, storeVars, ledgerVars
  <2>2. Exists(k) /\ requests[k].submittedBy # cmd[c].by
    BY <1>2, Zenon DEF FindReviewedRefusal, Exists
  <2>3. Reviewing(c)'
    BY <2>1, <2>2 DEF Reviewing, Exists
  <2> QED BY <2>1, <2>3 DEF CallReviews
<1> QED BY <1>1, <1>2, Zenon DEF FindReviewed, Fail, Answer, Goto

\* The level a reviewer chooses is at most one above the levels decided, and
\* none of those was its own.
LEMMA ListForLevelReviews ==
    ASSUME TypeInv, DutiesSeparated, NEW c \in Calls, CallReviews(c), ListForLevel(c)
    PROVE  CallReviews(c)'
<1> DEFINE k == RequestKey(cmd[c])
           list == approvals[k]
           next == NextApprovalLevel(request[c].amount, list, threshold)
<1>1. CASE pc' = [pc EXCEPT ![c] = "Done"]
  BY <1>1, SMT DEF CallReviews, TypeInv, TypeOK, CallTypeOK
<1>2. CASE /\ ListForLevelRefusal(cmd[c], list, next) = "OK"
           /\ Goto(c, "ReviewRefundRequest")
           /\ level' = [level EXCEPT ![c] = next]
           /\ UNCHANGED <<cmd, request, reply>>
  <2>1. cmd[c] \in ReviewCommand /\ request[c] \in Request /\ pc[c] = "ListForLevel"
    BY DEF ListForLevel, TypeInv, CallsHold, ReviewCalls, CarryingCalls
  <2>2. k \in RequestKeys
    BY <2>1, SMT DEF ReviewCommand, RequestKey, RequestKeys
  <2>3. list \in Seq(Approval)
    BY <2>2 DEF TypeInv, TypeOK, StoreTypeOK
  <2>4. request[c].amount \in Nat /\ threshold \in Nat /\ threshold \in Thresholds
    BY <2>1, ServiceAssumption, SMT DEF TypeInv, TypeOK, ProcessTypeOK, Request
  <2>5. /\ next \in 1 .. 3
        /\ request[c].amount < threshold => next = 1
        /\ next = 1 \/ \E i \in DOMAIN list : list[i].level = next - 1
    BY <2>3, <2>4, NextApprovalLevelType
  <2>6. ~ (next > 2) /\ \A i \in DOMAIN list : list[i].decisionBy # cmd[c].by
    BY <1>2, Zenon DEF ListForLevelRefusal
  <2>7. \A i \in DOMAIN list : list[i].level = i
    BY <2>2 DEF DutiesSeparated
  <2>8. /\ pc'[c] = "ReviewRefundRequest" /\ level'[c] = next
        /\ cmd' = cmd /\ request' = request /\ requests' = requests /\ approvals' = approvals
    BY <1>2, SMT DEF Goto, TypeInv, TypeOK, CallTypeOK, ListForLevel, storeVars, ledgerVars
  <2>9. Reviewing(c)'
    BY <2>1, <2>8 DEF CallReviews, Reviewing, Exists
  <2>10. Len(list) \in Nat /\ DOMAIN list = 1 .. Len(list)
    BY <2>3, LenProperties
  <2> HIDE DEF next, list
  <2>11. /\ next <= Len(list) + 1
         /\ \A i \in 1 .. next - 1 : list[i].decisionBy # cmd[c].by
    BY <2>5, <2>6, <2>7, <2>10, SMT
  <2>12. next = 2 => request[c].amount >= threshold
    BY <2>4, <2>5, SMT
  <2>13. Deciding(c)'
    BY <2>4, <2>8, <2>11, <2>12, Zenon DEF Deciding, list
  <2> QED BY <2>8, <2>9, <2>13 DEF CallReviews
<1> QED BY <1>1, <1>2, Zenon DEF ListForLevel, Fail, Answer, Goto

\* What a reviewing call knows stays true, whatever the other calls write.
LEMMA NextReviews ==
    ASSUME ReviewInv, TypeInv', [Next]_vars
    PROVE  CallsReview'
<1> SUFFICES ASSUME NEW c \in Calls PROVE CallReviews(c)'
  BY DEF CallsReview
<1>1. CallReviews(c)
  BY DEF ReviewInv, CallsReview
<1>2. Grows
  BY StepsGrow DEF ReviewInv
<1>3. CASE pc'[c] \notin Approaches
  BY <1>3 DEF CallReviews, Approaches
<1> QED BY <1>1, <1>2, <1>3, CallSteps, StandingReviewer, FindOrderReviews,
        FindReviewedReviews, ListForLevelReviews DEF ReviewInv

-----------------------------------------------------------------------------
(* What a review writes. *)

\* A decision that is written is the next one, by someone new, after approvals.
LEMMA DecisionFollows ==
    ASSUME ReviewInv, NEW c \in Calls, Reviewed(c)
    PROVE  LET k == RequestKey(cmd[c])
               list == approvals[k]
           IN  /\ level[c] = Len(list) + 1
               /\ \A i \in 1 .. Len(list) : /\ list[i].status = "APPROVED"
                                            /\ list[i].decisionBy # cmd[c].by
               /\ requests[k].amount = request[c].amount
               /\ requests[k].submittedBy # cmd[c].by
               /\ level[c] = 2 => \E th \in Thresholds : requests[k].amount >= th
<1> DEFINE k == RequestKey(cmd[c])
           list == approvals[k]
<1>1. TypeInv
  BY DEF ReviewInv
<1>2. k \in RequestKeys
  BY <1>1, WrittenKeys
<1>3. /\ level[c] \in Levels
      /\ requests[k] \in Request
      /\ requests[k].status = "PENDING_REVIEW"
      /\ \A i \in DOMAIN list : list[i].level # level[c]
      /\ list \in Seq(Approval)
  BY <1>1, ReviewedFinds
<1>4. pc[c] = "ReviewRefundRequest" /\ CallReviews(c)
  BY DEF Reviewed, ReviewInv, CallsReview
<1>5. /\ requests[k].amount = request[c].amount
      /\ requests[k].submittedBy # cmd[c].by
  BY <1>4 DEF CallReviews, Reviewing
<1>6. /\ level[c] <= Len(list) + 1
      /\ \A i \in 1 .. level[c] - 1 : list[i].decisionBy # cmd[c].by
      /\ level[c] = 2 => \E th \in Thresholds : request[c].amount >= th
  BY <1>4 DEF CallReviews, Deciding
<1>7. Len(list) \in Nat /\ DOMAIN list = 1 .. Len(list)
  BY <1>3, LenProperties
<1>8. /\ \A i \in DOMAIN list : list[i].level = i
      /\ \A i \in DOMAIN list : \A j \in 1 .. i - 1 : list[j].status = "APPROVED"
  BY <1>2 DEF ReviewInv, DutiesSeparated
<1>9. ~ (list # <<>> /\ list[Len(list)].status = "REJECTED")
  BY <1>2, <1>3, NoneAssumption DEF ReviewInv, StatusFollowsApprovals, Exists
<1>10. \A i \in DOMAIN list : list[i].status \in {"APPROVED", "REJECTED"}
  <2>1. \A i \in 1 .. Len(list) : list[i] \in Approval
    BY <1>3, ElementOfSeq
  <2> QED BY <1>7, <2>1, SMT DEF Approval
<1>11. Len(list) # 0 => list # <<>>
  BY EmptySeq
<1> HIDE DEF list
<1>12. level[c] = Len(list) + 1
  BY <1>3, <1>6, <1>7, <1>8, SMT DEF Levels
<1>13. \A i \in 1 .. Len(list) : list[i].status = "APPROVED"
  BY <1>7, <1>8, <1>9, <1>10, <1>11, SMT
<1> QED BY <1>5, <1>6, <1>7, <1>12, <1>13, SMT DEF list

\* The duties of one request, for its requests and decisions taken apart.
Separated(r, list) ==
    \A i \in DOMAIN list :
        /\ list[i].level = i
        /\ list[i].decisionBy # r.submittedBy
        /\ \A j \in 1 .. i - 1 : /\ list[j].status = "APPROVED"
                                 /\ list[j].decisionBy # list[i].decisionBy

\* A list stays separated when the next level is decided by someone new.
LEMMA AppendSeparated ==
    ASSUME NEW list \in Seq(Approval), NEW a \in Approval, NEW r, NEW q,
           Separated(r, list), q.submittedBy = r.submittedBy,
           a.level = Len(list) + 1,
           a.decisionBy # r.submittedBy,
           \A i \in 1 .. Len(list) : /\ list[i].status = "APPROVED"
                                     /\ list[i].decisionBy # a.decisionBy
    PROVE  Separated(q, Append(list, a))
<1> DEFINE longer == Append(list, a)
<1>1. Len(list) \in Nat /\ DOMAIN list = 1 .. Len(list)
  BY LenProperties
<1>2. /\ DOMAIN longer = 1 .. Len(list) + 1
      /\ \A i \in 1 .. Len(list) : longer[i] = list[i]
      /\ longer[Len(list) + 1] = a
  BY <1>1, AppendProperties, LenProperties, SMT
<1> HIDE DEF longer
<1>3. ASSUME NEW i \in 1 .. Len(list) + 1
      PROVE  /\ longer[i].level = i
             /\ longer[i].decisionBy # q.submittedBy
             /\ \A j \in 1 .. i - 1 : /\ longer[j].status = "APPROVED"
                                      /\ longer[j].decisionBy # longer[i].decisionBy
  BY <1>1, <1>2, SMT DEF Separated
<1> QED BY <1>2, <1>3 DEF Separated, longer

\* No step lets one person decide twice, or on a request of his own.
LEMMA NextDuties ==
    ASSUME ReviewInv, TypeInv', [Next]_vars
    PROVE  DutiesSeparated'
<1> DEFINE Good(r, list) == list = <<>> \/ (r # None /\ Separated(r, list))
<1>1. TypeInv
  BY DEF ReviewInv
<1>2. ASSUME NEW j \in RequestKeys PROVE Good(requests[j], approvals[j])
  <2>1. approvals[j] \in Seq(Approval)
    BY <1>1 DEF TypeInv, TypeOK, StoreTypeOK
  <2>2. approvals[j] = <<>> \/ DOMAIN approvals[j] # {}
    <3>1. Len(approvals[j]) = 0 => approvals[j] = <<>>
      BY <2>1, EmptySeq
    <3>2. Len(approvals[j]) \in Nat /\ DOMAIN approvals[j] = 1 .. Len(approvals[j])
      BY <2>1, LenProperties
    <3>3. Len(approvals[j]) # 0 => 1 \in DOMAIN approvals[j]
      BY <3>2, SMT
    <3> QED BY <3>1, <3>3
  <2> QED BY <2>2 DEF ReviewInv, DutiesSeparated, Exists, Separated
<1>3. ASSUME NEW j \in RequestKeys PROVE Good(requests'[j], approvals'[j])
  <2>1. CASE requests' = requests /\ approvals' = approvals
    BY <1>2, <2>1
  <2>2. ASSUME NEW c \in Calls, Created(c) PROVE Good(requests'[j], approvals'[j])
    <3> DEFINE k == <<cmd[c].tenant, request[c].no>>
    <3>1. /\ requests[k] = None /\ requests' = [requests EXCEPT ![k] = request[c]]
          /\ approvals' = approvals
      BY <2>2 DEF Created
    <3> HIDE DEF k
    <3>2. CASE j = k
      BY <1>2, <3>1, <3>2
    <3>3. CASE j # k
      <4>1. requests'[j] = requests[j]
        BY <1>1, <3>1, <3>3 DEF TypeInv, TypeOK, StoreTypeOK
      <4> QED BY <1>2, <3>1, <4>1
    <3> QED BY <3>2, <3>3
  <2>3. ASSUME NEW c \in Calls, Reviewed(c) PROVE Good(requests'[j], approvals'[j])
    <3> DEFINE k == RequestKey(cmd[c])
               list == approvals[k]
               a == Decision(c)
               status == ReviewedStatus(cmd[c].decision, request[c].amount, level[c], threshold)
    <3>1. k \in RequestKeys
      BY <1>1, <2>3, WrittenKeys
    <3>2. /\ requests' = [requests EXCEPT ![k] = [@ EXCEPT !.status = status]]
          /\ approvals' = [approvals EXCEPT ![k] = Append(@, a)]
      BY <2>3 DEF Reviewed, Decision
    <3>3. requests[k] \in Request /\ list \in Seq(Approval) /\ a \in Approval
      BY <1>1, <2>3, ReviewedFinds
    <3>4. /\ level[c] = Len(list) + 1
          /\ \A i \in 1 .. Len(list) : /\ list[i].status = "APPROVED"
                                       /\ list[i].decisionBy # cmd[c].by
          /\ requests[k].submittedBy # cmd[c].by
      BY <2>3, DecisionFollows
    <3>5. a.level = level[c] /\ a.decisionBy = cmd[c].by
      BY DEF Decision
    <3>6. status \in RequestStatuses
      BY ReviewedStatusType, Zenon DEF RequestStatuses
    <3>7. CASE j = k
      <4> DEFINE q == [requests[k] EXCEPT !.status = status]
      <4> HIDE DEF status
      <4>1. q # None /\ q.submittedBy = requests[k].submittedBy
        BY <3>3, <3>6, StatusChange
      <4>2. requests'[j] = q /\ approvals'[j] = Append(list, a)
        BY <1>1, <3>1, <3>2, <3>7 DEF TypeInv, TypeOK, StoreTypeOK
      <4>3. Separated(requests[k], list)
        <5>1. DOMAIN list # {} => list # <<>>
          OBVIOUS
        <5> QED BY <1>2, <3>1, <5>1 DEF Separated
      <4> HIDE DEF q, a, k, list
      <4>4. Separated(q, Append(list, a))
        BY <3>3, <3>4, <3>5, <4>1, <4>3, AppendSeparated
      <4> QED BY <4>1, <4>2, <4>4
    <3>8. CASE j # k
      BY <1>1, <1>2, <3>2, <3>8 DEF TypeInv, TypeOK, StoreTypeOK
    <3> QED BY <3>7, <3>8
  <2>4. ASSUME NEW c \in Calls, Recorded(c) PROVE Good(requests'[j], approvals'[j])
    <3>1. approvals' = approvals
      BY <2>4 DEF Recorded
    <3>2. requests[j] # None => requests'[j] # None /\ requests'[j].submittedBy = requests[j].submittedBy
      BY <1>1, StepsGrow DEF Grows, Exists
    <3>3. \A r, q, list : Separated(r, list) /\ q.submittedBy = r.submittedBy
                             => Separated(q, list)
      BY Zenon DEF Separated
    <3> QED BY <1>2, <3>1, <3>2, <3>3, Zenon
  <2> QED BY <2>1, <2>2, <2>3, <2>4, StoreSteps
<1>4. DOMAIN <<>> = {}
  OBVIOUS
<1> QED BY <1>3, <1>4, Zenon DEF DutiesSeparated, Exists, Separated

-----------------------------------------------------------------------------

\* What the status of request r says of its decisions.
Follows(r, list) ==
    LET rejected == list # <<>> /\ list[Len(list)].status = "REJECTED" IN
    /\ r.status = "REJECTED" <=> rejected
    /\ r.status \in {"APPROVED"} \cup Settled =>
         /\ Len(list) \in 1 .. 2
         /\ (\A th \in Thresholds : r.amount >= th) => Len(list) = 2
         /\ (\A th \in Thresholds : r.amount < th) => Len(list) = 1
    /\ r.status = "PENDING_REVIEW" => Len(list) <= 1

\* A decision leaves the request with the status that its list now calls for.
LEMMA ReviewFollows ==
    ASSUME NEW r \in Request, NEW list \in Seq(Approval), NEW a \in Approval,
           NEW q, NEW th \in Thresholds,
           r.status = "PENDING_REVIEW", Follows(r, list),
           a.level = Len(list) + 1,
           a.level = 2 => \E lower \in Thresholds : r.amount >= lower,
           q.amount = r.amount,
           q.status = ReviewedStatus(a.status, r.amount, a.level, th)
    PROVE  Follows(q, Append(list, a))
<1> DEFINE longer == Append(list, a)
<1>1. /\ Len(list) \in Nat /\ Len(list) <= 1
      /\ r.amount \in Nat /\ Thresholds \subseteq Nat
      /\ a.level \in 1 .. 2 /\ a.status \in {"APPROVED", "REJECTED"}
  BY LenProperties, ServiceAssumption, SMT DEF Follows, Request, Approval, Levels
<1>2. /\ Len(longer) = Len(list) + 1
      /\ longer[Len(list) + 1] = a
  BY AppendProperties
<1>3. longer # <<>>
  <2>1. Len(<<>>) = 0
    OBVIOUS
  <2> QED BY <1>1, <1>2, <2>1, SMT
<1> HIDE DEF longer
<1>4. CASE a.status = "REJECTED"
  <2>1. q.status = "REJECTED"
    BY <1>4, SMT DEF ReviewedStatus
  <2> QED BY <1>1, <1>2, <1>3, <1>4, <2>1, SMT DEF Follows, longer, Settled
<1>5. CASE a.status = "APPROVED" /\ a.level = 1 /\ r.amount >= th
  <2>1. q.status = "PENDING_REVIEW"
    BY <1>5, SMT DEF ReviewedStatus, RequiresHighAmountApproval
  <2> QED BY <1>1, <1>2, <1>3, <1>5, <2>1, SMT DEF Follows, longer, Settled
<1>6. CASE a.status = "APPROVED" /\ (a.level = 2 \/ r.amount < th)
  <2>1. q.status = "APPROVED"
    <3>1. CASE a.level = 2
      BY <1>6, <3>1, SMT DEF ReviewedStatus
    <3>2. CASE r.amount < th
      BY <1>1, <1>6, <3>2, SMT DEF ReviewedStatus, RequiresHighAmountApproval
    <3> QED BY <1>6, <3>1, <3>2
  <2>2. (\A t \in Thresholds : r.amount >= t) => a.level = 2
    BY <1>1, <1>6, SMT
  <2>3. (\A t \in Thresholds : r.amount < t) => a.level = 1
    BY <1>1, SMT
  <2> QED BY <1>1, <1>2, <1>3, <1>6, <2>1, <2>2, <2>3, SMT DEF Follows, longer, Settled
<1> QED BY <1>1, <1>4, <1>5, <1>6, SMT

\* No step takes a status its decisions do not call for.
LEMMA NextFollows ==
    ASSUME ReviewInv, TypeInv', [Next]_vars
    PROVE  StatusFollowsApprovals'
<1> DEFINE Good(r, list) == r # None => Follows(r, list)
<1>1. TypeInv
  BY DEF ReviewInv
<1>2. ASSUME NEW j \in RequestKeys PROVE Good(requests[j], approvals[j])
  BY DEF ReviewInv, StatusFollowsApprovals, Exists, Follows
<1>3. ASSUME NEW j \in RequestKeys PROVE Good(requests'[j], approvals'[j])
  <2>1. CASE requests' = requests /\ approvals' = approvals
    BY <1>2, <2>1
  <2>2. ASSUME NEW c \in Calls, Created(c) PROVE Good(requests'[j], approvals'[j])
    <3> DEFINE k == <<cmd[c].tenant, request[c].no>>
    <3>1. /\ requests[k] = None /\ requests' = [requests EXCEPT ![k] = request[c]]
          /\ approvals' = approvals
          /\ k \in RequestKeys
      BY <1>1, <2>2, WrittenKeys DEF Created
    <3>2. request[c].status = "PENDING_REVIEW"
      BY <2>2 DEF Created, ReviewInv, CallsReview, CallReviews
    <3>3. approvals[k] = <<>>
      <4>1. DOMAIN approvals[k] = {}
        BY <3>1 DEF ReviewInv, DutiesSeparated, Exists
      <4>2. approvals[k] \in Seq(Approval)
        BY <1>1, <3>1 DEF TypeInv, TypeOK, StoreTypeOK
      <4>3. Len(approvals[k]) \in Nat /\ DOMAIN approvals[k] = 1 .. Len(approvals[k])
        BY <4>2, LenProperties
      <4>4. Len(approvals[k]) = 0
        <5> DEFINE n == Len(approvals[k])
        <5>1. n \in Nat /\ 1 .. n = {}
          BY <4>1, <4>3
        <5> HIDE DEF n
        <5>2. n = 0
          BY <5>1, SMT
        <5> QED BY <5>2 DEF n
      <4> QED BY <4>2, <4>4, EmptySeq
    <3>4. \A r : r.status = "PENDING_REVIEW" => Follows(r, <<>>)
      BY SMT DEF Follows, Settled
    <3> HIDE DEF k
    <3>5. requests'[j] = requests[j] \/ (j = k /\ requests'[j] = request[c])
      BY <1>1, <3>1 DEF TypeInv, TypeOK, StoreTypeOK
    <3> QED BY <1>2, <3>1, <3>2, <3>3, <3>4, <3>5
  <2>3. ASSUME NEW c \in Calls, Reviewed(c) PROVE Good(requests'[j], approvals'[j])
    <3> DEFINE k == RequestKey(cmd[c])
               list == approvals[k]
               a == Decision(c)
               status == ReviewedStatus(cmd[c].decision, request[c].amount, level[c], threshold)
    <3>1. k \in RequestKeys
      BY <1>1, <2>3, WrittenKeys
    <3>2. /\ requests' = [requests EXCEPT ![k] = [@ EXCEPT !.status = status]]
          /\ approvals' = [approvals EXCEPT ![k] = Append(@, a)]
      BY <2>3 DEF Reviewed, Decision
    <3>3. /\ requests[k] \in Request /\ list \in Seq(Approval) /\ a \in Approval
          /\ requests[k].status = "PENDING_REVIEW"
      BY <1>1, <2>3, ReviewedFinds
    <3>4. /\ level[c] = Len(list) + 1
          /\ requests[k].amount = request[c].amount
          /\ level[c] = 2 => \E th \in Thresholds : requests[k].amount >= th
      BY <2>3, DecisionFollows
    <3>5. a.level = level[c] /\ a.status = cmd[c].decision
      BY DEF Decision
    <3>6. status \in RequestStatuses
      BY ReviewedStatusType, Zenon DEF RequestStatuses
    <3>7. status = ReviewedStatus(a.status, requests[k].amount, a.level, threshold)
      BY <3>4, <3>5
    <3>8. threshold \in Thresholds
      BY <1>1 DEF TypeInv, TypeOK, ProcessTypeOK
    <3>9. CASE j = k
      <4> DEFINE q == [requests[k] EXCEPT !.status = status]
      <4> HIDE DEF status
      <4>1. q.status = status /\ q.amount = requests[k].amount
        BY <3>3, <3>6, StatusChange
      <4>2. requests'[j] = q /\ approvals'[j] = Append(list, a)
        BY <1>1, <3>1, <3>2, <3>9 DEF TypeInv, TypeOK, StoreTypeOK
      <4>3. Follows(requests[k], list)
        BY <1>2, <3>1, <3>3, NoneAssumption
      <4> HIDE DEF q, a, k, list
      <4>4. Follows(q, Append(list, a))
        BY <3>3, <3>4, <3>5, <3>7, <3>8, <4>1, <4>3, ReviewFollows
      <4> QED BY <4>2, <4>4
    <3>10. CASE j # k
      BY <1>1, <1>2, <3>2, <3>10 DEF TypeInv, TypeOK, StoreTypeOK
    <3> QED BY <3>9, <3>10
  <2>4. ASSUME NEW c \in Calls, Recorded(c) PROVE Good(requests'[j], approvals'[j])
    <3> DEFINE k == RequestKey(cmd[c])
               q == [requests[k] EXCEPT !.status = cmd[c].status]
    <3>1. /\ k \in RequestKeys /\ requests[k] # None /\ requests[k].status = "APPROVED"
          /\ requests' = [requests EXCEPT ![k] = q] /\ approvals' = approvals
      BY <1>1, <2>4, WrittenKeys DEF Recorded
    <3>2. cmd[c].status \in TransactionStatuses
      BY <1>1, <2>4, SMT DEF TypeInv, CallsHold, Recorded, RecordCalls, RecordCommand
    <3>3. requests[k] \in Request /\ cmd[c].status \in RequestStatuses
      BY <1>1, <3>1, <3>2, SMT DEF TypeInv, TypeOK, StoreTypeOK, TransactionStatuses,
         RequestStatuses
    <3>4. q.status = cmd[c].status /\ q.amount = requests[k].amount
      BY <3>3, StatusChange
    <3>5. requests'[j] = requests[j] \/ (j = k /\ requests'[j] = q)
      BY <1>1, <3>1 DEF TypeInv, TypeOK, StoreTypeOK
    <3>6. Follows(requests[k], approvals[k])
      BY <1>2, <3>1
    <3> HIDE DEF q, k
    <3>7. Follows(q, approvals[k])
      BY <3>1, <3>2, <3>4, <3>6, SMT DEF Follows, Settled, TransactionStatuses
    <3> QED BY <1>2, <3>1, <3>5, <3>7
  <2> QED BY <2>1, <2>2, <2>3, <2>4, StoreSteps
<1> QED BY <1>3 DEF StatusFollowsApprovals, Exists, Follows

-----------------------------------------------------------------------------

LEMMA InitReview == Init => ReviewInv
<1> SUFFICES ASSUME Init PROVE ReviewInv
  OBVIOUS
<1>1. TypeInv
  BY InitType
<1>2. DutiesSeparated
  <2>1. DOMAIN <<>> = {}
    OBVIOUS
  <2>2. \A k \in RequestKeys : approvals[k] = <<>>
    BY DEF Init, StoreInit
  <2> QED BY <2>1, <2>2 DEF DutiesSeparated
<1>3. StatusFollowsApprovals
  BY DEF Init, StoreInit, StatusFollowsApprovals, Exists
<1>4. CallsReview
  BY DEF Init, CallsIdle, CallsReview, CallReviews
<1> QED BY <1>1, <1>2, <1>3, <1>4 DEF ReviewInv

LEMMA NextReview == ReviewInv /\ [Next]_vars => ReviewInv'
BY NextType, NextReviews, NextDuties, NextFollows DEF ReviewInv

\* The inductive invariant behind both theorems.
LEMMA ReviewInvHolds == Spec => []ReviewInv
BY InitReview, NextReview, PTL DEF Spec

\* Levels are decided in order, by different people, none of them the submitter,
\* and nothing follows a rejection, for any number of concurrent reviewers.
THEOREM DutiesStaySeparated == Spec => []DutiesSeparated
<1>1. ReviewInv => DutiesSeparated
  BY DEF ReviewInv
<1> QED BY <1>1, ReviewInvHolds, PTL

\* A request has the status its decisions lead to, whatever thresholds the desk
\* ran with while they were taken.
THEOREM StatusAlwaysFollows == Spec => []StatusFollowsApprovals
<1>1. ReviewInv => StatusFollowsApprovals
  BY DEF ReviewInv
<1> QED BY <1>1, ReviewInvHolds, PTL

-----------------------------------------------------------------------------
(***************************************************************************)
(* What the store promises whatever the calls above it have read: one      *)
(* request under way per order, one receipt per request, unique provider   *)
(* numbers, one effect per key, and retries of receipts never refused.     *)
(***************************************************************************)

-----------------------------------------------------------------------------
(* The three writes, with the checks they made *)

Creates(c) ==
    /\ pc[c] = "CreateRefundRequest"
    /\ IdempotencyMiss(cmd[c])
    /\ CreateRefusal(cmd[c].tenant, request[c]) = "OK"
    /\ StoreCreated(cmd[c], request[c])

Reviews(c) ==
    /\ pc[c] = "ReviewRefundRequest"
    /\ ReviewRefusal(RequestKey(cmd[c]), level[c]) = "OK"
    /\ StoreReviewed(RequestKey(cmd[c]), Decision(c), request[c].status,
                     ReviewedStatus(cmd[c].decision, request[c].amount, level[c], threshold))

Records(c) ==
    /\ pc[c] = "RecordRefundTransaction"
    /\ IdempotencyMiss(cmd[c])
    /\ RecordRefusal(cmd[c]) = "OK"
    /\ StoreRecorded(cmd[c], request[c].status)

\* A step of a call writes nothing, or is one of the three writes.
LEMMA CallWrites ==
    ASSUME NEW c \in Calls, CallStep(c)
    PROVE  UNCHANGED ledgerVars \/ Creates(c) \/ Reviews(c) \/ Records(c)
<1> USE DEF storeVars
<1>1. CASE CreateRefundRequest(c)
  BY <1>1, Zenon DEF CreateRefundRequest, Creates
<1>2. CASE ReviewRefundRequest(c)
  BY <1>2, Zenon DEF ReviewRefundRequest, Reviews, Decision
<1>3. CASE RecordRefundTransaction(c)
  BY <1>3, Zenon DEF RecordRefundTransaction, Records
<1>4. CASE FindCreated(c) \/ FindOrder(c) \/ FindReviewed(c) \/ ListForLevel(c)
  BY <1>4, Zenon DEF FindCreated, FindOrder, FindReviewed, ListForLevel
<1>5. CASE FindRecorded(c) \/ FindApproved(c) \/ FindRecordedAgain(c)
  BY <1>5, Zenon DEF FindRecorded, FindApproved, FindRecordedAgain
<1>6. CASE GetRequest(c) \/ ListApprovals(c) \/ ListTransactions(c)
  BY <1>6, Zenon DEF GetRequest, ListApprovals, ListTransactions
<1> QED BY <1>1, <1>2, <1>3, <1>4, <1>5, <1>6 DEF CallStep

LEMMA WriteSteps ==
    ASSUME [Next]_vars
    PROVE  \/ UNCHANGED ledgerVars
           \/ \E c \in Calls : Creates(c) \/ Reviews(c) \/ Records(c)
<1> USE DEF storeVars
<1>1. ASSUME NEW c \in Calls, NEW m \in Commands, Begin(c, m) PROVE UNCHANGED ledgerVars
  BY <1>1 DEF Begin
<1>2. ASSUME NEW c \in Calls, CallFails(c) PROVE UNCHANGED ledgerVars
  BY <1>2 DEF CallFails
<1>3. CASE Restart
  BY <1>3 DEF Restart
<1>4. ASSUME NEW k \in OrderKeys, NEW order \in OrderVersions, OrderChanges(k, order)
      PROVE  UNCHANGED ledgerVars
  BY <1>4 DEF OrderChanges
<1>5. CASE UNCHANGED vars
  BY <1>5 DEF vars
<1> QED BY <1>1, <1>2, <1>3, <1>4, <1>5, CallWrites DEF Next

\* A creation fills a free number with a request of an order without another.
LEMMA CreateEffect ==
    ASSUME TypeInv, NEW c \in Calls, Creates(c)
    PROVE  LET k == <<cmd[c].tenant, request[c].no>> IN
           /\ k \in RequestKeys /\ cmd[c] \in CreateCommand /\ request[c] \in Request
           /\ Scope(cmd[c]) \in Scopes /\ idempotencyRecords[Scope(cmd[c])] = None
           /\ requests[k] = None
           /\ ~ HasActiveRequest(cmd[c].tenant, request[c].orderNo)
           /\ \A j \in RequestKeys :
                  requests'[j] = IF j = k THEN request[c] ELSE requests[j]
           /\ \A s \in Scopes : idempotencyRecords'[s] =
                  IF s = Scope(cmd[c])
                  THEN [hash |-> RequestHash(cmd[c]), request |-> request[c],
                        transaction |-> None]
                  ELSE idempotencyRecords[s]
           /\ UNCHANGED <<transactions, providerRefundNo>>
<1> DEFINE k == <<cmd[c].tenant, request[c].no>>
<1>1. cmd[c] \in CreateCommand /\ request[c] \in Request
  BY DEF TypeInv, CallsHold, Creates, CreateCalls, CarryingCalls
<1>2. k \in RequestKeys
  BY <1>1 DEF CreateCommand, Request, RequestKeys
<1>3. Scope(cmd[c]) \in Scopes /\ idempotencyRecords[Scope(cmd[c])] = None
  BY <1>1, ScopeType DEF Creates, IdempotencyMiss
<1>4. requests[k] = None /\ ~ HasActiveRequest(cmd[c].tenant, request[c].orderNo)
  BY Zenon DEF Creates, CreateRefusal
<1>5. \A j \in RequestKeys : requests'[j] = IF j = k THEN request[c] ELSE requests[j]
  BY DEF Creates, StoreCreated, TypeInv, TypeOK, StoreTypeOK
<1>6. \A s \in Scopes : idempotencyRecords'[s] =
          IF s = Scope(cmd[c])
          THEN [hash |-> RequestHash(cmd[c]), request |-> request[c], transaction |-> None]
          ELSE idempotencyRecords[s]
  BY DEF Creates, StoreCreated, TypeInv, TypeOK, StoreTypeOK
<1> QED BY <1>1, <1>2, <1>3, <1>4, <1>5, <1>6 DEF Creates, StoreCreated

\* A decision changes the status of a request under review.
LEMMA ReviewEffect ==
    ASSUME TypeInv, NEW c \in Calls, Reviews(c)
    PROVE  \E k \in RequestKeys, s \in RequestStatuses :
           /\ s \in {"PENDING_REVIEW", "APPROVED", "REJECTED"}
           /\ requests[k] \in Request /\ requests[k].status = "PENDING_REVIEW"
           /\ \A j \in RequestKeys :
                  requests'[j] = IF j = k THEN [requests[k] EXCEPT !.status = s] ELSE requests[j]
           /\ UNCHANGED <<transactions, providerRefundNo, idempotencyRecords>>
<1> DEFINE k == RequestKey(cmd[c])
           s == ReviewedStatus(cmd[c].decision, request[c].amount, level[c], threshold)
<1>1. Reviewed(c)
  BY DEF Reviews, StoreReviewed, Reviewed, Decision
<1>2. /\ k \in RequestKeys /\ requests[k] \in Request
      /\ requests[k].status = "PENDING_REVIEW"
  BY <1>1, ReviewedFinds, WrittenKeys
<1>3. s \in {"PENDING_REVIEW", "APPROVED", "REJECTED"}
  BY Zenon, ReviewedStatusType
<1>4. requests' = [requests EXCEPT ![k] = [@ EXCEPT !.status = s]]
      /\ UNCHANGED <<transactions, providerRefundNo, idempotencyRecords>>
  BY DEF Reviews, StoreReviewed
<1> HIDE DEF s, k
<1>5. \A j \in RequestKeys :
          requests'[j] = IF j = k THEN [requests[k] EXCEPT !.status = s] ELSE requests[j]
  BY <1>2, <1>4 DEF TypeInv, TypeOK, StoreTypeOK
<1> QED BY <1>2, <1>3, <1>4, <1>5 DEF RequestStatuses

\* A receipt settles an approved request and registers its number and key.
LEMMA RecordEffect ==
    ASSUME TypeInv, NEW c \in Calls, Records(c)
    PROVE  LET k == RequestKey(cmd[c])
               m == cmd[c]
               settled == [requests[k] EXCEPT !.status = m.status]
           IN
           /\ k \in RequestKeys /\ m \in RecordCommand
           /\ TransactionOf(m) \in Transaction
           /\ Scope(m) \in Scopes /\ idempotencyRecords[Scope(m)] = None
           /\ requests[k] \in Request /\ requests[k] # None /\ requests[k].status = "APPROVED"
           /\ <<m.tenant, m.providerRefundNo>> \notin providerRefundNo
           /\ \A j \in RequestKeys :
                  /\ requests'[j] = IF j = k THEN settled ELSE requests[j]
                  /\ transactions'[j] = IF j = k THEN Append(transactions[k], TransactionOf(m))
                                        ELSE transactions[j]
           /\ providerRefundNo' = IF m.providerRefundNo = None THEN providerRefundNo
                  ELSE providerRefundNo \cup {<<m.tenant, m.providerRefundNo>>}
           /\ \A s \in Scopes : idempotencyRecords'[s] =
                  IF s = Scope(m)
                  THEN [hash |-> RequestHash(m), request |-> settled,
                        transaction |-> TransactionOf(m)]
                  ELSE idempotencyRecords[s]
<1> DEFINE k == RequestKey(cmd[c])
           m == cmd[c]
           settled == [requests[k] EXCEPT !.status = m.status]
<1>1. m \in RecordCommand
  BY DEF TypeInv, CallsHold, Records, RecordCalls
<1>2. k \in RequestKeys /\ TransactionOf(m) \in Transaction
  BY <1>1 DEF RecordCommand, RequestKey, RequestKeys, TransactionOf, Transaction
<1>3. Scope(m) \in Scopes /\ idempotencyRecords[Scope(m)] = None
  BY <1>1, ScopeType DEF Records, IdempotencyMiss
<1>4. /\ requests[k] # None /\ requests[k].status = "APPROVED"
      /\ <<m.tenant, m.providerRefundNo>> \notin providerRefundNo
  BY Zenon DEF Records, RecordRefusal
<1>5. requests[k] \in Request
  BY <1>2, <1>4 DEF TypeInv, TypeOK, StoreTypeOK
<1>6. StoreRecorded(m, request[c].status)
  BY DEF Records
<1>7. \A j \in RequestKeys :
          /\ requests'[j] = IF j = k THEN settled ELSE requests[j]
          /\ transactions'[j] = IF j = k THEN Append(transactions[k], TransactionOf(m))
                                ELSE transactions[j]
  BY <1>6 DEF StoreRecorded, TypeInv, TypeOK, StoreTypeOK
<1>8. \A s \in Scopes : idempotencyRecords'[s] =
          IF s = Scope(m)
          THEN [hash |-> RequestHash(m), request |-> settled, transaction |-> TransactionOf(m)]
          ELSE idempotencyRecords[s]
  BY <1>6 DEF StoreRecorded, TypeInv, TypeOK, StoreTypeOK
<1>9. providerRefundNo' = IF m.providerRefundNo = None THEN providerRefundNo
          ELSE providerRefundNo \cup {<<m.tenant, m.providerRefundNo>>}
  BY <1>6 DEF StoreRecorded
<1> QED BY <1>1, <1>2, <1>3, <1>4, <1>5, <1>7, <1>8, <1>9

-----------------------------------------------------------------------------
(* One request under way per order *)

ActiveInv == TypeInv /\ OneActivePerOrder

LEMMA OldStayActive ==
    ASSUME OneActivePerOrder,
           \A j \in RequestKeys : Exists(j)' /\ IsActiveStatus(requests'[j].status) =>
               /\ Exists(j) /\ IsActiveStatus(requests[j].status)
               /\ requests'[j].orderNo = requests[j].orderNo
    PROVE  OneActivePerOrder'
BY DEF OneActivePerOrder, Exists, IsActiveStatus, RequestKeys

LEMMA NextActive == ASSUME ActiveInv, [Next]_vars PROVE ActiveInv'
<1>0. TypeInv /\ TypeInv' /\ OneActivePerOrder
  BY NextType DEF ActiveInv
<1>1. CASE UNCHANGED ledgerVars
  BY <1>0, <1>1 DEF ActiveInv, OneActivePerOrder, ledgerVars, Exists, IsActiveStatus
<1>2. ASSUME NEW c \in Calls, Creates(c) PROVE OneActivePerOrder'
  <2> DEFINE k == <<cmd[c].tenant, request[c].no>>
  <2> SUFFICES ASSUME NEW t \in Tenants, NEW m \in RequestNos, NEW n \in RequestNos, m # n,
                      requests'[<<t, m>>] # None, requests'[<<t, n>>] # None,
                      requests'[<<t, m>>].orderNo = requests'[<<t, n>>].orderNo,
                      IsActiveStatus(requests'[<<t, m>>].status),
                      IsActiveStatus(requests'[<<t, n>>].status)
               PROVE  FALSE
    BY DEF OneActivePerOrder, Exists, IsActiveStatus
  <2>1. <<t, m>> \in RequestKeys /\ <<t, n>> \in RequestKeys
    BY DEF RequestKeys
  <2>2. \A j \in RequestKeys : requests'[j] = IF j = k THEN request[c] ELSE requests[j]
    BY <1>0, <1>2, CreateEffect
  <2>3. ~ HasActiveRequest(cmd[c].tenant, request[c].orderNo)
    BY <1>0, <1>2, CreateEffect
  <2>4. CASE <<t, m>> # k /\ <<t, n>> # k
    BY <1>0, <2>1, <2>2, <2>4 DEF OneActivePerOrder, Exists
  <2>5. CASE <<t, m>> = k
    BY <2>1, <2>2, <2>3, <2>5 DEF HasActiveRequest
  <2>6. CASE <<t, n>> = k
    BY <2>1, <2>2, <2>3, <2>6 DEF HasActiveRequest
  <2> QED BY <2>4, <2>5, <2>6
<1>3. ASSUME NEW c \in Calls, Reviews(c) PROVE OneActivePerOrder'
  <2>1. PICK k \in RequestKeys, s \in RequestStatuses :
           /\ requests[k] \in Request /\ requests[k].status = "PENDING_REVIEW"
           /\ \A j \in RequestKeys :
                  requests'[j] = IF j = k THEN [requests[k] EXCEPT !.status = s] ELSE requests[j]
    BY <1>0, <1>3, ReviewEffect
  <2>2. [requests[k] EXCEPT !.status = s].orderNo = requests[k].orderNo /\ requests[k] # None
    BY <2>1, StatusChange, NoneAssumption
  <2> QED BY <1>0, <2>1, <2>2, OldStayActive DEF Exists, IsActiveStatus
<1>4. ASSUME NEW c \in Calls, Records(c) PROVE OneActivePerOrder'
  <2> DEFINE k == RequestKey(cmd[c])
  <2>1. /\ requests[k] \in Request /\ requests[k] # None /\ requests[k].status = "APPROVED"
        /\ cmd[c].status \in RequestStatuses
        /\ \A j \in RequestKeys : requests'[j] =
               IF j = k THEN [requests[k] EXCEPT !.status = cmd[c].status] ELSE requests[j]
    BY <1>0, <1>4, RecordEffect DEF RecordCommand, TransactionStatuses, RequestStatuses
  <2>2. [requests[k] EXCEPT !.status = cmd[c].status].orderNo = requests[k].orderNo
    BY <2>1, StatusChange
  <2> QED BY <1>0, <2>1, <2>2, OldStayActive DEF Exists, IsActiveStatus
<1> QED BY <1>0, <1>1, <1>2, <1>3, <1>4, WriteSteps DEF ActiveInv

LEMMA InitActive == Init => ActiveInv
BY InitType DEF Init, StoreInit, ActiveInv, OneActivePerOrder, Exists, RequestKeys

\* However many calls create, decide and settle, an order has at most one
\* request under way (postgres_repository.go:147, docs/mvp.md:84).
THEOREM OneActiveHolds == Spec => []OneActivePerOrder
<1>1. ActiveInv => OneActivePerOrder
  BY DEF ActiveInv
<1> QED BY <1>1, InitActive, NextActive, PTL DEF Spec

-----------------------------------------------------------------------------
(* Receipts *)

\* A call about to record a receipt has seen its request with its amount.
CallsRecord ==
    \A c \in Calls : pc[c] = "RecordRefundTransaction" =>
        /\ Exists(RequestKey(cmd[c]))
        /\ requests[RequestKey(cmd[c])].amount = cmd[c].amount

\* The numbers of receipts are registered.
Registered ==
    \A k \in RequestKeys : \A i \in DOMAIN transactions[k] :
        transactions[k][i].providerRefundNo # None =>
            <<k[1], transactions[k][i].providerRefundNo>> \in providerRefundNo

ReceiptInv == CallsRecord /\ SettledByReceipt /\ Registered /\ ProviderRefundNosUnique

\* Only an approved request of the amount brings a call to record a receipt.
LEMMA RecordApproach ==
    ASSUME TypeInv, [Next]_vars, NEW c \in Calls,
           pc'[c] = "RecordRefundTransaction"
    PROVE  Stands(c) \/ FindApproved(c)
<1> DEFINE Here == pc'[c] = "RecordRefundTransaction"
<1> USE DEF TypeInv, TypeOK, CallTypeOK, Goto, Carry, Answer, Fail
<1>1. ASSUME NEW m \in Commands, Begin(c, m) PROVE ~ Here
  BY <1>1, SMT DEF Begin, FirstCall
<1>2. CASE FindCreated(c)
  BY <1>2, SMT DEF FindCreated, AnswerCreated
<1>3. CASE FindOrder(c)
  BY <1>3, SMT DEF FindOrder
<1>4. CASE CreateRefundRequest(c)
  BY <1>4, SMT DEF CreateRefundRequest, AnswerCreated
<1>5. CASE FindReviewed(c)
  BY <1>5, SMT DEF FindReviewed
<1>6. CASE ListForLevel(c)
  BY <1>6, SMT DEF ListForLevel
<1>7. CASE ReviewRefundRequest(c)
  BY <1>7, SMT DEF ReviewRefundRequest
<1>8. CASE FindRecorded(c)
  BY <1>8, SMT DEF FindRecorded, CarryFirstResult, CarryRecorded
<1>9. CASE FindRecordedAgain(c)
  BY <1>9, SMT DEF FindRecordedAgain, CarryFirstResult, CarryRecorded
<1>10. CASE RecordRefundTransaction(c)
  BY <1>10, SMT DEF RecordRefundTransaction, CarryFirstResult, CarryRecorded
<1>11. CASE GetRequest(c) \/ ListApprovals(c) \/ ListTransactions(c)
  BY <1>11, SMT DEF GetRequest, ListApprovals, ListTransactions
<1>12. CASE CallFails(c)
  BY <1>12, SMT DEF CallFails
<1>13. CASE \E d \in Calls : \/ CallStep(d) \/ CallFails(d)
                             \/ \E m \in Commands : Begin(d, m)
  <2>1. PICK d \in Calls : \/ CallStep(d) \/ CallFails(d)
                           \/ \E m \in Commands : Begin(d, m)
    BY <1>13
  <2>2. CASE c # d
    BY <2>1, <2>2, OthersStand
  <2>3. CASE c = d
    BY <2>1, <2>3, <1>1, <1>2, <1>3, <1>4, <1>5, <1>6, <1>7, <1>8, <1>9, <1>10, <1>11,
       <1>12, Zenon DEF CallStep
  <2> QED BY <2>2, <2>3
<1>14. CASE Restart
  BY <1>14, SMT DEF Restart
<1>15. CASE \E k \in OrderKeys, order \in OrderVersions : OrderChanges(k, order)
  BY <1>15 DEF OrderChanges, callVars, Stands
<1>16. CASE UNCHANGED vars
  BY <1>16 DEF vars, callVars, Stands
<1> QED BY <1>13, <1>14, <1>15, <1>16 DEF Next

LEMMA NextCallsRecord ==
    ASSUME TypeInv, TypeInv', CallsRecord, [Next]_vars PROVE CallsRecord'
<1> SUFFICES ASSUME NEW c \in Calls, pc'[c] = "RecordRefundTransaction"
             PROVE  /\ requests'[RequestKey(cmd'[c])] # None
                    /\ requests'[RequestKey(cmd'[c])].amount = cmd'[c].amount
  BY DEF CallsRecord, Exists, RequestKey
<1>1. Grows
  BY StepsGrow
<1>2. CASE Stands(c)
  <2>1. cmd[c] \in RecordCommand
    BY <1>2 DEF Stands, TypeInv, CallsHold, RecordCalls
  <2>2. RequestKey(cmd[c]) \in RequestKeys
    BY <2>1 DEF RecordCommand, RequestKey, RequestKeys
  <2>3. Exists(RequestKey(cmd[c])) /\ requests[RequestKey(cmd[c])].amount = cmd[c].amount
    BY <1>2 DEF Stands, CallsRecord
  <2> QED BY <1>1, <1>2, <2>2, <2>3 DEF Stands, Grows, Exists
<1>3. CASE FindApproved(c)
  <2>1. cmd' = cmd /\ requests' = requests
    BY <1>3, Zenon DEF FindApproved, Carry, Fail, Answer, storeVars, ledgerVars
  <2>2. pc \in [Calls -> RepositoryCalls \cup {"Idle", "Done"}]
    BY DEF TypeInv, TypeOK, CallTypeOK
  <2>3. /\ requests[RequestKey(cmd[c])] # None
        /\ requests[RequestKey(cmd[c])].amount = cmd[c].amount
    BY <1>3, <2>2, SMT DEF FindApproved, Goto, Fail, Answer
  <2> QED BY <2>1, <2>3 DEF Exists
<1> QED BY <1>2, <1>3, RecordApproach

LEMMA FirstReceipt ==
    ASSUME NEW x
    PROVE  /\ Append(<<>>, x) # <<>> /\ DOMAIN Append(<<>>, x) = {1}
           /\ Len(Append(<<>>, x)) = 1 /\ Append(<<>>, x)[1] = x
<1>1. Append(<<>>, x) = <<x>>
  OBVIOUS
<1> QED BY <1>1

\* The receipts that request r calls for.
Receipts(r, list) ==
    /\ list # <<>> <=> r # None /\ r.status \in Settled
    /\ list # <<>> => /\ Len(list) = 1
                      /\ list[1].status = r.status
                      /\ list[1].amount = r.amount

LEMMA NextSettled ==
    ASSUME ReviewInv, CallsRecord, SettledByReceipt, [Next]_vars
    PROVE  SettledByReceipt'
<1> SUFFICES ASSUME NEW j \in RequestKeys PROVE Receipts(requests'[j], transactions'[j])
  BY Zenon DEF SettledByReceipt, Receipts, Exists
<1>0. TypeInv /\ Receipts(requests[j], transactions[j])
  BY DEF ReviewInv, SettledByReceipt, Receipts, Exists
<1>1. CASE UNCHANGED ledgerVars
  BY <1>0, <1>1 DEF ledgerVars
<1>2. ASSUME NEW c \in Calls, Creates(c) PROVE Receipts(requests'[j], transactions'[j])
  <2>1. request[c].status = "PENDING_REVIEW" /\ request[c] # None
    BY <1>0, <1>2, CreateEffect, NoneAssumption DEF Creates, ReviewInv, CallsReview, CallReviews
  <2>2. /\ transactions' = transactions
        /\ requests'[j] = requests[j] \/ (requests[j] = None /\ requests'[j] = request[c])
    BY <1>0, <1>2, CreateEffect
  <2> QED BY <1>0, <2>1, <2>2 DEF Receipts, Settled
<1>3. ASSUME NEW c \in Calls, Reviews(c) PROVE Receipts(requests'[j], transactions'[j])
  <2>1. PICK k \in RequestKeys, s \in RequestStatuses :
           /\ s \in {"PENDING_REVIEW", "APPROVED", "REJECTED"}
           /\ requests[k] \in Request /\ requests[k].status = "PENDING_REVIEW"
           /\ \A i \in RequestKeys :
                  requests'[i] = IF i = k THEN [requests[k] EXCEPT !.status = s] ELSE requests[i]
           /\ transactions' = transactions
    BY <1>0, <1>3, ReviewEffect
  <2>2. [requests[k] EXCEPT !.status = s].status = s /\ s \notin Settled
    BY <2>1, StatusChange DEF Settled
  <2>3. "PENDING_REVIEW" \notin Settled
    BY DEF Settled
  <2> QED BY <1>0, <2>1, <2>2, <2>3 DEF Receipts
<1>4. ASSUME NEW c \in Calls, Records(c) PROVE Receipts(requests'[j], transactions'[j])
  <2> DEFINE k == RequestKey(cmd[c])
             x == TransactionOf(cmd[c])
             settled == [requests[k] EXCEPT !.status = cmd[c].status]
  <2>1. /\ requests[k] \in Request /\ requests[k].status = "APPROVED"
        /\ requests'[j] = IF j = k THEN settled ELSE requests[j]
        /\ transactions'[j] = IF j = k THEN Append(transactions[k], x) ELSE transactions[j]
        /\ cmd[c].status \in Settled
    BY <1>0, <1>4, RecordEffect DEF RecordCommand, TransactionStatuses, Settled
  <2>2. requests[k].amount = cmd[c].amount
    BY <1>4 DEF Records, CallsRecord
  <2>3. settled.status = cmd[c].status /\ settled.amount = cmd[c].amount /\ settled # None
    <3>1. cmd[c].status \in RequestStatuses
      BY <2>1 DEF RequestStatuses, Settled
    <3> QED BY <2>1, <2>2, <3>1, StatusChange
  <2>4. x.status = cmd[c].status /\ x.amount = cmd[c].amount
    BY DEF TransactionOf
  <2> HIDE DEF x, settled, k
  <2>5. CASE j = k
    <3>1. transactions[k] = <<>>
      BY <1>0, <2>1, <2>5 DEF Receipts, Settled
    <3>2. transactions'[j] = Append(<<>>, x) /\ requests'[j] = settled
      BY <2>1, <2>5, <3>1
    <3>3. /\ transactions'[j] # <<>> /\ Len(transactions'[j]) = 1
          /\ transactions'[j][1] = x
      BY <3>2, FirstReceipt
    <3>4. /\ requests'[j] # None /\ requests'[j].status \in Settled
          /\ x.status = requests'[j].status /\ x.amount = requests'[j].amount
      BY <2>1, <2>3, <2>4, <3>2
    <3> QED BY <3>3, <3>4 DEF Receipts
  <2>6. CASE j # k
    BY <1>0, <2>1, <2>6
  <2> QED BY <2>5, <2>6
<1> QED BY <1>1, <1>2, <1>3, <1>4, WriteSteps

LEMMA NextNumbers ==
    ASSUME TypeInv, SettledByReceipt, Registered, ProviderRefundNosUnique, [Next]_vars
    PROVE  Registered' /\ ProviderRefundNosUnique'
<1>1. CASE UNCHANGED <<transactions, providerRefundNo>>
  BY <1>1 DEF Registered, ProviderRefundNosUnique
<1>2. ASSUME NEW c \in Calls, Records(c) PROVE Registered' /\ ProviderRefundNosUnique'
  <2> DEFINE k == RequestKey(cmd[c])
             x == TransactionOf(cmd[c])
  <2>1. /\ k \in RequestKeys
        /\ <<k[1], x.providerRefundNo>> \notin providerRefundNo
        /\ \A j \in RequestKeys :
               transactions'[j] = IF j = k THEN Append(transactions[k], x) ELSE transactions[j]
        /\ providerRefundNo' = IF x.providerRefundNo = None THEN providerRefundNo
               ELSE providerRefundNo \cup {<<k[1], x.providerRefundNo>>}
    BY <1>2, RecordEffect DEF RequestKey, TransactionOf
  <2>2. transactions[k] = <<>>
    BY <1>2, <2>1, RecordEffect DEF SettledByReceipt, Settled
  <2>3. /\ DOMAIN transactions'[k] = {1} /\ transactions'[k][1] = x
    BY <2>1, <2>2, FirstReceipt
  <2> HIDE DEF k, x
  <2>4. Registered'
    BY <2>1, <2>3 DEF Registered
  <2>5. ASSUME NEW t \in Tenants, NEW m \in RequestNos, NEW n \in RequestNos,
               NEW i \in DOMAIN transactions'[<<t, m>>],
               NEW j \in DOMAIN transactions'[<<t, n>>],
               transactions'[<<t, m>>][i].providerRefundNo # None,
               transactions'[<<t, m>>][i].providerRefundNo =
                   transactions'[<<t, n>>][j].providerRefundNo
        PROVE  m = n /\ i = j
    <3>1. <<t, m>> \in RequestKeys /\ <<t, n>> \in RequestKeys
      BY DEF RequestKeys
    <3>2. CASE <<t, m>> # k /\ <<t, n>> # k
      BY <2>1, <2>5, <3>1, <3>2 DEF ProviderRefundNosUnique
    <3>3. CASE <<t, m>> = k /\ <<t, n>> = k
      BY <2>3, <3>3
    <3>4. CASE <<t, m>> = k /\ <<t, n>> # k
      <4>1. <<t, x.providerRefundNo>> \in providerRefundNo
        BY <2>1, <2>3, <2>5, <3>1, <3>4 DEF Registered
      <4> QED BY <2>1, <3>4, <4>1
    <3>5. CASE <<t, m>> # k /\ <<t, n>> = k
      <4>1. <<t, x.providerRefundNo>> \in providerRefundNo
        BY <2>1, <2>3, <2>5, <3>1, <3>5 DEF Registered
      <4> QED BY <2>1, <3>5, <4>1
    <3> QED BY <3>2, <3>3, <3>4, <3>5
  <2>6. ProviderRefundNosUnique'
    BY <2>5 DEF ProviderRefundNosUnique
  <2> QED BY <2>4, <2>6
<1>3. ASSUME NEW c \in Calls, Creates(c) PROVE UNCHANGED <<transactions, providerRefundNo>>
  BY <1>3, CreateEffect
<1>4. ASSUME NEW c \in Calls, Reviews(c) PROVE UNCHANGED <<transactions, providerRefundNo>>
  BY <1>4, ReviewEffect
<1>5. UNCHANGED ledgerVars => UNCHANGED <<transactions, providerRefundNo>>
  BY DEF ledgerVars
<1> QED BY <1>1, <1>2, <1>3, <1>4, <1>5, WriteSteps

LEMMA InitReceipts == Init => ReceiptInv
<1> SUFFICES ASSUME Init PROVE ReceiptInv
  OBVIOUS
<1>1. \A k \in RequestKeys : transactions[k] = <<>> /\ requests[k] = None
  BY DEF Init, StoreInit
<1>2. \A c \in Calls : pc[c] = "Idle"
  BY DEF Init, CallsIdle
<1>3. DOMAIN <<>> = {}
  OBVIOUS
<1>4. \A t \in Tenants, n \in RequestNos : <<t, n>> \in RequestKeys
  BY DEF RequestKeys
<1>5. CallsRecord
  BY <1>2 DEF CallsRecord
<1>6. SettledByReceipt
  BY <1>1 DEF SettledByReceipt, Exists
<1>7. Registered
  BY <1>1, <1>3 DEF Registered
<1>8. ProviderRefundNosUnique
  BY <1>1, <1>3, <1>4 DEF ProviderRefundNosUnique
<1> QED BY <1>5, <1>6, <1>7, <1>8 DEF ReceiptInv

LEMMA NextReceipts == ReviewInv /\ ReviewInv' /\ ReceiptInv /\ [Next]_vars => ReceiptInv'
BY NextCallsRecord, NextSettled, NextNumbers DEF ReceiptInv, ReviewInv

LEMMA ReceiptInvHolds == Spec => []ReceiptInv
BY InitReceipts, NextReceipts, ReviewInvHolds, PTL DEF Spec

\* A request is settled by exactly one receipt, of its amount and with its
\* outcome, however many calls race to record one (service.go:478).
THEOREM SettledOnce == Spec => []SettledByReceipt
<1>1. ReceiptInv => SettledByReceipt
  BY DEF ReceiptInv
<1> QED BY <1>1, ReceiptInvHolds, PTL

\* A provider refund number never stands in two receipts of a tenant
\* (postgres_repository.go:366).
THEOREM NumbersStayUnique == Spec => []ProviderRefundNosUnique
<1>1. ReceiptInv => ProviderRefundNosUnique
  BY DEF ReceiptInv
<1> QED BY <1>1, ReceiptInvHolds, PTL

-----------------------------------------------------------------------------
(* Idempotency records *)

Told(s) == idempotencyRecords[s] # None
Written(s) == <<s[1], idempotencyRecords[s].request.no>>

\* A request is stored under its number.
Numbered == \A k \in RequestKeys : Exists(k) => requests[k].no = k[2]

\* OneEffectPerKey, scope by scope.
EffectsOnce ==
    /\ \A s \in Scopes : Told(s) /\ s[3] = "create" => Exists(Written(s))
    /\ \A s \in Scopes : Told(s) /\ s[3] = "record" =>
           /\ transactions[Written(s)] # <<>>
           /\ idempotencyRecords[s].transaction \in Range(transactions[Written(s)])
    /\ \A k \in RequestKeys : Exists(k) =>
           \E s \in Scopes : Told(s) /\ s[3] = "create" /\ Written(s) = k
    /\ \A k \in RequestKeys : transactions[k] # <<>> =>
           \E s \in Scopes : Told(s) /\ s[3] = "record" /\ Written(s) = k
    /\ \A s, u \in Scopes :
           Told(s) /\ Told(u) /\ s[3] = u[3] /\ Written(s) = Written(u) => s = u

LEMMA WrittenType ==
    ASSUME TypeInv, NEW s \in Scopes, Told(s)
    PROVE  Written(s) \in RequestKeys
<1>1. idempotencyRecords[s] \in IdempotencyRecord
  BY DEF TypeInv, TypeOK, StoreTypeOK, Told
<1>2. idempotencyRecords[s].request.no \in RequestNos
  BY <1>1 DEF IdempotencyRecord, Request
<1>3. s[1] \in Tenants
  BY DEF Scopes
<1> QED BY <1>2, <1>3 DEF Written, RequestKeys

LEMMA NextNumbered ==
    ASSUME TypeInv, Numbered, [Next]_vars PROVE Numbered'
<1> SUFFICES ASSUME NEW j \in RequestKeys, requests'[j] # None PROVE requests'[j].no = j[2]
  BY DEF Numbered, Exists
<1>1. CASE UNCHANGED ledgerVars
  BY <1>1 DEF ledgerVars, Numbered, Exists
<1>2. ASSUME NEW c \in Calls, Creates(c) PROVE requests'[j].no = j[2]
  <2> DEFINE k == <<cmd[c].tenant, request[c].no>>
  <2>1. requests'[j] = IF j = k THEN request[c] ELSE requests[j]
    BY <1>2, CreateEffect
  <2>2. CASE j = k
    BY <2>1, <2>2
  <2>3. CASE j # k
    BY <2>1, <2>3 DEF Numbered, Exists
  <2> QED BY <2>2, <2>3
<1>3. ASSUME NEW c \in Calls, Reviews(c) PROVE requests'[j].no = j[2]
  <2>1. PICK k \in RequestKeys, s \in RequestStatuses :
           /\ requests[k] \in Request
           /\ \A i \in RequestKeys :
                  requests'[i] = IF i = k THEN [requests[k] EXCEPT !.status = s] ELSE requests[i]
    BY <1>3, ReviewEffect
  <2>2. [requests[k] EXCEPT !.status = s].no = requests[k].no /\ requests[k] # None
    BY <2>1, StatusChange, NoneAssumption
  <2> QED BY <2>1, <2>2 DEF Numbered, Exists
<1>4. ASSUME NEW c \in Calls, Records(c) PROVE requests'[j].no = j[2]
  <2> DEFINE k == RequestKey(cmd[c])
  <2>1. /\ requests[k] \in Request /\ requests[k] # None /\ k \in RequestKeys
        /\ cmd[c].status \in RequestStatuses
        /\ requests'[j] = IF j = k THEN [requests[k] EXCEPT !.status = cmd[c].status]
                          ELSE requests[j]
    BY <1>4, RecordEffect DEF RecordCommand, TransactionStatuses, RequestStatuses
  <2>2. [requests[k] EXCEPT !.status = cmd[c].status].no = requests[k].no
    BY <2>1, StatusChange
  <2> HIDE DEF k
  <2> QED BY <2>1, <2>2 DEF Numbered, Exists
<1> QED BY <1>1, <1>2, <1>3, <1>4, WriteSteps

LEMMA NextEffects ==
    ASSUME TypeInv, TypeInv', SettledByReceipt, Numbered, EffectsOnce, [Next]_vars
    PROVE  EffectsOnce'
<1> USE DEF Told, Written
<1>1. ASSUME UNCHANGED <<transactions, idempotencyRecords>>,
             \A k \in RequestKeys : Exists(k) <=> Exists(k)'
      PROVE  EffectsOnce'
  BY <1>1, WrittenType DEF EffectsOnce, Told, Written
<1>2. CASE UNCHANGED ledgerVars
  BY <1>1, <1>2 DEF ledgerVars, Exists
<1>3. ASSUME NEW c \in Calls, Creates(c) PROVE EffectsOnce'
  <2>0. PICK k \in RequestKeys, s0 \in Scopes :
           k = <<cmd[c].tenant, request[c].no>> /\ s0 = Scope(cmd[c])
    BY <1>3, CreateEffect
  <2>1. /\ k \in RequestKeys /\ s0 \in Scopes /\ ~ Told(s0) /\ ~ Exists(k)
        /\ request[c] # None
        /\ \A j \in RequestKeys : requests'[j] = IF j = k THEN request[c] ELSE requests[j]
        /\ transactions' = transactions
    BY <1>3, <2>0, CreateEffect, NoneAssumption DEF Told, Exists
  <2>2. /\ Told(s0)' /\ Written(s0)' = k /\ s0[3] = "create"
        /\ \A s \in Scopes : s # s0 => /\ (Told(s)' <=> Told(s))
                                       /\ Written(s)' = Written(s)
                                       /\ idempotencyRecords'[s] = idempotencyRecords[s]
    <3>1. s0[1] = cmd[c].tenant /\ s0[3] = "create"
      BY <1>3, <2>0, CreateEffect DEF Scope, CreateCommand
    <3>2. \A s \in Scopes : idempotencyRecords'[s] =
              IF s = s0
              THEN [hash |-> RequestHash(cmd[c]), request |-> request[c], transaction |-> None]
              ELSE idempotencyRecords[s]
      BY <1>3, <2>0, CreateEffect
    <3>3. idempotencyRecords'[s0] # None
      <4>1. request[c] \in Request /\ RequestHash(cmd[c]) \in CreateHash \cup RecordHash
        BY <1>3, CreateEffect DEF RequestHash, CreateRequestHash, CreateHash, CreateCommand
      <4> QED BY <2>1, <3>2, <4>1, NoneAssumption DEF IdempotencyRecord
    <3>4. idempotencyRecords'[s0].request.no = request[c].no
      BY <2>1, <3>2
    <3>5. ASSUME NEW s \in Scopes, s # s0
          PROVE  idempotencyRecords'[s] = idempotencyRecords[s]
      BY <3>2, <3>5
    <3> QED BY <2>0, <3>1, <3>3, <3>4, <3>5, Zenon DEF Told, Written
  <2>3. \A j \in RequestKeys : Exists(j)' <=> j = k \/ Exists(j)
    BY <2>1 DEF Exists
  <2>4. \A s \in Scopes : Told(s) => Written(s) \in RequestKeys
    BY WrittenType
  <2>5. \A s \in Scopes : Told(s)' /\ s[3] = "create" => Exists(Written(s))'
    BY <2>1, <2>2, <2>3, <2>4 DEF EffectsOnce, Exists
  <2>6. \A s \in Scopes : Told(s)' /\ s[3] = "record" =>
           /\ transactions'[Written(s)'] # <<>>
           /\ idempotencyRecords'[s].transaction \in Range(transactions'[Written(s)'])
    BY <2>1, <2>2 DEF EffectsOnce
  <2>7. \A j \in RequestKeys : Exists(j)' =>
           \E s \in Scopes : Told(s)' /\ s[3] = "create" /\ Written(s)' = j
    BY <2>1, <2>2, <2>3 DEF EffectsOnce
  <2>8. \A j \in RequestKeys : transactions'[j] # <<>> =>
           \E s \in Scopes : Told(s)' /\ s[3] = "record" /\ Written(s)' = j
    BY <2>1, <2>2 DEF EffectsOnce
  <2>9. \A s, u \in Scopes :
           Told(s)' /\ Told(u)' /\ s[3] = u[3] /\ Written(s)' = Written(u)' => s = u
    BY <2>1, <2>2 DEF EffectsOnce
  <2> QED BY <2>5, <2>6, <2>7, <2>8, <2>9 DEF EffectsOnce, Exists
<1>4. ASSUME NEW c \in Calls, Reviews(c) PROVE EffectsOnce'
  <2>1. PICK k \in RequestKeys, s \in RequestStatuses :
           /\ requests[k] \in Request
           /\ \A i \in RequestKeys :
                  requests'[i] = IF i = k THEN [requests[k] EXCEPT !.status = s] ELSE requests[i]
           /\ UNCHANGED <<transactions, idempotencyRecords>>
    BY <1>4, ReviewEffect
  <2>2. [requests[k] EXCEPT !.status = s] # None /\ requests[k] # None
    BY <2>1, StatusChange, NoneAssumption
  <2> QED BY <1>1, <2>1, <2>2 DEF Exists
<1>5. ASSUME NEW c \in Calls, Records(c) PROVE EffectsOnce'
  <2>0. PICK k \in RequestKeys, s0 \in Scopes :
           k = RequestKey(cmd[c]) /\ s0 = Scope(cmd[c])
    BY <1>5, RecordEffect
  <2> DEFINE x == TransactionOf(cmd[c])
             settled == [requests[k] EXCEPT !.status = cmd[c].status]
  <2>1. /\ k \in RequestKeys /\ s0 \in Scopes /\ ~ Told(s0) /\ Exists(k)
        /\ requests[k] \in Request /\ requests[k].status = "APPROVED"
        /\ cmd[c].status \in RequestStatuses
        /\ \A j \in RequestKeys :
               /\ requests'[j] = IF j = k THEN settled ELSE requests[j]
               /\ transactions'[j] = IF j = k THEN Append(transactions[k], x)
                                     ELSE transactions[j]
        /\ \A s \in Scopes : idempotencyRecords'[s] =
               IF s = s0
               THEN [hash |-> RequestHash(cmd[c]), request |-> settled, transaction |-> x]
               ELSE idempotencyRecords[s]
        /\ s0[1] = k[1] /\ s0[3] = "record"
    <3>1. /\ cmd[c] \in RecordCommand /\ ~ Told(s0)
          /\ requests[k] \in Request /\ requests[k] # None /\ requests[k].status = "APPROVED"
          /\ \A j \in RequestKeys :
                 /\ requests'[j] = IF j = k THEN settled ELSE requests[j]
                 /\ transactions'[j] = IF j = k THEN Append(transactions[k], x)
                                       ELSE transactions[j]
          /\ \A s \in Scopes : idempotencyRecords'[s] =
                 IF s = s0
                 THEN [hash |-> RequestHash(cmd[c]), request |-> settled, transaction |-> x]
                 ELSE idempotencyRecords[s]
      BY <1>5, <2>0, RecordEffect DEF Told
    <3>2. cmd[c].status \in RequestStatuses
      BY <3>1 DEF RecordCommand, TransactionStatuses, RequestStatuses
    <3>3. s0[1] = k[1] /\ s0[3] = "record"
      BY <2>0, <3>1 DEF RecordCommand, Scope, RequestKey
    <3> QED BY <3>1, <3>2, <3>3 DEF Exists
  <2>2. settled \in Request /\ settled # None /\ settled.no = k[2] /\ k = <<k[1], k[2]>>
    BY <2>1, StatusChange DEF Numbered, RequestKeys
  <2>3. x \in Transaction /\ RequestHash(cmd[c]) \in CreateHash \cup RecordHash
    BY <1>5, RecordEffect DEF RequestHash, RecordTransactionHash, RecordHash, RecordCommand
  <2>4. transactions[k] = <<>>
    BY <2>1 DEF SettledByReceipt, Settled
  <2> HIDE DEF x, settled
  <2>5. idempotencyRecords'[s0] # None
    BY <2>1, <2>2, <2>3, NoneAssumption DEF IdempotencyRecord
  <2>6. /\ Told(s0)' /\ Written(s0)' = k
        /\ idempotencyRecords'[s0].transaction = x
        /\ \A s \in Scopes : s # s0 => /\ (Told(s)' <=> Told(s))
                                       /\ Written(s)' = Written(s)
                                       /\ idempotencyRecords'[s] = idempotencyRecords[s]
    <3>1. /\ idempotencyRecords'[s0].request = settled
          /\ idempotencyRecords'[s0].transaction = x
      BY <2>1
    <3>2. ASSUME NEW s \in Scopes, s # s0
          PROVE  idempotencyRecords'[s] = idempotencyRecords[s]
      BY <2>1, <3>2
    <3> QED BY <2>1, <2>2, <2>5, <3>1, <3>2, Zenon DEF Told, Written
  <2>7. /\ transactions'[k] # <<>> /\ x \in Range(transactions'[k])
        /\ \A j \in RequestKeys : j # k => transactions'[j] = transactions[j]
    BY <2>1, <2>4, FirstReceipt DEF Range
  <2>8. \A j \in RequestKeys : Exists(j)' <=> Exists(j)
    BY <2>1, <2>2 DEF Exists
  <2>9. \A s \in Scopes : Told(s) => Written(s) \in RequestKeys
    BY WrittenType
  <2>10. \A s \in Scopes : Told(s) /\ s[3] = "record" => Written(s) # k
    BY <2>4 DEF EffectsOnce
  <2>11. \A s \in Scopes : Told(s)' /\ s[3] = "create" => Exists(Written(s))'
    BY <2>1, <2>6, <2>8, <2>9 DEF EffectsOnce, Exists
  <2>12. \A s \in Scopes : Told(s)' /\ s[3] = "record" =>
           /\ transactions'[Written(s)'] # <<>>
           /\ idempotencyRecords'[s].transaction \in Range(transactions'[Written(s)'])
    BY <2>6, <2>7, <2>9, <2>10 DEF EffectsOnce
  <2>13. \A j \in RequestKeys : Exists(j)' =>
           \E s \in Scopes : Told(s)' /\ s[3] = "create" /\ Written(s)' = j
    BY <2>1, <2>6, <2>8 DEF EffectsOnce
  <2>14. \A j \in RequestKeys : transactions'[j] # <<>> =>
           \E s \in Scopes : Told(s)' /\ s[3] = "record" /\ Written(s)' = j
    BY <2>1, <2>6, <2>7 DEF EffectsOnce
  <2>15. \A s, u \in Scopes :
           Told(s)' /\ Told(u)' /\ s[3] = u[3] /\ Written(s)' = Written(u)' => s = u
    BY <2>1, <2>6, <2>10 DEF EffectsOnce
  <2> QED BY <2>11, <2>12, <2>13, <2>14, <2>15 DEF EffectsOnce, Exists
<1> QED BY <1>2, <1>3, <1>4, <1>5, WriteSteps

LEMMA InitEffects == Init => Numbered /\ EffectsOnce
BY DEF Init, StoreInit, Numbered, EffectsOnce, Exists, Told

LEMMA EffectsHold == Spec => [](Numbered /\ EffectsOnce)
<1>1. ReviewInv /\ ReviewInv' /\ ReceiptInv /\ Numbered /\ EffectsOnce /\ [Next]_vars
          => Numbered' /\ EffectsOnce'
  BY NextNumbered, NextEffects DEF ReceiptInv, ReviewInv
<1> QED BY <1>1, InitEffects, ReviewInvHolds, ReceiptInvHolds, PTL DEF Spec

LEMMA EffectsTell == EffectsOnce => OneEffectPerKey
<1> SUFFICES ASSUME EffectsOnce PROVE OneEffectPerKey
  OBVIOUS
<1> DEFINE RecordsOf(op) == {s \in Scopes : s[3] = op /\ idempotencyRecords[s] # None}
<1>1. \A op : \A s \in RecordsOf(op) : s \in Scopes /\ s[3] = op /\ Told(s)
  BY DEF Told
<1>2. \A s \in Scopes : Told(s) => s \in RecordsOf(s[3])
  BY DEF Told
<1> HIDE DEF RecordsOf
<1>3. /\ \A s \in RecordsOf("create") : Exists(Written(s))
      /\ \A s \in RecordsOf("record") :
             idempotencyRecords[s].transaction \in Range(transactions[Written(s)])
  BY <1>1, Zenon DEF EffectsOnce
<1>4. \A k \in RequestKeys :
         /\ Exists(k) => \E s \in RecordsOf("create") : Written(s) = k
         /\ transactions[k] # <<>> => \E s \in RecordsOf("record") : Written(s) = k
  BY <1>2 DEF EffectsOnce
<1>5. \A op \in Operations : \A s, u \in RecordsOf(op) : Written(s) = Written(u) => s = u
  BY <1>1, Zenon DEF EffectsOnce
<1> QED BY <1>3, <1>4, <1>5, Zenon DEF OneEffectPerKey, Written, RecordsOf

\* Every request and every receipt was written under exactly one idempotency
\* record, and every record tells of such a write: retries and concurrent
\* duplicates write nothing twice (postgres_repository.go:147, :366).
THEOREM WritesHappenOnce == Spec => []OneEffectPerKey
BY EffectsTell, EffectsHold, PTL

-----------------------------------------------------------------------------
(* Retries of a receipt *)

\* A call at work holds no error.
Clean == \A c \in Calls : pc[c] \in RepositoryCalls => reply[c].error = "OK"

LEMMA AnswersEnd ==
    ASSUME TypeInv, NEW c \in Calls, NEW d \in Calls, NEW r, Answer(d, r),
           pc'[c] \in RepositoryCalls
    PROVE  pc'[c] = pc[c] /\ reply'[c] = reply[c]
BY DEF TypeInv, TypeOK, CallTypeOK, RepositoryCalls, Answer, Goto

LEMMA CarryKeeps ==
    ASSUME TypeInv, NEW c \in Calls, NEW d \in Calls, NEW label, Goto(d, label),
           pc[d] \in RepositoryCalls, pc'[c] \in RepositoryCalls
    PROVE  pc[c] \in RepositoryCalls
BY DEF TypeInv, TypeOK, CallTypeOK, Goto

LEMMA CarryRecordedClean ==
    ASSUME TypeInv, Clean, NEW c \in Calls, NEW d \in Calls,
           pc[d] \in RepositoryCalls, pc'[c] \in RepositoryCalls,
           NEW r, NEW t, NEW b, CarryRecorded(d, r, t, b)
    PROVE  reply'[c].error = "OK"
<1>1. pc[c] \in RepositoryCalls
  BY CarryKeeps DEF CarryRecorded, Carry
<1>2. CASE c = d
  BY <1>2 DEF CarryRecorded, NoReply, TypeInv, TypeOK, CallTypeOK
<1>3. CASE c # d
  BY <1>1, <1>3 DEF CarryRecorded, TypeInv, TypeOK, CallTypeOK, Clean
<1> QED BY <1>2, <1>3

LEMMA NextClean == ASSUME TypeInv, Clean, [Next]_vars PROVE Clean'
<1> SUFFICES ASSUME NEW c \in Calls, pc'[c] \in RepositoryCalls
             PROVE  reply'[c].error = "OK"
  BY DEF Clean
<1> DEFINE Keeps(d) == \/ \E r : Answer(d, r)
                       \/ \E label : Goto(d, label) /\ pc[d] \in RepositoryCalls /\ reply' = reply
                       \/ \E r, t, b : CarryRecorded(d, r, t, b) /\ pc[d] \in RepositoryCalls
<1>1. ASSUME NEW d \in Calls, Keeps(d) PROVE reply'[c].error = "OK"
  BY <1>1, AnswersEnd, CarryKeeps, CarryRecordedClean DEF Clean
<1>2. ASSUME NEW d \in Calls, NEW m \in Commands, Begin(d, m)
      PROVE  reply'[c].error = "OK"
  BY <1>2 DEF Begin, Goto, NoReply, Clean, RepositoryCalls, TypeInv, TypeOK, CallTypeOK
<1>3. ASSUME NEW d \in Calls, CallStep(d)
      PROVE  reply'[c].error = "OK"
  <2>1. CASE ListApprovals(d)
    BY <2>1 DEF ListApprovals, Goto, Clean, RepositoryCalls, TypeInv, TypeOK, CallTypeOK, Reply
  <2>2. CASE FindCreated(d) \/ FindOrder(d) \/ CreateRefundRequest(d)
    <3>1. pc[d] \in RepositoryCalls
      BY <2>2 DEF RepositoryCalls, FindCreated, FindOrder, CreateRefundRequest
    <3>2. Keeps(d)
      BY <2>2, <3>1, Zenon DEF FindCreated, FindOrder, CreateRefundRequest, Fail, AnswerCreated,
         Carry
    <3> QED BY <1>1, <3>2
  <2>3. CASE FindReviewed(d) \/ ListForLevel(d) \/ ReviewRefundRequest(d)
    <3>1. pc[d] \in RepositoryCalls
      BY <2>3 DEF RepositoryCalls, FindReviewed, ListForLevel, ReviewRefundRequest
    <3>2. Keeps(d)
      BY <2>3, <3>1, Zenon DEF FindReviewed, ListForLevel, ReviewRefundRequest, Fail, Carry
    <3> QED BY <1>1, <3>2
  <2>4. CASE FindRecorded(d) \/ FindApproved(d) \/ FindRecordedAgain(d)
    <3>1. pc[d] \in RepositoryCalls
      BY <2>4 DEF RepositoryCalls, FindRecorded, FindApproved, FindRecordedAgain
    <3>2. Keeps(d)
      BY <2>4, <3>1, Zenon DEF FindRecorded, FindApproved, FindRecordedAgain, Fail, Carry,
         CarryFirstResult
    <3> QED BY <1>1, <3>2
  <2>5. CASE RecordRefundTransaction(d)
    <3>1. pc[d] \in RepositoryCalls
      BY <2>5 DEF RepositoryCalls, RecordRefundTransaction
    <3>2. Keeps(d)
      BY <2>5, <3>1, Zenon DEF RecordRefundTransaction, Fail, CarryFirstResult
    <3> QED BY <1>1, <3>2
  <2>6. CASE GetRequest(d) \/ ListTransactions(d)
    <3>1. pc[d] \in RepositoryCalls
      BY <2>6 DEF RepositoryCalls, GetRequest, ListTransactions
    <3>2. Keeps(d)
      BY <2>6, <3>1, Zenon DEF GetRequest, ListTransactions, Fail, Carry
    <3> QED BY <1>1, <3>2
  <2> QED BY <1>3, <2>1, <2>2, <2>3, <2>4, <2>5, <2>6 DEF CallStep
<1>4. ASSUME NEW d \in Calls, CallFails(d) PROVE reply'[c].error = "OK"
  BY <1>1, <1>4, Zenon DEF CallFails, Fail
<1>5. CASE Restart
  BY <1>5 DEF Restart, NoReply
<1>6. CASE \E k \in OrderKeys, order \in OrderVersions : OrderChanges(k, order)
  BY <1>6 DEF OrderChanges, callVars, Clean
<1>7. CASE UNCHANGED vars
  BY <1>7 DEF vars, callVars, Clean
<1> QED BY <1>2, <1>3, <1>4, <1>5, <1>6, <1>7 DEF Next

\* The record of a receipt digests the number of the request it settled.
Named ==
    \A s \in Scopes : Told(s) /\ s[3] = "record" =>
        idempotencyRecords[s].hash.requestNo = idempotencyRecords[s].request.no

LEMMA NextNamed == ASSUME TypeInv, Numbered, Named, [Next]_vars PROVE Named'
<1> SUFFICES ASSUME NEW s \in Scopes, idempotencyRecords'[s] # None, s[3] = "record"
             PROVE  idempotencyRecords'[s].hash.requestNo = idempotencyRecords'[s].request.no
  BY DEF Named, Told
<1>1. idempotencyRecords'[s] = idempotencyRecords[s]
          => idempotencyRecords'[s].hash.requestNo = idempotencyRecords'[s].request.no
  BY DEF Named, Told
<1>2. CASE UNCHANGED ledgerVars
  BY <1>1, <1>2 DEF ledgerVars
<1>3. ASSUME NEW c \in Calls, Creates(c) PROVE idempotencyRecords'[s] = idempotencyRecords[s]
  <2>1. Scope(cmd[c])[3] = "create"
    BY <1>3, CreateEffect DEF Scope, CreateCommand
  <2> QED BY <1>3, <2>1, CreateEffect
<1>4. ASSUME NEW c \in Calls, Reviews(c) PROVE idempotencyRecords'[s] = idempotencyRecords[s]
  BY <1>4, ReviewEffect
<1>5. ASSUME NEW c \in Calls, Records(c)
      PROVE  idempotencyRecords'[s].hash.requestNo = idempotencyRecords'[s].request.no
  <2> DEFINE k == RequestKey(cmd[c])
             settled == [requests[k] EXCEPT !.status = cmd[c].status]
  <2>1. /\ k \in RequestKeys /\ cmd[c] \in RecordCommand
        /\ requests[k] \in Request /\ requests[k] # None
        /\ idempotencyRecords'[s] =
               IF s = Scope(cmd[c])
               THEN [hash |-> RequestHash(cmd[c]), request |-> settled,
                     transaction |-> TransactionOf(cmd[c])]
               ELSE idempotencyRecords[s]
    BY <1>5, RecordEffect
  <2>2. cmd[c].status \in RequestStatuses
    BY <2>1 DEF RecordCommand, TransactionStatuses, RequestStatuses
  <2>3. settled.no = cmd[c].requestNo
    <3>1. settled.no = requests[k].no
      BY <2>1, <2>2, StatusChange
    <3> QED BY <2>1, <3>1 DEF Numbered, Exists, RequestKey
  <2>4. RequestHash(cmd[c]).requestNo = cmd[c].requestNo
    BY <2>1 DEF RecordCommand, RequestHash, RecordTransactionHash
  <2> HIDE DEF settled
  <2> QED BY <1>1, <2>1, <2>3, <2>4
<1> QED BY <1>1, <1>2, <1>3, <1>4, <1>5, WriteSteps

\* A retry of a receipt on record names a request that is settled.
LEMMA RetrySettled ==
    ASSUME TypeInv, SettledByReceipt, EffectsOnce, Named,
           NEW c \in Calls, cmd[c] \in RecordCommand, IdempotencyHit(cmd[c])
    PROVE  /\ requests[RequestKey(cmd[c])] # None
           /\ requests[RequestKey(cmd[c])].status \in Settled
           /\ idempotencyRecords[Scope(cmd[c])].transaction
                \in Range(transactions[RequestKey(cmd[c])])
<1> DEFINE s == Scope(cmd[c])
<1>1. s \in Scopes /\ s[1] = cmd[c].tenant /\ s[3] = "record" /\ Told(s)
  BY ScopeType DEF RecordCommand, Scope, IdempotencyHit, IdempotencyMiss, Told
<1>2. idempotencyRecords[s].hash.requestNo = cmd[c].requestNo
  BY DEF IdempotencyHit, RequestHash, RecordTransactionHash, RecordCommand
<1> HIDE DEF s
<1>3. Written(s) = RequestKey(cmd[c])
  BY <1>1, <1>2 DEF Written, Named, RequestKey
<1>4. /\ transactions[RequestKey(cmd[c])] # <<>> /\ RequestKey(cmd[c]) \in RequestKeys
      /\ idempotencyRecords[s].transaction \in Range(transactions[RequestKey(cmd[c])])
  BY <1>1, <1>3, WrittenType DEF EffectsOnce
<1> QED BY <1>4 DEF SettledByReceipt, Exists, s

LEMMA RetryStep ==
    ASSUME TypeInv, SettledByReceipt, EffectsOnce, Named, Clean, [Next]_vars,
           NEW c \in Calls, AnswersRetry(c, "record")
    PROVE  reply'[c].error \in {"OK", "ErrInternal"}
<1>1. /\ pc[c] \in RepositoryCalls /\ pc'[c] = "Done"
      /\ IdempotencyHit(cmd[c])
      /\ pc \in [Calls -> RepositoryCalls \cup {"Idle", "Done"}] /\ reply \in [Calls -> Reply]
  BY DEF AnswersRetry, TypeInv, TypeOK, CallTypeOK
<1>2. cmd[c] \in RecordCommand
  BY DEF AnswersRetry, TypeInv, TypeOK, CallTypeOK, CallsHold, Command, RepositoryCalls,
         CreateCalls, ReviewCalls, RecordCalls, DetailCalls, CreateCommand, ReviewCommand,
         GetCommand
<1>3. /\ requests[RequestKey(cmd[c])] # None
      /\ requests[RequestKey(cmd[c])].status # "APPROVED"
  BY <1>1, <1>2, RetrySettled DEF Settled
<1>4. pc[c] \notin CreateCalls \cup ReviewCalls
  BY <1>2 DEF TypeInv, CallsHold, RecordCommand, CreateCommand, ReviewCommand
<1>5. CASE CallStep(c)
  <2>1. CASE FindRecorded(c) \/ FindRecordedAgain(c) \/ RecordRefundTransaction(c)
    <3>1. CarryFirstResult(c)
      BY <1>1, <2>1, Zenon DEF FindRecorded, FindRecordedAgain, RecordRefundTransaction,
         IdempotencyConflict, IdempotencyHit
    <3> QED BY <1>1, <3>1 DEF CarryFirstResult, CarryRecorded, Carry, Goto
  <2>2. CASE FindApproved(c)
    <3>1. Goto(c, "FindRecordedAgain")
      BY <1>3, <2>2, Zenon DEF FindApproved
    <3> QED BY <1>1, <3>1 DEF Goto
  <2>3. CASE GetRequest(c)
    <3>1. Goto(c, "ListApprovals")
      BY <1>3, <2>3, Zenon DEF GetRequest, Carry
    <3> QED BY <1>1, <3>1 DEF Goto
  <2>4. CASE ListApprovals(c)
    BY <1>1, <2>4 DEF ListApprovals, Goto
  <2>5. CASE ListTransactions(c)
    BY <1>1, <2>5 DEF ListTransactions, Answer, Clean, Reply
  <2>6. CASE FindCreated(c) \/ FindOrder(c) \/ CreateRefundRequest(c)
    BY <1>4, <2>6 DEF FindCreated, FindOrder, CreateRefundRequest, CreateCalls
  <2>7. CASE FindReviewed(c) \/ ListForLevel(c) \/ ReviewRefundRequest(c)
    BY <1>4, <2>7 DEF FindReviewed, ListForLevel, ReviewRefundRequest, ReviewCalls
  <2> QED BY <1>5, <2>1, <2>2, <2>3, <2>4, <2>5, <2>6, <2>7 DEF CallStep
<1>6. CASE CallFails(c)
  BY <1>1, <1>6 DEF CallFails, Fail, Answer, NoReply
<1>7. ASSUME NEW m \in Commands, Begin(c, m) PROVE FALSE
  BY <1>1, <1>7 DEF Begin, RepositoryCalls
<1>8. ASSUME NEW d \in Calls, c # d,
             CallStep(d) \/ CallFails(d) \/ \E m \in Commands : Begin(d, m)
      PROVE  FALSE
  <2>1. Stands(c)
    BY <1>8, OthersStand
  <2> QED BY <1>1, <2>1 DEF Stands, RepositoryCalls
<1>9. CASE Restart
  BY <1>1, <1>9 DEF Restart
<1>10. CASE UNCHANGED callVars
  BY <1>1, <1>10 DEF callVars, RepositoryCalls
<1>11. CASE \E d \in Calls : \/ CallStep(d) \/ CallFails(d)
                             \/ \E m \in Commands : Begin(d, m)
  BY <1>5, <1>6, <1>7, <1>8, <1>11, Zenon
<1>12. ASSUME NEW k \in OrderKeys, NEW order \in OrderVersions, OrderChanges(k, order)
       PROVE  UNCHANGED callVars
  BY <1>12 DEF OrderChanges
<1> QED BY <1>9, <1>10, <1>11, <1>12 DEF Next, vars

LEMMA InitRetries == Init => Clean /\ Named
BY DEF Init, StoreInit, CallsIdle, Clean, Named, Told, NoReply

LEMMA RetriesHold == Spec => [](Clean /\ Named)
<1>1. ReviewInv /\ Numbered /\ Clean /\ Named /\ [Next]_vars => Clean' /\ Named'
  BY NextClean, NextNamed DEF ReviewInv
<1> QED BY <1>1, InitRetries, ReviewInvHolds, EffectsHold, PTL DEF Spec

\* Once a receipt is on record no retry of it is turned down, not even one that
\* looked for the record before it was there (README.md:134, service.go:478).
THEOREM RetriesAnswered == Spec => RecordRetryNeverRefused
<1>1. ReviewInv /\ ReceiptInv /\ EffectsOnce /\ Named /\ Clean /\ [Next]_vars
          => [\A c \in Calls : AnswersRetry(c, "record") =>
                 reply'[c].error \in {"OK", "ErrInternal"}]_vars
  BY RetryStep DEF ReviewInv, ReceiptInv
<1> QED BY <1>1, ReviewInvHolds, ReceiptInvHolds, EffectsHold, RetriesHold, PTL
        DEF Spec, RecordRetryNeverRefused
=============================================================================
