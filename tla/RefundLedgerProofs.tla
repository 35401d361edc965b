-------------------------- MODULE RefundLedgerProofs --------------------------
(***************************************************************************)
(* The history of the refund desk: what is on record stays, every change   *)
(* leaves its entry in the audit trail, and the service, whatever its      *)
(* calls read several steps before they write, implements RefundLedger.    *)
(* And its answers: they repeat a key's first result, and show what their  *)
(* request's status comes from.                                            *)
(***************************************************************************)
EXTENDS RefundServiceProofs, RefundRefinement

-----------------------------------------------------------------------------
(* What is on record stays *)

LEMMA PrefixOfAppend ==
    ASSUME NEW S, NEW s \in Seq(S), NEW x
    PROVE  IsPrefix(s, s) /\ IsPrefix(s, Append(s, x))
<1> DEFINE T == S \cup {x}
           t == Append(s, x)
<1>1. s \in Seq(T) /\ x \in T
  BY SeqMonotonic
<1>2. t \in Seq(T) /\ Len(t) = Len(s) + 1 /\ \A i \in 1 .. Len(s) : t[i] = s[i]
  BY <1>1, AppendProperties
<1>3. Len(s) \in Nat /\ \A i \in 1 .. Len(s) : s[i] \in T
  BY <1>1, LenProperties, ElementOfSeq
<1> HIDE DEF t, T
<1>4. /\ SubSeq(t, 1, Len(s)) \in Seq(T) /\ Len(SubSeq(t, 1, Len(s))) = Len(s)
      /\ \A i \in 1 .. Len(s) : SubSeq(t, 1, Len(s))[i] = t[i]
  <2>1. \A i \in 1 .. Len(s) : t[i] \in T
    BY <1>2, <1>3
  <2>2. /\ SubSeq(t, 1, Len(s)) \in Seq(T)
        /\ Len(SubSeq(t, 1, Len(s))) = IF 1 <= Len(s) THEN Len(s) - 1 + 1 ELSE 0
        /\ \A i \in 1 .. Len(s) - 1 + 1 : SubSeq(t, 1, Len(s))[i] = t[1 + i - 1]
    BY <1>3, <2>1, SubSeqProperties
  <2> QED BY <1>3, <2>2
<1>5. SubSeq(t, 1, Len(s)) = s
  BY <1>1, <1>2, <1>4, SeqEqual
<1>6. SubSeq(s, 1, Len(s)) = s
  BY SubSeqFull
<1> QED BY <1>2, <1>3, <1>5, <1>6 DEF IsPrefix, t

\* The lists of a request after a step: as they were, or longer by one.
Extends(s, t) == t = s \/ \E x : t = Append(s, x)

ListsGrow(j) ==
    /\ Extends(approvals[j], approvals'[j])
    /\ Extends(transactions[j], transactions'[j])
    /\ Extends(auditLogs[j], auditLogs'[j])

LEMMA ListSteps ==
    ASSUME TypeInv, [Next]_vars, NEW j \in RequestKeys PROVE ListsGrow(j)
<1> USE DEF TypeInv, TypeOK, StoreTypeOK, ListsGrow, Extends
<1>1. CASE UNCHANGED ledgerVars
  BY <1>1 DEF ledgerVars
<1>2. ASSUME NEW c \in Calls, Creates(c) PROVE ListsGrow(j)
  BY <1>2 DEF Creates, StoreCreated
<1>3. ASSUME NEW c \in Calls, Reviews(c) PROVE ListsGrow(j)
  BY <1>3 DEF Reviews, StoreReviewed
<1>4. ASSUME NEW c \in Calls, Records(c) PROVE ListsGrow(j)
  BY <1>4 DEF Records, StoreRecorded
<1> QED BY <1>1, <1>2, <1>3, <1>4, WriteSteps

\* What may become of a request on record.
LEMMA RequestSteps ==
    ASSUME TypeInv, [Next]_vars, NEW j \in RequestKeys, Exists(j)
    PROVE  \/ requests'[j] = requests[j]
           \/ \E s \in RequestStatuses :
                 /\ requests'[j] = [requests[j] EXCEPT !.status = s]
                 /\ \/ requests[j].status = "PENDING_REVIEW"
                    \/ requests[j].status = "APPROVED" /\ s \in Settled
<1>1. CASE UNCHANGED ledgerVars
  BY <1>1 DEF ledgerVars
<1>2. ASSUME NEW c \in Calls, Creates(c) PROVE requests'[j] = requests[j]
  BY <1>2, CreateEffect DEF Exists
<1>3. ASSUME NEW c \in Calls, Reviews(c)
      PROVE  \/ requests'[j] = requests[j]
             \/ \E s \in RequestStatuses : /\ requests'[j] = [requests[j] EXCEPT !.status = s]
                                           /\ requests[j].status = "PENDING_REVIEW"
  BY <1>3, ReviewEffect
<1>4. ASSUME NEW c \in Calls, Records(c)
      PROVE  \/ requests'[j] = requests[j]
             \/ \E s \in RequestStatuses : /\ requests'[j] = [requests[j] EXCEPT !.status = s]
                                           /\ requests[j].status = "APPROVED" /\ s \in Settled
  <2> DEFINE k == RequestKey(cmd[c])
  <2>1. /\ requests[k].status = "APPROVED"
        /\ requests'[j] = IF j = k THEN [requests[k] EXCEPT !.status = cmd[c].status]
                          ELSE requests[j]
        /\ cmd[c] \in RecordCommand
    BY <1>4, RecordEffect
  <2>2. cmd[c].status \in Settled /\ cmd[c].status \in RequestStatuses
    BY <2>1 DEF RecordCommand, TransactionStatuses, Settled, RequestStatuses
  <2> HIDE DEF k
  <2> QED BY <2>1, <2>2
<1> QED BY <1>1, <1>2, <1>3, <1>4, WriteSteps

LEMMA RecordsStay ==
    ASSUME TypeInv, [Next]_vars, NEW s \in Scopes, idempotencyRecords[s] # None
    PROVE  idempotencyRecords'[s] = idempotencyRecords[s]
<1>1. CASE UNCHANGED ledgerVars
  BY <1>1 DEF ledgerVars
<1>2. ASSUME NEW c \in Calls, Creates(c) PROVE idempotencyRecords'[s] = idempotencyRecords[s]
  BY <1>2, CreateEffect
<1>3. ASSUME NEW c \in Calls, Reviews(c) PROVE idempotencyRecords'[s] = idempotencyRecords[s]
  BY <1>3, ReviewEffect
<1>4. ASSUME NEW c \in Calls, Records(c) PROVE idempotencyRecords'[s] = idempotencyRecords[s]
  BY <1>4, RecordEffect
<1> QED BY <1>1, <1>2, <1>3, <1>4, WriteSteps

LEMMA NextHistory ==
    ASSUME TypeInv, [Next]_vars
    PROVE  KeepsHistory
<1> DEFINE Kept(k) ==
               Exists(k) =>
                  /\ requests'[k] # None
                  /\ requests'[k] = [requests[k] EXCEPT !.status = requests'[k].status]
                  /\ ~ IsActiveStatus(requests[k].status) => requests'[k] = requests[k]
                  /\ requests[k].status = "APPROVED" =>
                       requests'[k].status \in {"APPROVED"} \cup Settled
           Longer(k) == /\ IsPrefix(approvals[k], approvals'[k])
                        /\ IsPrefix(transactions[k], transactions'[k])
                        /\ IsPrefix(auditLogs[k], auditLogs'[k])
           Stays(s) == idempotencyRecords[s] # None =>
                           idempotencyRecords'[s] = idempotencyRecords[s]
<1>1. ASSUME NEW k \in RequestKeys PROVE Kept(k)
  <2> SUFFICES ASSUME Exists(k) PROVE Kept(k)
    OBVIOUS
  <2>1. requests[k] \in Request /\ requests[k] # None
    BY <1>1 DEF TypeInv, TypeOK, StoreTypeOK, Exists
  <2>2. CASE requests'[k] = requests[k]
    <3>1. requests[k] = [requests[k] EXCEPT !.status = requests[k].status]
      BY <2>1 DEF Request
    <3> QED BY <2>1, <2>2, <3>1
  <2>3. ASSUME NEW s \in RequestStatuses,
               requests'[k] = [requests[k] EXCEPT !.status = s],
               \/ requests[k].status = "PENDING_REVIEW"
               \/ requests[k].status = "APPROVED" /\ s \in Settled
        PROVE  Kept(k)
    <3>1. requests'[k] # None /\ requests'[k].status = s
      BY <2>1, <2>3, StatusChange
    <3> QED BY <2>3, <3>1 DEF IsActiveStatus
  <2> QED BY <1>1, <2>2, <2>3, RequestSteps
<1>2. ASSUME NEW k \in RequestKeys PROVE Longer(k)
  <2>1. ListsGrow(k)
    BY <1>2, ListSteps
  <2>2. /\ approvals[k] \in Seq(Approval) /\ transactions[k] \in Seq(Transaction)
        /\ auditLogs[k] \in Seq(AuditLog)
    BY <1>2 DEF TypeInv, TypeOK, StoreTypeOK
  <2> QED BY <2>1, <2>2, PrefixOfAppend DEF ListsGrow, Extends
<1> QED BY <1>1, <1>2, RecordsStay DEF KeepsHistory

\* Whatever races, fails or restarts: a request keeps everything but its
\* status, and a rejected or settled one that too; timelines, trails and first
\* results only grow (docs/mvp.md:102).
THEOREM HistoryIsKept == Spec => HistoryKept
<1>1. ReviewInv /\ [Next]_vars => [KeepsHistory]_vars
  BY NextHistory DEF ReviewInv
<1> QED BY <1>1, ReviewInvHolds, PTL DEF Spec, HistoryKept

-----------------------------------------------------------------------------
(* What a call that writes has read *)

Valid == \A c \in Calls : pc[c] \in RepositoryCalls => IsValid(cmd[c])

OrdersSeen == \A k \in OrderKeys : orders[k] # None => orders[k] \in OrdersEverSeen

\* A creation has seen an order that allows it; a review and a receipt come
\* with the status they have seen.
Informed(c) ==
    /\ pc[c] = "CreateRefundRequest" =>
         LET r == request[c] IN
         /\ r.submittedBy = cmd[c].by /\ r.amount > 0
         /\ r.snapshot \in OrdersEverSeen
         /\ CanRequestUnshippedRefund(r.snapshot)
         /\ r.amount <= RefundableAmount(r.snapshot)
    /\ pc[c] \in {"ListForLevel", "ReviewRefundRequest"} =>
         request[c].status = "PENDING_REVIEW"
    /\ pc[c] = "RecordRefundTransaction" => request[c].status = "APPROVED"

LEMMA CallStepKeepsCommand ==
    ASSUME TypeInv, NEW c \in Calls, CallStep(c) \/ CallFails(c)
    PROVE  pc[c] \in RepositoryCalls /\ cmd' = cmd
<1> USE DEF RepositoryCalls, Carry, Answer, Fail, AnswerCreated, CarryRecorded, CarryFirstResult
<1>1. CASE FindCreated(c) \/ FindOrder(c) \/ CreateRefundRequest(c)
  BY <1>1, Zenon DEF FindCreated, FindOrder, CreateRefundRequest
<1>2. CASE FindReviewed(c) \/ ListForLevel(c) \/ ReviewRefundRequest(c)
  BY <1>2, Zenon DEF FindReviewed, ListForLevel, ReviewRefundRequest
<1>3. CASE FindRecorded(c) \/ FindApproved(c) \/ FindRecordedAgain(c)
  BY <1>3, Zenon DEF FindRecorded, FindApproved, FindRecordedAgain
<1>4. CASE RecordRefundTransaction(c) \/ GetRequest(c)
  BY <1>4, Zenon DEF RecordRefundTransaction, GetRequest
<1>5. CASE ListApprovals(c) \/ ListTransactions(c) \/ CallFails(c)
  BY <1>5, Zenon DEF ListApprovals, ListTransactions, CallFails
<1> QED BY <1>1, <1>2, <1>3, <1>4, <1>5 DEF CallStep

LEMMA NextValid == ASSUME TypeInv, Valid, [Next]_vars PROVE Valid'
<1> SUFFICES ASSUME NEW c \in Calls, pc'[c] \in RepositoryCalls PROVE IsValid(cmd'[c])
  BY DEF Valid
<1>1. CASE Stands(c)
  BY <1>1 DEF Stands, Valid
<1>2. CASE CallStep(c) \/ CallFails(c)
  BY <1>2, CallStepKeepsCommand DEF Valid
<1>3. ASSUME NEW m \in Commands, Begin(c, m) PROVE IsValid(cmd'[c])
  BY <1>3 DEF Begin, Goto, RepositoryCalls, TypeInv, TypeOK, CallTypeOK
<1>4. CASE Restart
  BY <1>4 DEF Restart, RepositoryCalls
<1>5. CASE \E k \in OrderKeys, order \in OrderVersions : OrderChanges(k, order)
  BY <1>1, <1>5 DEF OrderChanges, callVars, Stands
<1>6. CASE UNCHANGED vars
  BY <1>1, <1>6 DEF vars, callVars, Stands
<1> QED BY <1>1, <1>2, <1>3, <1>4, <1>5, <1>6, OthersStand DEF Next

LEMMA NextOrders == ASSUME TypeInv, OrdersSeen, [Next]_vars PROVE OrdersSeen'
<1>1. CASE UNCHANGED orders
  BY <1>1 DEF OrdersSeen
<1>2. ASSUME NEW k \in OrderKeys, NEW order \in OrderVersions, OrderChanges(k, order)
      PROVE  OrdersSeen'
  BY <1>2 DEF OrderChanges, OrdersSeen, OrdersEverSeen, TypeInv, TypeOK, StoreTypeOK
<1>3. ASSUME NEW c \in Calls, CallStep(c) PROVE UNCHANGED orders
  <2> USE DEF storeVars, StoreCreated, StoreReviewed, StoreRecorded
  <2>1. CASE FindCreated(c) \/ FindOrder(c) \/ CreateRefundRequest(c)
    BY <2>1, Zenon DEF FindCreated, FindOrder, CreateRefundRequest
  <2>2. CASE FindReviewed(c) \/ ListForLevel(c) \/ ReviewRefundRequest(c)
    BY <2>2, Zenon DEF FindReviewed, ListForLevel, ReviewRefundRequest
  <2>3. CASE FindRecorded(c) \/ FindApproved(c) \/ FindRecordedAgain(c)
    BY <2>3, Zenon DEF FindRecorded, FindApproved, FindRecordedAgain
  <2>4. CASE RecordRefundTransaction(c) \/ GetRequest(c)
    BY <2>4, Zenon DEF RecordRefundTransaction, GetRequest
  <2>5. CASE ListApprovals(c) \/ ListTransactions(c)
    BY <2>5, Zenon DEF ListApprovals, ListTransactions
  <2> QED BY <1>3, <2>1, <2>2, <2>3, <2>4, <2>5 DEF CallStep
<1>4. CASE \/ \E c \in Calls, m \in Commands : Begin(c, m)
           \/ \E c \in Calls : CallFails(c)
           \/ Restart \/ UNCHANGED vars
  BY <1>1, <1>4 DEF Begin, CallFails, Restart, vars, storeVars
<1> QED BY <1>1, <1>2, <1>3, <1>4 DEF Next

LEMMA FindOrderInforms ==
    ASSUME TypeInv, Valid, OrdersSeen, NEW c \in Calls, FindOrder(c),
           pc'[c] = "CreateRefundRequest"
    PROVE  Informed(c)'
<1> DEFINE m == cmd[c]
           order == orders[<<m.tenant, m.orderNo>>]
<1>1. m \in CreateCommand /\ IsValid(m)
  BY DEF FindOrder, TypeInv, CallsHold, CreateCalls, Valid, RepositoryCalls
<1>2. m.amount > 0 /\ <<m.tenant, m.orderNo>> \in OrderKeys
  BY <1>1 DEF CreateCommand, IsValid, CreateIsValid, OrderKeys
<1>3. ASSUME NEW e, Fail(c, e) PROVE FALSE
  BY <1>3 DEF Fail, Answer, Goto, TypeInv, TypeOK, CallTypeOK
<1>4. /\ OrderRefusal(order, m.amount) = "OK"
      /\ Carry(c, NewRequest(m, order, sequence[m.tenant] + 1), "CreateRefundRequest")
      /\ cmd' = cmd
  BY <1>3, Zenon DEF FindOrder
<1>5. order # None /\ CanRequestUnshippedRefund(order) /\ ~ (m.amount > RefundableAmount(order))
  BY <1>4, Zenon DEF OrderRefusal
<1>6. order \in Order /\ order \in OrdersEverSeen
  BY <1>2, <1>5 DEF OrdersSeen, TypeInv, TypeOK, StoreTypeOK
<1>7. m.amount <= RefundableAmount(order)
  <2>1. m.amount \in Nat /\ RefundableAmount(order) \in Int
    BY <1>1, <1>6 DEF CreateCommand, Order, RefundableAmount
  <2> QED BY <1>5, <2>1
<1>8. /\ request'[c].submittedBy = m.by /\ request'[c].amount = m.amount
      /\ request'[c].snapshot = order
  BY <1>4 DEF Carry, NewRequest, TypeInv, TypeOK, CallTypeOK
<1> HIDE DEF order
<1> QED BY <1>2, <1>4, <1>5, <1>6, <1>7, <1>8 DEF Informed

LEMMA NextInformed ==
    ASSUME TypeInv, Valid, OrdersSeen, [Next]_vars, NEW c \in Calls, Informed(c)
    PROVE  Informed(c)'
<1> USE DEF TypeInv, TypeOK, CallTypeOK
<1>1. CASE Stands(c)
  BY <1>1 DEF Stands, Informed
<1>2. CASE FindOrder(c)
  <2>1. pc'[c] \in {"CreateRefundRequest", "Done"}
    BY <1>2, SMT DEF FindOrder, Carry, Fail, Answer, Goto
  <2> QED BY <1>2, <2>1, FindOrderInforms DEF Informed
<1>3. CASE FindReviewed(c)
  <2>1. CASE pc'[c] = "Done"
    BY <2>1 DEF Informed
  <2>2. CASE /\ FindReviewedRefusal(cmd[c]) = "OK"
             /\ Carry(c, requests[RequestKey(cmd[c])], "ListForLevel")
    <3>1. requests[RequestKey(cmd[c])].status = "PENDING_REVIEW"
      BY <2>2, Zenon DEF FindReviewedRefusal
    <3> QED BY <2>2, <3>1 DEF Carry, Goto, Informed
  <2>3. ASSUME NEW e, Fail(c, e) PROVE pc'[c] = "Done"
    BY <2>3 DEF Fail, Answer, Goto
  <2> QED BY <1>3, <2>1, <2>2, <2>3, Zenon DEF FindReviewed
<1>4. CASE ListForLevel(c)
  <2>1. pc[c] = "ListForLevel"
    BY <1>4 DEF ListForLevel
  <2>2. CASE pc'[c] = "Done"
    BY <2>2 DEF Informed
  <2>3. CASE Goto(c, "ReviewRefundRequest") /\ request' = request
    BY <2>1, <2>3 DEF Goto, Informed
  <2>4. ASSUME NEW e, Fail(c, e) PROVE pc'[c] = "Done"
    BY <2>4 DEF Fail, Answer, Goto
  <2> QED BY <1>4, <2>2, <2>3, <2>4, Zenon DEF ListForLevel
<1>5. CASE FindApproved(c) /\ pc'[c] = "RecordRefundTransaction"
  <2>1. ASSUME NEW e, Fail(c, e) PROVE FALSE
    BY <1>5, <2>1 DEF Fail, Answer, Goto
  <2>2. ~ Goto(c, "FindRecordedAgain")
    BY <1>5 DEF Goto
  <2>3. /\ requests[RequestKey(cmd[c])].status = "APPROVED"
        /\ Carry(c, requests[RequestKey(cmd[c])], "RecordRefundTransaction")
    BY <1>5, <2>1, <2>2, Zenon DEF FindApproved
  <2> QED BY <1>5, <2>3 DEF Carry, Informed
<1>6. CASE pc'[c] \notin Approaches \cup {"RecordRefundTransaction"}
  BY <1>6 DEF Informed, Approaches
<1> QED BY <1>1, <1>2, <1>3, <1>4, <1>5, <1>6, CallSteps, RecordApproach

InformedInv == Valid /\ OrdersSeen /\ \A c \in Calls : Informed(c)

LEMMA InitInformed == Init => InformedInv
<1> SUFFICES ASSUME Init PROVE InformedInv
  OBVIOUS
<1>1. \A c \in Calls : pc[c] = "Idle"
  BY DEF Init, CallsIdle
<1>2. OrdersSeen
  BY ServiceAssumption DEF Init, OrdersSeen, OrdersEverSeen, Range
<1> QED BY <1>1, <1>2 DEF InformedInv, Valid, Informed, RepositoryCalls

LEMMA NextInformedInv == TypeInv /\ InformedInv /\ [Next]_vars => InformedInv'
BY NextValid, NextOrders, NextInformed DEF InformedInv

LEMMA InformedHolds == Spec => []InformedInv
BY InitInformed, NextInformedInv, ReviewInvHolds, PTL DEF Spec, ReviewInv

-----------------------------------------------------------------------------
(* The audit trail *)

\* A request with its trail, its decisions and its receipts.
Traced(r, trail, decisions, receipts) ==
    LET n == Len(decisions) IN
    /\ Len(trail) = 1 + n + Len(receipts)
    /\ trail[1].before = "NONE"
    /\ \A i \in 2 .. Len(trail) : trail[i].before = trail[i - 1].after
    /\ trail[Len(trail)].after = r.status
    /\ trail[1].operator = r.submittedBy
    /\ \A i \in 1 .. n : trail[1 + i].operator = decisions[i].decisionBy
    /\ \A i \in DOMAIN receipts : trail[1 + n + i].operator = receipts[i].processedBy

TrailsBegin == \A k \in RequestKeys : requests[k] = None => auditLogs[k] = <<>>

TrailInv == TrailsBegin /\ AuditTrailComplete

LEMMA AppendList ==
    ASSUME NEW S, NEW s \in Seq(S), NEW x \in S
    PROVE  LET t == Append(s, x) IN
           /\ Len(t) = Len(s) + 1 /\ DOMAIN t = 1 .. Len(s) + 1
           /\ t[Len(s) + 1] = x
           /\ \A i \in 1 .. Len(s) : t[i] = s[i]
  BY AppendProperties

LEMMA CreationTraced ==
    ASSUME NEW r, NEW entry \in AuditLog, NEW decisions, NEW receipts,
           Len(decisions) = 0, receipts = <<>>,
           entry.before = "NONE", entry.after = r.status, entry.operator = r.submittedBy
    PROVE  Traced(r, Append(<<>>, entry), decisions, receipts)
<1> DEFINE t == Append(<<>>, entry)
<1>1. Len(t) = 1 /\ t[1] = entry
  BY FirstReceipt
<1>2. Len(receipts) = 0 /\ DOMAIN receipts = {}
  OBVIOUS
<1> HIDE DEF t
<1> QED BY <1>1, <1>2 DEF Traced

LEMMA DecisionTraced ==
    ASSUME NEW r, NEW q, NEW trail \in Seq(AuditLog), NEW entry \in AuditLog,
           NEW decisions \in Seq(Approval), NEW decision \in Approval, NEW receipts,
           receipts = <<>>, Traced(r, trail, decisions, receipts),
           entry.before = r.status, entry.after = q.status,
           entry.operator = decision.decisionBy, q.submittedBy = r.submittedBy
    PROVE  Traced(q, Append(trail, entry), Append(decisions, decision), receipts)
<1> DEFINE t == Append(trail, entry)
           d == Append(decisions, decision)
           n == Len(decisions)
<1>1. n \in Nat /\ Len(trail) = n + 1 /\ DOMAIN receipts = {} /\ Len(receipts) = 0
  BY LenProperties DEF Traced
<1>2. /\ Len(t) = n + 2 /\ t[n + 2] = entry
      /\ \A i \in 1 .. n + 1 : t[i] = trail[i]
  BY <1>1, AppendList
<1>3. Len(d) = n + 1 /\ d[n + 1] = decision /\ \A i \in 1 .. n : d[i] = decisions[i]
  BY AppendList
<1> HIDE DEF t, d, n
<1>4. /\ trail[1].before = "NONE" /\ trail[1].operator = r.submittedBy
      /\ \A i \in 2 .. n + 1 : trail[i].before = trail[i - 1].after
      /\ trail[n + 1].after = r.status
      /\ \A i \in 1 .. n : trail[1 + i].operator = decisions[i].decisionBy
  BY <1>1 DEF Traced, n
<1>5. \A i \in 2 .. n + 2 : t[i].before = t[i - 1].after
  <2> TAKE i \in 2 .. n + 2
  <2>1. CASE i = n + 2
    <3>1. t[i] = entry /\ t[i - 1] = trail[n + 1]
      BY <1>1, <1>2, <2>1
    <3> QED BY <1>4, <3>1
  <2>2. CASE i \in 2 .. n + 1
    <3>1. t[i] = trail[i] /\ t[i - 1] = trail[i - 1]
      BY <1>1, <1>2, <2>2
    <3> QED BY <1>4, <2>2, <3>1
  <2> QED BY <1>1, <2>1, <2>2
<1>6. \A i \in 1 .. n + 1 : t[1 + i].operator = d[i].decisionBy
  <2> TAKE i \in 1 .. n + 1
  <2>1. CASE i = n + 1
    <3>1. t[1 + i] = entry /\ d[i] = decision
      BY <1>1, <1>2, <1>3, <2>1
    <3> QED BY <3>1
  <2>2. CASE i \in 1 .. n
    <3>1. t[1 + i] = trail[1 + i] /\ d[i] = decisions[i]
      BY <1>1, <1>2, <1>3, <2>2
    <3> QED BY <1>4, <2>2, <3>1
  <2> QED BY <1>1, <2>1, <2>2
<1>7. t[1] = trail[1]
  BY <1>1, <1>2
<1> QED BY <1>1, <1>2, <1>3, <1>4, <1>5, <1>6, <1>7 DEF Traced, t, d

LEMMA ReceiptTraced ==
    ASSUME NEW r, NEW q, NEW trail \in Seq(AuditLog), NEW entry \in AuditLog,
           NEW decisions \in Seq(Approval), NEW receipts, NEW receipt,
           receipts = <<>>, Traced(r, trail, decisions, receipts),
           entry.before = r.status, entry.after = q.status,
           entry.operator = receipt.processedBy, q.submittedBy = r.submittedBy
    PROVE  Traced(q, Append(trail, entry), decisions, Append(receipts, receipt))
<1> DEFINE t == Append(trail, entry)
           s == Append(receipts, receipt)
           n == Len(decisions)
<1>1. n \in Nat /\ Len(trail) = n + 1
  <2>1. Len(receipts) = 0
    OBVIOUS
  <2> QED BY <2>1, LenProperties DEF Traced
<1>2. /\ Len(t) = n + 2 /\ t[n + 2] = entry
      /\ \A i \in 1 .. n + 1 : t[i] = trail[i]
  BY <1>1, AppendList
<1>3. Len(s) = 1 /\ DOMAIN s = {1} /\ s[1] = receipt
  BY FirstReceipt
<1> HIDE DEF t, s, n
<1>4. /\ trail[1].before = "NONE" /\ trail[1].operator = r.submittedBy
      /\ \A i \in 2 .. n + 1 : trail[i].before = trail[i - 1].after
      /\ trail[n + 1].after = r.status
      /\ \A i \in 1 .. n : trail[1 + i].operator = decisions[i].decisionBy
  BY <1>1 DEF Traced, n
<1>5. \A i \in 2 .. n + 2 : t[i].before = t[i - 1].after
  <2> TAKE i \in 2 .. n + 2
  <2>1. CASE i = n + 2
    <3>1. t[i] = entry /\ t[i - 1] = trail[n + 1]
      BY <1>1, <1>2, <2>1
    <3> QED BY <1>4, <3>1
  <2>2. CASE i \in 2 .. n + 1
    <3>1. t[i] = trail[i] /\ t[i - 1] = trail[i - 1]
      BY <1>1, <1>2, <2>2
    <3> QED BY <1>4, <2>2, <3>1
  <2> QED BY <1>1, <2>1, <2>2
<1>6. \A i \in 1 .. n : t[1 + i].operator = decisions[i].decisionBy
  <2> TAKE i \in 1 .. n
  <2>1. t[1 + i] = trail[1 + i]
    BY <1>1, <1>2
  <2> QED BY <1>4, <2>1
<1>7. t[1] = trail[1]
  BY <1>1, <1>2
<1>8. 1 + n + 1 = n + 2
  BY <1>1
<1> QED BY <1>1, <1>2, <1>3, <1>4, <1>5, <1>6, <1>7, <1>8 DEF Traced, t, s, n

LEMMA NothingElseTraced ==
    ASSUME NEW j \in RequestKeys, TrailInv, requests'[j] = requests[j],
           auditLogs'[j] = auditLogs[j], approvals'[j] = approvals[j],
           transactions'[j] = transactions[j]
    PROVE  /\ requests'[j] = None => auditLogs'[j] = <<>>
           /\ requests'[j] # None =>
                Traced(requests'[j], auditLogs'[j], approvals'[j], transactions'[j])
BY DEF TrailInv, TrailsBegin, AuditTrailComplete, Traced, Exists

LEMMA NextTrail ==
    ASSUME ReviewInv, SettledByReceipt, InformedInv, TrailInv, TypeInv', [Next]_vars
    PROVE  TrailInv'
<1> SUFFICES ASSUME NEW j \in RequestKeys
             PROVE  /\ requests'[j] = None => auditLogs'[j] = <<>>
                    /\ requests'[j] # None =>
                         Traced(requests'[j], auditLogs'[j], approvals'[j], transactions'[j])
  BY DEF TrailInv, TrailsBegin, AuditTrailComplete, Traced, Exists
<1>t. TypeInv
  BY DEF ReviewInv
<1>l. /\ auditLogs[j] \in Seq(AuditLog) /\ approvals[j] \in Seq(Approval)
      /\ requests[j] \in Request \cup {None} /\ auditLogs'[j] \in Seq(AuditLog)
  BY <1>t DEF TypeInv, TypeOK, StoreTypeOK
<1>1. CASE UNCHANGED ledgerVars
  BY <1>1, NothingElseTraced DEF ledgerVars
<1>2. ASSUME NEW c \in Calls, Creates(c),
             \/ requests'[j] = None /\ auditLogs'[j] # <<>>
             \/ requests'[j] # None /\ ~ Traced(requests'[j], auditLogs'[j], approvals'[j], transactions'[j])
      PROVE  FALSE
  <2> DEFINE k == <<cmd[c].tenant, request[c].no>>
             entry == [before |-> "NONE", after |-> request[c].status, operator |-> cmd[c].by]
  <2>1. /\ k \in RequestKeys /\ cmd[c] \in CreateCommand /\ request[c] \in Request
        /\ requests[k] = None
        /\ requests'[j] = IF j = k THEN request[c] ELSE requests[j]
        /\ transactions' = transactions
    BY <1>t, <1>2, CreateEffect
  <2>2. /\ auditLogs'[j] = IF j = k THEN Append(auditLogs[j], entry) ELSE auditLogs[j]
        /\ approvals' = approvals
    BY <1>2, <1>t DEF Creates, StoreCreated, TypeInv, TypeOK, StoreTypeOK
  <2>3. CASE j = k
    <3>1. request[c].submittedBy = cmd[c].by
      BY <1>2 DEF InformedInv, Informed, Creates
    <3>2. entry \in AuditLog
      BY <2>1 DEF AuditLog, Request, CreateCommand
    <3>3. auditLogs[j] = <<>> /\ transactions[j] = <<>> /\ DOMAIN approvals[j] = {}
      BY <2>1, <2>3 DEF TrailInv, TrailsBegin, SettledByReceipt, ReviewInv, DutiesSeparated, Exists
    <3>4. Len(approvals[j]) = 0
      <4>1. Len(approvals[j]) \in Nat /\ DOMAIN approvals[j] = 1 .. Len(approvals[j])
        BY <1>l, LenProperties
      <4>2. Len(approvals[j]) > 0 => 1 \in DOMAIN approvals[j]
        BY <4>1
      <4> QED BY <3>3, <4>1, <4>2
    <3>5. Traced(request[c], Append(<<>>, entry), approvals[j], transactions[j])
      BY <3>1, <3>2, <3>3, <3>4, CreationTraced
    <3>6. request[c] # None
      BY <2>1, NoneAssumption
    <3> HIDE DEF k, entry
    <3> QED BY <1>2, <2>1, <2>2, <2>3, <3>3, <3>5, <3>6
  <2> HIDE DEF k, entry
  <2>4. CASE j # k
    BY <1>2, <2>1, <2>2, <2>4, NothingElseTraced
  <2> QED BY <2>3, <2>4
<1>3. ASSUME NEW c \in Calls, Reviews(c),
             \/ requests'[j] = None /\ auditLogs'[j] # <<>>
             \/ requests'[j] # None /\ ~ Traced(requests'[j], auditLogs'[j], approvals'[j], transactions'[j])
      PROVE  FALSE
  <2> DEFINE k == RequestKey(cmd[c])
             s == ReviewedStatus(cmd[c].decision, request[c].amount, level[c], threshold)
             entry == [before |-> request[c].status, after |-> s, operator |-> cmd[c].by]
  <2>1. Reviewed(c)
    BY <1>3 DEF Reviews, Reviewed, StoreReviewed, Decision
  <2>2. /\ cmd[c] \in ReviewCommand /\ request[c] \in Request /\ Decision(c) \in Approval
        /\ requests[k] \in Request /\ requests[k].status = "PENDING_REVIEW"
        /\ k \in RequestKeys
    BY <1>t, <2>1, ReviewedFinds, WrittenKeys
  <2>3. /\ requests'[j] = IF j = k THEN [requests[j] EXCEPT !.status = s] ELSE requests[j]
        /\ approvals'[j] = IF j = k THEN Append(approvals[j], Decision(c)) ELSE approvals[j]
        /\ auditLogs'[j] = IF j = k THEN Append(auditLogs[j], entry) ELSE auditLogs[j]
        /\ transactions' = transactions
    BY <1>3, <1>t, <2>2 DEF Reviews, StoreReviewed, Decision, TypeInv, TypeOK, StoreTypeOK
  <2>4. s \in {"REJECTED", "PENDING_REVIEW", "APPROVED"}
    BY ReviewedStatusType
  <2>5. CASE j = k
    <3>1. request[c].status = "PENDING_REVIEW"
      BY <1>3 DEF InformedInv, Informed, Reviews
    <3>2. entry \in AuditLog /\ s \in RequestStatuses
      BY <2>2, <2>4 DEF AuditLog, Request, ReviewCommand, RequestStatuses
    <3>3. requests[j] # None /\ transactions[j] = <<>>
      BY <2>2, <2>5, NoneAssumption DEF SettledByReceipt, Settled
    <3>4. Traced(requests[j], auditLogs[j], approvals[j], transactions[j])
      BY <3>3 DEF TrailInv, AuditTrailComplete, Traced, Exists
    <3>5. /\ entry.before = requests[j].status /\ entry.after = s
          /\ entry.operator = Decision(c).decisionBy
      BY <2>2, <2>5, <3>1 DEF Decision
    <3> HIDE DEF k, entry, s
    <3>6. LET q == [requests[j] EXCEPT !.status = s] IN
          q # None /\ q.status = s /\ q.submittedBy = requests[j].submittedBy
      BY <2>2, <2>5, <3>2, StatusChange
    <3>7. Traced([requests[j] EXCEPT !.status = s], Append(auditLogs[j], entry),
                 Append(approvals[j], Decision(c)), transactions[j])
      BY <1>l, <2>2, <3>2, <3>3, <3>4, <3>5, <3>6, DecisionTraced
    <3> QED BY <1>3, <2>3, <2>5, <3>6, <3>7
  <2> HIDE DEF k, entry, s
  <2>6. CASE j # k
    BY <1>3, <2>3, <2>6, NothingElseTraced
  <2> QED BY <2>5, <2>6
<1>4. ASSUME NEW c \in Calls, Records(c),
             \/ requests'[j] = None /\ auditLogs'[j] # <<>>
             \/ requests'[j] # None /\ ~ Traced(requests'[j], auditLogs'[j], approvals'[j], transactions'[j])
      PROVE  FALSE
  <2> DEFINE k == RequestKey(cmd[c])
             s == cmd[c].status
             entry == [before |-> request[c].status, after |-> s, operator |-> cmd[c].by]
             receipt == TransactionOf(cmd[c])
  <2>1. /\ k \in RequestKeys /\ cmd[c] \in RecordCommand
        /\ requests[k] \in Request /\ requests[k] # None /\ requests[k].status = "APPROVED"
        /\ requests'[j] = IF j = k THEN [requests[k] EXCEPT !.status = s] ELSE requests[j]
        /\ transactions'[j] = IF j = k THEN Append(transactions[k], receipt) ELSE transactions[j]
    BY <1>t, <1>4, RecordEffect
  <2>2. /\ auditLogs'[j] = IF j = k THEN Append(auditLogs[j], entry) ELSE auditLogs[j]
        /\ approvals' = approvals
    BY <1>4, <1>t DEF Records, StoreRecorded, TypeInv, TypeOK, StoreTypeOK
  <2>3. s \in Settled /\ s \in RequestStatuses
    BY <2>1 DEF RecordCommand, TransactionStatuses, Settled, RequestStatuses
  <2>4. CASE j = k
    <3>1. request[c].status = "APPROVED"
      BY <1>4 DEF InformedInv, Informed, Records
    <3>2. entry \in AuditLog
      BY <2>1, <2>3, <3>1 DEF AuditLog, RecordCommand, RequestStatuses
    <3>3. transactions[j] = <<>>
      BY <2>1, <2>4 DEF SettledByReceipt, Settled
    <3>4. Traced(requests[j], auditLogs[j], approvals[j], transactions[j])
      BY <2>1, <2>4 DEF TrailInv, AuditTrailComplete, Traced, Exists
    <3>5. /\ entry.before = requests[j].status /\ entry.after = s
          /\ entry.operator = receipt.processedBy
      BY <2>1, <2>4, <3>1 DEF TransactionOf
    <3> HIDE DEF k, entry, s, receipt
    <3>6. LET q == [requests[j] EXCEPT !.status = s] IN
          q # None /\ q.status = s /\ q.submittedBy = requests[j].submittedBy
      BY <2>1, <2>3, <2>4, StatusChange
    <3>7. Traced([requests[j] EXCEPT !.status = s], Append(auditLogs[j], entry),
                 approvals[j], Append(transactions[j], receipt))
      BY <1>l, <3>2, <3>3, <3>4, <3>5, <3>6, ReceiptTraced
    <3> QED BY <1>4, <2>1, <2>2, <2>4, <3>6, <3>7
  <2> HIDE DEF k, entry, s, receipt
  <2>5. CASE j # k
    BY <1>4, <2>1, <2>2, <2>5, NothingElseTraced
  <2> QED BY <2>4, <2>5
<1> QED BY <1>1, <1>2, <1>3, <1>4, WriteSteps

LEMMA InitTrail == Init => TrailInv
BY DEF Init, StoreInit, TrailInv, TrailsBegin, AuditTrailComplete, Exists

\* Every request's trail names each change and who made it, in an unbroken
\* chain of statuses that ends with today's, although the writer takes the
\* status before from what it read (docs/mvp.md:87, :132).
THEOREM TrailsStayComplete == Spec => []AuditTrailComplete
<1>1. ReviewInv /\ SettledByReceipt /\ InformedInv /\ TypeInv' /\ TrailInv /\ [Next]_vars
      => TrailInv'
  BY NextTrail
<1>2. ReviewInv => TypeInv
  BY DEF ReviewInv
<1>3. TrailInv => AuditTrailComplete
  BY DEF TrailInv
<1> QED
  BY <1>1, <1>2, <1>3, InitTrail, ReviewInvHolds, SettledOnce, InformedHolds, PTL DEF Spec

-----------------------------------------------------------------------------
(* The book: entries, and the steps that change one of them *)

Deciders(list) == [i \in 1 .. Len(list) |-> list[i].decisionBy]

\* The entry of a request that is on record.
EntryOf(r, decisions, receipts) ==
    [orderNo |-> r.orderNo, snapshot |-> r.snapshot, amount |-> r.amount,
     submittedBy |-> r.submittedBy, status |-> r.status,
     deciders |-> Deciders(decisions),
     receipt |-> IF receipts = <<>> THEN None ELSE receipts[1].providerRefundNo]

LEMMA DecidersType ==
    ASSUME NEW list \in Seq(Approval)
    PROVE  /\ Deciders(list) \in Seq(Users) /\ Len(Deciders(list)) = Len(list)
           /\ DOMAIN Deciders(list) = 1 .. Len(list)
           /\ Deciders(list) = <<>> <=> Len(list) = 0
<1>1. /\ Len(list) \in Nat
      /\ \A i \in 1 .. Len(list) : list[i].decisionBy \in Users
  <2>1. Len(list) \in Nat
    BY LenProperties
  <2>2. ASSUME NEW i \in 1 .. Len(list) PROVE list[i].decisionBy \in Users
    <3>1. list[i] \in Approval
      BY ElementOfSeq
    <3> QED BY <3>1 DEF Approval
  <2> QED BY <2>1, <2>2
<1>2. \A n \in Nat : \A f \in [1 .. n -> Users] : f \in Seq(Users) /\ Len(f) = n
  OBVIOUS
<1>3. Deciders(list) \in [1 .. Len(list) -> Users]
  BY <1>1 DEF Deciders
<1>4. Deciders(list) \in Seq(Users) /\ Len(Deciders(list)) = Len(list)
  BY <1>1, <1>2, <1>3
<1>5. DOMAIN Deciders(list) = 1 .. Len(list)
  BY DEF Deciders
<1>6. Deciders(list) # <<>> => Len(Deciders(list)) # 0
  BY <1>4, EmptySeq
<1>7. Len(<<>>) = 0
  OBVIOUS
<1> QED BY <1>4, <1>5, <1>6, <1>7

LEMMA DecidersAppend ==
    ASSUME NEW list \in Seq(Approval), NEW a \in Approval
    PROVE  Deciders(Append(list, a)) = Append(Deciders(list), a.decisionBy)
<1> DEFINE n == Len(list)
           s == Deciders(Append(list, a))
           t == Append(Deciders(list), a.decisionBy)
<1>1. /\ n \in Nat /\ Append(list, a) \in Seq(Approval) /\ Len(Append(list, a)) = n + 1
      /\ \A i \in 1 .. n : Append(list, a)[i] = list[i]
      /\ Append(list, a)[n + 1] = a
  BY LenProperties, AppendProperties
<1>2. a.decisionBy \in Users
  BY DEF Approval
<1>3. s \in Seq(Users) /\ Len(s) = n + 1
  BY <1>1, DecidersType
<1>4. /\ t \in Seq(Users) /\ Len(t) = n + 1 /\ t[n + 1] = a.decisionBy
      /\ \A i \in 1 .. n : t[i] = Deciders(list)[i]
  BY <1>2, DecidersType, AppendProperties
<1>5. ASSUME NEW i \in 1 .. n + 1 PROVE s[i] = t[i]
  <2>1. s[i] = Append(list, a)[i].decisionBy
    BY <1>1 DEF Deciders
  <2> HIDE DEF s, t, n
  <2>2. CASE i = n + 1
    <3>1. Append(list, a)[i] = a /\ t[i] = a.decisionBy
      BY <1>1, <1>4, <2>2
    <3> QED BY <2>1, <3>1
  <2>3. CASE i \in 1 .. n
    <3>1. t[i] = list[i].decisionBy
      BY <1>4, <2>3 DEF Deciders, n
    <3>2. Append(list, a)[i] = list[i]
      BY <1>1, <2>3
    <3> QED BY <2>1, <3>1, <3>2
  <2> QED BY <1>1, <2>2, <2>3
<1> HIDE DEF s, t, n
<1>6. s = t
  BY <1>3, <1>4, <1>5, SeqEqual
<1> QED BY <1>6 DEF s, t

LEMMA BookIs ==
    /\ BookView = [k \in RequestKeys |->
           IF requests[k] = None THEN None
           ELSE EntryOf(requests[k], approvals[k], transactions[k])]
    /\ BookView' = [k \in RequestKeys |->
           IF requests'[k] = None THEN None
           ELSE EntryOf(requests'[k], approvals'[k], transactions'[k])]
BY DEF BookView, EntryOf, Deciders

\* A step that writes nothing but request k changes only its entry.
LEMMA BookStep ==
    ASSUME NEW k \in RequestKeys,
           \A j \in RequestKeys : j # k =>
               /\ requests'[j] = requests[j] /\ approvals'[j] = approvals[j]
               /\ transactions'[j] = transactions[j]
    PROVE  BookView' = [BookView EXCEPT ![k] =
               IF requests'[k] = None THEN None
               ELSE EntryOf(requests'[k], approvals'[k], transactions'[k])]
BY BookIs

LEMMA BookStands ==
    ASSUME UNCHANGED ledgerVars
    PROVE  UNCHANGED <<BookView, UsedView>>
BY DEF ledgerVars, BookView, UsedView

\* The scope of a step that stores a result under it is used from then on.
LEMMA UsedStep ==
    ASSUME NEW s \in Scopes, NEW record, record # None,
           \A u \in Scopes : idempotencyRecords'[u] =
               IF u = s THEN record ELSE idempotencyRecords[u]
    PROVE  UsedView' = [UsedView EXCEPT ![s] = TRUE]
BY Zenon DEF UsedView

SnapshotsSeen ==
    \A k \in RequestKeys : Exists(k) => requests[k].snapshot \in OrdersEverSeen

LEMMA NextSnapshots ==
    ASSUME TypeInv, InformedInv, SnapshotsSeen, [Next]_vars
    PROVE  SnapshotsSeen'
<1> SUFFICES ASSUME NEW k \in RequestKeys, requests'[k] # None
             PROVE  requests'[k].snapshot \in OrdersEverSeen
  BY DEF SnapshotsSeen, Exists
<1>1. CASE Exists(k)
  <2>1. requests[k] \in Request /\ requests[k].snapshot \in OrdersEverSeen
    BY <1>1 DEF SnapshotsSeen, TypeInv, TypeOK, StoreTypeOK, Exists
  <2>2. requests'[k].snapshot = requests[k].snapshot
    BY <1>1, <2>1, RequestSteps DEF Request
  <2> QED BY <2>1, <2>2
<1>2. CASE ~ Exists(k)
  <2>1. ASSUME NEW c \in Calls, Creates(c) PROVE requests'[k].snapshot \in OrdersEverSeen
    <3>1. requests'[k] = request[c] \/ requests'[k] = requests[k]
      BY <2>1, CreateEffect
    <3>2. request[c].snapshot \in OrdersEverSeen
      BY <2>1 DEF InformedInv, Informed, Creates
    <3> QED BY <1>2, <3>1, <3>2 DEF Exists
  <2>2. ASSUME NEW c \in Calls, Reviews(c) PROVE FALSE
    <3>1. requests'[k] = requests[k] \/ requests[k] \in Request
      BY <2>2, ReviewEffect
    <3> QED BY <1>2, <3>1, NoneAssumption DEF Exists
  <2>3. ASSUME NEW c \in Calls, Records(c) PROVE FALSE
    <3>1. requests'[k] = requests[k] \/ requests[k] # None
      BY <2>3, RecordEffect
    <3> QED BY <1>2, <3>1 DEF Exists
  <2>4. CASE UNCHANGED ledgerVars
    BY <1>2, <2>4 DEF ledgerVars, Exists
  <2> QED BY <2>1, <2>2, <2>3, <2>4, WriteSteps
<1> QED BY <1>1, <1>2

\* What a step of the book may rely on.
LedgerInv == ReviewInv /\ ReceiptInv /\ InformedInv /\ SnapshotsSeen

LEMMA EntryType ==
    ASSUME NEW r \in Request, NEW decisions \in Seq(Approval),
           NEW receipts \in Seq(Transaction), r.snapshot \in OrdersEverSeen
    PROVE  EntryOf(r, decisions, receipts) # None
<1>1. Deciders(decisions) \in Seq(Users)
  BY DecidersType
<1>2. (IF receipts = <<>> THEN None ELSE receipts[1].providerRefundNo)
        \in ProviderRefundNos \cup {None}
  <2>1. receipts # <<>> => receipts[1] \in Transaction
    <3>1. receipts # <<>> => 1 \in 1 .. Len(receipts)
      BY EmptySeq
    <3> QED BY <3>1, ElementOfSeq
  <2> QED BY <2>1 DEF Transaction
<1>3. EntryOf(r, decisions, receipts) \in Ledger!Entry
  <2>1. /\ r.orderNo \in OrderNos /\ r.amount \in Nat
        /\ r.submittedBy \in Users /\ r.status \in RequestStatuses
    BY DEF Request
  <2> QED BY <1>1, <1>2, <2>1
     DEF EntryOf, Ledger!Entry, Ledger!RequestStatuses, RequestStatuses
<1> QED BY <1>3, EntryAssumption

\* What is on record is an entry of the book, before a step and after it.
LEMMA OnRecord ==
    ASSUME LedgerInv, LedgerInv', NEW k \in RequestKeys
    PROVE  /\ requests[k] # None =>
                /\ BookView[k] = EntryOf(requests[k], approvals[k], transactions[k])
                /\ BookView[k] # None
           /\ requests'[k] # None =>
                /\ BookView'[k] = EntryOf(requests'[k], approvals'[k], transactions'[k])
                /\ BookView'[k] # None
<1>1. requests[k] # None =>
        /\ requests[k] \in Request /\ requests[k].snapshot \in OrdersEverSeen
        /\ approvals[k] \in Seq(Approval) /\ transactions[k] \in Seq(Transaction)
  BY DEF LedgerInv, ReviewInv, TypeInv, TypeOK, StoreTypeOK, SnapshotsSeen, Exists
<1>2. requests'[k] # None =>
        /\ requests'[k] \in Request /\ requests'[k].snapshot \in OrdersEverSeen
        /\ approvals'[k] \in Seq(Approval) /\ transactions'[k] \in Seq(Transaction)
  BY DEF LedgerInv, ReviewInv, TypeInv, TypeOK, StoreTypeOK, SnapshotsSeen, Exists
<1> QED BY <1>1, <1>2, EntryType, BookIs

\* The definitions the book shares with the domain are those of the domain.
LEMMA SameRules ==
    /\ Ledger!RequestKeys = RequestKeys /\ Ledger!RequestNos = RequestNos
    /\ Ledger!Scopes = Scopes /\ Ledger!TransactionStatuses = TransactionStatuses
    /\ \A s : Ledger!IsActiveStatus(s) <=> IsActiveStatus(s)
    /\ \A o : Ledger!CanRequestUnshippedRefund(o) <=> CanRequestUnshippedRefund(o)
    /\ \A o : Ledger!RefundableAmount(o) = RefundableAmount(o)
    /\ \A a, th : Ledger!RequiresHighAmountApproval(a, th) <=>
                  RequiresHighAmountApproval(a, th)
<1>1. /\ Ledger!RequestKeys = RequestKeys /\ Ledger!RequestNos = RequestNos
      /\ Ledger!Scopes = Scopes /\ Ledger!TransactionStatuses = TransactionStatuses
  BY DEF Ledger!RequestKeys, RequestKeys, Ledger!RequestNos, RequestNos, Ledger!Scopes,
     Scopes, Ledger!Operations, Operations, Ledger!TransactionStatuses, TransactionStatuses
<1>2. \A o : Ledger!RefundableAmount(o) = RefundableAmount(o)
  BY DEF Ledger!RefundableAmount, RefundableAmount
<1>3. \A s : Ledger!IsActiveStatus(s) <=> IsActiveStatus(s)
  BY DEF Ledger!IsActiveStatus, IsActiveStatus
<1>4. \A o : Ledger!CanRequestUnshippedRefund(o) <=> CanRequestUnshippedRefund(o)
  BY <1>2 DEF Ledger!CanRequestUnshippedRefund, CanRequestUnshippedRefund
<1>5. \A a, th : Ledger!RequiresHighAmountApproval(a, th) <=> RequiresHighAmountApproval(a, th)
  BY DEF Ledger!RequiresHighAmountApproval, RequiresHighAmountApproval
<1> QED BY <1>1, <1>2, <1>3, <1>4, <1>5

\* A write leaves a result under its scope.
LEMMA ResultIsStored ==
    ASSUME TypeInv, NEW c \in Calls, Creates(c) \/ Records(c)
    PROVE  idempotencyRecords'[Scope(cmd[c])] # None
<1>1. CASE Creates(c)
  <2>1. /\ cmd[c] \in CreateCommand /\ request[c] \in Request
        /\ idempotencyRecords'[Scope(cmd[c])] =
               [hash |-> RequestHash(cmd[c]), request |-> request[c], transaction |-> None]
    BY <1>1, CreateEffect
  <2>2. RequestHash(cmd[c]) \in CreateHash
    BY <2>1 DEF RequestHash, CreateRequestHash, CreateHash, CreateCommand
  <2>3. idempotencyRecords'[Scope(cmd[c])] \in IdempotencyRecord
    BY <2>1, <2>2 DEF IdempotencyRecord
  <2> QED BY <2>3, NoneAssumption
<1>2. CASE Records(c)
  <2> DEFINE settled == [requests[RequestKey(cmd[c])] EXCEPT !.status = cmd[c].status]
  <2>1. /\ cmd[c] \in RecordCommand /\ TransactionOf(cmd[c]) \in Transaction
        /\ requests[RequestKey(cmd[c])] \in Request
        /\ idempotencyRecords'[Scope(cmd[c])] =
               [hash |-> RequestHash(cmd[c]), request |-> settled,
                transaction |-> TransactionOf(cmd[c])]
    BY <1>2, RecordEffect
  <2>2. RequestHash(cmd[c]) \in RecordHash
    BY <2>1 DEF RequestHash, RecordTransactionHash, RecordHash, RecordCommand
  <2>3. cmd[c].status \in RequestStatuses
    BY <2>1 DEF RecordCommand, TransactionStatuses, RequestStatuses
  <2>4. settled \in Request
    BY <2>1, <2>3, StatusChange
  <2> HIDE DEF settled
  <2>5. idempotencyRecords'[Scope(cmd[c])] \in IdempotencyRecord
    BY <2>1, <2>2, <2>4 DEF IdempotencyRecord
  <2> QED BY <2>5, NoneAssumption
<1> QED BY <1>1, <1>2

LEMMA CreateIsSubmit ==
    ASSUME LedgerInv, LedgerInv', NEW c \in Calls, Creates(c)
    PROVE  Ledger!Next
<1> DEFINE m == cmd[c]
           r == request[c]
           k == <<m.tenant, r.no>>
           e == [orderNo |-> r.orderNo, snapshot |-> r.snapshot, amount |-> r.amount,
                 submittedBy |-> m.by, status |-> "PENDING_REVIEW",
                 deciders |-> <<>>, receipt |-> None]
           record == [hash |-> RequestHash(m), request |-> r, transaction |-> None]
<1>1. TypeInv
  BY DEF LedgerInv, ReviewInv
<1>2. /\ k \in RequestKeys /\ m \in CreateCommand /\ r \in Request
      /\ Scope(m) \in Scopes /\ idempotencyRecords[Scope(m)] = None
      /\ requests[k] = None
      /\ ~ HasActiveRequest(m.tenant, r.orderNo)
      /\ \A j \in RequestKeys : requests'[j] = IF j = k THEN r ELSE requests[j]
      /\ \A s \in Scopes : idempotencyRecords'[s] =
             IF s = Scope(m) THEN record ELSE idempotencyRecords[s]
      /\ transactions' = transactions /\ approvals' = approvals
  BY <1>1, CreateEffect DEF Creates, StoreCreated
<1>3. /\ r.submittedBy = m.by /\ r.amount > 0 /\ r.snapshot \in OrdersEverSeen
      /\ CanRequestUnshippedRefund(r.snapshot) /\ r.amount <= RefundableAmount(r.snapshot)
      /\ r.status = "PENDING_REVIEW"
  BY DEF LedgerInv, InformedInv, Informed, ReviewInv, CallsReview, CallReviews, Creates
<1>4. /\ m.tenant \in Tenants /\ m.by \in Users /\ m.key \in Keys /\ m.op = "create"
      /\ r.orderNo \in OrderNos /\ r.amount \in Nat /\ r.no \in RequestNos
      /\ r.snapshot \in Order
  BY <1>2 DEF CreateCommand, Request
<1>5. approvals[k] \in Seq(Approval) /\ Len(approvals[k]) = 0 /\ transactions[k] = <<>>
  <2>1. DOMAIN approvals[k] = {} /\ transactions[k] = <<>>
    BY <1>2 DEF LedgerInv, ReviewInv, DutiesSeparated, ReceiptInv, SettledByReceipt, Exists
  <2>2. approvals[k] \in Seq(Approval)
    BY <1>1, <1>2 DEF TypeInv, TypeOK, StoreTypeOK
  <2>3. Len(approvals[k]) \in Nat /\ DOMAIN approvals[k] = 1 .. Len(approvals[k])
    BY <2>2, LenProperties
  <2>4. Len(approvals[k]) > 0 => 1 \in DOMAIN approvals[k]
    BY <2>3
  <2> QED BY <2>1, <2>2, <2>3, <2>4
<1>6. EntryOf(r, approvals[k], transactions[k]) = e
  <2>1. Deciders(approvals[k]) = <<>>
    BY <1>5, DecidersType
  <2> QED BY <1>3, <1>5, <2>1 DEF EntryOf
<1>7. requests'[k] = r /\ r # None /\ BookView[k] = None
  BY <1>2, NoneAssumption, BookIs
<1> HIDE DEF m, r, k, e, record
<1>8. BookView' = [BookView EXCEPT ![k] = e]
  BY <1>2, <1>6, <1>7, BookStep
<1>9. BookView'[k] # None /\ BookView'[k] = e
  BY <1>2, <1>6, <1>7, OnRecord
<1>10. UsedView' = [UsedView EXCEPT ![Scope(m)] = TRUE] /\ ~ UsedView[Scope(m)]
  <2>1. record # None
    BY <1>1, <1>2, ResultIsStored DEF m
  <2> QED BY <1>2, <2>1, UsedStep, Zenon DEF UsedView
<1>11. Ledger!OrderIsFree(m.tenant, r.orderNo)
  <2> SUFFICES ASSUME NEW no \in RequestNos, requests[<<m.tenant, no>>] # None,
                      BookView[<<m.tenant, no>>].orderNo = r.orderNo,
                      IsActiveStatus(BookView[<<m.tenant, no>>].status)
               PROVE  FALSE
    <3>1. \A no \in RequestNos : <<m.tenant, no>> \in RequestKeys
      BY <1>4 DEF RequestKeys
    <3>2. \A no \in RequestNos : BookView[<<m.tenant, no>>] # None => requests[<<m.tenant, no>>] # None
      BY <3>1, BookIs
    <3> QED BY <3>2, SameRules DEF Ledger!OrderIsFree
  <2>1. <<m.tenant, no>> \in RequestKeys
    BY <1>4 DEF RequestKeys
  <2>2. BookView[<<m.tenant, no>>] = EntryOf(requests[<<m.tenant, no>>],
            approvals[<<m.tenant, no>>], transactions[<<m.tenant, no>>])
    BY <2>1, BookIs
  <2>3. /\ requests[<<m.tenant, no>>].orderNo = r.orderNo
        /\ IsActiveStatus(requests[<<m.tenant, no>>].status)
    BY <2>2 DEF EntryOf
  <2> QED BY <1>2, <2>3 DEF HasActiveRequest
<1>12. k[1] = m.tenant /\ Scope(m) = <<k[1], m.by, "create", m.key>>
  BY <1>4 DEF k, Scope
<1>13. Ledger!Submit(k, m.by, m.key, r.orderNo, r.snapshot, r.amount)
  <2>1. r.amount <= RefundableAmount(r.snapshot) /\ Ledger!CanRequestUnshippedRefund(r.snapshot)
    BY <1>3, SameRules
  <2> QED BY <1>7, <1>8, <1>10, <1>11, <1>12, <2>1, SameRules DEF Ledger!Submit, e
<1>14. r.amount \in 1 .. r.snapshot.paid
  BY <1>3, <1>4 DEF RefundableAmount, Order
<1>15. Ledger!SubmitAny(k)
  BY <1>3, <1>4, <1>7, <1>13, <1>14 DEF Ledger!SubmitAny
<1> QED BY <1>2, <1>7, <1>9, <1>15, SameRules DEF Ledger!Next

LEMMA DecidedEntry ==
    ASSUME NEW r, NEW q, NEW list, NEW longer, NEW receipts, NEW s, NEW u,
           q.status = s, q.orderNo = r.orderNo, q.snapshot = r.snapshot,
           q.amount = r.amount, q.submittedBy = r.submittedBy,
           Deciders(longer) = Append(Deciders(list), u)
    PROVE  EntryOf(q, longer, receipts) = Ledger!Decided(EntryOf(r, list, receipts), u, s)
<1> DEFINE e == EntryOf(r, list, receipts)
           d == Append(Deciders(list), u)
           half == [e EXCEPT !.status = s]
           receipt == IF receipts = <<>> THEN None ELSE receipts[1].providerRefundNo
<1>1. half.deciders = Deciders(list)
  BY DEF EntryOf
<1>2. Ledger!Decided(e, u, s) = [half EXCEPT !.deciders = d]
  BY <1>1 DEF EntryOf, Ledger!Decided
<1>3. half = [orderNo |-> q.orderNo, snapshot |-> q.snapshot, amount |-> q.amount,
              submittedBy |-> q.submittedBy, status |-> s, deciders |-> Deciders(list),
              receipt |-> receipt]
  BY DEF EntryOf
<1>4. EntryOf(q, longer, receipts) =
          [orderNo |-> q.orderNo, snapshot |-> q.snapshot, amount |-> q.amount,
           submittedBy |-> q.submittedBy, status |-> s, deciders |-> d,
           receipt |-> receipt]
  BY DEF EntryOf
<1> HIDE DEF half, e, d, receipt
<1>5. [half EXCEPT !.deciders = d] =
          [orderNo |-> q.orderNo, snapshot |-> q.snapshot, amount |-> q.amount,
           submittedBy |-> q.submittedBy, status |-> s, deciders |-> d,
           receipt |-> receipt]
  BY <1>3
<1> QED BY <1>2, <1>4, <1>5 DEF e

LEMMA ReviewIsDecide ==
    ASSUME LedgerInv, LedgerInv', NEW c \in Calls, Reviews(c)
    PROVE  Ledger!Next
<1> DEFINE m == cmd[c]
           k == RequestKey(m)
           r == requests[k]
           list == approvals[k]
           e == BookView[k]
           after == ReviewedStatus(m.decision, request[c].amount, level[c], threshold)
           q == [r EXCEPT !.status = after]
<1>1. TypeInv /\ ReviewInv
  BY DEF LedgerInv, ReviewInv
<1>2. Reviewed(c)
  BY DEF Reviews, Reviewed, StoreReviewed, Decision
<1>3. /\ m \in ReviewCommand /\ level[c] \in Levels /\ Decision(c) \in Approval
      /\ r \in Request /\ r.status = "PENDING_REVIEW"
      /\ list \in Seq(Approval) /\ k \in RequestKeys
  BY <1>1, <1>2, ReviewedFinds, WrittenKeys
<1>4. /\ level[c] = Len(list) + 1
      /\ \A i \in 1 .. Len(list) : list[i].decisionBy # m.by
      /\ r.amount = request[c].amount /\ r.submittedBy # m.by
      /\ level[c] = 2 => \E th \in Thresholds : r.amount >= th
  BY <1>1, <1>2, DecisionFollows
<1>5. /\ requests' = [requests EXCEPT ![k] = q]
      /\ approvals' = [approvals EXCEPT ![k] = Append(list, Decision(c))]
      /\ UNCHANGED <<transactions, idempotencyRecords>>
  BY DEF Reviews, StoreReviewed
<1>6. /\ requests'[k] = q /\ approvals'[k] = Append(list, Decision(c))
      /\ \A j \in RequestKeys : j # k => requests'[j] = requests[j] /\ approvals'[j] = approvals[j]
  BY <1>1, <1>3, <1>5 DEF TypeInv, TypeOK, StoreTypeOK
<1>7. after \in {"REJECTED", "PENDING_REVIEW", "APPROVED"}
  BY ReviewedStatusType
<1>8. /\ m.by \in Users /\ m.decision \in {"APPROVED", "REJECTED"}
      /\ Decision(c).decisionBy = m.by
  BY <1>3 DEF ReviewCommand, Decision
<1>9. q # None
  <2>1. after \in RequestStatuses
    BY <1>7 DEF RequestStatuses
  <2> HIDE DEF after, r
  <2> QED BY <1>3, <2>1, StatusChange
<1> HIDE DEF m, k
<1>10. r # None
  BY <1>3, NoneAssumption
<1>11. e = EntryOf(r, list, transactions[k]) /\ e # None
  BY <1>3, <1>10, OnRecord
<1>12. /\ e.status = "PENDING_REVIEW" /\ e.submittedBy = r.submittedBy
       /\ e.amount = r.amount /\ e.deciders = Deciders(list)
  BY <1>3, <1>11 DEF EntryOf
<1>13. /\ Deciders(list) \in Seq(Users) /\ Len(Deciders(list)) = Len(list)
       /\ DOMAIN Deciders(list) = 1 .. Len(list)
       /\ Deciders(list) = <<>> <=> Len(list) = 0
  BY <1>3, DecidersType
<1>14. \A i \in DOMAIN e.deciders : e.deciders[i] # m.by
  BY <1>4, <1>12, <1>13 DEF Deciders
<1>15. EntryOf(q, Append(list, Decision(c)), transactions[k]) =
           Ledger!Decided(e, m.by, after)
  <2>1. Deciders(Append(list, Decision(c))) = Append(Deciders(list), m.by)
    BY <1>3, <1>8, DecidersAppend
  <2>2. q.status = after /\ q.orderNo = r.orderNo /\ q.snapshot = r.snapshot
        /\ q.amount = r.amount /\ q.submittedBy = r.submittedBy
    BY <1>3 DEF Request
  <2> HIDE DEF q, r, list, e, after
  <2> QED BY <1>11, <2>1, <2>2, DecidedEntry
<1>16. BookView' = [BookView EXCEPT ![k] = Ledger!Decided(@, m.by, after)]
  <2>1. BookView' = [BookView EXCEPT ![k] =
            EntryOf(q, Append(list, Decision(c)), transactions[k])]
    BY <1>3, <1>5, <1>6, <1>9, BookStep
  <2>2. Ledger!Decided(BookView[k], m.by, after) =
            EntryOf(q, Append(list, Decision(c)), transactions[k])
    BY <1>15
  <2> HIDE DEF q, r, list, after, e
  <2> QED BY <2>1, <2>2
<1>17. UsedView' = UsedView
  BY <1>5 DEF UsedView
<1>18. BookView'[k] # BookView[k]
  <2>1. BookView'[k] = EntryOf(q, Append(list, Decision(c)), transactions[k])
    BY <1>3, <1>5, <1>6, <1>9, OnRecord
  <2>2. BookView'[k].deciders = Append(Deciders(list), m.by)
    BY <1>3, <1>8, <2>1, DecidersAppend DEF EntryOf
  <2>3. Len(Append(Deciders(list), m.by)) = Len(Deciders(list)) + 1
    BY <1>8, <1>13, AppendProperties
  <2>4. Len(Deciders(list)) \in Nat
    BY <1>13, LenProperties
  <2> HIDE DEF list
  <2> QED BY <1>12, <2>2, <2>3, <2>4
<1> HIDE DEF r, list, e
<1>19. Ledger!Decide(k, m.by, after)
  BY <1>4, <1>12, <1>14, <1>16, <1>17 DEF Ledger!Decide, e
<1>20. Len(list) \in Nat /\ level[c] \in {1, 2} /\ level[c] = Len(list) + 1
  BY <1>3, <1>4, LenProperties DEF Levels
<1>21. Ledger!Approve(k, m.by) \/ Ledger!Reject(k, m.by)
  <2>1. CASE m.decision = "REJECTED"
    <3>1. after = "REJECTED"
      BY <2>1 DEF ReviewedStatus
    <3>2. Len(BookView[k].deciders) <= 1
      BY <1>12, <1>13, <1>20 DEF e
    <3> QED BY <1>19, <3>1, <3>2 DEF Ledger!Reject
  <2>2. CASE m.decision = "APPROVED" /\ level[c] = 1
    <3> DEFINE high == Ledger!RequiresHighAmountApproval(BookView[k].amount, threshold)
    <3>1. threshold \in Thresholds
      BY <1>1 DEF TypeInv, TypeOK, ProcessTypeOK
    <3>2. high <=> RequiresHighAmountApproval(request[c].amount, threshold)
      BY <1>4, <1>12, SameRules DEF e
    <3>3. after = IF high THEN "PENDING_REVIEW" ELSE "APPROVED"
      <4> HIDE DEF high
      <4> QED BY <2>2, <3>2 DEF ReviewedStatus
    <3>4. BookView[k].deciders = <<>>
      BY <1>12, <1>13, <1>20, <2>2 DEF e
    <3> HIDE DEF after
    <3>5. Ledger!Decide(k, m.by, IF high THEN "PENDING_REVIEW" ELSE "APPROVED")
      BY <1>19, <3>3
    <3> QED BY <3>1, <3>4, <3>5 DEF Ledger!Approve
  <2>3. CASE m.decision = "APPROVED" /\ level[c] = 2
    <3>1. after = "APPROVED"
      BY <2>3 DEF ReviewedStatus
    <3>2. PICK th \in Thresholds : e.amount >= th
      BY <1>4, <1>12, <2>3
    <3>3. Ledger!RequiresHighAmountApproval(BookView[k].amount, th)
      BY <3>2 DEF Ledger!RequiresHighAmountApproval, e
    <3>4. Len(BookView[k].deciders) = 1
      BY <1>12, <1>13, <1>20, <2>3 DEF e
    <3>5. Ledger!Decide(k, m.by, "APPROVED")
      BY <1>19, <3>1
    <3> QED BY <3>3, <3>4, <3>5 DEF Ledger!Approve
  <2> QED BY <1>8, <1>20, <2>1, <2>2, <2>3
<1>22. Ledger!DecideAny(k)
  BY <1>8, <1>11, <1>21 DEF Ledger!DecideAny, e
<1> QED BY <1>3, <1>18, <1>22, SameRules DEF Ledger!Next

LEMMA PaidEntry ==
    ASSUME NEW r, NEW q, NEW list, NEW receipts, NEW paid, NEW s, NEW p,
           q.status = s, q.orderNo = r.orderNo, q.snapshot = r.snapshot,
           q.amount = r.amount, q.submittedBy = r.submittedBy,
           paid # <<>>, paid[1].providerRefundNo = p
    PROVE  EntryOf(q, list, paid) = Ledger!Paid(EntryOf(r, list, receipts), p, s)
<1> DEFINE e == EntryOf(r, list, receipts)
           half == [e EXCEPT !.status = s]
           receipt == IF receipts = <<>> THEN None ELSE receipts[1].providerRefundNo
<1>1. Ledger!Paid(e, p, s) = [half EXCEPT !.receipt = p]
  BY DEF EntryOf, Ledger!Paid
<1>2. half = [orderNo |-> q.orderNo, snapshot |-> q.snapshot, amount |-> q.amount,
              submittedBy |-> q.submittedBy, status |-> s, deciders |-> Deciders(list),
              receipt |-> receipt]
  BY DEF EntryOf
<1>3. EntryOf(q, list, paid) =
          [orderNo |-> q.orderNo, snapshot |-> q.snapshot, amount |-> q.amount,
           submittedBy |-> q.submittedBy, status |-> s, deciders |-> Deciders(list),
           receipt |-> p]
  BY DEF EntryOf
<1> HIDE DEF half, e, receipt
<1>4. [half EXCEPT !.receipt = p] =
          [orderNo |-> q.orderNo, snapshot |-> q.snapshot, amount |-> q.amount,
           submittedBy |-> q.submittedBy, status |-> s, deciders |-> Deciders(list),
           receipt |-> p]
  BY <1>2
<1> QED BY <1>1, <1>3, <1>4 DEF e

LEMMA RecordIsSettle ==
    ASSUME LedgerInv, LedgerInv', NEW c \in Calls, Records(c)
    PROVE  Ledger!Next
<1> DEFINE m == cmd[c]
           k == RequestKey(m)
           r == requests[k]
           p == m.providerRefundNo
           q == [r EXCEPT !.status = m.status]
           paid == Append(<<>>, TransactionOf(m))
           record == [hash |-> RequestHash(m), request |-> q,
                      transaction |-> TransactionOf(m)]
<1>1. TypeInv
  BY DEF LedgerInv, ReviewInv
<1>2. /\ k \in RequestKeys /\ m \in RecordCommand
      /\ Scope(m) \in Scopes /\ idempotencyRecords[Scope(m)] = None
      /\ r \in Request /\ r # None /\ r.status = "APPROVED"
      /\ <<m.tenant, p>> \notin providerRefundNo
      /\ \A j \in RequestKeys :
             /\ requests'[j] = IF j = k THEN q ELSE requests[j]
             /\ transactions'[j] = IF j = k THEN Append(transactions[k], TransactionOf(m))
                                   ELSE transactions[j]
      /\ \A s \in Scopes : idempotencyRecords'[s] =
             IF s = Scope(m) THEN record ELSE idempotencyRecords[s]
  BY <1>1, RecordEffect
<1>3. approvals' = approvals
  BY DEF Records, StoreRecorded
<1>4. transactions[k] = <<>>
  BY <1>2 DEF LedgerInv, ReceiptInv, SettledByReceipt, Settled
<1>5. /\ m.tenant \in Tenants /\ m.by \in Users /\ m.key \in Keys /\ m.op = "record"
      /\ m.requestNo \in RequestNos /\ m.status \in {"SUCCEEDED", "FAILED"}
      /\ p \in ProviderRefundNos \cup {None}
  BY <1>2 DEF RecordCommand, TransactionStatuses
<1>6. RecordIsValid(m)
  BY <1>5 DEF LedgerInv, InformedInv, Valid, Records, RepositoryCalls, IsValid
<1>7. q # None /\ q \in Request
  <2>1. m.status \in RequestStatuses
    BY <1>5 DEF RequestStatuses
  <2> HIDE DEF r, m
  <2> QED BY <1>2, <2>1, StatusChange
<1>8. /\ paid # <<>> /\ paid[1].providerRefundNo = p /\ transactions'[k] = paid
  BY <1>2, <1>4, FirstReceipt DEF TransactionOf
<1>9. k[1] = m.tenant /\ Scope(m) = <<k[1], m.by, "record", m.key>>
  BY <1>5 DEF RequestKey, Scope
<1>10. record # None
  <2>1. idempotencyRecords'[Scope(m)] = record
    BY <1>2
  <2>2. idempotencyRecords'[Scope(m)] # None
    BY <1>1, ResultIsStored
  <2> HIDE DEF record
  <2> QED BY <2>1, <2>2
<1>11. UsedView' = [UsedView EXCEPT ![Scope(m)] = TRUE] /\ ~ UsedView[Scope(m)]
  <2> HIDE DEF m, record
  <2> QED BY <1>2, <1>10, UsedStep, Zenon DEF UsedView
<1>12. BookView[k] = EntryOf(r, approvals[k], transactions[k]) /\ BookView[k] # None
  BY <1>2, OnRecord
<1>13. EntryOf(q, approvals[k], paid) = Ledger!Paid(BookView[k], p, m.status)
  <2>1. q.status = m.status /\ q.orderNo = r.orderNo /\ q.snapshot = r.snapshot
        /\ q.amount = r.amount /\ q.submittedBy = r.submittedBy
    BY <1>2 DEF Request
  <2> HIDE DEF q, r, p, paid, m
  <2> QED BY <1>8, <1>12, <2>1, PaidEntry
<1>14. requests'[k] = q
  BY <1>2
<1> HIDE DEF q, k, m, r, p, paid, record
<1>15. BookView' = [BookView EXCEPT ![k] = Ledger!Paid(@, p, m.status)]
  <2>1. BookView' = [BookView EXCEPT ![k] = EntryOf(q, approvals[k], paid)]
    BY <1>2, <1>3, <1>7, <1>8, <1>14, BookStep
  <2> QED BY <1>13, <2>1
<1>16. BookView[k].status = "APPROVED" /\ BookView'[k].status = m.status
  <2>1. BookView[k].status = r.status
    BY <1>12 DEF EntryOf
  <2>2. BookView'[k].status = q.status
    <3>1. BookView'[k] = EntryOf(q, approvals'[k], transactions'[k])
      BY <1>2, <1>7, <1>14, OnRecord
    <3> QED BY <3>1 DEF EntryOf
  <2>3. q.status = m.status
    BY <1>2 DEF q, Request
  <2> QED BY <1>2, <2>1, <2>2, <2>3
<1>17. IF p = None THEN m.status = "FAILED" ELSE Ledger!ReceiptIsNew(k[1], p)
  <2>1. CASE p = None
    BY <1>5, <1>6, <2>1 DEF RecordIsValid, p
  <2>2. ASSUME p # None, NEW no \in RequestNos, BookView[<<m.tenant, no>>] # None,
               BookView[<<m.tenant, no>>].receipt = p
        PROVE  FALSE
    <3> DEFINE j == <<m.tenant, no>>
    <3>1. j \in RequestKeys /\ j[1] = m.tenant
      BY <1>5 DEF RequestKeys
    <3>2. /\ BookView[j] = EntryOf(requests[j], approvals[j], transactions[j])
          /\ transactions[j] \in Seq(Transaction)
      BY <1>1, <2>2, <3>1, BookIs DEF TypeInv, TypeOK, StoreTypeOK
    <3> HIDE DEF j
    <3>3. transactions[j] # <<>> /\ transactions[j][1].providerRefundNo = p
      BY <2>2, <3>2 DEF EntryOf, j
    <3>4. 1 \in DOMAIN transactions[j]
      BY <3>2, <3>3, LenProperties, EmptySeq
    <3>5. <<m.tenant, p>> \in providerRefundNo
      BY <2>2, <3>1, <3>3, <3>4 DEF LedgerInv, ReceiptInv, Registered
    <3> QED BY <1>2, <3>5
  <2> QED BY <1>9, <2>1, <2>2, SameRules DEF Ledger!ReceiptIsNew
<1>18. Ledger!Settle(k, m.by, m.key, p, m.status)
  BY <1>9, <1>11, <1>15, <1>16, <1>17 DEF Ledger!Settle
<1>19. Ledger!SettleAny(k)
  BY <1>5, <1>12, <1>18, SameRules DEF Ledger!SettleAny, TransactionStatuses
<1>20. BookView'[k] # BookView[k]
  BY <1>5, <1>16
<1> QED BY <1>2, <1>19, <1>20, SameRules DEF Ledger!Next

LEMMA InitLedger == Init => SnapshotsSeen /\ Ledger!Init
<1> SUFFICES ASSUME Init PROVE SnapshotsSeen /\ Ledger!Init
  OBVIOUS
<1>1. requests = [k \in RequestKeys |-> None] /\ idempotencyRecords = [s \in Scopes |-> None]
  BY DEF Init, StoreInit
<1>2. SnapshotsSeen
  BY <1>1 DEF SnapshotsSeen, Exists
<1>3. BookView = [k \in RequestKeys |-> None]
  BY <1>1, BookIs
<1>4. UsedView = [s \in Scopes |-> FALSE]
  BY <1>1, Zenon DEF UsedView
<1> QED BY <1>2, <1>3, <1>4, SameRules DEF Ledger!Init

LEMMA NextLedger ==
    ASSUME LedgerInv, LedgerInv', [Next]_vars
    PROVE  [Ledger!Next]_Ledger!ledger
<1>1. CASE UNCHANGED ledgerVars
  BY <1>1, BookStands DEF Ledger!ledger
<1> QED BY <1>1, CreateIsSubmit, ReviewIsDecide, RecordIsSettle, WriteSteps

\* Although a call decides on what it read several steps before, each of its
\* writes is a step the book allows at that moment, and nothing else shows.
THEOREM LedgerImplemented == Spec => LedgerSpec
<1>1. ReviewInv /\ InformedInv /\ SnapshotsSeen /\ [Next]_vars => SnapshotsSeen'
  BY NextSnapshots DEF ReviewInv
<1> QED
  BY <1>1, InitLedger, NextLedger, ReviewInvHolds, ReceiptInvHolds, InformedHolds, PTL
     DEF Spec, LedgerSpec, LedgerInv, Ledger!Spec

-----------------------------------------------------------------------------
(* What an answer holds *)

\* A call that reads its timeline, or has answered without an error.
Holding(c) == pc[c] \in {"ListApprovals", "ListTransactions"} \/ Answered(c)

\* The request it shows.
Shown(c) == IF pc[c] = "Done" THEN reply[c].request ELSE request[c]

StandsStill(c) == Stands(c) /\ reply'[c] = reply[c]

\* The steps that give a call something to show.
HitCreated(c) ==
    /\ pc[c] \in CreateCalls
    /\ IdempotencyHit(cmd[c])
    /\ AnswerCreated(c, idempotencyRecords[Scope(cmd[c])].request, TRUE)
    /\ UNCHANGED storeVars
WroteCreated(c) == Creates(c) /\ AnswerCreated(c, request[c], FALSE)
HitRecorded(c) ==
    /\ pc[c] \in RecordCalls
    /\ IdempotencyHit(cmd[c])
    /\ CarryFirstResult(c)
    /\ UNCHANGED storeVars
WroteRecorded(c) ==
    /\ Records(c)
    /\ CarryRecorded(c, requests'[RequestKey(cmd[c])], TransactionOf(cmd[c]), FALSE)
WroteReviewed(c) ==
    LET k == RequestKey(cmd[c])
        after == ReviewedStatus(cmd[c].decision, request[c].amount, level[c], threshold)
    IN  /\ Reviews(c)
        /\ Carry(c, [requests[k] EXCEPT !.status = after], "ListApprovals")
        /\ UNCHANGED <<cmd, reply>>
Got(c) ==
    /\ pc[c] = "GetRequest"
    /\ requests[RequestKey(cmd[c])] # None
    /\ Carry(c, requests[RequestKey(cmd[c])], "ListApprovals")
    /\ UNCHANGED <<cmd, reply, storeVars>>

Shows(c) ==
    \/ HitCreated(c) \/ WroteCreated(c) \/ HitRecorded(c) \/ WroteRecorded(c)
    \/ WroteReviewed(c) \/ Got(c) \/ ListApprovals(c) \/ ListTransactions(c)

LEMMA OthersStandStill ==
    ASSUME TypeInv, NEW c \in Calls, NEW d \in Calls, c # d,
           CallStep(d) \/ CallFails(d) \/ \E m \in Commands : Begin(d, m)
    PROVE  StandsStill(c)
<1>1. Stands(c)
  BY OthersStand
<1>2. reply'[c] = reply[c]
  <2> DEFINE Writes == \/ \E r : Answer(d, r)
                       \/ \E r, t, b : CarryRecorded(d, r, t, b)
                       \/ reply' = reply
  <2>1. CASE Writes
    BY <2>1 DEF Answer, CarryRecorded, TypeInv, TypeOK, CallTypeOK
  <2>2. ASSUME NEW m \in Commands, Begin(d, m) PROVE reply'[c] = reply[c]
    BY <2>2 DEF Begin, TypeInv, TypeOK, CallTypeOK
  <2>3. CASE FindCreated(d) \/ FindOrder(d) \/ CreateRefundRequest(d)
    <3>1. Writes
      BY <2>3, Zenon DEF FindCreated, FindOrder, CreateRefundRequest, Fail, AnswerCreated
    <3> QED BY <2>1, <3>1
  <2>4. CASE FindReviewed(d) \/ ListForLevel(d) \/ ReviewRefundRequest(d)
    <3>1. Writes
      BY <2>4, Zenon DEF FindReviewed, ListForLevel, ReviewRefundRequest, Fail
    <3> QED BY <2>1, <3>1
  <2>5. CASE FindRecorded(d) \/ FindApproved(d) \/ FindRecordedAgain(d)
    <3>1. Writes
      BY <2>5, Zenon DEF FindRecorded, FindApproved, FindRecordedAgain, Fail, CarryFirstResult
    <3> QED BY <2>1, <3>1
  <2>6. CASE RecordRefundTransaction(d)
    <3>1. Writes
      BY <2>6, Zenon DEF RecordRefundTransaction, Fail, CarryFirstResult
    <3> QED BY <2>1, <3>1
  <2>7. CASE GetRequest(d) \/ ListTransactions(d) \/ CallFails(d)
    <3>1. Writes
      BY <2>7, Zenon DEF GetRequest, ListTransactions, CallFails, Fail
    <3> QED BY <2>1, <3>1
  <2>8. CASE ListApprovals(d)
    BY <2>8 DEF ListApprovals, TypeInv, TypeOK, CallTypeOK
  <2> QED BY <2>2, <2>3, <2>4, <2>5, <2>6, <2>7, <2>8 DEF CallStep
<1> QED BY <1>1, <1>2 DEF StandsStill

LEMMA FailureShowsNothing ==
    ASSUME TypeInv, NEW c \in Calls, NEW e, e # "OK", Fail(c, e)
    PROVE  ~ Holding(c)'
BY DEF Fail, Answer, Goto, NoReply, Holding, Answered, TypeInv, TypeOK, CallTypeOK

LEMMA WaitingShowsNothing ==
    ASSUME TypeInv, NEW c \in Calls, NEW label,
           label \notin {"ListApprovals", "ListTransactions", "Done"}, Goto(c, label)
    PROVE  ~ Holding(c)'
BY DEF Goto, Holding, Answered, TypeInv, TypeOK, CallTypeOK

LEMMA HoldingSteps ==
    ASSUME TypeInv, [Next]_vars, NEW c \in Calls, Holding(c)'
    PROVE  StandsStill(c) \/ Shows(c)
<1>1. ASSUME NEW m \in Commands, Begin(c, m) PROVE FALSE
  BY <1>1 DEF Begin, Goto, NoReply, Holding, Answered, FirstCall, TypeInv, TypeOK, CallTypeOK
<1>2. CASE FindCreated(c)
  <2>1. ~ Fail(c, "ErrIdempotencyKeyConflict") /\ ~ Goto(c, "FindOrder")
    BY FailureShowsNothing, WaitingShowsNothing
  <2>2. /\ pc[c] = "FindCreated" /\ IdempotencyHit(cmd[c])
        /\ AnswerCreated(c, idempotencyRecords[Scope(cmd[c])].request, TRUE)
        /\ UNCHANGED storeVars
    BY <1>2, <2>1, Zenon DEF FindCreated
  <2> QED BY <2>2 DEF Shows, HitCreated, CreateCalls
<1>3. CASE FindOrder(c)
  <2>1. \A e : e # "OK" => ~ Fail(c, e)
    BY FailureShowsNothing
  <2>2. ~ Goto(c, "CreateRefundRequest")
    BY WaitingShowsNothing
  <2> QED BY <1>3, <2>1, <2>2, Zenon DEF FindOrder, Carry
<1>4. CASE CreateRefundRequest(c)
  <2>1. \A e : e # "OK" => ~ Fail(c, e)
    BY FailureShowsNothing
  <2>2. "ErrIdempotencyKeyConflict" # "OK" /\ "ErrInternal" # "OK"
    OBVIOUS
  <2>3. /\ pc[c] = "CreateRefundRequest"
        /\ \/ /\ IdempotencyHit(cmd[c])
              /\ AnswerCreated(c, idempotencyRecords[Scope(cmd[c])].request, TRUE)
              /\ UNCHANGED storeVars
           \/ /\ IdempotencyMiss(cmd[c])
              /\ CreateRefusal(cmd[c].tenant, request[c]) = "OK"
              /\ StoreCreated(cmd[c], request[c])
              /\ AnswerCreated(c, request[c], FALSE)
    BY <1>4, <2>1, <2>2, Zenon DEF CreateRefundRequest
  <2>4. CASE /\ IdempotencyHit(cmd[c])
             /\ AnswerCreated(c, idempotencyRecords[Scope(cmd[c])].request, TRUE)
             /\ UNCHANGED storeVars
    BY <2>3, <2>4 DEF Shows, HitCreated, CreateCalls
  <2> QED BY <2>3, <2>4, Zenon DEF Shows, WroteCreated, Creates
<1>5. CASE FindReviewed(c) \/ ListForLevel(c)
  <2>1. \A e : e # "OK" => ~ Fail(c, e)
    BY FailureShowsNothing
  <2>2. ~ Goto(c, "ListForLevel") /\ ~ Goto(c, "ReviewRefundRequest")
    BY WaitingShowsNothing
  <2> QED BY <1>5, <2>1, <2>2, Zenon DEF FindReviewed, ListForLevel, Carry
<1>6. CASE ReviewRefundRequest(c)
  <2>1. \A e : e # "OK" => ~ Fail(c, e)
    BY FailureShowsNothing
  <2>2. "ErrInternal" # "OK"
    OBVIOUS
  <2> QED BY <1>6, <2>1, <2>2, Zenon DEF ReviewRefundRequest, Shows, WroteReviewed, Reviews, Decision
<1>7. CASE FindRecorded(c) \/ FindRecordedAgain(c)
  <2>1. \A e : e # "OK" => ~ Fail(c, e)
    BY FailureShowsNothing
  <2>2. "ErrIdempotencyKeyConflict" # "OK" /\ "ErrRefundRequestNotApproved" # "OK"
    OBVIOUS
  <2>3. ~ Goto(c, "FindApproved")
    BY WaitingShowsNothing
  <2>4. pc[c] \in {"FindRecorded", "FindRecordedAgain"} /\ IdempotencyHit(cmd[c])
        /\ CarryFirstResult(c) /\ UNCHANGED storeVars
    BY <1>7, <2>1, <2>2, <2>3, Zenon DEF FindRecorded, FindRecordedAgain
  <2> QED BY <2>4 DEF Shows, HitRecorded, RecordCalls
<1>8. CASE FindApproved(c)
  <2>1. \A e : e # "OK" => ~ Fail(c, e)
    BY FailureShowsNothing
  <2>2. "ErrRefundRequestNotFound" # "OK" /\ "ErrTransactionAmountMismatch" # "OK"
    OBVIOUS
  <2>3. ~ Goto(c, "FindRecordedAgain") /\ ~ Goto(c, "RecordRefundTransaction")
    BY WaitingShowsNothing
  <2> QED BY <1>8, <2>1, <2>2, <2>3, Zenon DEF FindApproved, Carry
<1>9. CASE RecordRefundTransaction(c)
  <2>1. \A e : e # "OK" => ~ Fail(c, e)
    BY FailureShowsNothing
  <2>2. "ErrIdempotencyKeyConflict" # "OK" /\ "ErrInternal" # "OK"
    OBVIOUS
  <2>3. /\ pc[c] = "RecordRefundTransaction"
        /\ \/ IdempotencyHit(cmd[c]) /\ CarryFirstResult(c) /\ UNCHANGED storeVars
           \/ WroteRecorded(c)
    BY <1>9, <2>1, <2>2, Zenon DEF RecordRefundTransaction, WroteRecorded, Records
  <2> QED BY <2>3 DEF Shows, HitRecorded, RecordCalls
<1>10. CASE GetRequest(c)
  <2>1. ~ Fail(c, "ErrRefundRequestNotFound")
    BY FailureShowsNothing
  <2> QED BY <1>10, <2>1, Zenon DEF GetRequest, Shows, Got
<1>11. CASE CallFails(c)
  BY <1>11, FailureShowsNothing DEF CallFails
<1>12. CASE Restart
  BY <1>12 DEF Restart, Holding, Answered
<1>13. CASE \/ \E k \in OrderKeys, order \in OrderVersions : OrderChanges(k, order)
            \/ UNCHANGED vars
  BY <1>13 DEF OrderChanges, vars, callVars, StandsStill, Stands
<1> QED BY <1>1, <1>2, <1>3, <1>4, <1>5, <1>6, <1>7, <1>8, <1>9, <1>10, <1>11, <1>12, <1>13,
           OthersStandStill DEF Next, CallStep, Shows

\* The first result of a creation has no receipt; that of a receipt is the
\* request as it settled it.
Results ==
    \A s \in Scopes : Told(s) =>
        LET result == idempotencyRecords[s] IN
        /\ s[3] = "create" => result.transaction = None
        /\ s[3] = "record" => /\ result.transaction.status = result.request.status
                              /\ result.request.status \in Settled

Gets == \A c \in Calls : pc[c] = "GetRequest" => cmd[c].op = "get"

LEMMA NextResults == ASSUME TypeInv, Results, [Next]_vars PROVE Results'
<1> DEFINE Right(s, result) ==
               /\ s[3] = "create" => result.transaction = None
               /\ s[3] = "record" => /\ result.transaction.status = result.request.status
                                     /\ result.request.status \in Settled
<1> SUFFICES ASSUME NEW s \in Scopes, idempotencyRecords'[s] # None
             PROVE  Right(s, idempotencyRecords'[s])
  BY DEF Results, Told
<1>1. idempotencyRecords'[s] = idempotencyRecords[s] => Right(s, idempotencyRecords'[s])
  BY DEF Results, Told
<1>2. CASE UNCHANGED ledgerVars
  BY <1>1, <1>2 DEF ledgerVars
<1>3. ASSUME NEW c \in Calls, Creates(c) PROVE Right(s, idempotencyRecords'[s])
  <2>1. Scope(cmd[c])[3] = "create"
    BY <1>3, CreateEffect DEF Scope, CreateCommand
  <2>2. CASE s = Scope(cmd[c])
    <3>1. idempotencyRecords'[s] =
              [hash |-> RequestHash(cmd[c]), request |-> request[c], transaction |-> None]
      BY <1>3, <2>2, CreateEffect
    <3>2. idempotencyRecords'[s].transaction = None
      BY <3>1
    <3> QED BY <2>1, <2>2, <3>2
  <2>3. CASE s # Scope(cmd[c])
    <3>1. idempotencyRecords'[s] = idempotencyRecords[s]
      BY <1>3, <2>3, CreateEffect
    <3> QED BY <1>1, <3>1
  <2> QED BY <2>2, <2>3
<1>4. ASSUME NEW c \in Calls, Reviews(c) PROVE Right(s, idempotencyRecords'[s])
  <2>1. idempotencyRecords'[s] = idempotencyRecords[s]
    BY <1>4, ReviewEffect
  <2> QED BY <1>1, <2>1
<1>5. ASSUME NEW c \in Calls, Records(c) PROVE Right(s, idempotencyRecords'[s])
  <2> DEFINE settled == [requests[RequestKey(cmd[c])] EXCEPT !.status = cmd[c].status]
  <2>1. /\ cmd[c] \in RecordCommand /\ requests[RequestKey(cmd[c])] \in Request
        /\ idempotencyRecords'[s] =
               IF s = Scope(cmd[c])
               THEN [hash |-> RequestHash(cmd[c]), request |-> settled,
                     transaction |-> TransactionOf(cmd[c])]
               ELSE idempotencyRecords[s]
    BY <1>5, RecordEffect
  <2>2. Scope(cmd[c])[3] = "record"
    BY <2>1 DEF Scope, RecordCommand
  <2>3. CASE s = Scope(cmd[c])
    <3>1. settled.status = cmd[c].status /\ cmd[c].status \in Settled
      BY <2>1 DEF Request, RecordCommand, TransactionStatuses, Settled
    <3>2. TransactionOf(cmd[c]).status = cmd[c].status
      BY DEF TransactionOf
    <3> HIDE DEF settled
    <3>3. /\ idempotencyRecords'[s].transaction = TransactionOf(cmd[c])
          /\ idempotencyRecords'[s].request = settled
      BY <2>1, <2>3
    <3> QED BY <2>2, <2>3, <3>1, <3>2, <3>3
  <2>4. CASE s # Scope(cmd[c])
    BY <1>1, <2>1, <2>4
  <2> QED BY <2>3, <2>4
<1> QED BY <1>2, <1>3, <1>4, <1>5, WriteSteps

LEMMA NextGets == ASSUME TypeInv, Gets, [Next]_vars PROVE Gets'
<1> SUFFICES ASSUME NEW c \in Calls, pc'[c] = "GetRequest" PROVE cmd'[c].op = "get"
  BY DEF Gets
<1>1. CASE Stands(c)
  BY <1>1 DEF Stands, Gets
<1>2. ASSUME NEW m \in Commands, Begin(c, m) PROVE cmd'[c].op = "get"
  <2>1. m \in Command
    BY ServiceAssumption
  <2>2. FirstCall(m) = "GetRequest" => m.op = "get"
    BY <2>1 DEF FirstCall, Command, CreateCommand, ReviewCommand, RecordCommand, GetCommand
  <2>3. cmd'[c] = m /\ FirstCall(m) = "GetRequest"
    BY <1>2 DEF Begin, Goto, TypeInv, TypeOK, CallTypeOK
  <2> QED BY <2>2, <2>3
<1>3. CASE CallStep(c) \/ CallFails(c)
  <2>1. \A label : label # "GetRequest" => ~ Goto(c, label)
    BY DEF Goto, TypeInv, TypeOK, CallTypeOK
  <2>2. /\ ~ Goto(c, "Done") /\ ~ Goto(c, "FindOrder") /\ ~ Goto(c, "CreateRefundRequest")
        /\ ~ Goto(c, "ListForLevel") /\ ~ Goto(c, "ReviewRefundRequest")
        /\ ~ Goto(c, "ListApprovals") /\ ~ Goto(c, "ListTransactions")
        /\ ~ Goto(c, "FindApproved") /\ ~ Goto(c, "FindRecordedAgain")
        /\ ~ Goto(c, "RecordRefundTransaction")
    BY <2>1
  <2> USE DEF Carry, Fail, Answer, AnswerCreated, CarryFirstResult, CarryRecorded
  <2>3. ~ FindCreated(c) /\ ~ FindOrder(c) /\ ~ CreateRefundRequest(c)
    BY <2>2, Zenon DEF FindCreated, FindOrder, CreateRefundRequest
  <2>4. ~ FindReviewed(c) /\ ~ ListForLevel(c) /\ ~ ReviewRefundRequest(c)
    BY <2>2, Zenon DEF FindReviewed, ListForLevel, ReviewRefundRequest
  <2>5. ~ FindRecorded(c) /\ ~ FindApproved(c) /\ ~ FindRecordedAgain(c)
    BY <2>2, Zenon DEF FindRecorded, FindApproved, FindRecordedAgain
  <2>6. ~ RecordRefundTransaction(c) /\ ~ GetRequest(c) /\ ~ CallFails(c)
    BY <2>2, Zenon DEF RecordRefundTransaction, GetRequest, CallFails
  <2>7. ~ ListApprovals(c) /\ ~ ListTransactions(c)
    BY <2>2, Zenon DEF ListApprovals, ListTransactions
  <2> QED BY <1>3, <2>3, <2>4, <2>5, <2>6, <2>7, Zenon DEF CallStep
<1>4. CASE Restart
  BY <1>4 DEF Restart
<1>5. CASE \/ \E k \in OrderKeys, order \in OrderVersions : OrderChanges(k, order)
           \/ UNCHANGED vars
  BY <1>1, <1>5 DEF OrderChanges, vars, callVars, Stands
<1> QED BY <1>1, <1>2, <1>3, <1>4, <1>5, OthersStand DEF Next

LEMMA InitResults == Init => Results /\ Gets
BY DEF Init, StoreInit, CallsIdle, Results, Gets, Told

LEMMA ResultsHold == Spec => [](Results /\ Gets)
<1>1. TypeInv /\ Results /\ Gets /\ [Next]_vars => Results' /\ Gets'
  BY NextResults, NextGets
<1> QED BY <1>1, InitResults, ReviewInvHolds, PTL DEF Spec, ReviewInv

\* A call that shows the result of an operation under a key.
HoldsResult(c) == Holding(c) /\ cmd[c].op \in Operations

\* What it shows is the first result on record.
FirstResult(c) ==
    HoldsResult(c) =>
        LET result == idempotencyRecords[Scope(cmd[c])] IN
        /\ Scope(cmd[c]) \in Scopes
        /\ IdempotencyHit(cmd[c])
        /\ Shown(c) = result.request
        /\ reply[c].transaction = result.transaction

\* Of two calls under one key at most one does not know that it repeats.
OneFirst(c, d) ==
    /\ c # d
    /\ HoldsResult(c) /\ ~ reply[c].replayed
    /\ HoldsResult(d) /\ ~ reply[d].replayed
    => Scope(cmd[c]) # Scope(cmd[d])

\* How a call comes to show a result: it goes on with the one it has, takes up
\* the one on record, or puts it there.
GoesOn(c) ==
    /\ HoldsResult(c)
    /\ cmd'[c] = cmd[c]
    /\ Shown(c)' = Shown(c)
    /\ reply'[c].transaction = reply[c].transaction
    /\ reply'[c].replayed = reply[c].replayed
Repeats(c) ==
    LET result == idempotencyRecords[Scope(cmd[c])] IN
    /\ cmd'[c] = cmd[c]
    /\ Scope(cmd[c]) \in Scopes
    /\ IdempotencyHit(cmd[c])
    /\ Shown(c)' = result.request
    /\ reply'[c].transaction = result.transaction
    /\ reply'[c].replayed
    /\ UNCHANGED idempotencyRecords
Writes(c) ==
    /\ ~ StandsStill(c)
    /\ cmd'[c] = cmd[c]
    /\ Scope(cmd[c]) \in Scopes
    /\ IdempotencyMiss(cmd[c])
    /\ idempotencyRecords'[Scope(cmd[c])] # None
    /\ idempotencyRecords'[Scope(cmd[c])] =
           [hash |-> RequestHash(cmd[c]), request |-> Shown(c)',
            transaction |-> reply'[c].transaction]

LEMMA AnswerIs ==
    ASSUME TypeInv, NEW c \in Calls, NEW r, NEW b, AnswerCreated(c, r, b)
    PROVE  /\ pc'[c] = "Done" /\ cmd' = cmd /\ reply'[c].request = r
           /\ reply'[c].transaction = None /\ reply'[c].replayed = b
BY DEF AnswerCreated, Answer, Goto, NoReply, TypeInv, TypeOK, CallTypeOK

LEMMA CarriedIs ==
    ASSUME TypeInv, NEW c \in Calls, NEW r, NEW t, NEW b, CarryRecorded(c, r, t, b)
    PROVE  /\ pc'[c] = "ListApprovals" /\ cmd' = cmd /\ request'[c] = r
           /\ reply'[c].transaction = t /\ reply'[c].replayed = b
BY DEF CarryRecorded, Carry, Goto, NoReply, TypeInv, TypeOK, CallTypeOK

LEMMA ListApprovalsIs ==
    ASSUME TypeInv, NEW c \in Calls, ListApprovals(c)
    PROVE  /\ pc[c] = "ListApprovals" /\ pc'[c] = "ListTransactions" /\ UNCHANGED <<cmd, request>>
           /\ reply'[c].approvals = approvals[RequestKey(cmd[c])]
           /\ reply'[c].transaction = reply[c].transaction
           /\ reply'[c].replayed = reply[c].replayed
           /\ UNCHANGED storeVars
BY DEF ListApprovals, Goto, Reply, TypeInv, TypeOK, CallTypeOK

LEMMA ListTransactionsIs ==
    ASSUME TypeInv, NEW c \in Calls, ListTransactions(c)
    PROVE  /\ pc[c] = "ListTransactions" /\ pc'[c] = "Done" /\ cmd' = cmd
           /\ reply'[c].request = request[c]
           /\ reply'[c].approvals = reply[c].approvals
           /\ reply'[c].transactions = transactions[RequestKey(cmd[c])]
           /\ reply'[c].transaction = reply[c].transaction
           /\ reply'[c].replayed = reply[c].replayed
           /\ UNCHANGED storeVars
<1> DEFINE list == transactions[RequestKey(cmd[c])]
           half == [reply[c] EXCEPT !.request = request[c]]
           r == [reply[c] EXCEPT !.request = request[c], !.transactions = list]
<1>1. reply[c] \in Reply
  BY DEF TypeInv, TypeOK, CallTypeOK
<1>2. r = [half EXCEPT !.transactions = list]
  BY <1>1 DEF Reply
<1>3. /\ half.request = request[c] /\ half.approvals = reply[c].approvals
      /\ half.transaction = reply[c].transaction /\ half.replayed = reply[c].replayed
      /\ DOMAIN half = {"error", "request", "approvals", "transactions", "transaction", "replayed"}
  BY <1>1 DEF Reply
<1> HIDE DEF half
<1>4. /\ r.request = request[c] /\ r.approvals = reply[c].approvals
      /\ r.transactions = list
      /\ r.transaction = reply[c].transaction /\ r.replayed = reply[c].replayed
  BY <1>2, <1>3
<1>5. /\ pc[c] = "ListTransactions" /\ pc'[c] = "Done" /\ cmd' = cmd /\ reply'[c] = r
      /\ UNCHANGED storeVars
  BY DEF ListTransactions, Answer, Goto, TypeInv, TypeOK, CallTypeOK
<1> QED BY <1>4, <1>5

LEMMA ResultSteps ==
    ASSUME TypeInv, Results, Gets, [Next]_vars, NEW c \in Calls, HoldsResult(c)'
    PROVE  GoesOn(c) \/ Repeats(c) \/ Writes(c)
<1> USE DEF HoldsResult
<1>1. CASE StandsStill(c)
  BY <1>1 DEF StandsStill, Stands, GoesOn, Holding, Answered, Shown
<1>2. CASE HitCreated(c)
  <2> DEFINE s == Scope(cmd[c])
  <2>1. cmd[c] \in CreateCommand
    BY <1>2 DEF HitCreated, TypeInv, CallsHold
  <2>2. s \in Scopes /\ s[3] = "create"
    BY <2>1, ScopeType DEF Scope, CreateCommand
  <2>3. idempotencyRecords[s].transaction = None
    BY <1>2, <2>2 DEF HitCreated, IdempotencyHit, IdempotencyMiss, Results, Told
  <2> HIDE DEF s
  <2>4. /\ pc'[c] = "Done" /\ cmd' = cmd /\ reply'[c].request = idempotencyRecords[s].request
        /\ reply'[c].transaction = None /\ reply'[c].replayed = TRUE
    BY <1>2, AnswerIs DEF HitCreated, s
  <2>5. IdempotencyHit(cmd[c]) /\ UNCHANGED idempotencyRecords
    BY <1>2 DEF HitCreated, storeVars, ledgerVars
  <2> QED BY <2>2, <2>3, <2>4, <2>5 DEF Repeats, Shown, s
<1>3. CASE WroteCreated(c)
  <2>1. /\ pc'[c] = "Done" /\ cmd' = cmd /\ reply'[c].request = request[c]
        /\ reply'[c].transaction = None
    BY <1>3, AnswerIs DEF WroteCreated
  <2>2. /\ Scope(cmd[c]) \in Scopes
        /\ idempotencyRecords'[Scope(cmd[c])] =
               [hash |-> RequestHash(cmd[c]), request |-> request[c], transaction |-> None]
    BY <1>3, CreateEffect DEF WroteCreated
  <2>4. idempotencyRecords'[Scope(cmd[c])] # None
    BY <1>3, ResultIsStored DEF WroteCreated
  <2>3. pc[c] = "CreateRefundRequest" /\ IdempotencyMiss(cmd[c])
    BY <1>3 DEF WroteCreated, Creates
  <2> QED BY <2>1, <2>2, <2>3, <2>4 DEF Writes, Shown, StandsStill, Stands
<1>4. CASE HitRecorded(c)
  <2>1. cmd[c] \in RecordCommand
    BY <1>4 DEF HitRecorded, TypeInv, CallsHold
  <2>2. /\ pc'[c] = "ListApprovals" /\ cmd' = cmd
        /\ request'[c] = idempotencyRecords[Scope(cmd[c])].request
        /\ reply'[c].transaction = idempotencyRecords[Scope(cmd[c])].transaction
        /\ reply'[c].replayed = TRUE
    <3> DEFINE result == idempotencyRecords[Scope(cmd[c])]
    <3>1. CarryRecorded(c, result.request, result.transaction, TRUE)
      BY <1>4 DEF HitRecorded, CarryFirstResult
    <3> HIDE DEF result
    <3>2. /\ pc'[c] = "ListApprovals" /\ cmd' = cmd /\ request'[c] = result.request
          /\ reply'[c].transaction = result.transaction /\ reply'[c].replayed = TRUE
      BY <3>1, CarriedIs
    <3> QED BY <3>2 DEF result
  <2>3. IdempotencyHit(cmd[c]) /\ UNCHANGED idempotencyRecords
    BY <1>4 DEF HitRecorded, storeVars, ledgerVars
  <2> QED BY <2>1, <2>2, <2>3, ScopeType DEF Repeats, Shown
<1>5. CASE WroteRecorded(c)
  <2>1. /\ pc'[c] = "ListApprovals" /\ cmd' = cmd
        /\ request'[c] = requests'[RequestKey(cmd[c])]
        /\ reply'[c].transaction = TransactionOf(cmd[c])
    BY <1>5, CarriedIs DEF WroteRecorded
  <2>2. /\ Scope(cmd[c]) \in Scopes
        /\ idempotencyRecords'[Scope(cmd[c])] =
               [hash |-> RequestHash(cmd[c]), request |-> requests'[RequestKey(cmd[c])],
                transaction |-> TransactionOf(cmd[c])]
    BY <1>5, RecordEffect DEF WroteRecorded
  <2>4. idempotencyRecords'[Scope(cmd[c])] # None
    BY <1>5, ResultIsStored DEF WroteRecorded
  <2>3. pc[c] = "RecordRefundTransaction" /\ IdempotencyMiss(cmd[c])
    BY <1>5 DEF WroteRecorded, Records
  <2> QED BY <2>1, <2>2, <2>3, <2>4 DEF Writes, Shown, StandsStill, Stands
<1>6. CASE WroteReviewed(c) \/ Got(c)
  <2>1. cmd' = cmd
    BY <1>6 DEF WroteReviewed, Got
  <2>2. cmd[c].op \in {"review", "get"}
    BY <1>6 DEF WroteReviewed, Reviews, Got, Gets, TypeInv, CallsHold, ReviewCalls, ReviewCommand
  <2> QED BY <2>1, <2>2 DEF Operations
<1>7. CASE ListApprovals(c)
  BY <1>7, ListApprovalsIs DEF GoesOn, Holding, Shown
<1>8. CASE ListTransactions(c)
  BY <1>8, ListTransactionsIs DEF GoesOn, Holding, Shown
<1> QED BY <1>1, <1>2, <1>3, <1>4, <1>5, <1>6, <1>7, <1>8, HoldingSteps DEF Shows

FirstResults ==
    /\ \A c \in Calls : FirstResult(c)
    /\ \A c, d \in Calls : OneFirst(c, d)

LEMMA NextFirstResult ==
    ASSUME TypeInv, Results, Gets, [Next]_vars, NEW c \in Calls, FirstResult(c)
    PROVE  FirstResult(c)'
<1> SUFFICES ASSUME HoldsResult(c)' PROVE FirstResult(c)'
  BY DEF FirstResult
<1> DEFINE s == Scope(cmd[c])
<1>1. CASE GoesOn(c)
  <2>1. /\ s \in Scopes /\ idempotencyRecords[s] # None
        /\ idempotencyRecords[s].hash = RequestHash(cmd[c])
        /\ Shown(c) = idempotencyRecords[s].request
        /\ reply[c].transaction = idempotencyRecords[s].transaction
    BY <1>1 DEF GoesOn, FirstResult, IdempotencyHit, IdempotencyMiss
  <2>2. idempotencyRecords'[s] = idempotencyRecords[s]
    BY <2>1, RecordsStay
  <2> QED BY <1>1, <2>1, <2>2 DEF GoesOn, FirstResult, IdempotencyHit, IdempotencyMiss
<1>2. CASE Repeats(c)
  BY <1>2 DEF Repeats, FirstResult, IdempotencyHit, IdempotencyMiss
<1>3. CASE Writes(c)
  <2> DEFINE result == [hash |-> RequestHash(cmd[c]), request |-> Shown(c)',
                        transaction |-> reply'[c].transaction]
  <2>1. /\ cmd'[c] = cmd[c] /\ s \in Scopes /\ idempotencyRecords'[s] = result
        /\ idempotencyRecords'[s] # None
    BY <1>3 DEF Writes
  <2>2. /\ result.hash = RequestHash(cmd[c]) /\ result.request = Shown(c)'
        /\ result.transaction = reply'[c].transaction
    OBVIOUS
  <2> HIDE DEF result
  <2> QED BY <2>1, <2>2 DEF FirstResult, IdempotencyHit, IdempotencyMiss
<1> QED BY <1>1, <1>2, <1>3, ResultSteps

\* One call moves at a time.
LEMMA OneMoves ==
    ASSUME TypeInv, [Next]_vars, NEW c \in Calls, NEW d \in Calls, c # d,
           HoldsResult(c)', HoldsResult(d)'
    PROVE  StandsStill(c) \/ StandsStill(d)
<1>1. ASSUME NEW e \in Calls, CallStep(e) \/ CallFails(e) \/ \E m \in Commands : Begin(e, m)
      PROVE  StandsStill(c) \/ StandsStill(d)
  BY <1>1, OthersStandStill
<1>2. CASE Restart
  BY <1>2 DEF Restart, HoldsResult, Holding, Answered
<1>3. CASE \/ \E k \in OrderKeys, order \in OrderVersions : OrderChanges(k, order)
           \/ UNCHANGED vars
  BY <1>3 DEF OrderChanges, vars, callVars, StandsStill, Stands
<1> QED BY <1>1, <1>2, <1>3 DEF Next

LEMMA NextOneFirst ==
    ASSUME TypeInv, Results, Gets, FirstResults, [Next]_vars, NEW c \in Calls, NEW d \in Calls
    PROVE  OneFirst(c, d)'
<1> SUFFICES ASSUME c # d, HoldsResult(c)', ~ reply'[c].replayed,
                    HoldsResult(d)', ~ reply'[d].replayed
             PROVE  Scope(cmd'[c]) # Scope(cmd'[d])
  BY DEF OneFirst
<1>1. ASSUME NEW e \in Calls, HoldsResult(e)', ~ reply'[e].replayed PROVE GoesOn(e) \/ Writes(e)
  BY <1>1, ResultSteps DEF Repeats
<1>2. ASSUME NEW e \in Calls, GoesOn(e)
      PROVE  HoldsResult(e) /\ IdempotencyHit(cmd[e]) /\ cmd'[e] = cmd[e]
  BY <1>2 DEF GoesOn, FirstResults, FirstResult
<1>3. ASSUME NEW e \in Calls, Writes(e)
      PROVE  IdempotencyMiss(cmd[e]) /\ cmd'[e] = cmd[e] /\ ~ StandsStill(e)
  BY <1>3 DEF Writes
<1>4. CASE GoesOn(c) /\ GoesOn(d)
  BY <1>4 DEF GoesOn, FirstResults, OneFirst
<1>5. ASSUME NEW a \in Calls, NEW b \in Calls, GoesOn(a), Writes(b)
      PROVE  Scope(cmd[a]) # Scope(cmd[b])
  BY <1>2, <1>3, <1>5 DEF IdempotencyHit, IdempotencyMiss
<1>6. ~ (Writes(c) /\ Writes(d))
  BY <1>3, OneMoves
<1> QED BY <1>1, <1>2, <1>3, <1>4, <1>5, <1>6

LEMMA InitFirstResults == Init => FirstResults
BY DEF Init, CallsIdle, FirstResults, FirstResult, OneFirst, HoldsResult, Holding, Answered

LEMMA NextFirstResults ==
    TypeInv /\ Results /\ Gets /\ FirstResults /\ [Next]_vars => FirstResults'
BY NextFirstResult, NextOneFirst DEF FirstResults

LEMMA FirstResultsTell == FirstResults => RepliesFromFirst
<1> SUFFICES ASSUME FirstResults PROVE RepliesFromFirst
  OBVIOUS
<1>1. \A c \in Calls : Answered(c) /\ cmd[c].op \in Operations => HoldsResult(c)
  BY DEF HoldsResult, Holding
<1>2. \A c \in Calls : Answered(c) => Shown(c) = reply[c].request
  BY DEF Answered, Shown
<1> QED BY <1>1, <1>2, Zenon DEF FirstResults, FirstResult, OneFirst, RepliesFromFirst

\* An answer under an idempotency key is the first result of that key, and of
\* the answers only one is the first, however the calls that give them race,
\* fail and repeat (docs/mvp.md:85, README.md:123, :134).
THEOREM AnswersRepeatTheFirst == Spec => []RepliesFromFirst
BY InitFirstResults, NextFirstResults, FirstResultsTell, ReviewInvHolds, ResultsHold, PTL
   DEF Spec, ReviewInv

-----------------------------------------------------------------------------
(* The cause of the status an answer shows *)

\* The decisions and the receipts beside the request a call shows: those on
\* record until it has read them.
Timeline(c) ==
    IF pc[c] = "ListApprovals" THEN approvals[RequestKey(cmd[c])] ELSE reply[c].approvals
Payments(c) ==
    IF pc[c] = "Done" THEN reply[c].transactions ELSE transactions[RequestKey(cmd[c])]

Has(list, s) == \E i \in DOMAIN list : list[i].status = s
Decides(list, m) ==
    \E i \in DOMAIN list : list[i].decisionBy = m.by /\ list[i].status = m.decision

ShowsCause(c) ==
    Holding(c) /\ cmd[c].op # "create" =>
        /\ Shown(c).status \in {"APPROVED", "REJECTED"} => Has(Timeline(c), Shown(c).status)
        /\ Shown(c).status \in Settled => Has(Payments(c), Shown(c).status)
        /\ cmd[c].op = "review" => Decides(Timeline(c), cmd[c])

LEMMA ExtendsKeeps ==
    ASSUME NEW S, NEW s \in Seq(S), NEW t, Extends(s, t)
    PROVE  \A i \in DOMAIN s : i \in DOMAIN t /\ t[i] = s[i]
<1>1. ASSUME NEW x, t = Append(s, x) PROVE \A i \in DOMAIN s : i \in DOMAIN t /\ t[i] = s[i]
  <2> DEFINE T == S \cup {x}
  <2>1. s \in Seq(T) /\ x \in T
    BY SeqMonotonic
  <2> HIDE DEF T
  <2>2. t \in Seq(T) /\ Len(t) = Len(s) + 1 /\ \A i \in 1 .. Len(s) : t[i] = s[i]
    BY <1>1, <2>1, AppendProperties
  <2>3. DOMAIN s = 1 .. Len(s) /\ DOMAIN t = 1 .. Len(t) /\ Len(s) \in Nat
    BY <2>1, <2>2, LenProperties
  <2> QED BY <2>2, <2>3
<1> QED BY <1>1 DEF Extends

LEMMA DetailKey ==
    ASSUME TypeInv, NEW c \in Calls, pc[c] \in DetailCalls
    PROVE  RequestKey(cmd[c]) \in RequestKeys
BY DEF TypeInv, CallsHold, RequestKey, RequestKeys, ReviewCommand, RecordCommand, GetCommand

LEMMA StandingShowsCause ==
    ASSUME TypeInv, [Next]_vars, NEW c \in Calls, ShowsCause(c), StandsStill(c)
    PROVE  ShowsCause(c)'
<1> DEFINE k == RequestKey(cmd[c])
<1> SUFFICES ASSUME Holding(c), cmd[c].op # "create" PROVE ShowsCause(c)'
  BY DEF ShowsCause, StandsStill, Stands, Holding, Answered
<1>1. CASE pc[c] = "Done"
  BY <1>1 DEF ShowsCause, StandsStill, Stands, Holding, Answered, Shown, Timeline, Payments
<1>2. CASE pc[c] \in {"ListApprovals", "ListTransactions"}
  <2>1. k \in RequestKeys
    BY <1>2, DetailKey DEF DetailCalls
  <2>2. approvals[k] \in Seq(Approval) /\ transactions[k] \in Seq(Transaction)
    BY <2>1 DEF TypeInv, TypeOK, StoreTypeOK
  <2>3. /\ \A i \in DOMAIN approvals[k] : i \in DOMAIN approvals'[k] /\ approvals'[k][i] = approvals[k][i]
        /\ \A i \in DOMAIN transactions[k] :
               i \in DOMAIN transactions'[k] /\ transactions'[k][i] = transactions[k][i]
    BY <2>1, <2>2, ListSteps, ExtendsKeeps DEF ListsGrow
  <2>4. /\ pc'[c] = pc[c] /\ cmd'[c] = cmd[c] /\ request'[c] = request[c] /\ reply'[c] = reply[c]
    BY DEF StandsStill, Stands
  <2>5. Shown(c)' = Shown(c)
    BY <2>4 DEF Shown
  <2>6. \A s : Has(Timeline(c), s) => Has(Timeline(c)', s)
    BY <2>3, <2>4 DEF Has, Timeline
  <2>7. \A s : Has(Payments(c), s) => Has(Payments(c)', s)
    BY <2>3, <2>4 DEF Has, Payments
  <2>8. Decides(Timeline(c), cmd[c]) => Decides(Timeline(c), cmd[c])'
    BY <2>3, <2>4 DEF Decides, Timeline
  <2> HIDE DEF k
  <2> QED BY <2>4, <2>5, <2>6, <2>7, <2>8 DEF ShowsCause, Has
<1> QED BY <1>1, <1>2 DEF Holding, Answered

LEMMA AppendedLast ==
    ASSUME NEW S, NEW list \in Seq(S), NEW x \in S
    PROVE  \E i \in DOMAIN Append(list, x) : Append(list, x)[i] = x
<1>1. Len(list) \in Nat /\ DOMAIN Append(list, x) = 1 .. Len(list) + 1
  BY LenProperties, AppendList
<1>2. Append(list, x)[Len(list) + 1] = x
  BY AppendList
<1>3. Len(list) + 1 \in DOMAIN Append(list, x)
  BY <1>1
<1> QED BY <1>2, <1>3

LEMMA HitShowsCause ==
    ASSUME TypeInv, SettledByReceipt, EffectsOnce, Named, Results,
           NEW c \in Calls, HitRecorded(c)
    PROVE  ShowsCause(c)'
<1> DEFINE k == RequestKey(cmd[c])
           result == idempotencyRecords[Scope(cmd[c])]
<1>1. cmd[c] \in RecordCommand /\ cmd[c].op = "record" /\ IdempotencyHit(cmd[c])
  BY DEF HitRecorded, TypeInv, CallsHold, RecordCommand
<1>2. result.transaction.status = result.request.status /\ result.request.status \in Settled
  <2>1. Scope(cmd[c]) \in Scopes /\ Scope(cmd[c])[3] = "record"
    BY <1>1, ScopeType DEF Scope
  <2> QED BY <1>1, <2>1 DEF Results, Told, IdempotencyHit, IdempotencyMiss
<1>3. result.transaction \in Range(transactions[k])
  BY <1>1, RetrySettled
<1>4. CarryRecorded(c, result.request, result.transaction, TRUE) /\ UNCHANGED storeVars
  BY DEF HitRecorded, CarryFirstResult
<1> HIDE DEF result, k
<1>5. pc'[c] = "ListApprovals" /\ cmd' = cmd /\ request'[c] = result.request
  BY <1>4, CarriedIs
<1>6. Has(transactions[k], result.request.status)
  BY <1>2, <1>3 DEF Has, Range
<1>7. Shown(c)' = result.request /\ Payments(c)' = transactions[k]
  BY <1>4, <1>5 DEF Shown, Payments, storeVars, ledgerVars, k
<1> QED BY <1>1, <1>2, <1>5, <1>6, <1>7 DEF ShowsCause, Settled, Has

LEMMA RecordShowsCause ==
    ASSUME TypeInv, NEW c \in Calls, WroteRecorded(c)
    PROVE  ShowsCause(c)'
<1> DEFINE k == RequestKey(cmd[c])
           receipt == TransactionOf(cmd[c])
           q == [requests[k] EXCEPT !.status = cmd[c].status]
<1>1. Records(c) /\ CarryRecorded(c, requests'[k], receipt, FALSE)
  BY DEF WroteRecorded
<1>2. /\ k \in RequestKeys /\ cmd[c] \in RecordCommand /\ receipt \in Transaction
      /\ requests[k] \in Request
      /\ requests'[k] = q /\ transactions'[k] = Append(transactions[k], receipt)
  BY <1>1, RecordEffect
<1>3. /\ q.status = cmd[c].status /\ receipt.status = cmd[c].status
      /\ cmd[c].status \in Settled /\ cmd[c].op = "record"
  BY <1>2 DEF Request, RecordCommand, TransactionStatuses, Settled, TransactionOf
<1>4. pc'[c] = "ListApprovals" /\ cmd' = cmd /\ request'[c] = requests'[k]
  BY <1>1, CarriedIs
<1>5. transactions[k] \in Seq(Transaction)
  BY <1>2 DEF TypeInv, TypeOK, StoreTypeOK
<1> HIDE DEF receipt, q
<1>6. Has(transactions'[k], cmd[c].status)
  BY <1>2, <1>3, <1>5, AppendedLast DEF Has
<1>7. Shown(c)' = q /\ Payments(c)' = transactions'[k]
  BY <1>2, <1>4 DEF Shown, Payments
<1> HIDE DEF k
<1> QED BY <1>3, <1>4, <1>6, <1>7 DEF ShowsCause, Settled, Has

LEMMA ReviewShowsCause ==
    ASSUME TypeInv, NEW c \in Calls, WroteReviewed(c)
    PROVE  ShowsCause(c)'
<1> DEFINE m == cmd[c]
           k == RequestKey(m)
           after == ReviewedStatus(m.decision, request[c].amount, level[c], threshold)
           q == [requests[k] EXCEPT !.status = after]
<1>1. Reviews(c) /\ Carry(c, q, "ListApprovals") /\ UNCHANGED <<cmd, reply>>
  BY DEF WroteReviewed
<1>2. Reviewed(c)
  BY <1>1 DEF Reviews, Reviewed, StoreReviewed, Decision
<1>3. /\ m \in ReviewCommand /\ Decision(c) \in Approval /\ requests[k] \in Request
      /\ approvals[k] \in Seq(Approval) /\ k \in RequestKeys
  BY <1>2, ReviewedFinds, WrittenKeys
<1>4. approvals'[k] = Append(approvals[k], Decision(c))
  BY <1>1, <1>3 DEF Reviews, StoreReviewed, TypeInv, TypeOK, StoreTypeOK
<1>5. /\ q.status = after /\ m.op = "review" /\ m.decision \in {"APPROVED", "REJECTED"}
      /\ Decision(c).status = m.decision /\ Decision(c).decisionBy = m.by
  BY <1>3 DEF Request, ReviewCommand, Decision
<1>6. /\ after \in {"REJECTED", "PENDING_REVIEW", "APPROVED"}
      /\ after = "REJECTED" => m.decision = "REJECTED"
      /\ after = "APPROVED" => m.decision = "APPROVED"
  <2> DEFINE high == RequiresHighAmountApproval(request[c].amount, threshold)
  <2> HIDE DEF high
  <2>1. after = CASE m.decision = "REJECTED" -> "REJECTED"
                  [] m.decision = "APPROVED" /\ high /\ level[c] = 1 -> "PENDING_REVIEW"
                  [] OTHER -> "APPROVED"
    BY DEF ReviewedStatus, high
  <2> QED BY <1>5, <2>1
<1>7. pc'[c] = "ListApprovals" /\ cmd' = cmd /\ request'[c] = q
  BY <1>1 DEF Carry, Goto, TypeInv, TypeOK, CallTypeOK
<1> HIDE DEF m, after, q
<1>8. \E i \in DOMAIN approvals'[k] :
          approvals'[k][i].decisionBy = m.by /\ approvals'[k][i].status = m.decision
  BY <1>3, <1>4, <1>5, AppendedLast
<1>9. Shown(c)' = q /\ Timeline(c)' = approvals'[k] /\ cmd'[c] = m
  BY <1>7 DEF Shown, Timeline, m
<1> HIDE DEF k
<1> QED BY <1>5, <1>6, <1>8, <1>9 DEF ShowsCause, Settled, Has, Decides

LEMMA GetShowsCause ==
    ASSUME TypeInv, StatusFollowsApprovals, SettledByReceipt, Gets, NEW c \in Calls, Got(c)
    PROVE  ShowsCause(c)'
<1> DEFINE k == RequestKey(cmd[c])
           r == requests[k]
           list == approvals[k]
<1>1. /\ pc[c] = "GetRequest" /\ r # None /\ Carry(c, r, "ListApprovals")
      /\ UNCHANGED <<cmd, reply, storeVars>>
  BY DEF Got
<1>2. k \in RequestKeys /\ cmd[c].op = "get"
  BY <1>1, DetailKey DEF DetailCalls, Gets
<1>3. list \in Seq(Approval)
  BY <1>2 DEF TypeInv, TypeOK, StoreTypeOK
<1>4. pc'[c] = "ListApprovals" /\ cmd' = cmd /\ request'[c] = r
  BY <1>1 DEF Carry, Goto, TypeInv, TypeOK, CallTypeOK
<1>5. r.status \in {"APPROVED", "REJECTED"} => Has(list, r.status)
  <2>1. /\ r.status = "REJECTED" <=> list # <<>> /\ list[Len(list)].status = "REJECTED"
        /\ r.status = "APPROVED" => Len(list) \in 1 .. 2
    BY <1>1, <1>2 DEF StatusFollowsApprovals, Exists
  <2> HIDE DEF list, r
  <2>2. Len(list) \in Nat /\ DOMAIN list = 1 .. Len(list)
    BY <1>3, LenProperties
  <2>3. list # <<>> => Len(list) # 0
    BY <1>3, EmptySeq
  <2>4. r.status \in {"APPROVED", "REJECTED"} => Len(list) \in DOMAIN list
    <3>1. r.status = "APPROVED" => Len(list) # 0
      BY <2>1
    <3>2. r.status = "REJECTED" => Len(list) # 0
      BY <2>1, <2>3
    <3> QED BY <2>2, <3>1, <3>2
  <2>5. r.status \in {"APPROVED", "REJECTED"} => list[Len(list)] \in Approval
    BY <1>3, <2>2, <2>4, ElementOfSeq
  <2>6. r.status = "APPROVED" => list # <<>>
    <3>1. list = <<>> => Len(list) = 0
      OBVIOUS
    <3>2. r.status = "APPROVED" => Len(list) # 0
      BY <2>1
    <3> QED BY <3>1, <3>2
  <2>7. r.status = "APPROVED" => list[Len(list)].status = "APPROVED"
    BY <2>1, <2>5, <2>6 DEF Approval
  <2> QED BY <2>1, <2>4, <2>7 DEF Has
<1>6. r.status \in Settled => Has(transactions[k], r.status)
  <2>1. /\ r.status \in Settled => transactions[k] # <<>>
        /\ transactions[k] # <<>> => Len(transactions[k]) = 1 /\ transactions[k][1].status = r.status
    BY <1>1, <1>2 DEF SettledByReceipt, Exists
  <2>2. transactions[k] \in Seq(Transaction)
    BY <1>2 DEF TypeInv, TypeOK, StoreTypeOK
  <2>3. DOMAIN transactions[k] = 1 .. Len(transactions[k])
    BY <2>2, LenProperties
  <2> QED BY <2>1, <2>3 DEF Has
<1> HIDE DEF r, list
<1>7. /\ Shown(c)' = r /\ Timeline(c)' = list /\ Payments(c)' = transactions[k]
      /\ cmd'[c].op = "get"
  BY <1>1, <1>2, <1>4 DEF Shown, Timeline, Payments, storeVars, ledgerVars, list
<1> HIDE DEF k
<1> QED BY <1>5, <1>6, <1>7 DEF ShowsCause, Has

LEMMA NextShowsCause ==
    ASSUME ReviewInv, SettledByReceipt, EffectsOnce, Named, Results, Gets, [Next]_vars,
           NEW c \in Calls, ShowsCause(c)
    PROVE  ShowsCause(c)'
<1>t. TypeInv /\ StatusFollowsApprovals
  BY DEF ReviewInv
<1> SUFFICES ASSUME Holding(c)', ~ StandsStill(c), cmd'[c].op # "create" PROVE ShowsCause(c)'
  BY <1>t, StandingShowsCause DEF ShowsCause
<1>1. ~ HitCreated(c) /\ ~ WroteCreated(c)
  <2>1. ASSUME pc[c] \in CreateCalls, NEW r, NEW b, AnswerCreated(c, r, b) PROVE FALSE
    <3>1. cmd[c].op = "create"
      BY <1>t, <2>1 DEF TypeInv, CallsHold, CreateCommand
    <3> QED BY <1>t, <2>1, <3>1, AnswerIs
  <2> QED BY <2>1 DEF HitCreated, WroteCreated, Creates, CreateCalls
<1>2. CASE ListApprovals(c)
  <2>1. /\ pc[c] = "ListApprovals" /\ pc'[c] = "ListTransactions" /\ UNCHANGED <<cmd, request>>
        /\ reply'[c].approvals = approvals[RequestKey(cmd[c])] /\ UNCHANGED storeVars
    BY <1>t, <1>2, ListApprovalsIs
  <2>2. Shown(c)' = Shown(c) /\ Timeline(c)' = Timeline(c) /\ Payments(c)' = Payments(c)
    BY <2>1 DEF Shown, Timeline, Payments, storeVars, ledgerVars
  <2> QED BY <2>1, <2>2 DEF ShowsCause, Holding, Has, Decides
<1>3. CASE ListTransactions(c)
  <2>1. /\ pc[c] = "ListTransactions" /\ pc'[c] = "Done" /\ cmd' = cmd
        /\ reply'[c].request = request[c]
        /\ reply'[c].approvals = reply[c].approvals
        /\ reply'[c].transactions = transactions[RequestKey(cmd[c])]
    BY <1>t, <1>3, ListTransactionsIs
  <2>2. Shown(c)' = Shown(c) /\ Timeline(c)' = Timeline(c) /\ Payments(c)' = Payments(c)
    BY <2>1 DEF Shown, Timeline, Payments
  <2> QED BY <2>1, <2>2 DEF ShowsCause, Holding, Has, Decides
<1> QED BY <1>t, <1>1, <1>2, <1>3, HoldingSteps, HitShowsCause, RecordShowsCause,
           ReviewShowsCause, GetShowsCause DEF Shows

Causes == \A c \in Calls : ShowsCause(c)

LEMMA InitCauses == Init => Causes
BY DEF Init, CallsIdle, Causes, ShowsCause, Holding, Answered

LEMMA NextCauses ==
    ReviewInv /\ SettledByReceipt /\ EffectsOnce /\ Named /\ Results /\ Gets
    /\ Causes /\ [Next]_vars => Causes'
BY NextShowsCause DEF Causes

LEMMA CausesTell == Causes => DetailShowsCause
<1> SUFFICES ASSUME NEW c \in Calls, ShowsCause(c), Answered(c), cmd[c].op # "create"
             PROVE  LET r == reply[c] IN
                    /\ r.request.status \in {"APPROVED", "REJECTED"} =>
                           \E i \in DOMAIN r.approvals : r.approvals[i].status = r.request.status
                    /\ r.request.status \in Settled =>
                           \E i \in DOMAIN r.transactions :
                               r.transactions[i].status = r.request.status
                    /\ cmd[c].op = "review" =>
                           \E i \in DOMAIN r.approvals :
                               /\ r.approvals[i].decisionBy = cmd[c].by
                               /\ r.approvals[i].status = cmd[c].decision
  BY DEF DetailShowsCause, Causes
<1>1. /\ Shown(c) = reply[c].request /\ Timeline(c) = reply[c].approvals
      /\ Payments(c) = reply[c].transactions
  BY DEF Answered, Shown, Timeline, Payments
<1> QED BY <1>1 DEF ShowsCause, Holding, Has, Decides

\* An answer shows the decision or the receipt behind the status it shows,
\* although its parts are read one after another while others write.
THEOREM CausesAreShown == Spec => []DetailShowsCause
BY InitCauses, NextCauses, CausesTell, ReviewInvHolds, SettledOnce, EffectsHold,
   RetriesHold, ResultsHold, PTL DEF Spec
===============================================================================
