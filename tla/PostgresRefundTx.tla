--------------------------- MODULE PostgresRefundTx ---------------------------
(***************************************************************************)
(* The three methods of internal/refund/postgres_repository.go that write, *)
(* statement by statement, each in a transaction of its own at READ        *)
(* COMMITTED: a statement reads the tables as committed when it starts;    *)
(* what a transaction writes reaches the tables when it commits.  A        *)
(* statement waits for the transaction that locked its row, or that has an *)
(* uncommitted entry for its key in a unique index.                        *)
(*                                                                         *)
(* Statements that can neither wait nor refuse are part of the one before: *)
(* under the row's lock nothing else can insert an approval or audit entry *)
(* with the same id, and foreign keys take shared locks on rows no one     *)
(* deletes here.                                                           *)
(***************************************************************************)
EXTENDS RepositoryCalls

CONSTANT MaxOpenConns   \* connections of the pool

ASSUME MaxOpenConnsAssumption == MaxOpenConns \in Nat \ {0}

VARIABLES
    pc,         \* the statement a transaction is about to run
    held,       \* its row locks and uncommitted index entries
    found       \* the request row it read, or None

txVars == <<pc, held, found>>
vars == <<storeVars, call, verdict, txVars>>

Statements == {"Begin", "InsertKey", "SelectActive", "InsertNumber", "InsertOrder",
               "LockRow", "SelectApproval", "UpdateStatus", "InsertReceipt",
               "Commit", "CommitReplay", "Rollback", "Ended"}

Row(k) == <<"row", k>>                  \* SELECT ... FOR UPDATE
Version(k) == <<"version", k>>          \* an uncommitted version of a row
Key(m) == <<"key", Scope(m)>>
Number(k) == <<"number", k>>            \* (tenant_id, request_no), and the id
ActiveOrder(o) == <<"order", o>>        \* refund_requests_active_order_unique_idx
Receipt(r) == <<"receipt", r>>          \* ..._provider_refund_no_unique_idx

NumberOf(t) == <<call[t].m.tenant, call[t].request.no>>
OrderOf(t) == <<call[t].m.tenant, call[t].request.orderNo>>
RowOf(t) == RequestKey(call[t].m)
ReceiptOf(t) == <<call[t].m.tenant, call[t].m.providerRefundNo>>

-----------------------------------------------------------------------------
(* Who waits for whom *)

Open == {t \in Transactions : pc[t] \notin {"Begin", "Ended"}}

Others(t, resources) == {u \in Transactions \ {t} : held[u] \cap resources # {}}

PoolIsFull == Cardinality(Open) >= MaxOpenConns

\* A row under an update is not yet dead for an index that it is in.
ActiveVersions(o) ==
    {Version(k) : k \in {r \in RequestKeys :
        /\ requests[r] # None
        /\ <<r[1], requests[r].orderNo>> = o
        /\ IsActiveStatus(requests[r].status)}}

\* The transactions a transaction's next statement has to wait for.
Blockers(t) ==
    CASE pc[t] = "Begin" -> IF PoolIsFull THEN Open ELSE {}
      [] pc[t] = "InsertKey" /\ IdempotencyMiss(call[t].m) ->
            Others(t, {Key(call[t].m)})
      [] pc[t] = "InsertNumber" ->
            Others(t, {Number(NumberOf(t)), Version(NumberOf(t))})
      [] pc[t] = "InsertOrder" ->
            Others(t, {ActiveOrder(OrderOf(t))} \cup ActiveVersions(OrderOf(t)))
      [] pc[t] = "LockRow" -> Others(t, {Row(RowOf(t))})
      [] pc[t] = "InsertReceipt" -> Others(t, {Receipt(ReceiptOf(t))})
      [] OTHER -> {}

-----------------------------------------------------------------------------
Init ==
    /\ StoreIsInitial
    /\ call \in InitialCalls
    /\ verdict = [t \in Transactions |-> "pending"]
    /\ pc = [t \in Transactions |-> "Begin"]
    /\ held = [t \in Transactions |-> {}]
    /\ found = [t \in Transactions |-> None]

\* A statement runs when nobody is in its way.
Runs(t, statement) == pc[t] = statement /\ Blockers(t) = {}

Proceed(t, statement, resources) ==
    /\ pc' = [pc EXCEPT ![t] = statement]
    /\ held' = [held EXCEPT ![t] = @ \cup resources]
    /\ UNCHANGED <<storeVars, call, verdict, found>>

\* The callback returns an error: its verdict stands, the rollback follows.
Refused(t, error) ==
    /\ verdict' = [verdict EXCEPT ![t] = error]
    /\ pc' = [pc EXCEPT ![t] = "Rollback"]
    /\ UNCHANGED <<storeVars, call, held, found>>

\* A connection comes from the pool.
BeginTx(t) ==
    /\ Runs(t, "Begin")
    /\ Proceed(t, IF call[t].m.op = "create" THEN "InsertKey" ELSE "LockRow", {})

\* INSERT ... ON CONFLICT DO NOTHING inserts no row: the record is read.
FindsRecord(t) ==
    \/ /\ IdempotencyHit(call[t].m)
       /\ Proceed(t, "CommitReplay", {})
    \/ /\ IdempotencyConflict(call[t].m)
       /\ Refused(t, "ErrIdempotencyKeyConflict")

\* It inserts its row.  A receipt then looks at the status it has read.
TakesKey(t) ==
    /\ IdempotencyMiss(call[t].m)
    /\ \/ /\ call[t].m.op = "create"
          /\ Proceed(t, "SelectActive", {Key(call[t].m)})
       \/ /\ call[t].m.op = "record"
          /\ found[t].status = "APPROVED"
          /\ Proceed(t, "UpdateStatus", {Key(call[t].m)})
       \/ /\ call[t].m.op = "record"
          /\ found[t].status # "APPROVED"
          /\ Refused(t, "ErrRefundRequestNotApproved")

\* Mutant: the table has no unique constraint on the scope of a key.
InsertKey_NoConstraint(t) == pc[t] = "InsertKey" /\ (FindsRecord(t) \/ TakesKey(t))

InsertKey(t) == Runs(t, "InsertKey") /\ (FindsRecord(t) \/ TakesKey(t))

\* Mutant: the SELECT goes through the pool instead of the transaction.
SelectActive_OtherConnection(t) ==
    /\ Runs(t, "SelectActive")
    /\ ~ PoolIsFull
    /\ IF HasActiveRequest(call[t].m.tenant, call[t].request.orderNo)
       THEN Refused(t, "ErrActiveRefundRequestExists")
       ELSE Proceed(t, "InsertNumber", {})

SelectActive(t) ==
    /\ Runs(t, "SelectActive")
    /\ IF HasActiveRequest(call[t].m.tenant, call[t].request.orderNo)
       THEN Refused(t, "ErrActiveRefundRequestExists")
       ELSE Proceed(t, "InsertNumber", {})

\* INSERT INTO refund_requests enters the row's number in its index, then, as
\* the row is active, its order; the indexes are updated in the order they
\* were created.
InsertNumber(t) ==
    /\ Runs(t, "InsertNumber")
    /\ IF requests[NumberOf(t)] # None
       THEN Refused(t, "ErrRequestNoExists")
       ELSE Proceed(t, "InsertOrder", {Number(NumberOf(t))})

InsertOrder(t) ==
    /\ Runs(t, "InsertOrder")
    /\ IF HasActiveRequest(call[t].m.tenant, call[t].request.orderNo)
       THEN Refused(t, "ErrActiveRefundRequestExists")
       ELSE Proceed(t, "Commit", {ActiveOrder(OrderOf(t))})

LockRowRefusal(t) ==
    IF requests[RowOf(t)] = None THEN "ErrRefundRequestNotFound"
    ELSE IF /\ call[t].m.op = "review"
            /\ requests[RowOf(t)].status # "PENDING_REVIEW"
         THEN "ErrRefundRequestNotReviewable"
    ELSE "OK"

AfterLock(t) == IF call[t].m.op = "review" THEN "SelectApproval" ELSE "InsertKey"

\* SELECT ..., and the status check of a review.
ReadRow(t, resources) ==
    IF LockRowRefusal(t) # "OK"
    THEN Refused(t, LockRowRefusal(t))
    ELSE /\ pc' = [pc EXCEPT ![t] = AfterLock(t)]
         /\ held' = [held EXCEPT ![t] = @ \cup resources]
         /\ found' = [found EXCEPT ![t] = requests[RowOf(t)]]
         /\ UNCHANGED <<storeVars, call, verdict>>

\* Mutant: the SELECT lacks FOR UPDATE.
LockRow_NoForUpdate(t) == pc[t] = "LockRow" /\ ReadRow(t, {})

LockRow(t) == Runs(t, "LockRow") /\ ReadRow(t, {Row(RowOf(t))})

SelectApproval(t) ==
    /\ Runs(t, "SelectApproval")
    /\ IF \E i \in DOMAIN approvals[RowOf(t)] :
              approvals[RowOf(t)][i].level = call[t].approval.level
       THEN Refused(t, "ErrApprovalLevelAlreadyProcessed")
       ELSE Proceed(t, "UpdateStatus", {})

\* A review's approval and audit entry go with it.
UpdateStatus(t) ==
    /\ Runs(t, "UpdateStatus")
    /\ Proceed(t, IF call[t].m.op = "review" THEN "Commit" ELSE "InsertReceipt",
               {Version(RowOf(t))})

InsertReceipt(t) ==
    /\ Runs(t, "InsertReceipt")
    /\ IF ReceiptOf(t) \in providerRefundNo
       THEN Refused(t, "ErrProviderRefundNoExists")
       ELSE /\ Proceed(t, "Commit", IF call[t].m.providerRefundNo = None THEN {}
                                    ELSE {Receipt(ReceiptOf(t))})

-----------------------------------------------------------------------------
(* How a transaction ends *)

Release(t) ==
    /\ pc' = [pc EXCEPT ![t] = "Ended"]
    /\ held' = [held EXCEPT ![t] = {}]
    /\ UNCHANGED <<call, found>>

\* The acknowledgement may be lost.
Commit(t) ==
    /\ Runs(t, "Commit")
    /\ \E v \in {"OK", "ErrInternal"} : verdict' = [verdict EXCEPT ![t] = v]
    /\ Stored(call[t])
    /\ Release(t)

CommitReplay(t) ==
    /\ Runs(t, "CommitReplay")
    /\ verdict' = [verdict EXCEPT ![t] = "Replayed"]
    /\ Release(t)
    /\ UNCHANGED storeVars

\* Mutant: withTx forgets its deferred rollback.
Rollback_Forgotten(t) ==
    /\ pc[t] = "Rollback"
    /\ pc' = [pc EXCEPT ![t] = "Ended"]
    /\ UNCHANGED <<storeVars, call, verdict, held, found>>

Rollback(t) ==
    /\ Runs(t, "Rollback")
    /\ Release(t)
    /\ UNCHANGED <<storeVars, verdict>>

\* A statement, or the commit, fails: the connection is gone, the context is
\* cancelled, or an index that ON CONFLICT does not name (the record's id)
\* meets the entry of a creation that has just committed.
StatementFails(t) ==
    /\ pc[t] \notin {"Rollback", "Ended"}
    /\ verdict' = [verdict EXCEPT ![t] = "ErrInternal"]
    /\ pc' = [pc EXCEPT ![t] = IF @ = "Begin" THEN "Ended" ELSE "Rollback"]
    /\ UNCHANGED <<storeVars, call, held, found>>

Step(t) ==
    \/ BeginTx(t) \/ InsertKey(t) \/ SelectActive(t) \/ InsertNumber(t) \/ InsertOrder(t)
    \/ LockRow(t) \/ SelectApproval(t) \/ UpdateStatus(t) \/ InsertReceipt(t)
    \/ Commit(t) \/ CommitReplay(t) \/ Rollback(t)

Next == \E t \in Transactions : Step(t) \/ StatementFails(t)

Spec == Init /\ [][Next]_vars

\* The database runs what can run; each call is made once, so whoever waits
\* is overtaken finitely often.  Nothing has to fail.
FairSpec == Spec /\ \A t \in Transactions : WF_vars(Step(t))
=============================================================================
