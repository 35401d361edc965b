------------------------ MODULE PostgresRefundTxProofs ------------------------
(***************************************************************************)
(* For any tables, any calls and any number of them, and a pool of any     *)
(* size: no transactions of PostgresRefundTx wait for one another, what a  *)
(* transaction has checked stays true until it ends, and therefore the     *)
(* transactions implement AtomicRepository.                                *)
(***************************************************************************)
EXTENDS PostgresRefundTxProperties, TLAPS

-----------------------------------------------------------------------------
(* The order in which locks, index entries and connections are taken *)

Rank == [s \in Statements |->
    CASE s \in {"Begin", "Ended"}                    -> 0
      [] s = "LockRow"                               -> 1
      [] s = "InsertKey"                             -> 2
      [] s = "SelectActive"                          -> 3
      [] s = "InsertNumber"                          -> 4
      [] s = "InsertOrder"                           -> 5
      [] s \in {"SelectApproval", "UpdateStatus"}    -> 6
      [] s = "InsertReceipt"                         -> 7
      [] s \in {"Commit", "CommitReplay", "Rollback"} -> 8]

\* The rank of the statement that takes a resource of a kind.
TakenAt == [kind \in {"row", "key", "number", "order", "version", "receipt"} |->
    CASE kind = "row"     -> 1
      [] kind = "key"     -> 2
      [] kind = "number"  -> 4
      [] kind = "order"   -> 5
      [] kind = "version" -> 6
      [] kind = "receipt" -> 7]

\* A transaction holds only what statements before its next one have taken.
InOrder ==
    /\ pc \in [Transactions -> Statements]
    /\ DOMAIN held = Transactions
    /\ \A t \in Transactions : \A r \in held[t] :
          r[1] \in DOMAIN TakenAt /\ TakenAt[r[1]] < Rank[pc[t]]

LEMMA Ranks ==
    /\ Rank["Begin"] = 0 /\ Rank["Ended"] = 0
    /\ Rank["LockRow"] = 1
    /\ Rank["InsertKey"] = 2
    /\ Rank["SelectActive"] = 3
    /\ Rank["InsertNumber"] = 4
    /\ Rank["InsertOrder"] = 5
    /\ Rank["SelectApproval"] = 6 /\ Rank["UpdateStatus"] = 6
    /\ Rank["InsertReceipt"] = 7
    /\ Rank["Commit"] = 8 /\ Rank["CommitReplay"] = 8 /\ Rank["Rollback"] = 8
BY DEF Rank, Statements

LEMMA RankBounds ==
    /\ \A x \in Statements : Rank[x] \in 0 .. 8 /\ (Rank[x] = 0 <=> x \in {"Begin", "Ended"})
    /\ \A x \in DOMAIN TakenAt : TakenAt[x] \in 1 .. 7
<1>1. \A x \in Statements : Rank[x] \in 0 .. 8 /\ (Rank[x] = 0 <=> x \in {"Begin", "Ended"})
  BY Ranks DEF Statements
<1>2. \A x \in DOMAIN TakenAt : TakenAt[x] \in 1 .. 7
  BY DEF TakenAt
<1> QED BY <1>1, <1>2

LEMMA Kinds ==
    ASSUME NEW k
    PROVE  /\ Row(k)[1] = "row" /\ Row(k)[2] = k
           /\ Version(k)[1] = "version" /\ Version(k)[2] = k
           /\ Key(k)[1] = "key" /\ Key(k)[2] = Scope(k)
           /\ Number(k)[1] = "number" /\ Number(k)[2] = k
           /\ ActiveOrder(k)[1] = "order" /\ ActiveOrder(k)[2] = k
           /\ Receipt(k)[1] = "receipt" /\ Receipt(k)[2] = k
BY DEF Row, Version, Key, Number, ActiveOrder, Receipt

LEMMA InOrderInit == Init => InOrder
BY DEF Init, InOrder, Statements

\* A step to a later statement that takes what its rank allows.
LEMMA ProceedInOrder ==
    ASSUME InOrder, NEW t \in Transactions, NEW s \in Statements, NEW rs,
           pc' = [pc EXCEPT ![t] = s], held' = [held EXCEPT ![t] = @ \cup rs],
           Rank[pc[t]] <= Rank[s],
           \A r \in rs : r[1] \in DOMAIN TakenAt /\ TakenAt[r[1]] < Rank[s]
    PROVE  InOrder'
<1>1. \A u \in Transactions :
          /\ pc'[u] = IF u = t THEN s ELSE pc[u]
          /\ held'[u] = IF u = t THEN held[t] \cup rs ELSE held[u]
  BY DEF InOrder
<1>2. \A x \in Statements : Rank[x] \in Nat
  BY DEF Rank, Statements
<1>3. \A x \in DOMAIN TakenAt : TakenAt[x] \in Nat
  BY DEF TakenAt
<1> QED BY <1>1, <1>2, <1>3 DEF InOrder

\* One that takes nothing.
LEMMA StopInOrder ==
    ASSUME InOrder, NEW t \in Transactions, NEW s \in Statements,
           pc' = [pc EXCEPT ![t] = s], held' = held, Rank[pc[t]] <= Rank[s]
    PROVE  InOrder'
<1>1. pc' \in [Transactions -> Statements] /\ DOMAIN held' = Transactions
  BY DEF InOrder
<1>2. ASSUME NEW u \in Transactions, NEW r \in held'[u]
      PROVE  r[1] \in DOMAIN TakenAt /\ TakenAt[r[1]] < Rank[pc'[u]]
  <2>1. r[1] \in DOMAIN TakenAt /\ TakenAt[r[1]] < Rank[pc[u]]
    BY <1>2 DEF InOrder
  <2>2. TakenAt[r[1]] \in Int /\ Rank[pc[u]] \in Int /\ Rank[pc'[u]] \in Int
    BY <1>1, <2>1, RankBounds DEF InOrder
  <2>3. pc'[u] = pc[u] \/ (u = t /\ pc'[u] = s)
    BY DEF InOrder
  <2> QED BY <2>1, <2>2, <2>3
<1> QED BY <1>1, <1>2 DEF InOrder

LEMMA ReleaseInOrder ==
    ASSUME InOrder, NEW t \in Transactions, Release(t) PROVE InOrder'
BY DEF InOrder, Release, Statements

LEMMA InOrderNext == ASSUME InOrder, [Next]_vars PROVE InOrder'
<1>1. ASSUME NEW t \in Transactions, Step(t) \/ StatementFails(t)
      PROVE  InOrder'
  <2>0. pc[t] \in Statements
    BY DEF InOrder
  <2>1. CASE Commit(t) \/ CommitReplay(t) \/ Rollback(t)
    BY <2>1, ReleaseInOrder DEF Commit, CommitReplay, Rollback
  <2>2. CASE StatementFails(t)
    <3> DEFINE s == IF pc[t] = "Begin" THEN "Ended" ELSE "Rollback"
    <3>1. pc' = [pc EXCEPT ![t] = s] /\ held' = held
      BY <2>2 DEF StatementFails
    <3>2. s \in Statements /\ Rank[pc[t]] <= Rank[s]
      BY <2>0, Ranks, RankBounds DEF Statements
    <3> QED BY <3>1, <3>2, StopInOrder
  <2>3. ASSUME NEW e, Refused(t, e) PROVE InOrder'
    <3>1. pc' = [pc EXCEPT ![t] = "Rollback"] /\ held' = held
      BY <2>3 DEF Refused
    <3>2. Rank[pc[t]] <= Rank["Rollback"] /\ "Rollback" \in Statements
      BY <2>0, Ranks, RankBounds DEF Statements
    <3> QED BY <3>1, <3>2, StopInOrder
  <2>4. ASSUME NEW s \in Statements, NEW rs, Proceed(t, s, rs), Rank[pc[t]] <= Rank[s],
               \A r \in rs : r[1] \in DOMAIN TakenAt /\ TakenAt[r[1]] < Rank[s]
        PROVE  InOrder'
    BY <2>4, ProceedInOrder DEF Proceed
  <2>5. CASE BeginTx(t)
    BY <2>4, <2>5, Ranks DEF BeginTx, Runs, Statements
  <2>6. CASE InsertKey(t)
    <3>1. CASE FindsRecord(t)
      BY <2>3, <2>4, <2>6, <3>1, Ranks DEF InsertKey, Runs, FindsRecord, Statements
    <3>2. CASE TakesKey(t)
      BY <2>3, <2>4, <2>6, <3>2, Kinds, Ranks
         DEF InsertKey, Runs, TakesKey, Statements, TakenAt
    <3> QED BY <2>6, <3>1, <3>2 DEF InsertKey
  <2>7. CASE SelectActive(t) \/ SelectApproval(t)
    BY <2>3, <2>4, <2>7, Ranks DEF SelectActive, SelectApproval, Runs, Statements
  <2>8. CASE InsertNumber(t)
    BY <2>3, <2>4, <2>8, Kinds, Ranks DEF InsertNumber, Runs, Statements, TakenAt
  <2>9. CASE InsertOrder(t)
    BY <2>3, <2>4, <2>9, Kinds, Ranks DEF InsertOrder, Runs, Statements, TakenAt
  <2>10. CASE LockRow(t)
    <3>1. CASE \E e : Refused(t, e)
      BY <2>3, <3>1
    <3>2. CASE /\ pc' = [pc EXCEPT ![t] = AfterLock(t)]
               /\ held' = [held EXCEPT ![t] = @ \cup {Row(RowOf(t))}]
      <4>1. /\ AfterLock(t) \in Statements
            /\ Rank[pc[t]] <= Rank[AfterLock(t)] /\ 1 < Rank[AfterLock(t)]
        BY <2>10, Ranks DEF LockRow, Runs, AfterLock, Statements
      <4>2. \A r \in {Row(RowOf(t))} : r[1] \in DOMAIN TakenAt /\ TakenAt[r[1]] = 1
        BY Kinds DEF TakenAt
      <4>3. \A r \in {Row(RowOf(t))} : TakenAt[r[1]] < Rank[AfterLock(t)]
        BY <4>1, <4>2
      <4> DEFINE s == AfterLock(t)
                 rs == {Row(RowOf(t))}
      <4>4. /\ s \in Statements /\ Rank[pc[t]] <= Rank[s]
            /\ pc' = [pc EXCEPT ![t] = s]
            /\ held' = [held EXCEPT ![t] = @ \cup rs]
        BY <3>2, <4>1
      <4>5. \A r \in rs : r[1] \in DOMAIN TakenAt /\ TakenAt[r[1]] < Rank[s]
        BY <4>2, <4>3
      <4> HIDE DEF s, rs
      <4> QED BY <4>4, <4>5, ProceedInOrder
    <3> QED BY <2>10, <3>1, <3>2 DEF LockRow, ReadRow
  <2>11. CASE UpdateStatus(t)
    BY <2>3, <2>4, <2>11, Kinds, Ranks DEF UpdateStatus, Runs, Statements, TakenAt
  <2>12. CASE InsertReceipt(t)
    BY <2>3, <2>4, <2>12, Kinds, Ranks DEF InsertReceipt, Runs, Statements, TakenAt
  <2> QED
    BY <1>1, <2>1, <2>2, <2>5, <2>6, <2>7, <2>8, <2>9, <2>10, <2>11, <2>12 DEF Step
<1>2. CASE UNCHANGED vars
  BY <1>2 DEF vars, txVars, InOrder
<1> QED BY <1>1, <1>2 DEF Next

-----------------------------------------------------------------------------
(* Nobody is stuck *)

\* Whoever holds what a statement waits for is past that statement.
LEMMA BlockersAreAhead ==
    ASSUME InOrder, NEW t \in Transactions, NEW u \in Blockers(t)
    PROVE  u \in Open /\ Rank[pc[t]] < Rank[pc[u]]
<1>1. pc[t] \in Statements
  BY DEF InOrder
<1>2. \A x \in Statements :
          Rank[x] \in Int /\ 0 <= Rank[x] /\ (Rank[x] = 0 => x \in {"Begin", "Ended"})
  <2>1. \A x \in Statements : Rank[x] \in 0 .. 8 /\ (Rank[x] = 0 => x \in {"Begin", "Ended"})
    BY RankBounds
  <2> QED BY <2>1
<1>3. ASSUME NEW rs, u \in Others(t, rs),
             \A r \in rs : r[1] \in DOMAIN TakenAt => Rank[pc[t]] <= TakenAt[r[1]]
      PROVE  u \in Open /\ Rank[pc[t]] < Rank[pc[u]]
  <2>1. u \in Transactions /\ pc[u] \in Statements
    BY <1>3 DEF Others, InOrder
  <2>2. PICK r \in rs : r \in held[u]
    BY <1>3 DEF Others
  <2>3. TakenAt[r[1]] < Rank[pc[u]] /\ Rank[pc[t]] <= TakenAt[r[1]]
    BY <1>3, <2>1, <2>2 DEF InOrder
  <2>4. Rank[pc[t]] \in Int /\ Rank[pc[u]] \in Int /\ TakenAt[r[1]] \in Int
        /\ 0 <= Rank[pc[t]]
    BY <1>1, <1>2, <2>1, <2>2, RankBounds DEF InOrder
  <2>5. Rank[pc[t]] < Rank[pc[u]] /\ Rank[pc[u]] # 0
    BY <2>3, <2>4
  <2>6. pc[u] \notin {"Begin", "Ended"}
    BY <2>5, Ranks
  <2> QED BY <2>1, <2>5, <2>6 DEF Open
<1>4. CASE pc[t] = "Begin"
  BY <1>2, <1>4 DEF Blockers, Open, InOrder, Rank, Statements
<1>5. CASE pc[t] = "InsertKey"
  BY <1>3, <1>5, Kinds DEF Blockers, Rank, TakenAt, Statements
<1>6. CASE pc[t] = "InsertNumber"
  BY <1>3, <1>6, Kinds DEF Blockers, Rank, TakenAt, Statements
<1>7. CASE pc[t] = "InsertOrder"
  <2>1. \A r \in {ActiveOrder(OrderOf(t))} \cup ActiveVersions(OrderOf(t)) :
            r[1] \in {"order", "version"}
    BY Kinds DEF ActiveVersions
  <2> QED BY <1>3, <1>7, <2>1 DEF Blockers, Rank, TakenAt, Statements
<1>8. CASE pc[t] = "LockRow"
  BY <1>3, <1>8, Kinds DEF Blockers, Rank, TakenAt, Statements
<1>9. CASE pc[t] = "InsertReceipt"
  BY <1>3, <1>9, Kinds DEF Blockers, Rank, TakenAt, Statements
<1> QED
  BY <1>1, <1>4, <1>5, <1>6, <1>7, <1>8, <1>9 DEF Blockers

LEMMA HighestRank ==
    ASSUME InOrder, NEW S \in SUBSET Transactions, S # {}
    PROVE  \E t \in S : \A u \in S : Rank[pc[u]] <= Rank[pc[t]]
<1>1. \A t \in S : Rank[pc[t]] \in 0 .. 8
  BY DEF InOrder, Rank, Statements
<1> QED BY <1>1

LEMMA InOrderSuffices == InOrder => NobodyStuck
<1> SUFFICES ASSUME InOrder PROVE NobodyStuck
  OBVIOUS
<1>1. \A t \in Transactions : Blockers(t) \subseteq Open
  BY BlockersAreAhead
<1>2. ASSUME NEW S \in (SUBSET Transactions) \ {{}}
      PROVE  \E t \in S : Blockers(t) \cap S = {}
  <2>1. PICK t \in S : \A u \in S : Rank[pc[u]] <= Rank[pc[t]]
    BY HighestRank
  <2>2. \A u \in S : Rank[pc[u]] \in Nat
    BY DEF InOrder, Rank, Statements
  <2> QED BY <2>1, <2>2, BlockersAreAhead
<1> QED BY <1>1, <1>2 DEF NobodyStuck

\* No transactions wait for one another in a circle, for locks, index entries
\* or connections (postgres_repository.go:154, 239, 359; database.go:26).
THEOREM NoDeadlock == Spec => []NobodyStuck
BY InOrderInit, InOrderNext, InOrderSuffices, PTL DEF Spec

-----------------------------------------------------------------------------
(* Atomicity: what a transaction has checked stays true until it ends, and *)
(* therefore the transactions implement AtomicRepository.                  *)

Op(t) == call[t].m.op

Tables ==
    /\ requests \in [RequestKeys -> Request \cup {None}]
    /\ DOMAIN approvals = RequestKeys
    /\ DOMAIN idempotencyRecords = Scopes
    /\ providerRefundNo \subseteq Tenants \X ProviderRefundNos

Locals ==
    /\ call \in [Transactions -> StoreCall]
    /\ pc \in [Transactions -> Statements]
    /\ DOMAIN held = Transactions
    /\ DOMAIN found = Transactions
    /\ DOMAIN verdict = Transactions

\* A creation: what it may hold, what it holds where, what that keeps true.
CreateInv(t) == Op(t) = "create" =>
    /\ held[t] \subseteq {Key(call[t].m), Number(NumberOf(t)), ActiveOrder(OrderOf(t))}
    /\ pc[t] \in {"Begin", "InsertKey", "SelectActive", "InsertNumber", "InsertOrder",
                  "Commit", "CommitReplay", "Rollback", "Ended"}
    /\ pc[t] \in {"SelectActive", "InsertNumber", "InsertOrder", "Commit"} =>
           Key(call[t].m) \in held[t]
    /\ pc[t] \in {"InsertOrder", "Commit"} => Number(NumberOf(t)) \in held[t]
    /\ pc[t] = "Commit" => ActiveOrder(OrderOf(t)) \in held[t]
    /\ Number(NumberOf(t)) \in held[t] => requests[NumberOf(t)] = None
    /\ ActiveOrder(OrderOf(t)) \in held[t] =>
           ~ HasActiveRequest(call[t].m.tenant, call[t].request.orderNo)

\* A review or a receipt, and the row it locks.
RowInv(t) == Op(t) # "create" =>
    /\ held[t] \subseteq {Row(RowOf(t)), Version(RowOf(t)), Key(call[t].m),
                          Receipt(ReceiptOf(t))}
    /\ Version(RowOf(t)) \in held[t] => Row(RowOf(t)) \in held[t]
    /\ Row(RowOf(t)) \in held[t] =>
           found[t] # None /\ found[t] = requests[RowOf(t)]

ReviewInv(t) == Op(t) = "review" =>
    /\ pc[t] \in {"Begin", "LockRow", "SelectApproval", "UpdateStatus", "Commit", "Rollback",
                  "Ended"}
    /\ Key(call[t].m) \notin held[t]
    /\ pc[t] \in {"SelectApproval", "UpdateStatus", "Commit"} =>
           Row(RowOf(t)) \in held[t] /\ found[t].status = "PENDING_REVIEW"
    /\ pc[t] \in {"UpdateStatus", "Commit"} =>
           \A i \in DOMAIN approvals[RowOf(t)] :
               approvals[RowOf(t)][i].level # call[t].approval.level

RecordInv(t) == Op(t) = "record" =>
    /\ pc[t] \in {"Begin", "LockRow", "InsertKey", "UpdateStatus", "InsertReceipt", "Commit",
                  "CommitReplay", "Rollback", "Ended"}
    /\ pc[t] \in {"InsertKey", "UpdateStatus", "InsertReceipt", "Commit"} =>
           Row(RowOf(t)) \in held[t]
    /\ pc[t] \in {"UpdateStatus", "InsertReceipt", "Commit"} =>
           Key(call[t].m) \in held[t] /\ found[t].status = "APPROVED"
    /\ pc[t] = "Commit" =>
           /\ ReceiptOf(t) \notin providerRefundNo
           /\ call[t].m.providerRefundNo # None => Receipt(ReceiptOf(t)) \in held[t]

\* Until the statement that decides, nothing is decided; a key that is held
\* has no record, and one that is replayed keeps its record.
KeyInv(t) ==
    /\ pc[t] \notin {"Rollback", "Ended"} => verdict[t] = "pending"
    /\ pc[t] \in {"Begin", "Ended"} => held[t] = {}
    /\ Op(t) # "review" /\ Key(call[t].m) \in held[t] => IdempotencyMiss(call[t].m)
    /\ pc[t] = "CommitReplay" => Op(t) # "review" /\ IdempotencyHit(call[t].m)

TxInv(t) == CreateInv(t) /\ RowInv(t) /\ ReviewInv(t) /\ RecordInv(t) /\ KeyInv(t)

Apart == \A t, u \in Transactions : t # u => held[t] \cap held[u] = {}

Isolated == Tables /\ Locals /\ Apart /\ \A t \in Transactions : TxInv(t)

LEMMA OpOf ==
    ASSUME Locals, NEW t \in Transactions
    PROVE  /\ Op(t) \in {"create", "review", "record"}
           /\ Op(t) = "create" => call[t].m \in CreateCommand /\ call[t].request \in Request
           /\ Op(t) = "review" => /\ call[t].m \in ReviewCommand /\ call[t].approval \in Approval
                                  /\ call[t].after \in RequestStatuses
           /\ Op(t) = "record" => call[t].m \in RecordCommand
<1>1. call[t] \in CreateCall \/ call[t] \in ReviewCall \/ call[t] \in RecordCall
  BY DEF Locals, StoreCall
<1>2. ASSUME call[t] \in CreateCall
      PROVE  call[t].m \in CreateCommand /\ call[t].request \in Request /\ Op(t) = "create"
  BY <1>2 DEF CreateCall, CreateCommand, Op
<1>3. ASSUME call[t] \in ReviewCall
      PROVE  /\ call[t].m \in ReviewCommand /\ call[t].approval \in Approval
             /\ call[t].after \in RequestStatuses /\ Op(t) = "review"
  BY <1>3 DEF ReviewCall, ReviewCommand, Op
<1>4. ASSUME call[t] \in RecordCall PROVE call[t].m \in RecordCommand /\ Op(t) = "record"
  BY <1>4 DEF RecordCall, RecordCommand, Op
<1> QED BY <1>1, <1>2, <1>3, <1>4

LEMMA KeysOf ==
    ASSUME Locals, NEW t \in Transactions
    PROVE  /\ Op(t) = "create" => NumberOf(t) \in RequestKeys
           /\ Op(t) # "create" => RowOf(t) \in RequestKeys
           /\ Op(t) # "review" => Scope(call[t].m) \in Scopes
<1>1. CASE Op(t) = "create"
  BY <1>1, OpOf DEF CreateCommand, Request, NumberOf, RequestKeys, Scopes, Scope, Operations
<1>2. CASE Op(t) = "review"
  BY <1>2, OpOf DEF ReviewCommand, RowOf, RequestKey, RequestKeys
<1>3. CASE Op(t) = "record"
  BY <1>3, OpOf DEF RecordCommand, RowOf, RequestKey, RequestKeys, Scopes, Scope, Operations
<1> QED BY <1>1, <1>2, <1>3, OpOf

LEMMA IsolatedInit == Init => Isolated
<1> SUFFICES ASSUME Init PROVE Isolated
  OBVIOUS
<1>1. Tables
  BY InitialStoresAssumption DEF Init, StoreIsInitial, Tables
<1>2. Locals
  BY InitialCallsAssumption DEF Init, Locals, Statements
<1>3. Apart
  BY DEF Init, Apart
<1>4. \A t \in Transactions : TxInv(t)
  BY DEF Init, TxInv, CreateInv, RowInv, ReviewInv, RecordInv, KeyInv
<1> QED BY <1>1, <1>2, <1>3, <1>4 DEF Isolated

-----------------------------------------------------------------------------
(* Statements, which leave the tables as they are *)

\* The other transactions see nothing of a statement.
LEMMA LocalStep ==
    ASSUME Isolated, NEW t \in Transactions, UNCHANGED <<storeVars, call>>,
           Locals', TxInv(t)',
           \A u \in Transactions \ {t} :
               /\ pc'[u] = pc[u] /\ held'[u] = held[u]
               /\ found'[u] = found[u] /\ verdict'[u] = verdict[u]
               /\ held'[t] \cap held[u] = {}
    PROVE  Isolated'
<1>1. Tables'
  BY DEF Isolated, Tables, storeVars, ledgerVars
<1>2. Apart'
  BY DEF Isolated, Apart
<1>3. ASSUME NEW u \in Transactions \ {t} PROVE TxInv(u)'
  <2>1. TxInv(u) /\ UNCHANGED <<call, pc[u], held[u], found[u], verdict[u]>>
    BY DEF Isolated
  <2>2. UNCHANGED <<requests, approvals, providerRefundNo, idempotencyRecords>>
    BY DEF storeVars, ledgerVars
  <2>3. CreateInv(u)'
    BY <2>1, <2>2 DEF TxInv, CreateInv, Op, NumberOf, OrderOf, HasActiveRequest
  <2>4. RowInv(u)'
    BY <2>1, <2>2 DEF TxInv, RowInv, Op, RowOf, ReceiptOf
  <2>5. ReviewInv(u)'
    BY <2>1, <2>2 DEF TxInv, ReviewInv, Op, RowOf
  <2>6. RecordInv(u)'
    BY <2>1, <2>2 DEF TxInv, RecordInv, Op, RowOf, ReceiptOf
  <2>7. KeyInv(u)'
    BY <2>1, <2>2 DEF TxInv, KeyInv, Op, IdempotencyMiss, IdempotencyHit
  <2> QED BY <2>3, <2>4, <2>5, <2>6, <2>7 DEF TxInv
<1> QED BY <1>1, <1>2, <1>3 DEF Isolated

\* A statement may enter what no other transaction holds.
LEMMA Unblocked ==
    ASSUME NEW t \in Transactions, NEW rs, Others(t, rs) = {}
    PROVE  \A u \in Transactions \ {t} : rs \cap held[u] = {}
BY DEF Others

LEMMA RefusedIsolated ==
    ASSUME Isolated, NEW t \in Transactions, NEW e, Refused(t, e), pc[t] # "Begin"
    PROVE  Isolated'
<1>1. Locals' /\ pc'[t] = "Rollback"
  BY DEF Isolated, Locals, Refused, Statements
<1>2. TxInv(t)'
  <2>1. TxInv(t) /\ UNCHANGED <<storeVars, call, held, found>>
    BY DEF Isolated, Refused
  <2> QED
    BY <1>1, <2>1 DEF TxInv, CreateInv, RowInv, ReviewInv, RecordInv, KeyInv, Op, NumberOf,
                OrderOf, RowOf, ReceiptOf, HasActiveRequest, IdempotencyMiss, IdempotencyHit,
                storeVars, ledgerVars
<1>3. \A u \in Transactions \ {t} :
               /\ pc'[u] = pc[u] /\ held'[u] = held[u]
               /\ found'[u] = found[u] /\ verdict'[u] = verdict[u]
               /\ held'[t] \cap held[u] = {}
  BY DEF Refused, Isolated, Locals, Apart
<1> QED BY <1>1, <1>2, <1>3, LocalStep DEF Refused

LEMMA StatementFailsIsolated ==
    ASSUME Isolated, NEW t \in Transactions, StatementFails(t)
    PROVE  Isolated'
<1>1. Locals' /\ pc'[t] = IF pc[t] = "Begin" THEN "Ended" ELSE "Rollback"
  BY DEF Isolated, Locals, StatementFails, Statements
<1>2. TxInv(t)'
  <2>1. TxInv(t) /\ UNCHANGED <<storeVars, call, held, found>>
    BY DEF Isolated, StatementFails
  <2> QED
    BY <1>1, <2>1 DEF TxInv, CreateInv, RowInv, ReviewInv, RecordInv, KeyInv, Op, NumberOf,
                OrderOf, RowOf, ReceiptOf, HasActiveRequest, IdempotencyMiss, IdempotencyHit,
                storeVars, ledgerVars
<1>3. \A u \in Transactions \ {t} :
               /\ pc'[u] = pc[u] /\ held'[u] = held[u]
               /\ found'[u] = found[u] /\ verdict'[u] = verdict[u]
               /\ held'[t] \cap held[u] = {}
  BY DEF StatementFails, Isolated, Locals, Apart
<1> QED BY <1>1, <1>2, <1>3, LocalStep DEF StatementFails

\* A step to another statement that enters what nobody else holds.
LEMMA ProceedIsolated ==
    ASSUME Isolated, NEW t \in Transactions, NEW s \in Statements, NEW rs,
           Proceed(t, s, rs), TxInv(t)',
           \A u \in Transactions \ {t} : rs \cap held[u] = {}
    PROVE  Isolated'
<1>1. Locals'
  BY DEF Isolated, Locals, Proceed
<1>2. held'[t] = held[t] \cup rs
  BY DEF Isolated, Locals, Proceed
<1>3. \A u \in Transactions \ {t} :
               /\ pc'[u] = pc[u] /\ held'[u] = held[u]
               /\ found'[u] = found[u] /\ verdict'[u] = verdict[u]
               /\ held'[t] \cap held[u] = {}
  BY <1>2 DEF Proceed, Isolated, Locals, Apart
<1> QED BY <1>1, <1>3, LocalStep DEF Proceed

\* The tables a statement reads, and the calls, are as before.
LEMMA SameTables ==
    ASSUME NEW t, UNCHANGED <<storeVars, call>>
    PROVE  /\ UNCHANGED <<requests, approvals, providerRefundNo, idempotencyRecords, Op(t),
                          NumberOf(t), OrderOf(t), RowOf(t), ReceiptOf(t)>>
           /\ HasActiveRequest(call[t].m.tenant, call[t].request.orderNo)'
                  <=> HasActiveRequest(call[t].m.tenant, call[t].request.orderNo)
           /\ IdempotencyMiss(call[t].m)' <=> IdempotencyMiss(call[t].m)
           /\ IdempotencyHit(call[t].m)' <=> IdempotencyHit(call[t].m)
BY DEF storeVars, ledgerVars, Op, NumberOf, OrderOf, RowOf, ReceiptOf, HasActiveRequest,
       IdempotencyMiss, IdempotencyHit

\* What Proceed does to a transaction.
LEMMA Proceeds ==
    ASSUME Isolated, NEW t \in Transactions, NEW s, NEW rs, Proceed(t, s, rs)
    PROVE  /\ pc'[t] = s /\ held'[t] = held[t] \cup rs
           /\ UNCHANGED <<found[t], verdict[t], call, storeVars, call[t]>>
BY DEF Proceed, Isolated, Locals

LEMMA ProceedsEmpty ==
    ASSUME Isolated, NEW t \in Transactions, NEW s, Proceed(t, s, {})
    PROVE  /\ pc'[t] = s /\ held'[t] = held[t]
           /\ UNCHANGED <<found[t], verdict[t], call, storeVars, call[t]>>
<1>1. held'[t] = held[t] \cup {}
  BY Proceeds
<1>2. held'[t] = held[t]
  BY <1>1
<1> QED BY <1>2, Proceeds

LEMMA BeginIsolated ==
    ASSUME Isolated, NEW t \in Transactions, BeginTx(t) PROVE Isolated'
<1> DEFINE s == IF Op(t) = "create" THEN "InsertKey" ELSE "LockRow"
<1>1. Proceed(t, s, {}) /\ s \in Statements /\ pc[t] = "Begin"
  BY DEF BeginTx, Runs, Op, Statements
<1>2. pc'[t] = s /\ held'[t] = {} /\ UNCHANGED <<found[t], verdict[t], call, storeVars, call[t]>>
  BY <1>1, Proceeds DEF Isolated, TxInv, KeyInv
<1>3. TxInv(t)'
  BY <1>1, <1>2, SameTables, OpOf
     DEF Isolated, TxInv, CreateInv, RowInv, ReviewInv, RecordInv, KeyInv
<1> QED BY <1>1, <1>3, ProceedIsolated

LEMMA InsertKeyIsolated ==
    ASSUME Isolated, NEW t \in Transactions, InsertKey(t) PROVE Isolated'
<1>0. pc[t] = "InsertKey" /\ Op(t) # "review" /\ TxInv(t)
  BY DEF InsertKey, Runs, Isolated, TxInv, ReviewInv
<1>1. CASE \E e : Refused(t, e)
  BY <1>0, <1>1, RefusedIsolated
<1>2. CASE IdempotencyHit(call[t].m) /\ Proceed(t, "CommitReplay", {})
  <2>1. /\ pc'[t] = "CommitReplay" /\ held'[t] = held[t]
        /\ UNCHANGED <<found[t], verdict[t], call, storeVars, call[t]>>
    BY <1>2, ProceedsEmpty
  <2>2. TxInv(t)'
    BY <1>0, <1>2, <2>1, SameTables
       DEF TxInv, CreateInv, RowInv, ReviewInv, RecordInv, KeyInv
  <2> QED BY <1>2, <2>2, ProceedIsolated DEF Statements
<1>3. ASSUME NEW s \in {"SelectActive", "UpdateStatus"}, IdempotencyMiss(call[t].m),
             Proceed(t, s, {Key(call[t].m)}),
             s = "SelectActive" => Op(t) = "create",
             s = "UpdateStatus" => Op(t) = "record" /\ found[t].status = "APPROVED"
      PROVE  Isolated'
  <2>1. /\ pc'[t] = s /\ held'[t] = held[t] \cup {Key(call[t].m)}
        /\ UNCHANGED <<found[t], verdict[t], call, storeVars, call[t]>>
    BY <1>3, Proceeds
  <2>2. /\ Row(RowOf(t)) # Key(call[t].m) /\ Version(RowOf(t)) # Key(call[t].m)
        /\ Number(NumberOf(t)) # Key(call[t].m) /\ ActiveOrder(OrderOf(t)) # Key(call[t].m)
    BY Kinds
  <2>3. CreateInv(t)'
    BY <1>0, <1>3, <2>1, <2>2, SameTables DEF TxInv, CreateInv
  <2>4. RowInv(t)'
    BY <1>0, <1>3, <2>1, <2>2, SameTables DEF TxInv, RowInv
  <2>5. RecordInv(t)'
    BY <1>0, <1>3, <2>1, <2>2, SameTables DEF TxInv, RecordInv
  <2>6. KeyInv(t)' /\ ReviewInv(t)'
    BY <1>0, <1>3, <2>1, <2>2, SameTables DEF TxInv, KeyInv, ReviewInv
  <2>7. \A u \in Transactions \ {t} : {Key(call[t].m)} \cap held[u] = {}
    BY <1>0, <1>3, Unblocked DEF InsertKey, Runs, Blockers
  <2> QED
    BY <1>3, <2>3, <2>4, <2>5, <2>6, <2>7, ProceedIsolated DEF Statements, TxInv
<1> QED
  BY <1>1, <1>2, <1>3 DEF InsertKey, FindsRecord, TakesKey, Op

LEMMA SelectActiveIsolated ==
    ASSUME Isolated, NEW t \in Transactions, SelectActive(t) PROVE Isolated'
<1>0. pc[t] = "SelectActive" /\ TxInv(t)
  BY DEF SelectActive, Runs, Isolated
<1>1. CASE \E e : Refused(t, e)
  BY <1>0, <1>1, RefusedIsolated
<1>2. CASE Proceed(t, "InsertNumber", {})
  <2>1. /\ pc'[t] = "InsertNumber" /\ held'[t] = held[t]
        /\ UNCHANGED <<found[t], verdict[t], call, storeVars, call[t]>>
    BY <1>2, ProceedsEmpty
  <2>2. TxInv(t)'
    BY <1>0, <2>1, SameTables
       DEF TxInv, CreateInv, RowInv, ReviewInv, RecordInv, KeyInv
  <2> QED BY <1>2, <2>2, ProceedIsolated DEF Statements
<1> QED BY <1>1, <1>2 DEF SelectActive

LEMMA InsertNumberIsolated ==
    ASSUME Isolated, NEW t \in Transactions, InsertNumber(t) PROVE Isolated'
<1>0. pc[t] = "InsertNumber" /\ TxInv(t) /\ Op(t) = "create"
  BY OpOf DEF InsertNumber, Runs, Isolated, TxInv, ReviewInv, RecordInv
<1>1. CASE \E e : Refused(t, e)
  BY <1>0, <1>1, RefusedIsolated
<1>2. CASE Proceed(t, "InsertOrder", {Number(NumberOf(t))}) /\ requests[NumberOf(t)] = None
  <2>1. /\ pc'[t] = "InsertOrder" /\ held'[t] = held[t] \cup {Number(NumberOf(t))}
        /\ UNCHANGED <<found[t], verdict[t], call, storeVars, call[t]>>
    BY <1>2, Proceeds
  <2>2. /\ Number(NumberOf(t)) # Key(call[t].m)
        /\ Number(NumberOf(t)) # ActiveOrder(OrderOf(t))
    BY Kinds
  <2>3. CreateInv(t)'
    BY <1>0, <1>2, <2>1, <2>2, SameTables DEF TxInv, CreateInv
  <2>4. TxInv(t)'
    BY <1>0, <2>1, <2>2, <2>3, SameTables DEF TxInv, RowInv, ReviewInv, RecordInv, KeyInv
  <2>5. \A u \in Transactions \ {t} : {Number(NumberOf(t))} \cap held[u] = {}
    <3>1. \A u \in Transactions \ {t} :
              {Number(NumberOf(t)), Version(NumberOf(t))} \cap held[u] = {}
      BY <1>0, Unblocked DEF InsertNumber, Runs, Blockers
    <3> QED BY <3>1
  <2> QED BY <1>2, <2>4, <2>5, ProceedIsolated DEF Statements
<1> QED BY <1>1, <1>2 DEF InsertNumber

LEMMA InsertOrderIsolated ==
    ASSUME Isolated, NEW t \in Transactions, InsertOrder(t) PROVE Isolated'
<1>0. pc[t] = "InsertOrder" /\ TxInv(t) /\ Op(t) = "create"
  BY OpOf DEF InsertOrder, Runs, Isolated, TxInv, ReviewInv, RecordInv
<1>1. CASE \E e : Refused(t, e)
  BY <1>0, <1>1, RefusedIsolated
<1>2. CASE /\ Proceed(t, "Commit", {ActiveOrder(OrderOf(t))})
           /\ ~ HasActiveRequest(call[t].m.tenant, call[t].request.orderNo)
  <2>1. /\ pc'[t] = "Commit" /\ held'[t] = held[t] \cup {ActiveOrder(OrderOf(t))}
        /\ UNCHANGED <<found[t], verdict[t], call, storeVars, call[t]>>
    BY <1>2, Proceeds
  <2>2. /\ ActiveOrder(OrderOf(t)) # Key(call[t].m)
        /\ ActiveOrder(OrderOf(t)) # Number(NumberOf(t))
    BY Kinds
  <2>3. CreateInv(t)'
    BY <1>0, <1>2, <2>1, <2>2, SameTables DEF TxInv, CreateInv
  <2>4. TxInv(t)'
    BY <1>0, <2>1, <2>2, <2>3, SameTables DEF TxInv, RowInv, ReviewInv, RecordInv, KeyInv
  <2>5. \A u \in Transactions \ {t} : {ActiveOrder(OrderOf(t))} \cap held[u] = {}
    <3>1. \A u \in Transactions \ {t} :
              ({ActiveOrder(OrderOf(t))} \cup ActiveVersions(OrderOf(t))) \cap held[u] = {}
      BY <1>0, Unblocked DEF InsertOrder, Runs, Blockers
    <3> QED BY <3>1
  <2> QED BY <1>2, <2>4, <2>5, ProceedIsolated DEF Statements
<1> QED BY <1>1, <1>2 DEF InsertOrder

LEMMA LockRowIsolated ==
    ASSUME Isolated, NEW t \in Transactions, LockRow(t) PROVE Isolated'
<1> DEFINE k == RowOf(t)
<1>0. pc[t] = "LockRow" /\ TxInv(t) /\ Op(t) # "create"
  BY DEF LockRow, Runs, Isolated, TxInv, CreateInv
<1>1. CASE \E e : Refused(t, e)
  BY <1>0, <1>1, RefusedIsolated
<1>2. CASE /\ LockRowRefusal(t) = "OK"
           /\ pc' = [pc EXCEPT ![t] = AfterLock(t)]
           /\ held' = [held EXCEPT ![t] = @ \cup {Row(k)}]
           /\ found' = [found EXCEPT ![t] = requests[k]]
           /\ UNCHANGED <<storeVars, call, verdict>>
  <2>1. /\ pc'[t] = AfterLock(t) /\ held'[t] = held[t] \cup {Row(k)}
        /\ found'[t] = requests[k] /\ UNCHANGED <<verdict[t], call[t], call>>
    BY <1>2 DEF Isolated, Locals
  <2>2. requests[k] # None /\ (Op(t) = "review" => requests[k].status = "PENDING_REVIEW")
    BY <1>2 DEF LockRowRefusal, Op
  <2>3. AfterLock(t) = IF Op(t) = "review" THEN "SelectApproval" ELSE "InsertKey"
    BY DEF AfterLock, Op
  <2>4. Row(k) # Version(k) /\ Row(k) # Key(call[t].m) /\ Row(k) # Receipt(ReceiptOf(t))
    BY Kinds
  <2>5. RowInv(t)'
    BY <1>0, <1>2, <2>1, <2>2, <2>4, SameTables DEF TxInv, RowInv
  <2>6. CreateInv(t)' /\ ReviewInv(t)' /\ RecordInv(t)'
    BY <1>0, <1>2, <2>1, <2>2, <2>3, <2>4, SameTables
       DEF TxInv, CreateInv, ReviewInv, RecordInv
  <2>7. KeyInv(t)'
    BY <1>0, <1>2, <2>1, <2>3, <2>4, SameTables DEF TxInv, KeyInv
  <2>8. \A u \in Transactions \ {t} : {Row(k)} \cap held[u] = {}
    BY <1>0, Unblocked DEF LockRow, Runs, Blockers
  <2>9. \A u \in Transactions \ {t} :
               /\ pc'[u] = pc[u] /\ held'[u] = held[u]
               /\ found'[u] = found[u] /\ verdict'[u] = verdict[u]
               /\ held'[t] \cap held[u] = {}
    BY <1>2, <2>1, <2>8 DEF Isolated, Locals, Apart
  <2>10. Locals'
    BY <1>2, <2>3 DEF Isolated, Locals, Statements
  <2> QED BY <1>2, <2>5, <2>6, <2>7, <2>9, <2>10, LocalStep DEF TxInv
<1> QED BY <1>1, <1>2 DEF LockRow, ReadRow

LEMMA SelectApprovalIsolated ==
    ASSUME Isolated, NEW t \in Transactions, SelectApproval(t) PROVE Isolated'
<1>0. pc[t] = "SelectApproval" /\ TxInv(t) /\ Op(t) = "review"
  BY OpOf DEF SelectApproval, Runs, Isolated, TxInv, CreateInv, RecordInv
<1>1. CASE \E e : Refused(t, e)
  BY <1>0, <1>1, RefusedIsolated
<1>2. CASE /\ Proceed(t, "UpdateStatus", {})
           /\ ~ \E i \in DOMAIN approvals[RowOf(t)] :
                    approvals[RowOf(t)][i].level = call[t].approval.level
  <2>1. /\ pc'[t] = "UpdateStatus" /\ held'[t] = held[t]
        /\ UNCHANGED <<found[t], verdict[t], call, storeVars, call[t]>>
    BY <1>2, ProceedsEmpty
  <2>2. TxInv(t)'
    BY <1>0, <1>2, <2>1, SameTables
       DEF TxInv, CreateInv, RowInv, ReviewInv, RecordInv, KeyInv
  <2> QED BY <1>2, <2>2, ProceedIsolated DEF Statements
<1> QED BY <1>1, <1>2 DEF SelectApproval

\* An update writes a version of a row that it has locked.
LEMMA UpdateStatusIsolated ==
    ASSUME Isolated, NEW t \in Transactions, UpdateStatus(t) PROVE Isolated'
<1> DEFINE s == IF Op(t) = "review" THEN "Commit" ELSE "InsertReceipt"
           k == RowOf(t)
<1>0. pc[t] = "UpdateStatus" /\ TxInv(t) /\ Op(t) # "create" /\ Row(k) \in held[t]
  BY OpOf DEF UpdateStatus, Runs, Isolated, TxInv, CreateInv, ReviewInv, RecordInv
<1>1. Proceed(t, s, {Version(k)}) /\ s \in Statements
  BY DEF UpdateStatus, Op, Statements
<1>2. /\ pc'[t] = s /\ held'[t] = held[t] \cup {Version(k)}
      /\ UNCHANGED <<found[t], verdict[t], call, storeVars, call[t]>>
  BY <1>1, Proceeds
<1>3. Version(k) # Row(k) /\ Version(k) # Key(call[t].m) /\ Version(k) # Receipt(ReceiptOf(t))
  BY Kinds
<1>4. RowInv(t)'
  BY <1>0, <1>2, <1>3, SameTables DEF TxInv, RowInv
<1>5. ReviewInv(t)' /\ RecordInv(t)'
  BY <1>0, <1>2, <1>3, SameTables, OpOf DEF TxInv, ReviewInv, RecordInv, Isolated
<1>6. CreateInv(t)' /\ KeyInv(t)'
  BY <1>0, <1>2, <1>3, SameTables DEF TxInv, CreateInv, KeyInv
<1>7. ASSUME NEW u \in Transactions \ {t}, Version(k) \in held[u] PROVE FALSE
  <2>1. TxInv(u) /\ Op(u) # "create"
    BY <1>7, Kinds DEF Isolated, TxInv, CreateInv
  <2>2. Version(RowOf(u)) \in held[u] /\ RowOf(u) = k
    BY <1>7, <2>1, Kinds DEF TxInv, RowInv
  <2>3. Row(k) \in held[u]
    BY <2>1, <2>2 DEF TxInv, RowInv
  <2> QED BY <1>0, <2>3 DEF Isolated, Apart
<1> QED BY <1>1, <1>4, <1>5, <1>6, <1>7, ProceedIsolated DEF TxInv

LEMMA InsertReceiptIsolated ==
    ASSUME Isolated, NEW t \in Transactions, InsertReceipt(t) PROVE Isolated'
<1> DEFINE r == ReceiptOf(t)
           rs == IF call[t].m.providerRefundNo = None THEN {} ELSE {Receipt(r)}
<1>0. pc[t] = "InsertReceipt" /\ TxInv(t) /\ Op(t) = "record"
  BY OpOf DEF InsertReceipt, Runs, Isolated, TxInv, CreateInv, ReviewInv
<1>1. CASE \E e : Refused(t, e)
  BY <1>0, <1>1, RefusedIsolated
<1>2. CASE r \notin providerRefundNo /\ Proceed(t, "Commit", rs)
  <2>1. /\ pc'[t] = "Commit" /\ held'[t] = held[t] \cup rs
        /\ UNCHANGED <<found[t], verdict[t], call, storeVars, call[t]>>
    BY <1>2, Proceeds
  <2>2. Receipt(r) # Row(RowOf(t)) /\ Receipt(r) # Version(RowOf(t))
        /\ Receipt(r) # Key(call[t].m)
    BY Kinds
  <2>3. RowInv(t)'
    BY <1>0, <2>1, <2>2, SameTables DEF TxInv, RowInv
  <2>4. RecordInv(t)'
    BY <1>0, <1>2, <2>1, <2>2, SameTables DEF TxInv, RecordInv
  <2>5. CreateInv(t)' /\ ReviewInv(t)' /\ KeyInv(t)'
    BY <1>0, <2>1, <2>2, SameTables DEF TxInv, CreateInv, ReviewInv, KeyInv
  <2>6. \A u \in Transactions \ {t} : rs \cap held[u] = {}
    <3>1. \A u \in Transactions \ {t} : {Receipt(r)} \cap held[u] = {}
      BY <1>0, Unblocked DEF InsertReceipt, Runs, Blockers
    <3> QED BY <3>1
  <2> HIDE DEF rs
  <2> QED BY <1>2, <2>3, <2>4, <2>5, <2>6, ProceedIsolated DEF Statements, TxInv
<1> QED BY <1>1, <1>2 DEF InsertReceipt

-----------------------------------------------------------------------------
(* How a transaction ends *)

LEMMA EndedInv ==
    ASSUME Locals, NEW t \in Transactions, Release(t)
    PROVE  TxInv(t)'
<1>1. pc'[t] = "Ended" /\ held'[t] = {}
  BY DEF Locals, Release
<1> QED BY <1>1 DEF TxInv, CreateInv, RowInv, ReviewInv, RecordInv, KeyInv

LEMMA ReleaseIsolated ==
    ASSUME Isolated, NEW t \in Transactions, CommitReplay(t) \/ Rollback(t)
    PROVE  Isolated'
<1>1. Release(t) /\ UNCHANGED storeVars
  BY DEF CommitReplay, Rollback
<1>2. TxInv(t)'
  BY <1>1, EndedInv DEF Isolated
<1>3. Locals'
  BY <1>1 DEF Isolated, Locals, Release, Statements, CommitReplay, Rollback
<1>4. \A u \in Transactions \ {t} :
               /\ pc'[u] = pc[u] /\ held'[u] = held[u]
               /\ found'[u] = found[u] /\ verdict'[u] = verdict[u]
               /\ held'[t] \cap held[u] = {}
  BY <1>1 DEF Isolated, Locals, Release, CommitReplay, Rollback
<1> QED BY <1>1, <1>2, <1>3, <1>4, LocalStep DEF Release

Target(u) == IF Op(u) = "create" THEN NumberOf(u) ELSE RowOf(u)

\* What a commit does to the tables: one row, its own key's record, its own
\* receipt's number.  A new row takes a free number, an old one was active.
LEMMA CommitEffect ==
    ASSUME Isolated, NEW u \in Transactions, Commit(u)
    PROVE  /\ Tables'
           /\ \A k \in RequestKeys \ {Target(u)} :
                  requests'[k] = requests[k] /\ approvals'[k] = approvals[k]
           /\ \A s \in Scopes : Op(u) = "review" \/ s # Scope(call[u].m) =>
                  idempotencyRecords'[s] = idempotencyRecords[s]
           /\ \A r \in providerRefundNo' :
                  r \in providerRefundNo \/ (r = ReceiptOf(u) /\ Receipt(r) \in held[u])
           /\ Op(u) = "create" =>
                  /\ requests[Target(u)] = None
                  /\ requests'[Target(u)].orderNo = call[u].request.orderNo
           /\ Op(u) # "create" =>
                  /\ requests[Target(u)] # None /\ IsActiveStatus(requests[Target(u)].status)
                  /\ requests'[Target(u)].orderNo = requests[Target(u)].orderNo
<1>0. TxInv(u) /\ pc[u] = "Commit" /\ Target(u) \in RequestKeys /\ Tables /\ Stored(call[u])
  BY KeysOf DEF Commit, Runs, Isolated, Target
<1>1. CASE Op(u) = "create"
  <2>1. call[u].request \in Request /\ requests[Target(u)] = None
    BY <1>0, <1>1, OpOf DEF Isolated, TxInv, CreateInv, Target
  <2>2. StoreCreated(call[u].m, call[u].request) /\ Target(u) = NumberOf(u)
    BY <1>0, <1>1 DEF Stored, Op, Target
  <2> QED BY <1>0, <1>1, <2>1, <2>2 DEF StoreCreated, NumberOf, Tables
<1>2. CASE Op(u) = "review"
  <2>1. /\ call[u].after \in RequestStatuses
        /\ requests[Target(u)] \in Request /\ requests[Target(u)] # None
        /\ requests[Target(u)].status = "PENDING_REVIEW"
    BY <1>0, <1>2, OpOf DEF Isolated, TxInv, ReviewInv, RowInv, Target, Tables
  <2>2. /\ StoreReviewed(RowOf(u), call[u].approval, call[u].before, call[u].after)
        /\ Target(u) = RowOf(u)
    BY <1>0, <1>2 DEF Stored, Op, Target, RowOf
  <2>3. [requests[RowOf(u)] EXCEPT !.status = call[u].after] \in Request
    BY <2>1, <2>2 DEF Request
  <2>4. /\ requests' = [requests EXCEPT ![RowOf(u)] =
                            [requests[RowOf(u)] EXCEPT !.status = call[u].after]]
        /\ DOMAIN approvals' = DOMAIN approvals
        /\ \A k \in RequestKeys \ {RowOf(u)} : approvals'[k] = approvals[k]
        /\ UNCHANGED <<providerRefundNo, idempotencyRecords>>
    BY <1>0, <2>2 DEF StoreReviewed, Tables
  <2>5. requests'[RowOf(u)].orderNo = requests[RowOf(u)].orderNo
    BY <1>0, <2>1, <2>2, <2>4 DEF Tables, Request
  <2> QED BY <1>0, <1>2, <2>1, <2>2, <2>3, <2>4, <2>5 DEF Tables, IsActiveStatus
<1>3. CASE Op(u) = "record"
  <2> DEFINE settled == [requests[RowOf(u)] EXCEPT !.status = call[u].m.status]
  <2>1. /\ call[u].m \in RecordCommand
        /\ requests[Target(u)] \in Request /\ requests[Target(u)] # None
        /\ requests[Target(u)].status = "APPROVED"
    BY <1>0, <1>3, OpOf DEF Isolated, TxInv, RecordInv, RowInv, Target, Tables
  <2>2. StoreRecorded(call[u].m, call[u].before) /\ Target(u) = RowOf(u)
    BY <1>0, <1>3 DEF Stored, Op, Target
  <2>3. settled \in Request
    BY <2>1, <2>2 DEF Request, RecordCommand, TransactionStatuses, RequestStatuses
  <2>4. /\ requests' = [requests EXCEPT ![RowOf(u)] = settled]
        /\ approvals' = approvals
        /\ DOMAIN idempotencyRecords' = DOMAIN idempotencyRecords
        /\ \A s \in Scopes \ {Scope(call[u].m)} :
               idempotencyRecords'[s] = idempotencyRecords[s]
    BY <1>0, <2>2 DEF StoreRecorded, Tables, RowOf
  <2>5. requests'[RowOf(u)].orderNo = requests[RowOf(u)].orderNo
    BY <1>0, <2>1, <2>2, <2>4 DEF Tables, Request
  <2>6. /\ providerRefundNo' \subseteq Tenants \X ProviderRefundNos
        /\ \A r \in providerRefundNo' :
               r \in providerRefundNo \/ (r = ReceiptOf(u) /\ Receipt(r) \in held[u])
    <3>1. CASE call[u].m.providerRefundNo = None
      BY <1>0, <2>2, <3>1 DEF StoreRecorded, Tables
    <3>2. CASE call[u].m.providerRefundNo # None
      <4>1. providerRefundNo' = providerRefundNo \cup {ReceiptOf(u)}
        BY <2>2, <3>2 DEF StoreRecorded, ReceiptOf
      <4>2. ReceiptOf(u) \in Tenants \X ProviderRefundNos
        BY <2>1, <3>2 DEF RecordCommand, ReceiptOf
      <4>3. Receipt(ReceiptOf(u)) \in held[u]
        BY <1>0, <1>3, <3>2 DEF TxInv, RecordInv
      <4> QED BY <1>0, <4>1, <4>2, <4>3 DEF Tables
    <3> QED BY <3>1, <3>2
  <2> QED
    BY <1>0, <1>3, <2>1, <2>2, <2>3, <2>4, <2>5, <2>6 DEF Tables, IsActiveStatus
<1> QED BY <1>1, <1>2, <1>3, OpOf DEF Isolated

\* A commit leaves alone what another transaction has checked.
LEMMA CommitSpares ==
    ASSUME Isolated, NEW u \in Transactions, Commit(u), NEW t \in Transactions \ {u}
    PROVE  TxInv(t)'
<1>0. /\ TxInv(t) /\ TxInv(u) /\ pc[u] = "Commit" /\ Locals
      /\ held[t] \cap held[u] = {}
      /\ UNCHANGED <<call, pc[t], held[t], found[t], verdict[t]>>
  BY DEF Isolated, Apart, Commit, Runs, Release, Locals
<1>1. UNCHANGED <<call[t], Op(t), NumberOf(t), OrderOf(t), RowOf(t), ReceiptOf(t)>>
  BY <1>0 DEF Op, NumberOf, OrderOf, RowOf, ReceiptOf
<1>2. Op(u) # "review" => Key(call[u].m) \in held[u] /\ IdempotencyMiss(call[u].m)
  BY <1>0, OpOf DEF TxInv, CreateInv, RecordInv, KeyInv
<1>3. CreateInv(t)'
  <2> SUFFICES ASSUME Op(t) = "create" PROVE CreateInv(t)'
    BY <1>1 DEF CreateInv
  <2>1. Number(NumberOf(t)) \in held[t] => requests'[NumberOf(t)] = None
    <3> SUFFICES ASSUME Number(NumberOf(t)) \in held[t] PROVE requests'[NumberOf(t)] = None
      OBVIOUS
    <3>1. requests[NumberOf(t)] = None /\ NumberOf(t) \in RequestKeys
      BY <1>0, KeysOf DEF TxInv, CreateInv
    <3>2. CASE Op(u) = "create"
      <4>1. Number(NumberOf(u)) \in held[u]
        BY <1>0, <3>2 DEF TxInv, CreateInv
      <4>2. NumberOf(t) # Target(u)
        BY <1>0, <3>2, <4>1 DEF Target
      <4> QED BY <3>1, <4>2, CommitEffect
    <3>3. CASE Op(u) # "create"
      BY <3>1, <3>3, CommitEffect
    <3> QED BY <3>2, <3>3
  <2>2. ASSUME ActiveOrder(OrderOf(t)) \in held[t],
               HasActiveRequest(call[t].m.tenant, call[t].request.orderNo)'
        PROVE  FALSE
    <3>0. ~ HasActiveRequest(call[t].m.tenant, call[t].request.orderNo)
      BY <1>0, <2>2 DEF TxInv, CreateInv
    <3>1. PICK no \in RequestNos :
              /\ requests'[<<call[t].m.tenant, no>>] # None
              /\ requests'[<<call[t].m.tenant, no>>].orderNo = call[t].request.orderNo
              /\ IsActiveStatus(requests'[<<call[t].m.tenant, no>>].status)
      BY <1>1, <2>2 DEF HasActiveRequest, IsActiveStatus
    <3> DEFINE k == <<call[t].m.tenant, no>>
    <3>2. k \in RequestKeys
      BY <1>0, KeysOf DEF NumberOf, RequestKeys
    <3>3. CASE k # Target(u)
      BY <3>0, <3>1, <3>2, <3>3, CommitEffect DEF HasActiveRequest
    <3>4. CASE k = Target(u) /\ Op(u) = "create"
      <4>1. OrderOf(u) = OrderOf(t)
        BY <3>1, <3>4, CommitEffect DEF Target, NumberOf, OrderOf
      <4>2. ActiveOrder(OrderOf(u)) \in held[u]
        BY <1>0, <3>4 DEF TxInv, CreateInv
      <4> QED BY <1>0, <2>2, <4>1, <4>2
    <3>5. CASE k = Target(u) /\ Op(u) # "create"
      BY <3>0, <3>1, <3>5, CommitEffect DEF HasActiveRequest
    <3> QED BY <3>3, <3>4, <3>5
  <2> QED BY <1>0, <1>1, <2>1, <2>2 DEF TxInv, CreateInv
<1>4. Op(t) # "create" /\ Row(RowOf(t)) \in held[t] =>
          requests'[RowOf(t)] = requests[RowOf(t)] /\ approvals'[RowOf(t)] = approvals[RowOf(t)]
  <2> SUFFICES ASSUME Op(t) # "create", Row(RowOf(t)) \in held[t]
      PROVE  RowOf(t) \in RequestKeys \ {Target(u)}
    BY CommitEffect
  <2>1. requests[RowOf(t)] # None /\ RowOf(t) \in RequestKeys
    BY <1>0, KeysOf DEF TxInv, RowInv
  <2>2. CASE Op(u) = "create"
    BY <2>1, <2>2, CommitEffect
  <2>3. CASE Op(u) # "create"
    <3>1. Row(RowOf(u)) \in held[u]
      BY <1>0, <2>3, OpOf DEF TxInv, ReviewInv, RecordInv
    <3> QED BY <1>0, <2>1, <2>3, <3>1 DEF Target
  <2> QED BY <2>2, <2>3
<1>5. RowInv(t)'
  BY <1>0, <1>1, <1>4 DEF TxInv, RowInv
<1>6. ReviewInv(t)'
  BY <1>0, <1>1, <1>4 DEF TxInv, ReviewInv
<1>7. RecordInv(t)'
  <2>1. ASSUME pc[t] = "Commit", Op(t) = "record"
        PROVE  ReceiptOf(t) \notin providerRefundNo'
    <3>1. ReceiptOf(t) \notin providerRefundNo
      BY <1>0, <2>1 DEF TxInv, RecordInv
    <3>2. CASE call[t].m.providerRefundNo = None
      BY <3>2, NoneAssumption, CommitEffect DEF Tables, ReceiptOf
    <3>3. CASE call[t].m.providerRefundNo # None
      <4>1. Receipt(ReceiptOf(t)) \in held[t]
        BY <1>0, <2>1, <3>3 DEF TxInv, RecordInv
      <4> QED BY <1>0, <3>1, <4>1, CommitEffect
    <3> QED BY <3>2, <3>3
  <2> QED BY <1>0, <1>1, <2>1 DEF TxInv, RecordInv
<1>8. KeyInv(t)'
  <2>1. ASSUME Op(t) # "review", Key(call[t].m) \in held[t] \/ IdempotencyHit(call[t].m)
        PROVE  idempotencyRecords'[Scope(call[t].m)] = idempotencyRecords[Scope(call[t].m)]
    <3>1. Scope(call[t].m) \in Scopes
      BY <1>0, <2>1, KeysOf
    <3>2. Op(u) = "review" \/ Scope(call[t].m) # Scope(call[u].m)
      <4>1. CASE Op(u) # "review" /\ Key(call[t].m) \in held[t]
        BY <1>0, <1>2, <4>1 DEF Key
      <4>2. CASE Op(u) # "review" /\ IdempotencyHit(call[t].m)
        BY <1>2, <4>2 DEF IdempotencyHit, IdempotencyMiss
      <4> QED BY <2>1, <4>1, <4>2
    <3> QED BY <3>1, <3>2, CommitEffect
  <2> QED BY <1>0, <1>1, <2>1 DEF TxInv, KeyInv, IdempotencyMiss, IdempotencyHit
<1> QED BY <1>3, <1>5, <1>6, <1>7, <1>8 DEF TxInv

LEMMA CommitIsolated ==
    ASSUME Isolated, NEW u \in Transactions, Commit(u) PROVE Isolated'
<1>1. Tables'
  BY CommitEffect
<1>2. Locals'
  BY DEF Isolated, Locals, Commit, Release, Statements
<1>3. Apart'
  BY DEF Isolated, Locals, Apart, Commit, Release
<1>4. TxInv(u)'
  BY EndedInv DEF Isolated, Commit
<1> QED BY <1>1, <1>2, <1>3, <1>4, CommitSpares DEF Isolated

LEMMA IsolatedNext == ASSUME Isolated, [Next]_vars PROVE Isolated'
<1>1. ASSUME NEW t \in Transactions, Step(t) \/ StatementFails(t) PROVE Isolated'
  BY <1>1, BeginIsolated, InsertKeyIsolated, SelectActiveIsolated, InsertNumberIsolated,
     InsertOrderIsolated, LockRowIsolated, SelectApprovalIsolated, UpdateStatusIsolated,
     InsertReceiptIsolated, ReleaseIsolated, CommitIsolated, StatementFailsIsolated DEF Step
<1>2. CASE UNCHANGED vars
  <2>1. UNCHANGED <<storeVars, call>> /\ UNCHANGED <<pc, held, found, verdict>>
    BY <1>2 DEF vars, txVars
  <2>2. Tables' /\ Locals' /\ Apart'
    BY <2>1 DEF Isolated, Tables, Locals, Apart, storeVars, ledgerVars
  <2>3. ASSUME NEW t \in Transactions PROVE TxInv(t)'
    <3>1. TxInv(t)
      BY DEF Isolated
    <3> QED
      BY <2>1, <3>1, SameTables DEF TxInv, CreateInv, RowInv, ReviewInv, RecordInv, KeyInv
  <2> QED BY <2>2, <2>3 DEF Isolated
<1> QED BY <1>1, <1>2 DEF Next

-----------------------------------------------------------------------------
(* What has been checked stays true *)

LEMMA IsolatedSuffices == Isolated => ChecksStayTrue
<1> SUFFICES ASSUME Isolated, NEW t \in Transactions
    PROVE /\ \A u \in Transactions \ {t} : held[t] \cap held[u] = {}
          /\ Op(t) # "review" /\ Key(call[t].m) \in held[t] => IdempotencyMiss(call[t].m)
          /\ Op(t) = "create" =>
                /\ Number(NumberOf(t)) \in held[t] => requests[NumberOf(t)] = None
                /\ ActiveOrder(OrderOf(t)) \in held[t] =>
                      ~ HasActiveRequest(call[t].m.tenant, call[t].request.orderNo)
          /\ Op(t) # "create" =>
                (Row(RowOf(t)) \in held[t] => requests[RowOf(t)] = found[t])
          /\ Op(t) = "review" /\ pc[t] \in {"UpdateStatus", "Commit"} =>
                ReviewRefusal(RowOf(t), call[t].approval.level) = "OK"
          /\ Op(t) = "record" /\ pc[t] = "Commit" => RecordRefusal(call[t].m) = "OK"
  BY DEF ChecksStayTrue, Op
<1>1. TxInv(t)
  BY DEF Isolated
<1>2. \A u \in Transactions \ {t} : held[t] \cap held[u] = {}
  BY DEF Isolated, Apart
<1>3. Op(t) = "review" /\ pc[t] \in {"UpdateStatus", "Commit"} =>
          ReviewRefusal(RowOf(t), call[t].approval.level) = "OK"
  BY <1>1 DEF TxInv, ReviewInv, RowInv, ReviewRefusal
<1>4. Op(t) = "record" /\ pc[t] = "Commit" => RecordRefusal(call[t].m) = "OK"
  BY <1>1 DEF TxInv, RecordInv, RowInv, RecordRefusal, RowOf, ReceiptOf
<1> QED BY <1>1, <1>2, <1>3, <1>4 DEF TxInv, CreateInv, RowInv, KeyInv

\* What a transaction has checked under its locks and index entries stays true
\* until it ends (postgres_repository.go:156, 241, 361).
THEOREM ChecksHold == Spec => []ChecksStayTrue
BY IsolatedInit, IsolatedNext, IsolatedSuffices, PTL DEF Spec

-----------------------------------------------------------------------------
(* The transactions are atomic *)

\* The interface's operators are the repository's own.
LEMMA SameVerdicts ==
    ASSUME NEW c PROVE Atomic!Verdicts(c) = Verdicts(c)
<1>1. \A m : RequestHash(m) = Atomic!RequestHash(m)
  BY DEF RequestHash, Atomic!RequestHash, CreateRequestHash, Atomic!CreateRequestHash,
         RecordTransactionHash, Atomic!RecordTransactionHash
<1>2. /\ IdempotencyMiss(c.m) <=> Atomic!IdempotencyMiss(c.m)
      /\ IdempotencyHit(c.m) <=> Atomic!IdempotencyHit(c.m)
      /\ IdempotencyConflict(c.m) <=> Atomic!IdempotencyConflict(c.m)
  BY <1>1 DEF IdempotencyConflict, Atomic!IdempotencyConflict, IdempotencyHit,
              Atomic!IdempotencyHit, IdempotencyMiss, Atomic!IdempotencyMiss, Scope, Atomic!Scope
<1>3. RequestKey(c.m) = Atomic!RequestKey(c.m)
  BY DEF RequestKey, Atomic!RequestKey
<1>4. \A k, level : ReviewRefusal(k, level) = Atomic!ReviewRefusal(k, level)
  BY DEF ReviewRefusal, Atomic!ReviewRefusal
<1>5. RecordRefusal(c.m) = Atomic!RecordRefusal(c.m)
  BY <1>3 DEF RecordRefusal, Atomic!RecordRefusal
<1>6. \A x, o : HasActiveRequest(x, o) <=> Atomic!HasActiveRequest(x, o)
  BY DEF HasActiveRequest, Atomic!HasActiveRequest, IsActiveStatus, Atomic!IsActiveStatus,
         RequestNos, Atomic!RequestNos
<1>7. \A x, r : /\ CreateRefusal(x, r) = Atomic!CreateRefusal(x, r)
                /\ CreateReasons(x, r) = Atomic!CreateReasons(x, r)
  BY <1>6 DEF CreateRefusal, Atomic!CreateRefusal, CreateReasons, Atomic!CreateReasons
<1> QED BY <1>2, <1>3, <1>4, <1>5, <1>7 DEF Verdicts, Atomic!Verdicts

LEMMA SameStored ==
    ASSUME NEW c PROVE Stored(c) <=> Atomic!Stored(c)
BY DEF Stored, Atomic!Stored, StoreCreated, Atomic!StoreCreated, StoreReviewed,
       Atomic!StoreReviewed, StoreRecorded, Atomic!StoreRecorded, RequestKey,
       Atomic!RequestKey, Scope, Atomic!Scope, RequestHash, Atomic!RequestHash,
       CreateRequestHash, Atomic!CreateRequestHash, RecordTransactionHash,
       Atomic!RecordTransactionHash, TransactionOf, Atomic!TransactionOf

\* A refusal has its reason in the tables of that moment.
LEMMA RefusalIsAtomic ==
    ASSUME Isolated, NEW t \in Transactions, NEW e, Refused(t, e) \/ CommitReplay(t),
           Refused(t, e) => pc[t] \notin {"Rollback", "Ended"} /\ e \in Verdicts(call[t]) \ {"OK"}
    PROVE  Atomic!Refuses(t)
<1>1. DOMAIN verdict = Transactions /\ TxInv(t)
  BY DEF Isolated, Locals
<1>2. CASE Refused(t, e)
  BY <1>1, <1>2, SameVerdicts
     DEF TxInv, KeyInv, Refused, Atomic!Refuses, Atomic!Answer, Atomic!storeVars,
         Atomic!ledgerVars, storeVars, ledgerVars
<1>3. CASE CommitReplay(t)
  <2>1. Op(t) # "review" /\ IdempotencyHit(call[t].m) /\ verdict[t] = "pending"
    BY <1>1, <1>3 DEF CommitReplay, Runs, TxInv, KeyInv
  <2>2. "Replayed" \in Verdicts(call[t])
    BY <2>1 DEF Verdicts, Op, IdempotencyConflict, IdempotencyHit
  <2> QED
    BY <1>1, <1>3, <2>1, <2>2, SameVerdicts
       DEF CommitReplay, Release, Atomic!Refuses, Atomic!Answer, Atomic!storeVars,
           Atomic!ledgerVars, storeVars, ledgerVars
<1> QED BY <1>2, <1>3

\* The statements that refuse, and their reasons.
LEMMA RefusalHasReason ==
    ASSUME Isolated, NEW t \in Transactions, NEW e, Refused(t, e),
           \/ InsertKey(t) \/ SelectActive(t) \/ InsertNumber(t) \/ InsertOrder(t)
           \/ LockRow(t) \/ SelectApproval(t) \/ InsertReceipt(t)
    PROVE  pc[t] \notin {"Rollback", "Ended"} /\ e \in Verdicts(call[t]) \ {"OK"}
<1>0. TxInv(t) /\ verdict'[t] = e /\ pc'[t] = "Rollback" /\ Locals
      /\ Op(t) \in {"create", "review", "record"}
  BY OpOf DEF Isolated, Locals, Refused
<1>1. ASSUME NEW s, NEW rs, Proceed(t, s, rs) PROVE s = "Rollback"
  BY <1>0, <1>1, Proceeds
<1>2. ASSUME NEW x, Refused(t, x) PROVE x = e
  BY <1>0, <1>2 DEF Refused, Locals
<1>3. CASE InsertKey(t)
  <2>0. pc[t] = "InsertKey" /\ Op(t) # "review"
    BY <1>0, <1>3 DEF InsertKey, Runs, TxInv, ReviewInv
  <2>1. CASE IdempotencyConflict(call[t].m) /\ e = "ErrIdempotencyKeyConflict"
    BY <2>0, <2>1 DEF Verdicts, Op, IdempotencyConflict
  <2>2. CASE /\ IdempotencyMiss(call[t].m) /\ Op(t) = "record"
             /\ found[t].status # "APPROVED" /\ e = "ErrRefundRequestNotApproved"
    <3>1. RecordRefusal(call[t].m) = e
      BY <1>0, <2>0, <2>2 DEF TxInv, RecordInv, RowInv, RecordRefusal, RowOf
    <3> QED
      BY <2>0, <2>2, <3>1 DEF Verdicts, Op, IdempotencyConflict, IdempotencyHit
  <2> QED
    BY <1>1, <1>2, <1>3, <2>1, <2>2 DEF InsertKey, FindsRecord, TakesKey, Op
<1>4. CASE SelectActive(t) \/ InsertNumber(t) \/ InsertOrder(t)
  <2>0. /\ pc[t] \in {"SelectActive", "InsertNumber", "InsertOrder"} /\ Op(t) = "create"
        /\ IdempotencyMiss(call[t].m)
    BY <1>0, <1>4 DEF SelectActive, InsertNumber, InsertOrder, Runs, TxInv, CreateInv,
                ReviewInv, RecordInv, KeyInv
  <2>1. /\ e \in CreateReasons(call[t].m.tenant, call[t].request)
        /\ CreateRefusal(call[t].m.tenant, call[t].request) # "OK" /\ e # "OK"
    BY <1>1, <1>2, <1>4
       DEF SelectActive, InsertNumber, InsertOrder, CreateReasons, CreateRefusal, NumberOf
  <2> QED
    BY <2>0, <2>1 DEF Verdicts, Op, IdempotencyConflict, IdempotencyHit
<1>5. CASE LockRow(t)
  <2>1. e = LockRowRefusal(t) /\ e # "OK" /\ pc[t] = "LockRow" /\ Op(t) # "create"
    <3>1. LockRowRefusal(t) # "OK" => Refused(t, LockRowRefusal(t))
      BY <1>5 DEF LockRow, ReadRow
    <3>2. LockRowRefusal(t) # "OK"
      BY <1>0, <1>5 DEF LockRow, ReadRow, AfterLock, Locals, Isolated
    <3> QED
      BY <1>0, <1>2, <1>5, <3>1, <3>2 DEF LockRow, Runs, TxInv, CreateInv
  <2>2. CASE requests[RowOf(t)] = None
    BY <2>1, <2>2 DEF LockRowRefusal, Verdicts, Op, RowOf
  <2>3. CASE requests[RowOf(t)] # None
    <3>1. Op(t) = "review" /\ ReviewRefusal(RowOf(t), call[t].approval.level) = e
      BY <2>1, <2>3 DEF LockRowRefusal, ReviewRefusal, Op
    <3> QED BY <2>1, <3>1 DEF Verdicts, Op, RowOf
  <2> QED BY <2>2, <2>3
<1>6. CASE SelectApproval(t)
  <2>0. pc[t] = "SelectApproval" /\ Op(t) = "review"
    BY <1>0, <1>6 DEF SelectApproval, Runs, TxInv, CreateInv, RecordInv
  <2>1. ReviewRefusal(RowOf(t), call[t].approval.level) = e /\ e # "OK"
    BY <1>0, <1>1, <1>2, <1>6, <2>0
       DEF SelectApproval, ReviewRefusal, TxInv, ReviewInv, RowInv
  <2> QED BY <2>0, <2>1 DEF Verdicts, Op, RowOf
<1>7. CASE InsertReceipt(t)
  <2>0. /\ pc[t] = "InsertReceipt" /\ Op(t) = "record"
        /\ IdempotencyMiss(call[t].m)
    BY <1>0, <1>7 DEF InsertReceipt, Runs, TxInv, CreateInv, ReviewInv, RecordInv, KeyInv
  <2>1. RecordRefusal(call[t].m) = e /\ e # "OK"
    BY <1>0, <1>1, <1>2, <1>7, <2>0
       DEF InsertReceipt, RecordRefusal, TxInv, RecordInv, RowInv, RowOf, ReceiptOf
  <2> QED BY <2>0, <2>1 DEF Verdicts, Op, IdempotencyConflict, IdempotencyHit
<1> QED BY <1>3, <1>4, <1>5, <1>6, <1>7

\* A commit finds the tables as the interface demands.
LEMMA CommitIsAtomic ==
    ASSUME Isolated, NEW t \in Transactions, Commit(t) PROVE Atomic!Stores(t)
<1>0. TxInv(t) /\ pc[t] = "Commit" /\ DOMAIN verdict = Transactions
  BY DEF Isolated, Locals, Commit, Runs
<1>1. "OK" \in Verdicts(call[t])
  <2>1. CASE Op(t) = "create"
    <3>1. CreateRefusal(call[t].m.tenant, call[t].request) = "OK"
      BY <1>0, <2>1 DEF TxInv, CreateInv, CreateRefusal, NumberOf
    <3>2. IdempotencyMiss(call[t].m)
      BY <1>0, <2>1 DEF TxInv, CreateInv, KeyInv
    <3> QED BY <2>1, <3>1, <3>2 DEF Verdicts, Op, IdempotencyConflict, IdempotencyHit
  <2>2. CASE Op(t) = "review"
    <3>1. ReviewRefusal(RowOf(t), call[t].approval.level) = "OK"
      BY <1>0, <2>2 DEF TxInv, ReviewInv, RowInv, ReviewRefusal
    <3> QED BY <2>2, <3>1 DEF Verdicts, Op, RowOf
  <2>3. CASE Op(t) = "record"
    <3>1. RecordRefusal(call[t].m) = "OK"
      BY <1>0, <2>3 DEF TxInv, RecordInv, RowInv, RecordRefusal, RowOf, ReceiptOf
    <3>2. IdempotencyMiss(call[t].m)
      BY <1>0, <2>3 DEF TxInv, RecordInv, KeyInv
    <3> QED BY <2>3, <3>1, <3>2 DEF Verdicts, Op, IdempotencyConflict, IdempotencyHit
  <2> QED BY <2>1, <2>2, <2>3, OpOf DEF Isolated
<1>2. \E v \in {"OK", "ErrInternal"} : Atomic!Answer(t, v)
  BY <1>0 DEF Commit, Release, TxInv, KeyInv, Atomic!Answer
<1> QED BY <1>1, <1>2, SameVerdicts, SameStored DEF Commit, Atomic!Stores

LEMMA StepIsAtomic ==
    ASSUME Isolated, [Next]_vars
    PROVE  [Atomic!Next]_(Atomic!repositoryVars)
<1> USE DEF Atomic!repositoryVars, Atomic!storeVars, Atomic!ledgerVars, storeVars, ledgerVars
<1>1. ASSUME NEW t \in Transactions, Step(t)
      PROVE  Atomic!Next \/ UNCHANGED Atomic!repositoryVars
  <2>1. CASE Commit(t)
    BY <2>1, CommitIsAtomic DEF Atomic!Next
  <2>2. CASE CommitReplay(t)
    <3>1. CommitReplay(t) => pc'[t] = "Ended"
      BY DEF CommitReplay, Release, Isolated, Locals
    <3>2. \A e : ~ Refused(t, e)
      BY <2>2, <3>1 DEF Refused, Isolated, Locals
    <3> QED BY <2>2, <3>2, RefusalIsAtomic DEF Atomic!Next
  <2>3. CASE Rollback(t)
    BY <2>3 DEF Rollback, Release
  <2>4. CASE \E e : Refused(t, e) /\ ~ CommitReplay(t) /\ ~ Commit(t) /\ ~ Rollback(t)
    <3>1. PICK e : Refused(t, e)
      BY <2>4
    <3>2. \/ InsertKey(t) \/ SelectActive(t) \/ InsertNumber(t) \/ InsertOrder(t)
          \/ LockRow(t) \/ SelectApproval(t) \/ InsertReceipt(t)
      <4>1. ASSUME BeginTx(t) \/ UpdateStatus(t) PROVE FALSE
        <5>1. PICK s \in Statements \ {"Rollback"} : \E rs : Proceed(t, s, rs)
          BY <4>1 DEF BeginTx, UpdateStatus, Statements
        <5> QED BY <3>1, <5>1 DEF Refused, Proceed, Isolated, Locals
      <4> QED BY <1>1, <2>4, <4>1 DEF Step
    <3>3. pc[t] \notin {"Rollback", "Ended"} /\ e \in Verdicts(call[t]) \ {"OK"}
      BY <3>1, <3>2, RefusalHasReason
    <3> QED BY <3>1, <3>3, RefusalIsAtomic DEF Atomic!Next
  <2>5. CASE \E s, rs : Proceed(t, s, rs)
    BY <2>5 DEF Proceed
  <2>6. CASE LockRow(t) /\ ~ \E e : Refused(t, e)
    BY <2>6 DEF LockRow, ReadRow
  <2> QED
    BY <1>1, <2>1, <2>2, <2>3, <2>4, <2>5, <2>6
       DEF Step, BeginTx, InsertKey, FindsRecord, TakesKey, SelectActive, InsertNumber,
           InsertOrder, SelectApproval, UpdateStatus, InsertReceipt
<1>2. ASSUME NEW t \in Transactions, StatementFails(t)
      PROVE  Atomic!Fails(t)
  BY <1>2 DEF StatementFails, Atomic!Fails, Atomic!Answer, Isolated, Locals, TxInv, KeyInv
<1>3. ASSUME UNCHANGED vars PROVE UNCHANGED Atomic!repositoryVars
  BY <1>3 DEF vars
<1> QED BY <1>1, <1>2, <1>3 DEF Next, Atomic!Next

\* To the service, the database's transactions are an atomic store: a commit
\* writes what the method may write against the tables of that moment, a
\* refusal or a replay has its reason in them (postgres_repository.go:105).
THEOREM PostgresIsAtomic == Spec => AtomicSpec
<1>1. Init => Atomic!Init
  BY DEF Init, Atomic!Init, StoreIsInitial, Atomic!StoreIsInitial
<1> QED
  BY <1>1, IsolatedInit, IsolatedNext, StepIsAtomic, PTL DEF Spec, AtomicSpec, Atomic!Spec
=============================================================================
