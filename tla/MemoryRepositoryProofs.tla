------------------------ MODULE MemoryRepositoryProofs ------------------------
(***************************************************************************)
(* MemoryRepository implements AtomicRepository, for any tables, any calls *)
(* and any number of them: under the mutex, what a method has judged is    *)
(* what it finds when it writes.                                           *)
(***************************************************************************)
EXTENDS MemoryRepository, TLAPS

\* Whoever judges or writes holds the mutex alone, has not answered, and
\* writes only what nothing refuses yet.
MutexInv ==
    /\ call \in [Transactions -> StoreCall]
    /\ DOMAIN verdict = Transactions
    /\ pc \in [Transactions -> {"Lock", "Judge", "Write", "Ended"}]
    /\ \A t \in Transactions :
          /\ pc[t] \in {"Judge", "Write"} => holders = {t}
          /\ pc[t] # "Ended" => verdict[t] = "pending"
          /\ pc[t] = "Write" => Judgement(call[t]) = "OK"

\* The methods judge as the interface allows, in whatever order they look.
LEMMA JudgementIsVerdict ==
    ASSUME NEW c \in StoreCall
    PROVE  Judgement(c) \in Atomic!Verdicts(c)
<1> USE DEF Judgement, Atomic!Verdicts, IdempotencyConflict, IdempotencyHit, IdempotencyMiss,
            Atomic!IdempotencyHit, Atomic!IdempotencyMiss, Atomic!IdempotencyConflict,
            Scope, Atomic!Scope, RequestHash, Atomic!RequestHash,
            RequestKey, Atomic!RequestKey
<1>1. CASE c.m.op = "review"
  BY <1>1 DEF ReviewRefusal, Atomic!ReviewRefusal
<1>2. CASE c.m.op = "create"
  BY <1>2 DEF CreateJudgement, Atomic!CreateReasons, Atomic!CreateRefusal, HasActiveRequest,
              Atomic!HasActiveRequest, IsActiveStatus, Atomic!IsActiveStatus,
              CreateRequestHash, Atomic!CreateRequestHash, RecordTransactionHash,
              Atomic!RecordTransactionHash, RequestNos, Atomic!RequestNos
<1>3. CASE c.m.op = "record"
  BY <1>3 DEF RecordRefusal, Atomic!RecordRefusal, CreateRequestHash,
              Atomic!CreateRequestHash, RecordTransactionHash, Atomic!RecordTransactionHash
<1>4. c.m.op \in {"create", "review", "record"}
  BY DEF StoreCall, CreateCall, ReviewCall, RecordCall, CreateCommand, ReviewCommand,
         RecordCommand
<1> QED BY <1>1, <1>2, <1>3, <1>4

LEMMA StoredAgree ==
    ASSUME NEW c PROVE Stored(c) <=> Atomic!Stored(c)
BY DEF Stored, Atomic!Stored, StoreCreated, Atomic!StoreCreated, StoreReviewed,
       Atomic!StoreReviewed, StoreRecorded, Atomic!StoreRecorded, RequestKey,
       Atomic!RequestKey, Scope, Atomic!Scope, RequestHash, Atomic!RequestHash,
       CreateRequestHash, Atomic!CreateRequestHash, RecordTransactionHash,
       Atomic!RecordTransactionHash, TransactionOf, Atomic!TransactionOf

LEMMA MutexInvInit == Init => MutexInv
BY InitialCallsAssumption DEF Init, MutexInv

\* The judgement of a call depends on the tables and on the call alone.
LEMMA JudgementStands ==
    ASSUME UNCHANGED storeVars, NEW c
    PROVE  Judgement(c)' = Judgement(c)
BY DEF storeVars, ledgerVars, Judgement, ReviewRefusal, CreateJudgement, RecordRefusal,
       IdempotencyConflict, IdempotencyHit, IdempotencyMiss, HasActiveRequest

LEMMA MutexInvNext ==
    ASSUME MutexInv, [Next]_vars
    PROVE  MutexInv'
<1> USE DEF MutexInv
<1>1. ASSUME NEW t \in Transactions, Lock(t)
      PROVE  MutexInv'
  <2>1. \A c : Judgement(c)' = Judgement(c)
    BY <1>1, JudgementStands DEF Lock
  <2>2. \A u \in Transactions : pc'[u] = IF u = t THEN "Judge" ELSE pc[u]
    BY <1>1 DEF Lock
  <2>3. \A u \in Transactions : pc[u] \notin {"Judge", "Write"}
    BY <1>1 DEF Lock
  <2> QED BY <1>1, <2>1, <2>2, <2>3 DEF Lock
<1>2. ASSUME NEW t \in Transactions, Judge(t)
      PROVE  MutexInv'
  <2>1. \A c : Judgement(c)' = Judgement(c)
    BY <1>2, JudgementStands DEF Judge
  <2>2. holders = {t}
    BY <1>2 DEF Judge
  <2>3. \A u \in Transactions \ {t} : pc[u] \notin {"Judge", "Write"}
    BY <2>2
  <2>4. CASE Return(t, Judgement(call[t]))
    BY <1>2, <2>1, <2>2, <2>3, <2>4 DEF Judge, Return
  <2>5. CASE /\ Judgement(call[t]) = "OK"
             /\ pc' = [pc EXCEPT ![t] = "Write"]
             /\ UNCHANGED <<call, verdict, holders>>
    BY <2>1, <2>2, <2>3, <1>2, <2>5 DEF Judge
  <2> QED BY <1>2, <2>4, <2>5 DEF Judge
<1>3. ASSUME NEW t \in Transactions, Write(t)
      PROVE  MutexInv'
  <2>1. holders = {t}
    BY <1>3 DEF Write
  <2>2. \A u \in Transactions \ {t} : pc[u] \notin {"Judge", "Write"}
    BY <2>1
  <2> QED BY <1>3, <2>1, <2>2 DEF Write, Return
<1>4. ASSUME UNCHANGED vars PROVE MutexInv'
  <2>1. \A c : Judgement(c)' = Judgement(c)
    BY <1>4, JudgementStands DEF vars
  <2> QED BY <1>4, <2>1 DEF vars
<1> QED BY <1>1, <1>2, <1>3, <1>4 DEF Next

\* Every step of a method is a step of the interface, or none.
LEMMA StepIsAtomic ==
    ASSUME MutexInv, [Next]_vars
    PROVE  [Atomic!Next]_(Atomic!repositoryVars)
<1> USE DEF Atomic!repositoryVars, Atomic!storeVars, Atomic!ledgerVars, storeVars, ledgerVars
<1>1. ASSUME NEW t \in Transactions, Lock(t)
      PROVE  UNCHANGED Atomic!repositoryVars
  BY <1>1 DEF Lock
<1>2. ASSUME NEW t \in Transactions, Judge(t)
      PROVE  Atomic!Refuses(t) \/ UNCHANGED Atomic!repositoryVars
  <2>1. CASE Judgement(call[t]) = "OK"
    BY <1>2, <2>1 DEF Judge
  <2>2. CASE Judgement(call[t]) # "OK"
    <3>1. Judgement(call[t]) \in Atomic!Verdicts(call[t])
      BY JudgementIsVerdict DEF MutexInv
    <3>2. Atomic!Answer(t, Judgement(call[t])) /\ UNCHANGED Atomic!storeVars
      BY <1>2, <2>2 DEF Judge, Return, Atomic!Answer, MutexInv
    <3> QED BY <2>2, <3>1, <3>2 DEF Atomic!Refuses
  <2> QED BY <2>1, <2>2
<1>3. ASSUME NEW t \in Transactions, Write(t)
      PROVE  Atomic!Stores(t)
  <2>1. "OK" \in Atomic!Verdicts(call[t])
    BY <1>3, JudgementIsVerdict DEF Write, MutexInv
  <2>2. Atomic!Answer(t, "OK")
    BY <1>3 DEF Write, Return, Atomic!Answer, MutexInv
  <2>3. Atomic!Stored(call[t])
    BY <1>3, StoredAgree DEF Write
  <2> QED BY <2>1, <2>2, <2>3 DEF Atomic!Stores
<1>4. ASSUME UNCHANGED vars PROVE UNCHANGED Atomic!repositoryVars
  BY <1>4 DEF vars
<1> QED BY <1>1, <1>2, <1>3, <1>4 DEF Next, Atomic!Next

\* To the service, the maps under their mutex are an atomic store, the same as
\* the database's transactions.
THEOREM MemoryIsAtomic == Spec => AtomicSpec
<1>1. Init => Atomic!Init
  BY DEF Init, Atomic!Init, StoreIsInitial, Atomic!StoreIsInitial
<1> QED
  BY <1>1, MutexInvInit, MutexInvNext, StepIsAtomic, PTL DEF Spec, AtomicSpec, Atomic!Spec
===============================================================================
