--------------------------- MODULE MemoryRepository ---------------------------
(***************************************************************************)
(* The three methods of internal/refund/memory_repository.go that write.   *)
(* Each takes the mutex, judges the call against the maps, and writes them *)
(* when nothing refuses it; the mutex goes back with the return.           *)
(***************************************************************************)
EXTENDS RepositoryCalls

VARIABLES
    holders,    \* calls that hold the mutex
    pc          \* "Lock", "Judge", "Write" or "Ended"

vars == <<storeVars, call, verdict, holders, pc>>

Init ==
    /\ StoreIsInitial
    /\ call \in InitialCalls
    /\ verdict = [t \in Transactions |-> "pending"]
    /\ holders = {}
    /\ pc = [t \in Transactions |-> "Lock"]

Lock(t) ==
    /\ pc[t] = "Lock"
    /\ holders = {}
    /\ pc' = [pc EXCEPT ![t] = "Judge"]
    /\ holders' = {t}
    /\ UNCHANGED <<storeVars, call, verdict>>

\* Here a taken number is seen before an active request.
CreateJudgement(tenant, r) ==
    IF requests[<<tenant, r.no>>] # None THEN "ErrRequestNoExists"
    ELSE IF HasActiveRequest(tenant, r.orderNo) THEN "ErrActiveRefundRequestExists"
    ELSE "OK"

Judgement(c) ==
    IF c.m.op = "review" THEN ReviewRefusal(RequestKey(c.m), c.approval.level)
    ELSE IF IdempotencyConflict(c.m) THEN "ErrIdempotencyKeyConflict"
    ELSE IF IdempotencyHit(c.m) THEN "Replayed"
    ELSE IF c.m.op = "create" THEN CreateJudgement(c.m.tenant, c.request)
    ELSE RecordRefusal(c.m)

Return(t, v) ==
    /\ verdict' = [verdict EXCEPT ![t] = v]
    /\ pc' = [pc EXCEPT ![t] = "Ended"]
    /\ holders' = holders \ {t}
    /\ UNCHANGED call

Judge(t) ==
    /\ pc[t] = "Judge"
    /\ UNCHANGED storeVars
    /\ \/ /\ Judgement(call[t]) # "OK"
          /\ Return(t, Judgement(call[t]))
       \/ /\ Judgement(call[t]) = "OK"
          /\ pc' = [pc EXCEPT ![t] = "Write"]
          /\ UNCHANGED <<call, verdict, holders>>

Write(t) ==
    /\ pc[t] = "Write"
    /\ Stored(call[t])
    /\ Return(t, "OK")

Next == \E t \in Transactions : Lock(t) \/ Judge(t) \/ Write(t)

Spec == Init /\ [][Next]_vars

-----------------------------------------------------------------------------
Atomic == INSTANCE AtomicRepository

\* The maps under their mutex are the same atomic store to the service as the
\* database's transactions: what a method writes is what it may write against
\* the maps of that moment (service.go:58).
AtomicSpec == Atomic!Spec
===============================================================================
