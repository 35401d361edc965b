--------------------------- MODULE AtomicRepository ---------------------------
(***************************************************************************)
(* What the refund service may assume of its store: every call of          *)
(* CreateRefundRequest, ReviewRefundRequest or RecordRefundTransaction     *)
(* takes effect in one step, at some moment between its call and its       *)
(* return.  It either stores everything, against tables that admit it, or  *)
(* stores nothing, for a reason that holds at that moment; a failure       *)
(* stores nothing, or everything when only its acknowledgement is lost.    *)
(***************************************************************************)
EXTENDS RepositoryCalls

repositoryVars == <<storeVars, call, verdict>>

Init ==
    /\ StoreIsInitial
    /\ call \in InitialCalls
    /\ verdict = [t \in Transactions |-> "pending"]

Answer(t, v) ==
    /\ verdict[t] = "pending"
    /\ verdict' = [verdict EXCEPT ![t] = v]
    /\ UNCHANGED call

Refuses(t) ==
    \E v \in Verdicts(call[t]) \ {"OK"} : Answer(t, v) /\ UNCHANGED storeVars

Stores(t) ==
    /\ "OK" \in Verdicts(call[t])
    /\ \E v \in {"OK", "ErrInternal"} : Answer(t, v)
    /\ Stored(call[t])

Fails(t) == Answer(t, "ErrInternal") /\ UNCHANGED storeVars

Next == \E t \in Transactions : Refuses(t) \/ Stores(t) \/ Fails(t)

Spec == Init /\ [][Next]_repositoryVars
=============================================================================
