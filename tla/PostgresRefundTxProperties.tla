----------------------- MODULE PostgresRefundTxProperties -----------------------
(***************************************************************************)
(* What the transactions of PostgresRefundTx are for: the service above    *)
(* sees an atomic store, and none of its calls waits for ever.             *)
(***************************************************************************)
EXTENDS PostgresRefundTx

Atomic == INSTANCE AtomicRepository

\* The transactions implement the atomic store: what a commit writes is what
\* the method may write against the tables of that moment, whatever committed
\* since the transaction's checks, and every refusal or replay has a reason
\* that held when it was given.
AtomicSpec == Atomic!Spec

\* What a statement has checked stays true until the transaction ends,
\* although others commit: a key it entered has no record, a number, an order
\* or a receipt it entered is still free, the row it locked is as it read it,
\* and a level it looked for is still open.
ChecksStayTrue ==
    \A t \in Transactions :
        LET m == call[t].m IN
        /\ \A u \in Transactions \ {t} : held[t] \cap held[u] = {}
        /\ m.op # "review" /\ Key(m) \in held[t] => IdempotencyMiss(m)
        /\ m.op = "create" =>
              /\ Number(NumberOf(t)) \in held[t] => requests[NumberOf(t)] = None
              /\ ActiveOrder(OrderOf(t)) \in held[t] =>
                    ~ HasActiveRequest(m.tenant, call[t].request.orderNo)
        /\ m.op # "create" =>
              /\ Row(RowOf(t)) \in held[t] => requests[RowOf(t)] = found[t]
        /\ m.op = "review" /\ pc[t] \in {"UpdateStatus", "Commit"} =>
              ReviewRefusal(RowOf(t), call[t].approval.level) = "OK"
        /\ m.op = "record" /\ pc[t] = "Commit" => RecordRefusal(m) = "OK"

\* Among the transactions there is always one that waits for none of the
\* others, and nobody waits for one that has ended: locks, index entries and
\* connections are taken in an order without cycles and given back.
NobodyStuck ==
    /\ \A t \in Transactions : Blockers(t) \subseteq Open
    /\ \A S \in (SUBSET Transactions) \ {{}} :
           \E t \in S : Blockers(t) \cap S = {}

\* Every call of the store ends.
EveryCallEnds ==
    \A t \in Transactions : <>(pc[t] = "Ended" /\ verdict[t] # "pending")
=============================================================================
