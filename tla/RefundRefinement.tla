--------------------------- MODULE RefundRefinement ---------------------------
(***************************************************************************)
(* RefundService implements RefundLedger: although a call decides on what  *)
(* it read several steps earlier, what it writes is right against the      *)
(* store at the moment of the write.  The entry of a request in the book   *)
(* is its row, who decided on it, and the number of its receipt.           *)
(***************************************************************************)
EXTENDS RefundService, Functions

BookView ==
    [k \in RequestKeys |->
        IF requests[k] = None THEN None
        ELSE [orderNo |-> requests[k].orderNo,
              snapshot |-> requests[k].snapshot,
              amount |-> requests[k].amount,
              submittedBy |-> requests[k].submittedBy,
              status |-> requests[k].status,
              deciders |-> [i \in 1 .. Len(approvals[k]) |-> approvals[k][i].decisionBy],
              receipt |-> IF transactions[k] = <<>> THEN None
                          ELSE transactions[k][1].providerRefundNo]]

UsedView == [s \in Scopes |-> idempotencyRecords[s] # None]

OrdersEverSeen == (Range(InitialOrders) \ {None}) \cup OrderVersions

Ledger == INSTANCE RefundLedger
    WITH Snapshots <- OrdersEverSeen, book <- BookView, used <- UsedView

\* The value that stands for a missing entry is not one.
ASSUME EntryAssumption == None \notin Ledger!Entry

\* Every behaviour of the service is, seen as a book, one of the ledger: the
\* separation of duties, the level of an approval, the freshness of an order,
\* a key and a receipt hold when the write takes place.
LedgerSpec == Ledger!Spec
=============================================================================
