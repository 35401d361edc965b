--------------------------- MODULE RefundProperties ---------------------------
(***************************************************************************)
(* What the refund service promises, over its store and over the answers   *)
(* its calls hold.                                                         *)
(***************************************************************************)
EXTENDS RefundService, SequencesExt

Exists(k) == requests[k] # None
Settled == {"SUCCEEDED", "FAILED"}

\* At most one request of an order is under way, however many calls create,
\* decide and settle at once (docs/mvp.md:84).
OneActivePerOrder ==
    \A t \in Tenants, m, n \in RequestNos :
        /\ m # n
        /\ Exists(<<t, m>>) /\ Exists(<<t, n>>)
        /\ requests[<<t, m>>].orderNo = requests[<<t, n>>].orderNo
        => ~ ( /\ IsActiveStatus(requests[<<t, m>>].status)
               /\ IsActiveStatus(requests[<<t, n>>].status) )

\* Levels are decided in order, each once, by people who differ from one
\* another and from the submitter, and nothing follows a rejection, although
\* every reviewer decides on a status and a list read before the write.
DutiesSeparated ==
    \A k \in RequestKeys : LET list == approvals[k] IN
        \A i \in DOMAIN list :
            /\ Exists(k)
            /\ list[i].level = i
            /\ list[i].decisionBy # requests[k].submittedBy
            /\ \A j \in 1 .. i - 1 : /\ list[j].status = "APPROVED"
                                     /\ list[j].decisionBy # list[i].decisionBy

\* A request waits, is rejected or moves on as its decisions say: one approval
\* passes an amount below every threshold the desk has run with, and an amount
\* that reaches them all takes two.
StatusFollowsApprovals ==
    \A k \in RequestKeys : Exists(k) =>
        LET r == requests[k]
            list == approvals[k]
            rejected == list # <<>> /\ list[Len(list)].status = "REJECTED"
        IN  /\ r.status = "REJECTED" <=> rejected
            /\ r.status \in {"APPROVED"} \cup Settled =>
                 /\ Len(list) \in 1 .. 2
                 /\ (\A th \in Thresholds : r.amount >= th)
                      => Len(list) = 2
                 /\ (\A th \in Thresholds : r.amount < th)
                      => Len(list) = 1
            /\ r.status = "PENDING_REVIEW" => Len(list) <= 1

\* A request is settled by exactly one receipt, with its outcome and its
\* amount; without one it is not settled (docs/mvp.md:133).
SettledByReceipt ==
    \A k \in RequestKeys : LET list == transactions[k] IN
        /\ list # <<>> <=> Exists(k) /\ requests[k].status \in Settled
        /\ list # <<>> => /\ Len(list) = 1
                          /\ list[1].status = requests[k].status
                          /\ list[1].amount = requests[k].amount

\* No provider refund number stands in two receipts of a tenant.
ProviderRefundNosUnique ==
    \A t \in Tenants, m, n \in RequestNos :
        \A i \in DOMAIN transactions[<<t, m>>], j \in DOMAIN transactions[<<t, n>>] :
            /\ transactions[<<t, m>>][i].providerRefundNo # None
            /\ transactions[<<t, m>>][i].providerRefundNo =
               transactions[<<t, n>>][j].providerRefundNo
            => m = n /\ i = j

\* The trail of a request has one entry per change, each starting from the
\* status the one before ended with, under the name of who made the change;
\* it ends with the status of today.  The writer takes before from an earlier
\* read (docs/mvp.md:87, :132).
AuditTrailComplete ==
    \A k \in RequestKeys : Exists(k) =>
        LET trail == auditLogs[k]
            n == Len(approvals[k])
        IN  /\ Len(trail) = 1 + n + Len(transactions[k])
            /\ trail[1].before = "NONE"
            /\ \A i \in 2 .. Len(trail) : trail[i].before = trail[i - 1].after
            /\ trail[Len(trail)].after = requests[k].status
            /\ trail[1].operator = requests[k].submittedBy
            /\ \A i \in 1 .. n : trail[1 + i].operator = approvals[k][i].decisionBy
            /\ \A i \in DOMAIN transactions[k] :
                   trail[1 + n + i].operator = transactions[k][i].processedBy

\* Every request, and every receipt, was written under exactly one idempotency
\* record, and every record tells of a write that happened: a retried or a
\* concurrent duplicate writes nothing twice (README.md:123, :134).
OneEffectPerKey ==
    LET Records(op) == {s \in Scopes : s[3] = op /\ idempotencyRecords[s] # None}
        Written(s) == <<s[1], idempotencyRecords[s].request.no>>
    IN  /\ \A s \in Records("create") : Exists(Written(s))
        /\ \A s \in Records("record") :
               idempotencyRecords[s].transaction \in Range(transactions[Written(s)])
        /\ \A k \in RequestKeys :
               /\ Exists(k) => \E s \in Records("create") : Written(s) = k
               /\ transactions[k] # <<>> => \E s \in Records("record") : Written(s) = k
        /\ \A op \in Operations : \A s, u \in Records(op) :
               Written(s) = Written(u) => s = u

Answered(c) == pc[c] = "Done" /\ reply[c].error = "OK"

\* An answer under an idempotency key is the first result of that key, on
\* record and unchanged, and of the answers only one is the first
\* (docs/mvp.md:85, README.md:123, :134).
RepliesFromFirst ==
    /\ \A c \in Calls : Answered(c) /\ cmd[c].op \in Operations =>
           /\ IdempotencyHit(cmd[c])
           /\ reply[c].request = idempotencyRecords[Scope(cmd[c])].request
           /\ reply[c].transaction = idempotencyRecords[Scope(cmd[c])].transaction
    /\ \A c, d \in Calls :
           /\ c # d
           /\ Answered(c) /\ cmd[c].op \in Operations /\ ~ reply[c].replayed
           /\ Answered(d) /\ cmd[d].op \in Operations /\ ~ reply[d].replayed
           => Scope(cmd[c]) # Scope(cmd[d])

\* The parts of an answer are read one after another, the request first: the
\* timeline never lacks the decision or the receipt that gave the request the
\* status shown, nor the reviewer's own decision.
DetailShowsCause ==
    \A c \in Calls : Answered(c) /\ cmd[c].op # "create" =>
        LET r == reply[c] IN
        /\ r.request.status \in {"APPROVED", "REJECTED"} =>
               \E i \in DOMAIN r.approvals : r.approvals[i].status = r.request.status
        /\ r.request.status \in Settled =>
               \E i \in DOMAIN r.transactions : r.transactions[i].status = r.request.status
        /\ cmd[c].op = "review" =>
               \E i \in DOMAIN r.approvals :
                   /\ r.approvals[i].decisionBy = cmd[c].by
                   /\ r.approvals[i].status = cmd[c].decision

-----------------------------------------------------------------------------

KeepsHistory ==
    /\ \A k \in RequestKeys :
         /\ Exists(k) =>
              /\ requests'[k] # None
              /\ requests'[k] = [requests[k] EXCEPT !.status = requests'[k].status]
              /\ ~ IsActiveStatus(requests[k].status) => requests'[k] = requests[k]
              /\ requests[k].status = "APPROVED" =>
                   requests'[k].status \in {"APPROVED"} \cup Settled
         /\ IsPrefix(approvals[k], approvals'[k])
         /\ IsPrefix(transactions[k], transactions'[k])
         /\ IsPrefix(auditLogs[k], auditLogs'[k])
    /\ \A s \in Scopes : idempotencyRecords[s] # None =>
         idempotencyRecords'[s] = idempotencyRecords[s]

\* What is on record stays: a request keeps everything but its status, a
\* request that is rejected or settled keeps that too, and timelines, trails
\* and first results only grow; in particular no new request takes the number
\* of an old one after a restart (docs/mvp.md:102).
HistoryKept == [][KeepsHistory]_vars

\* Call c, which answers in this step, had a first result on record to give.
AnswersRetry(c, op) ==
    /\ pc[c] \in RepositoryCalls
    /\ pc'[c] = "Done"
    /\ cmd[c].op = op
    /\ IdempotencyHit(cmd[c])

\* Once a receipt is on record, no retry of it is turned down, not even one
\* that looked for the record before it was there; it may still meet a
\* database error (README.md:134, service.go:478).
RecordRetryNeverRefused ==
    [][\A c \in Calls : AnswersRetry(c, "record") =>
         reply'[c].error \in {"OK", "ErrInternal"}]_vars
-----------------------------------------------------------------------------
(* What the documents say and the code does not keep. *)

\* A retry of a creation gets the first result (docs/mvp.md:85).
CreateRetryNeverRefused ==
    [][\A c \in Calls : AnswersRetry(c, "create") =>
         reply'[c].error \in {"OK", "ErrInternal"}]_vars

\* Receipts never pay back more than the order was paid (docs/mvp.md:86).
RefundedWithinPaid ==
    \A t \in Tenants, o \in OrderNos : orders[<<t, o>>] # None =>
        LET refunded == {n \in RequestNos : /\ Exists(<<t, n>>)
                                            /\ requests[<<t, n>>].orderNo = o
                                            /\ requests[<<t, n>>].status = "SUCCEEDED"}
        IN  MapThenSumSet(LAMBDA n : requests[<<t, n>>].amount, refunded)
              <= orders[<<t, o>>].paid

\* A request approved at the first level and still under review waits for the
\* second level (README.md:113).
AwaitsSecondLevel ==
    \A k \in RequestKeys :
        /\ Exists(k)
        /\ requests[k].status = "PENDING_REVIEW"
        /\ Len(approvals[k]) = 1
        => NextApprovalLevel(requests[k].amount, approvals[k], threshold) = 2

\* The number a new request gets is not the number of another one
\* (docs/mvp.md:101).
NumberIsFresh ==
    \A c \in Calls : pc[c] = "CreateRefundRequest" =>
        ~ Exists(<<cmd[c].tenant, request[c].no>>)
=============================================================================
