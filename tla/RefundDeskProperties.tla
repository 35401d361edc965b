------------------------- MODULE RefundDeskProperties -------------------------
(***************************************************************************)
(* What clients and auditors of the desk may rely on: who may have written *)
(* what is on record, what an HTTP status tells of it, and what clients    *)
(* have been told of the approvals a request needs.  Three history         *)
(* variables remember rights, writes and answers; they never constrain a   *)
(* step.                                                                   *)
(***************************************************************************)
EXTENDS RefundDesk, RefundProperties

VARIABLES
    held,     \* per call: permissions its actor has had since it began
    written,  \* per call: how often it has written to the store
    told      \* per request: what clients have been told of its approvals

histVars == <<held, written, told>>

\* A client's knowledge that a request needs two approvals (high) or one, and
\* the threshold of the process that told it.
Tiding == [high: BOOLEAN, under: Thresholds]

AtWork(c) == pc[c] \notin {"Idle", "Done"}
Answers(c) == AtWork(c) /\ pc'[c] = "Done"

PermissionsOf(m) == IF m # None /\ IsMember(m) THEN grants[roleOf[m]] ELSE {}

HeldNext(c) ==
    IF ~ AtWork(c)' THEN {}
    ELSE (IF AtWork(c) THEN held[c] ELSE {}) \cup PermissionsOf(actor[c])'

WrittenNext(c) ==
    IF cmd'[c] = None THEN 0
    ELSE IF AtWork(c)
         THEN written[c] + (IF pc'[c] # pc[c] /\ ledgerVars' # ledgerVars THEN 1 ELSE 0)
    ELSE IF pc'[c] = pc[c] /\ cmd'[c] = cmd[c] THEN written[c]
    ELSE 0

\* Answers outlive the process that gave them.
ToldNext(k) ==
    told[k] \cup
        {[high |-> response'[c].high, under |-> threshold] :
            c \in {d \in Calls : /\ Answers(d)
                                /\ reply'[d].error = "OK"
                                /\ <<cmd[d].tenant, reply'[d].request.no>> = k}}

HistoryInit ==
    /\ DeskInit
    /\ held = [c \in Calls |-> {}]
    /\ written = [c \in Calls |-> 0]
    /\ told = [k \in RequestKeys |-> {}]

HistoryNext ==
    /\ DeskNext
    /\ held' = [c \in Calls |-> HeldNext(c)]
    /\ written' = [c \in Calls |-> WrittenNext(c)]
    /\ told' = [k \in RequestKeys |-> ToldNext(k)]

HistorySpec == HistoryInit /\ [][HistoryNext]_<<deskVars, histVars>>

-----------------------------------------------------------------------------

\* u, acting for call c in tenant t, is its actor, and had one of the rights.
Entitled(c, t, u, rights) == actor[c] = <<t, u>> /\ held[c] \cap rights # {}

\* Whatever a call puts on record stands under the name and in the tenant of
\* its own session, and that member had the right to it, for a decision the
\* permission of its very level, at some moment since the request came in:
\* roles change while a request is served, and neither the body nor a header
\* names another actor or tenant (README.md:26, server.go:134).
WritesEntitled ==
    [][ \A c \in Calls : AtWork(c) /\ pc'[c] # pc[c] => \A k \in RequestKeys :
          /\ requests[k] = None /\ requests'[k] # None =>
                Entitled(c, k[1], requests'[k].submittedBy, {"refund_request:create"})
          /\ approvals'[k] # approvals[k] =>
                LET a == Last(approvals'[k]) IN
                Entitled(c, k[1], a.decisionBy, RightFor("review", a.level))
          /\ transactions'[k] # transactions[k] =>
                Entitled(c, k[1], Last(transactions'[k]).processedBy,
                         {"refund_transaction:write"}) ]_deskVars

\* A client can tell from the answer what became of its request: success
\* without the header Idempotency-Replayed means it was carried out once,
\* success with it, or any refusal, that it changed nothing; only a 500 leaves
\* that open (README.md:124, server.go:246).
StatusTellsEffect ==
    \A c \in Calls : response[c] # None =>
        LET succeeded == response[c].status \in {200, 201} IN
        /\ ~ succeeded /\ response[c].status # 500 => written[c] = 0
        /\ succeeded =>
              written[c] = IF /\ cmd[c] # None /\ cmd[c].op # "get"
                              /\ ~ response[c].replayed
                           THEN 1 ELSE 0

\* What a client has been told of a request is what the desk decides by: if an
\* answer, whether the first one, a replay, a review's or a reading's, said that
\* it needs two approvals, it is approved at the second and no sooner, and at
\* the first if it said one (README.md:110-112).  That holds for every process
\* with the threshold of the one that answered, after restarts in between with
\* another one, and whoever reviews.  The flag is computed where an answer is
\* made (service.go:344, :722), the status from the approvals read by a review
\* (service.go:643, :696).
ToldLevelsDecide ==
    [][ \A k \in RequestKeys :
          approvals'[k] # approvals[k] /\ Last(approvals'[k]).status = "APPROVED" =>
              \A p \in {q \in told[k] : q.under = threshold} :
                  requests'[k].status = "APPROVED" <=>
                      Len(approvals'[k]) = IF p.high THEN 2 ELSE 1 ]_deskVars
===============================================================================
