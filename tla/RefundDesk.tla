------------------------------ MODULE RefundDesk ------------------------------
(***************************************************************************)
(* The refund desk behind its HTTP interface: the guard admits a request   *)
(* with the permissions its session's member has at that moment, the       *)
(* handler makes a command of it, RefundService serves the command, and    *)
(* the handler answers with a status.  Meanwhile an administrator hires    *)
(* and dismisses members, and changes roles and their permissions.         *)
(*                                                                         *)
(* Whose session a token is, and how long, is the subject of AuthSessions; *)
(* here a request comes from a member's session, and its guard is a step.  *)
(***************************************************************************)
EXTENDS RefundService, GuardRules

CONSTANTS
    Roles,
    Requests,        \* what clients send: <<member of the session, command>>
    InitialRoles,    \* role of each <<tenant, user>> at first, or None
    InitialGrants,   \* permissions of each role at first
    MaxChanges       \* bound: changes by the administrator

Members == Tenants \X Users

\* GetOrder is not a call of several steps and is served by the desk itself.
GetOrderCommand == [op: {"get_order"}, tenant: Tenants, by: Users, orderNo: OrderNos]

ASSUME DeskAssumption ==
    /\ Requests \subseteq Members \X (Command \cup GetOrderCommand)
    /\ InitialRoles \in [Members -> Roles \cup {None}]
    /\ InitialGrants \in [Roles -> SUBSET Permissions]
    /\ MaxChanges \in Nat
    /\ None \notin Roles \cup Members

VARIABLES
    roleOf,     \* tenant_members: the role of a member, or None
    grants,     \* permissions of every role
    changes,
    actor,      \* per call: the member in the context of its request, or None
    response    \* per call: what the handler has answered, or None

directoryVars == <<roleOf, grants, changes>>
handlerVars == <<actor, response>>
deskVars == <<vars, directoryVars, handlerVars>>

Statuses == {200, 201, 400, 401, 403, 404, 409, 422, 500}

\* replayed: the header Idempotency-Replayed; high: the response's
\* requires_high_amount_approval.
Response == [status: Statuses, replayed: BOOLEAN, high: BOOLEAN]

DeskTypeOK ==
    /\ TypeOK
    /\ roleOf \in [Members -> Roles \cup {None}]
    /\ grants \in [Roles -> SUBSET Permissions]
    /\ changes \in 0 .. MaxChanges
    /\ actor \in [Calls -> Members \cup {None}]
    /\ response \in [Calls -> Response \cup {None}]

DeskInit ==
    /\ Init
    /\ roleOf = InitialRoles
    /\ grants = InitialGrants
    /\ changes = 0
    /\ actor = [c \in Calls |-> None]
    /\ response = [c \in Calls |-> None]

-----------------------------------------------------------------------------
(* Statuses *)

\* writeAuthError, writeServiceError
ErrorStatus(error) ==
    CASE error = "ErrInvalidToken" -> 401
      [] error \in {"ErrPermissionDenied", "ErrApprovalActorSameAsSubmitter"} -> 403
      [] error \in {"ErrOrderNotFound", "ErrRefundRequestNotFound"} -> 404
      [] error \in {"ErrActiveRefundRequestExists", "ErrIdempotencyKeyConflict",
                    "ErrApprovalActorAlreadyReviewed", "ErrApprovalLevelMismatch",
                    "ErrApprovalLevelAlreadyProcessed", "ErrRefundRequestNotReviewable",
                    "ErrRefundRequestNotApproved", "ErrProviderRefundNoExists"} -> 409
      [] error \in {"ErrOrderNotRefundable", "ErrAmountExceedsRefundable"} -> 422
      [] error \in {"ErrInvalidCommand", "ErrApprovalLevelInvalid",
                    "ErrTransactionAmountMismatch"} -> 400
      [] OTHER -> 500

ErrorResponse(error) ==
    [status |-> ErrorStatus(error), replayed |-> FALSE, high |-> FALSE]

\* The handlers' writeJSON and their header.
ResponseTo(m, r) ==
    IF r.error # "OK" THEN ErrorResponse(r.error)
    ELSE [status |-> IF m.op = "create" THEN 201 ELSE 200,
          replayed |-> r.replayed,
          high |-> RequiresHighAmountApproval(r.request.amount, threshold)]

-----------------------------------------------------------------------------
(* The guard *)

IsMember(m) == roleOf[m] # None

GuardVerdict(m, q) ==
    IF ~ IsMember(m) THEN "ErrInvalidToken" ELSE GuardRefusal(q, grants[roleOf[m]])

\* The command the handler makes for member m with these permissions: its
\* tenant and its user are the actor's, whatever the request's headers and body
\* say.
HandlerCommand(m, q, permissions) ==
    LET own == [tenant |-> m[1], by |-> m[2]] IN
    [f \in DOMAIN q |->
        IF f \in DOMAIN own THEN own[f]
        ELSE IF f = "level" THEN ReviewLevel(permissions, q.level)
        ELSE q[f]]

\* The service serves the commands that the handlers make.
ASSUME HandlerAssumption ==
    \A a \in Requests : a[2].op # "get_order" =>
        \A p \in SUBSET Permissions : HandlerCommand(a[1], a[2], p) \in Commands

CommandOf(m, q) == HandlerCommand(m, q, grants[roleOf[m]])

\* Answers a request that the refund service has no part in.
Turn(c, r) ==
    /\ pc' = [pc EXCEPT ![c] = "Idle"]
    /\ cmd' = [cmd EXCEPT ![c] = None]
    /\ reply' = [reply EXCEPT ![c] = NoReply]
    /\ actor' = [actor EXCEPT ![c] = None]
    /\ response' = [response EXCEPT ![c] = r]
    /\ UNCHANGED <<storeVars, request, level, processVars>>

\* What the handler makes of the step the service has taken for c.
HandlerAnswers(c) ==
    response' = [response EXCEPT ![c] =
        IF pc'[c] = "Done" THEN ResponseTo(cmd'[c], reply'[c]) ELSE None]

\* GET /orders/{external_order_no}
GetOrder(c, m, q) ==
    Turn(c, IF orders[<<m[1], q.orderNo>>] = None THEN ErrorResponse("ErrOrderNotFound")
            ELSE [status |-> 200, replayed |-> FALSE, high |-> FALSE])

\* A request q comes with the session of member m; reading the session, the
\* role or the order may fail.
Admit(c, m, q) ==
    /\ pc[c] \in {"Idle", "Done"}
    /\ LET verdict == GuardVerdict(m, q) IN
       \/ Turn(c, ErrorResponse("ErrInternal"))
       \/ verdict # "OK" /\ Turn(c, ErrorResponse(verdict))
       \/ verdict = "OK" /\ q.op = "get_order" /\ GetOrder(c, m, q)
       \/ /\ verdict = "OK"
          /\ q.op # "get_order"
          /\ Begin(c, CommandOf(m, q))
          /\ actor' = [actor EXCEPT ![c] = m]
          /\ HandlerAnswers(c)
    /\ UNCHANGED directoryVars

-----------------------------------------------------------------------------
(* The service at work, over tables whose foreign keys ask that whoever     *)
(* acts is a member.                                                        *)

\* A creation or a receipt inserts its key's record before it is refused for
\* anything but the request's row; a review inserts its approval last.
InsertsForeignKey(c) ==
    \/ pc[c] \in {"CreateRefundRequest", "RecordRefundTransaction"}
    \/ ledgerVars' # ledgerVars

Serve(c) ==
    /\ \/ CallStep(c) /\ (InsertsForeignKey(c) => IsMember(<<cmd[c].tenant, cmd[c].by>>))
       \/ CallFails(c)
    /\ HandlerAnswers(c)
    /\ UNCHANGED <<actor, directoryVars>>

DeskRestart ==
    /\ Restart
    /\ actor' = [c \in Calls |-> None]
    /\ response' = [c \in Calls |-> None]
    /\ UNCHANGED directoryVars

OrderSystem ==
    /\ \E k \in OrderKeys, order \in OrderVersions : OrderChanges(k, order)
    /\ UNCHANGED <<directoryVars, handlerVars>>

-----------------------------------------------------------------------------
(* The administrator *)

Change ==
    /\ changes < MaxChanges
    /\ changes' = changes + 1
    /\ UNCHANGED <<orders, callVars, processVars, handlerVars>>

\* Hires a member, or gives one another role.
AssignRole(m, r) ==
    /\ Change
    /\ roleOf[m] # r
    /\ roleOf' = [roleOf EXCEPT ![m] = r]
    /\ UNCHANGED <<ledgerVars, grants>>

RevokePermission(r, p) ==
    /\ Change
    /\ p \in grants[r]
    /\ grants' = [grants EXCEPT ![r] = @ \ {p}]
    /\ UNCHANGED <<ledgerVars, roleOf>>

\* Rows that name a member and keep the member's row from being deleted.
HasActed(m) ==
    \E k \in {r \in RequestKeys : r[1] = m[1] /\ requests[r] # None} :
        \/ requests[k].submittedBy = m[2]
        \/ \E i \in DOMAIN approvals[k] : approvals[k][i].decisionBy = m[2]
        \/ \E i \in DOMAIN transactions[k] : transactions[k][i].processedBy = m[2]

RecordsWithout(m) ==
    [s \in Scopes |-> IF <<s[1], s[2]>> = m THEN None ELSE idempotencyRecords[s]]

\* Mutant: the members' rows in requests, approvals, receipts and audit
\* entries are not foreign keys.
RemoveMember_Acted(m) ==
    /\ Change
    /\ IsMember(m)
    /\ roleOf' = [roleOf EXCEPT ![m] = None]
    /\ idempotencyRecords' = RecordsWithout(m)
    /\ UNCHANGED <<requests, approvals, transactions, providerRefundNo, auditLogs, grants>>

\* ON DELETE CASCADE takes the member's idempotency records along.
RemoveMember(m) ==
    /\ Change
    /\ IsMember(m)
    /\ ~ HasActed(m)
    /\ roleOf' = [roleOf EXCEPT ![m] = None]
    /\ idempotencyRecords' = RecordsWithout(m)
    /\ UNCHANGED <<requests, approvals, transactions, providerRefundNo, auditLogs, grants>>

Administration ==
    \/ \E m \in Members : RemoveMember(m)
    \/ \E m \in Members, r \in Roles : AssignRole(m, r)
    \/ \E r \in Roles, p \in Permissions : RevokePermission(r, p)

DeskNext ==
    \/ \E c \in Calls, a \in Requests : Admit(c, a[1], a[2])
    \/ \E c \in Calls : Serve(c)
    \/ DeskRestart
    \/ OrderSystem
    \/ Administration

DeskSpec == DeskInit /\ [][DeskNext]_deskVars
===============================================================================
