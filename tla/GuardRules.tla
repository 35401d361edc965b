------------------------------ MODULE GuardRules ------------------------------
(***************************************************************************)
(* Which permissions open which route, and the level a reviewer decides    *)
(* at: the pure rules of the guard of internal/httpapi/server.go, for      *)
(* AuthSessions and for RefundDesk.                                        *)
(***************************************************************************)
EXTENDS Integers

Permissions ==
    {"order:read", "refund_request:create", "refund_request:read",
     "refund_request:review", "refund_request:high_amount_review",
     "refund_transaction:write", "tenant_member:manage"}

\* The permissions a route asks for: any one of them admits.
Needed(op) ==
    CASE op = "get_order" -> {"order:read"}
      [] op = "create"    -> {"refund_request:create"}
      [] op = "get"       -> {"refund_request:read"}
      [] op = "review"    -> {"refund_request:review", "refund_request:high_amount_review"}
      [] op = "record"    -> {"refund_transaction:write"}

GuardedOps == {"get_order", "create", "get", "review", "record"}

\* Mutant: a reviewer who names no level leaves the choice to the service.
ReviewLevel_Any(permissions, requested) == requested

\* A reviewer who names no level gets the first one he may decide.
ReviewLevel(permissions, requested) ==
    IF requested # 0 THEN requested
    ELSE IF "refund_request:review" \notin permissions THEN 2 ELSE 1

\* Mutant: the level is not checked to be one.
LevelRefusal_NoRange(permissions, requested) ==
    IF \/ requested = 1 /\ "refund_request:review" \notin permissions
       \/ requested = 2 /\ "refund_request:high_amount_review" \notin permissions
    THEN "ErrPermissionDenied" ELSE "OK"

LevelRefusal(permissions, requested) ==
    IF requested \notin 0 .. 2 THEN "ErrApprovalLevelInvalid"
    ELSE IF \/ requested = 1 /\ "refund_request:review" \notin permissions
            \/ requested = 2 /\ "refund_request:high_amount_review" \notin permissions
         THEN "ErrPermissionDenied"
    ELSE "OK"

GuardRefusal(m, permissions) ==
    IF Needed(m.op) \cap permissions = {} THEN "ErrPermissionDenied"
    ELSE IF m.op = "review" THEN LevelRefusal(permissions, m.level)
    ELSE "OK"

\* The right a handler relies on: for a review, the permission of its level.
RightFor(op, level) ==
    IF op # "review" THEN Needed(op)
    ELSE {IF level = 1 THEN "refund_request:review"
          ELSE "refund_request:high_amount_review"}
===============================================================================
