----------------------------- MODULE RefundDomain -----------------------------
(***************************************************************************)
(* The values the refund desk works with: orders, refund requests,         *)
(* approvals, refund transactions, audit entries, idempotency scopes and   *)
(* the commands of its users, with the pure rules of internal/domain and   *)
(* of internal/refund/service.go.                                          *)
(*                                                                         *)
(* Amounts are natural numbers (the code's int64 minor units; it only      *)
(* compares them and subtracts one from another).  Times, currencies,      *)
(* reason codes, comments and providers' names carry no decision and are   *)
(* left out; ids that are functions of other fields are those fields.      *)
(***************************************************************************)
EXTENDS Integers, Sequences, FiniteSetsExt

CONSTANTS
    Tenants,            \* tenant ids
    Users,              \* user ids: submitters, reviewers, finance operators
    OrderNos,           \* external order numbers
    Keys,               \* Idempotency-Key header values
    ProviderRefundNos,  \* provider together with provider_refund_no
    MaxRequestNo,       \* bound: request numbers drawn per tenant and process
    None                \* no row, no value

ASSUME MaxRequestNoAssumption == MaxRequestNo \in Nat \ {0}

RequestNos == 1 .. MaxRequestNo
OrderKeys == Tenants \X OrderNos
RequestKeys == Tenants \X RequestNos

-----------------------------------------------------------------------------
(* Orders. *)

PaymentStatuses == {"PENDING", "PAID"}
FulfillmentStatuses == {"NOT_SHIPPED", "SHIPPED", "DELIVERED", "UNKNOWN"}

Order == [paid: Nat, refunded: Nat,
          payment: PaymentStatuses, fulfillment: FulfillmentStatuses]

RefundableAmount(order) ==
    IF order.paid < order.refunded THEN 0 ELSE order.paid - order.refunded

CanRequestUnshippedRefund(order) ==
    /\ order.payment = "PAID"
    /\ order.fulfillment = "NOT_SHIPPED"
    /\ RefundableAmount(order) > 0

-----------------------------------------------------------------------------
(* Refund requests, their approvals, transactions and audit entries. *)

\* DRAFT, PROCESSING and CANCELLED are declared too, but no code assigns them.
RequestStatuses ==
    {"PENDING_REVIEW", "APPROVED", "REJECTED", "SUCCEEDED", "FAILED", "PROCESSING"}

IsActiveStatus(status) == status \in {"PENDING_REVIEW", "APPROVED", "PROCESSING"}

Request == [no: RequestNos, orderNo: OrderNos, snapshot: Order, amount: Nat,
            status: RequestStatuses, submittedBy: Users]

Levels == 1 .. 2
Approval == [level: Levels, status: {"APPROVED", "REJECTED"}, decisionBy: Users]

TransactionStatuses == {"SUCCEEDED", "FAILED"}
Transaction == [providerRefundNo: ProviderRefundNos \cup {None}, amount: Nat,
                status: TransactionStatuses, processedBy: Users]

\* before = "NONE" is the empty BeforeData of a creation.
AuditLog == [before: RequestStatuses \cup {"NONE"}, after: RequestStatuses,
             operator: Users]

\* Mutant: the threshold itself counts as below it.
RequiresHighAmountApproval_Above(amount, threshold) == amount > threshold

RequiresHighAmountApproval(amount, threshold) == amount >= threshold

\* One above the highest level on record; a request below the threshold has
\* one level only, whatever was recorded.
NextApprovalLevel(amount, list, threshold) ==
    IF ~ RequiresHighAmountApproval(amount, threshold) THEN 1
    ELSE Max({1} \cup {list[i].level + 1 : i \in DOMAIN list})

\* Mutant: in a decision the threshold itself counts as below it.
ReviewedStatus_Strict(decision, amount, level, threshold) ==
    CASE decision = "REJECTED" -> "REJECTED"
      [] decision = "APPROVED" /\ amount > threshold /\ level = 1 -> "PENDING_REVIEW"
      [] OTHER                                                   -> "APPROVED"

\* The status a decision at a level leads to.
ReviewedStatus(decision, amount, level, threshold) ==
    CASE decision = "REJECTED" -> "REJECTED"
      [] /\ decision = "APPROVED"
         /\ RequiresHighAmountApproval(amount, threshold)
         /\ level = 1                                     -> "PENDING_REVIEW"
      [] OTHER                                            -> "APPROVED"

-----------------------------------------------------------------------------
(* Commands.  complete = FALSE stands for a blank or over-long text field. *)

CreateCommand ==
    [op: {"create"}, tenant: Tenants, by: Users, key: Keys, orderNo: OrderNos,
     amount: Nat, complete: BOOLEAN]
ReviewCommand ==
    [op: {"review"}, tenant: Tenants, by: Users, requestNo: RequestNos,
     decision: {"APPROVED", "REJECTED"}, level: Int, complete: BOOLEAN]
RecordCommand ==
    [op: {"record"}, tenant: Tenants, by: Users, key: Keys, requestNo: RequestNos,
     amount: Nat, providerRefundNo: ProviderRefundNos \cup {None},
     status: TransactionStatuses, complete: BOOLEAN]
GetCommand == [op: {"get"}, tenant: Tenants, requestNo: RequestNos]

Command == CreateCommand \cup ReviewCommand \cup RecordCommand \cup GetCommand

\* The checks a service method makes before it reads anything.
CreateIsValid(m) == m.complete /\ m.amount > 0
ReviewIsValid(m) == m.complete /\ m.level \in 0 .. 2
RecordIsValid(m) == /\ m.complete
                    /\ m.amount > 0
                    /\ m.status = "SUCCEEDED" => m.providerRefundNo # None

IsValid(m) ==
    CASE m.op = "create" -> CreateIsValid(m)
      [] m.op = "review" -> ReviewIsValid(m)
      [] m.op = "record" -> RecordIsValid(m)
      [] OTHER           -> TRUE

RequestKey(m) == <<m.tenant, m.requestNo>>

-----------------------------------------------------------------------------
(* Idempotency: tenant, actor, operation and key scope a record; the hash   *)
(* is the business fields it digests, taken as free of collisions.          *)

Operations == {"create", "record"}
Scopes == Tenants \X Users \X Operations \X Keys
Scope(m) == <<m.tenant, m.by, m.op, m.key>>

CreateHash == [orderNo: OrderNos, amount: Nat, by: Users]
RecordHash == [requestNo: RequestNos, providerRefundNo: ProviderRefundNos \cup {None},
               amount: Nat, status: TransactionStatuses, by: Users]

CreateRequestHash(m) == [orderNo |-> m.orderNo, amount |-> m.amount, by |-> m.by]
RecordTransactionHash(m) ==
    [requestNo |-> m.requestNo, providerRefundNo |-> m.providerRefundNo,
     amount |-> m.amount, status |-> m.status, by |-> m.by]

RequestHash(m) ==
    IF m.op = "create" THEN CreateRequestHash(m) ELSE RecordTransactionHash(m)

IdempotencyRecord ==
    [hash: CreateHash \cup RecordHash, request: Request,
     transaction: Transaction \cup {None}]

ASSUME NoneAssumption ==
    /\ None \notin ProviderRefundNos
    /\ None \notin Order
    /\ None \notin Request
    /\ None \notin Transaction
    /\ None \notin IdempotencyRecord
    /\ None \notin Command
=============================================================================
