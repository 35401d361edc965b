--------------------------- MODULE RefundDeskProofs ---------------------------
(***************************************************************************)
(* The refund desk behind its HTTP interface keeps every promise of the    *)
(* refund service, although members are dismissed with their idempotency   *)
(* records and change roles while their requests are served; what stands   *)
(* on record was written by members entitled to it; a response's status    *)
(* tells its client what became of the request; and what it tells of the   *)
(* approvals a request needs is what reviews go by.                        *)
(***************************************************************************)
EXTENDS RefundDeskProperties, RefundLedgerProofs

-----------------------------------------------------------------------------
(* The service's invariants, together *)

ServiceInv ==
    /\ ReviewInv /\ ReceiptInv /\ Numbered /\ EffectsOnce /\ Clean /\ Named
    /\ InformedInv /\ SnapshotsSeen /\ TrailInv /\ OneActivePerOrder
    /\ Results /\ Gets /\ FirstResults /\ Causes

LEMMA InitService == Init => ServiceInv
BY InitReview, InitReceipts, InitEffects, InitRetries, InitInformed, InitLedger, InitTrail,
   InitActive, InitResults, InitFirstResults, InitCauses
   DEF ServiceInv, ActiveInv

LEMMA NextService ==
    ASSUME ServiceInv, [Next]_vars
    PROVE  ServiceInv'
<1>t. /\ TypeInv /\ SettledByReceipt /\ CallsRecord /\ Registered /\ ProviderRefundNosUnique
      /\ InformedInv
  BY DEF ServiceInv, ReviewInv, ReceiptInv
<1>1. ReviewInv' /\ TypeInv'
  BY NextReview DEF ServiceInv, ReviewInv
<1>2. ReceiptInv'
  BY <1>1, NextReceipts DEF ServiceInv
<1>3. Numbered' /\ EffectsOnce'
  BY <1>t, <1>1, NextNumbered, NextEffects DEF ServiceInv
<1>4. Clean' /\ Named'
  BY <1>t, NextClean, NextNamed DEF ServiceInv
<1>5. InformedInv' /\ SnapshotsSeen' /\ TrailInv'
  BY <1>t, <1>1, NextInformedInv, NextSnapshots, NextTrail DEF ServiceInv
<1>6. OneActivePerOrder'
  BY <1>t, NextActive DEF ServiceInv, ActiveInv
<1>7. Results' /\ Gets' /\ FirstResults'
  BY <1>t, NextResults, NextGets, NextFirstResults DEF ServiceInv
<1>8. Causes'
  BY <1>t, NextCauses DEF ServiceInv
<1> QED BY <1>1, <1>2, <1>3, <1>4, <1>5, <1>6, <1>7, <1>8 DEF ServiceInv

-----------------------------------------------------------------------------
(* Requests that are answered without the service *)

\* What the service sees of it: a call that was done is idle again.
Turned(c) ==
    /\ pc[c] \in {"Idle", "Done"}
    /\ pc' = [pc EXCEPT ![c] = "Idle"]
    /\ cmd' = [cmd EXCEPT ![c] = None]
    /\ reply' = [reply EXCEPT ![c] = NoReply]
    /\ UNCHANGED <<storeVars, request, level, processVars>>

LEMMA TurnedStands ==
    ASSUME TypeInv, NEW c \in Calls, Turned(c)
    PROVE  /\ pc'[c] = "Idle" /\ cmd'[c] = None
           /\ \A d \in Calls : d # c => StandsStill(d)
           /\ storeVars' = storeVars /\ threshold' = threshold
<1> USE DEF TypeInv, TypeOK, CallTypeOK, Turned, StandsStill, Stands, processVars
<1> QED OBVIOUS

LEMMA TurnedType ==
    ASSUME TypeInv, NEW c \in Calls, Turned(c)
    PROVE  TypeInv'
<1> USE DEF TypeInv
<1>1. StoreTypeOK' /\ ProcessTypeOK'
  BY UnchangedTypes DEF Turned, TypeOK
<1>2. CallTypeOK'
  <2>1. NoReply \in Reply
    BY ReplyTypes
  <2> QED BY <2>1 DEF Turned, TypeOK, CallTypeOK
<1>3. CallsHold'
  BY SMT DEF Turned, TypeOK, CallTypeOK, CallsHold, CreateCalls, ReviewCalls, RecordCalls,
     DetailCalls, CarryingCalls
<1> QED BY <1>1, <1>2, <1>3 DEF TypeOK

\* What is said of the store alone does not change with it.
LEMMA StoreStands ==
    ASSUME storeVars' = storeVars
    PROVE  /\ DutiesSeparated => DutiesSeparated'
           /\ StatusFollowsApprovals => StatusFollowsApprovals'
           /\ SettledByReceipt => SettledByReceipt'
           /\ Registered => Registered'
           /\ ProviderRefundNosUnique => ProviderRefundNosUnique'
           /\ Numbered => Numbered'
           /\ EffectsOnce => EffectsOnce'
           /\ Named => Named'
           /\ OrdersSeen => OrdersSeen'
           /\ SnapshotsSeen => SnapshotsSeen'
           /\ TrailInv => TrailInv'
           /\ OneActivePerOrder => OneActivePerOrder'
           /\ Results => Results'
<1>1. /\ orders' = orders /\ requests' = requests /\ approvals' = approvals
      /\ transactions' = transactions /\ providerRefundNo' = providerRefundNo
      /\ auditLogs' = auditLogs /\ idempotencyRecords' = idempotencyRecords
  BY DEF storeVars, ledgerVars
<1> USE <1>1 DEF Exists
<1>2. DutiesSeparated => DutiesSeparated'
  BY DEF DutiesSeparated
<1>3. StatusFollowsApprovals => StatusFollowsApprovals'
  BY DEF StatusFollowsApprovals
<1>4. SettledByReceipt => SettledByReceipt'
  BY DEF SettledByReceipt
<1>5. Registered => Registered'
  BY DEF Registered
<1>6. ProviderRefundNosUnique => ProviderRefundNosUnique'
  BY DEF ProviderRefundNosUnique
<1>7. (Numbered => Numbered') /\ (EffectsOnce => EffectsOnce') /\ (Named => Named')
  BY DEF Numbered, EffectsOnce, Named, Told, Written
<1>8. (OrdersSeen => OrdersSeen') /\ (SnapshotsSeen => SnapshotsSeen')
  BY DEF OrdersSeen, SnapshotsSeen
<1>9. TrailInv => TrailInv'
  BY DEF TrailInv, TrailsBegin, AuditTrailComplete
<1>10. OneActivePerOrder => OneActivePerOrder'
  BY DEF OneActivePerOrder
<1>11. Results => Results'
  BY DEF Results, Told
<1> QED BY <1>2, <1>3, <1>4, <1>5, <1>6, <1>7, <1>8, <1>9, <1>10, <1>11

\* Nor does what is said of a call that stands still.
LEMMA CallStands ==
    ASSUME storeVars' = storeVars, threshold' = threshold, NEW c \in Calls, StandsStill(c)
    PROVE  /\ CallReviews(c) => CallReviews(c)'
           /\ Informed(c) => Informed(c)'
           /\ FirstResult(c) => FirstResult(c)'
           /\ ShowsCause(c) => ShowsCause(c)'
<1>1. /\ requests' = requests /\ approvals' = approvals
      /\ transactions' = transactions /\ idempotencyRecords' = idempotencyRecords
  BY DEF storeVars, ledgerVars
<1>2. /\ pc'[c] = pc[c] /\ cmd'[c] = cmd[c] /\ request'[c] = request[c]
      /\ level'[c] = level[c] /\ reply'[c] = reply[c]
  BY DEF StandsStill, Stands
<1> USE <1>1, <1>2
<1>3. CallReviews(c) => CallReviews(c)'
  BY DEF CallReviews, Reviewing, Deciding, Exists
<1>4. Informed(c) => Informed(c)'
  BY DEF Informed
<1>5. FirstResult(c) => FirstResult(c)'
  BY DEF FirstResult, HoldsResult, Holding, Answered, Shown, IdempotencyHit, IdempotencyMiss
<1>6. ShowsCause(c) => ShowsCause(c)'
  BY DEF ShowsCause, Holding, Answered, Shown, Timeline, Payments, Has, Decides
<1> QED BY <1>3, <1>4, <1>5, <1>6

LEMMA TurnedService ==
    ASSUME ServiceInv, NEW c \in Calls, Turned(c)
    PROVE  ServiceInv'
<1>1. /\ TypeInv /\ TypeInv' /\ storeVars' = storeVars /\ threshold' = threshold
      /\ pc'[c] = "Idle" /\ cmd'[c] = None
      /\ \A d \in Calls : d # c => StandsStill(d)
  BY TurnedStands, TurnedType DEF ServiceInv, ReviewInv
<1>2. requests' = requests
  BY <1>1 DEF storeVars, ledgerVars
<1>3. ReviewInv'
  <2>1. CallReviews(c)'
    BY <1>1 DEF CallReviews
  <2>2. CallsReview'
    BY <1>1, <2>1, CallStands DEF ServiceInv, ReviewInv, CallsReview
  <2> QED BY <1>1, <2>2, StoreStands DEF ServiceInv, ReviewInv
<1>4. ReceiptInv'
  <2>1. CallsRecord'
    BY <1>1, <1>2 DEF ServiceInv, ReceiptInv, CallsRecord, Exists, StandsStill, Stands
  <2> QED BY <1>1, <2>1, StoreStands DEF ServiceInv, ReceiptInv
<1>5. Clean' /\ Gets'
  BY <1>1 DEF ServiceInv, Clean, Gets, RepositoryCalls, StandsStill, Stands
<1>6. InformedInv'
  <2>1. Valid'
    BY <1>1 DEF ServiceInv, InformedInv, Valid, RepositoryCalls, StandsStill, Stands
  <2>2. Informed(c)'
    BY <1>1 DEF Informed
  <2> QED BY <1>1, <2>1, <2>2, StoreStands, CallStands DEF ServiceInv, InformedInv
<1>7. ~ HoldsResult(c)' /\ ~ Holding(c)'
  BY <1>1 DEF HoldsResult, Holding, Answered
<1>8. FirstResults'
  <2>1. \A d \in Calls : FirstResult(d)'
    BY <1>1, <1>7, CallStands DEF ServiceInv, FirstResults, FirstResult
  <2>2. \A d \in Calls : d # c => /\ HoldsResult(d)' <=> HoldsResult(d)
                                  /\ reply'[d] = reply[d] /\ cmd'[d] = cmd[d]
    BY <1>1 DEF HoldsResult, Holding, Answered, StandsStill, Stands
  <2>3. ASSUME NEW d \in Calls, NEW e \in Calls PROVE OneFirst(d, e)'
    BY <1>7, <2>2 DEF ServiceInv, FirstResults, OneFirst
  <2> QED BY <2>1, <2>3 DEF FirstResults
<1>9. Causes'
  BY <1>1, <1>7, CallStands DEF ServiceInv, Causes, ShowsCause
<1> QED BY <1>1, <1>3, <1>4, <1>5, <1>6, <1>8, <1>9, StoreStands DEF ServiceInv

-----------------------------------------------------------------------------
(* Dismissals *)

\* A first result on record tells of a write of its scope's own member.
Owned ==
    \A s \in Scopes : Told(s) =>
        /\ s[3] = "create" => requests[Written(s)].submittedBy = s[2]
        /\ s[3] = "record" => idempotencyRecords[s].transaction.processedBy = s[2]

LEMMA NextOwned ==
    ASSUME ServiceInv, Owned, [Next]_vars
    PROVE  Owned'
<1>t. TypeInv
  BY DEF ServiceInv, ReviewInv
<1>1. ASSUME NEW s \in Scopes, Told(s)
      PROVE  /\ idempotencyRecords'[s] = idempotencyRecords[s]
             /\ s[3] = "create" => requests'[Written(s)].submittedBy = requests[Written(s)].submittedBy
  <2>1. idempotencyRecords'[s] = idempotencyRecords[s]
    BY <1>t, <1>1, RecordsStay DEF Told
  <2>2. ASSUME s[3] = "create"
        PROVE  requests'[Written(s)].submittedBy = requests[Written(s)].submittedBy
    <3>1. Written(s) \in RequestKeys /\ Exists(Written(s))
      BY <1>t, <1>1, <2>2, WrittenType DEF ServiceInv, EffectsOnce
    <3>2. requests[Written(s)] \in Request
      BY <1>t, <3>1 DEF TypeInv, TypeOK, StoreTypeOK, Exists
    <3>3. CASE requests'[Written(s)] = requests[Written(s)]
      BY <3>3
    <3>4. ASSUME NEW status \in RequestStatuses,
                 requests'[Written(s)] = [requests[Written(s)] EXCEPT !.status = status]
          PROVE  requests'[Written(s)].submittedBy = requests[Written(s)].submittedBy
      BY <3>2, <3>4, StatusChange
    <3> QED BY <1>t, <3>1, <3>3, <3>4, RequestSteps
  <2> QED BY <2>1, <2>2
<1>2. ASSUME NEW s \in Scopes, ~ Told(s), Told(s)'
      PROVE  /\ s[3] = "create" => requests'[Written(s)'].submittedBy = s[2]
             /\ s[3] = "record" => idempotencyRecords'[s].transaction.processedBy = s[2]
  <2>1. ~ UNCHANGED ledgerVars
    BY <1>2 DEF Told, ledgerVars
  <2>2. ASSUME NEW c \in Calls, Creates(c)
        PROVE  /\ s[3] = "create" => requests'[Written(s)'].submittedBy = s[2]
               /\ s[3] = "record" => idempotencyRecords'[s].transaction.processedBy = s[2]
    <3> DEFINE m == cmd[c]
               k == <<m.tenant, request[c].no>>
    <3>0. /\ k \in RequestKeys /\ m \in CreateCommand
          /\ \A j \in RequestKeys : requests'[j] = IF j = k THEN request[c] ELSE requests[j]
          /\ \A u \in Scopes : idempotencyRecords'[u] =
                 IF u = Scope(m)
                 THEN [hash |-> RequestHash(m), request |-> request[c], transaction |-> None]
                 ELSE idempotencyRecords[u]
      BY <1>t, <2>2, CreateEffect
    <3>1. /\ requests'[k] = request[c]
          /\ s = Scope(m) /\ idempotencyRecords'[s].request = request[c]
      BY <1>2, <3>0 DEF Told
    <3>2. request[c].submittedBy = m.by
      BY <2>2 DEF ServiceInv, InformedInv, Informed, Creates
    <3>3. s[1] = m.tenant /\ s[2] = m.by /\ s[3] = "create"
      BY <3>0, <3>1 DEF Scope, CreateCommand
    <3>4. Written(s)' = k
      BY <3>1, <3>3 DEF Written
    <3> QED BY <3>1, <3>2, <3>3, <3>4
  <2>3. ASSUME NEW c \in Calls, Records(c)
        PROVE  /\ s[3] = "create" => requests'[Written(s)'].submittedBy = s[2]
               /\ s[3] = "record" => idempotencyRecords'[s].transaction.processedBy = s[2]
    <3> DEFINE m == cmd[c]
    <3>0. /\ m \in RecordCommand
          /\ \A u \in Scopes : idempotencyRecords'[u] =
                 IF u = Scope(m)
                 THEN [hash |-> RequestHash(m),
                       request |-> [requests[RequestKey(m)] EXCEPT !.status = m.status],
                       transaction |-> TransactionOf(m)]
                 ELSE idempotencyRecords[u]
      BY <1>t, <2>3, RecordEffect
    <3>1. s = Scope(m) /\ idempotencyRecords'[s].transaction = TransactionOf(m)
      BY <1>2, <3>0 DEF Told
    <3>2. s[2] = m.by /\ s[3] = "record"
      BY <3>0, <3>1 DEF Scope, RecordCommand
    <3> QED BY <3>1, <3>2 DEF TransactionOf
  <2>4. ASSUME NEW c \in Calls, Reviews(c) PROVE FALSE
    BY <1>t, <1>2, <2>4, ReviewEffect DEF Told
  <2> QED BY <2>1, <2>2, <2>3, <2>4, WriteSteps
<1>3. \A s \in Scopes : Told(s) => Told(s)' /\ Written(s)' = Written(s)
  BY <1>1 DEF Told, Written
<1> QED BY <1>1, <1>2, <1>3 DEF Owned

\* Whoever may be dismissed has no first result on record to lose.
LEMMA NoRecordsLost ==
    ASSUME ServiceInv, Owned, NEW m \in Members, ~ HasActed(m)
    PROVE  RecordsWithout(m) = idempotencyRecords
<1>1. idempotencyRecords \in [Scopes -> IdempotencyRecord \cup {None}]
  BY DEF ServiceInv, ReviewInv, TypeInv, TypeOK, StoreTypeOK
<1>2. ASSUME NEW s \in Scopes, <<s[1], s[2]>> = m, Told(s) PROVE FALSE
  <2>1. s[3] \in {"create", "record"} /\ s[1] = m[1] /\ s[2] = m[2]
    BY <1>2 DEF Scopes, Operations, Members
  <2>2. Written(s) \in RequestKeys /\ Written(s)[1] = m[1]
    BY <1>2, <2>1, WrittenType DEF ServiceInv, ReviewInv, Written
  <2>3. CASE s[3] = "create"
    BY <1>2, <2>1, <2>2, <2>3 DEF ServiceInv, EffectsOnce, Owned, HasActed, Exists
  <2>4. CASE s[3] = "record"
    <3>1. /\ transactions[Written(s)] # <<>>
          /\ idempotencyRecords[s].transaction \in Range(transactions[Written(s)])
      BY <1>2, <2>4 DEF ServiceInv, EffectsOnce
    <3>2. Exists(Written(s))
      BY <2>2, <3>1 DEF ServiceInv, ReceiptInv, SettledByReceipt
    <3>3. PICK i \in DOMAIN transactions[Written(s)] :
              transactions[Written(s)][i] = idempotencyRecords[s].transaction
      BY <3>1 DEF Range
    <3> QED BY <1>2, <2>1, <2>2, <2>4, <3>2, <3>3 DEF Owned, HasActed, Exists
  <2> QED BY <2>1, <2>3, <2>4
<1>3. \A s \in Scopes : <<s[1], s[2]>> = m => idempotencyRecords[s] = None
  BY <1>2 DEF Told
<1> QED BY <1>1, <1>3 DEF RecordsWithout

-----------------------------------------------------------------------------
(* The desk's steps are the service's *)

DirectoryTyped ==
    /\ roleOf \in [Members -> Roles \cup {None}]
    /\ grants \in [Roles -> SUBSET Permissions]
    /\ changes \in 0 .. MaxChanges
    /\ actor \in [Calls -> Members \cup {None}]
    /\ response \in [Calls -> Response \cup {None}]

DeskInv == ServiceInv /\ Owned /\ DirectoryTyped

LEMMA ResponseType ==
    /\ \A e : ErrorResponse(e) \in Response
    /\ \A m \in Command, r \in Reply : ResponseTo(m, r) \in Response
    /\ [status |-> 200, replayed |-> FALSE, high |-> FALSE] \in Response
<1>1. \A e : ErrorStatus(e) \in Statuses
  BY DEF ErrorStatus, Statuses
<1>2. \A e : ErrorResponse(e) \in Response
  BY <1>1 DEF ErrorResponse, Response
<1>3. ASSUME NEW m \in Command, NEW r \in Reply PROVE ResponseTo(m, r) \in Response
  <2>1. r.replayed \in BOOLEAN
    BY DEF Reply
  <2>2. RequiresHighAmountApproval(r.request.amount, threshold) \in BOOLEAN
    BY DEF RequiresHighAmountApproval
  <2> QED BY <1>2, <2>1, <2>2 DEF ResponseTo, Response, Statuses
<1> QED BY <1>2, <1>3 DEF Response, Statuses

\* A request is answered at once, or its command begins.
Begun(c, m, q) ==
    /\ GuardVerdict(m, q) = "OK"
    /\ q.op # "get_order"
    /\ Begin(c, CommandOf(m, q))
    /\ actor' = [actor EXCEPT ![c] = m]
    /\ HandlerAnswers(c)

LEMMA AdmissionCases ==
    ASSUME NEW c \in Calls, NEW m, NEW q, Admit(c, m, q)
    PROVE  /\ pc[c] \in {"Idle", "Done"}
           /\ UNCHANGED directoryVars
           /\ Begun(c, m, q) \/ \E r \in Response : Turn(c, r)
BY ResponseType, Zenon DEF Admit, Begun, GetOrder

\* A request the guard lets in comes from a member with a role, and its
\* command is one the service knows.
LEMMA CommandServed ==
    ASSUME DirectoryTyped, NEW a \in Requests, GuardVerdict(a[1], a[2]) = "OK"
    PROVE  /\ a[1] \in Members /\ IsMember(a[1]) /\ roleOf[a[1]] \in Roles
           /\ grants[roleOf[a[1]]] \in SUBSET Permissions
           /\ GuardRefusal(a[2], grants[roleOf[a[1]]]) = "OK"
           /\ a[2].op # "get_order" => CommandOf(a[1], a[2]) \in Commands
<1>1. a[1] \in Members
  BY DeskAssumption
<1>2. IsMember(a[1]) /\ GuardRefusal(a[2], grants[roleOf[a[1]]]) = "OK"
  BY Zenon DEF GuardVerdict
<1>3. roleOf[a[1]] \in Roles
  BY <1>1, <1>2 DEF DirectoryTyped, IsMember
<1>4. grants[roleOf[a[1]]] \in SUBSET Permissions
  BY <1>3 DEF DirectoryTyped
<1> QED BY <1>1, <1>2, <1>3, <1>4, HandlerAssumption, Zenon DEF CommandOf

\* Whoever is dismissed takes nothing along that a call of the service sees.
LEMMA DismissalStands ==
    ASSUME ServiceInv, Owned, NEW m \in Members, RemoveMember(m)
    PROVE  UNCHANGED vars
BY NoRecordsLost DEF RemoveMember, Change, vars, storeVars, ledgerVars

LEMMA DeskSteps ==
    ASSUME DeskInv, [DeskNext]_deskVars
    PROVE  [Next]_vars \/ \E c \in Calls : Turned(c)
<1>1. ASSUME NEW c \in Calls, NEW a \in Requests, Admit(c, a[1], a[2])
      PROVE  Turned(c) \/ Next
  <2>1. ASSUME NEW r, pc[c] \in {"Idle", "Done"}, Turn(c, r) PROVE Turned(c)
    BY <2>1 DEF Turn, Turned
  <2>2. ASSUME Begun(c, a[1], a[2]) PROVE Next
    <3>1. Begin(c, CommandOf(a[1], a[2])) /\ CommandOf(a[1], a[2]) \in Commands
      BY <2>2, CommandServed DEF Begun, DeskInv
    <3> QED BY <3>1, Zenon DEF Next
  <2>3. /\ pc[c] \in {"Idle", "Done"}
        /\ Begun(c, a[1], a[2]) \/ \E r \in Response : Turn(c, r)
    BY <1>1, AdmissionCases, Zenon
  <2> QED BY <2>1, <2>2, <2>3
<1>2. ASSUME NEW c \in Calls, Serve(c) PROVE Next
  BY <1>2, Zenon DEF Serve, Next
<1>3. CASE DeskRestart \/ OrderSystem
  BY <1>3, Zenon DEF DeskRestart, OrderSystem, Next
<1>4. CASE Administration
  <2>1. ASSUME NEW m \in Members, NEW r \in Roles, AssignRole(m, r) PROVE UNCHANGED vars
    BY <2>1 DEF AssignRole, Change, vars, storeVars
  <2>2. ASSUME NEW r \in Roles, NEW p \in Permissions, RevokePermission(r, p)
        PROVE  UNCHANGED vars
    BY <2>2 DEF RevokePermission, Change, vars, storeVars
  <2> QED BY <1>4, <2>1, <2>2, DismissalStands DEF Administration, DeskInv
<1>5. CASE UNCHANGED deskVars
  BY <1>5 DEF deskVars
<1> QED BY <1>1, <1>2, <1>3, <1>4, <1>5 DEF DeskNext

-----------------------------------------------------------------------------
(* Types *)

\* A call that has work to do has its command; so has one that is done.
LEMMA CommandHeld ==
    ASSUME TypeInv, NEW c \in Calls, pc[c] \in RepositoryCalls
    PROVE  cmd[c] \in Command
BY DEF TypeInv, CallsHold, RepositoryCalls, CreateCalls, ReviewCalls, RecordCalls, DetailCalls,
   Command

LEMMA HandlerTyped ==
    ASSUME DirectoryTyped, TypeInv', NEW c \in Calls, cmd'[c] \in Command, HandlerAnswers(c)
    PROVE  response' \in [Calls -> Response \cup {None}]
<1>1. reply'[c] \in Reply
  BY DEF TypeInv, TypeOK, CallTypeOK
<1>2. ResponseTo(cmd'[c], reply'[c]) \in Response
  BY <1>1, ResponseType, Zenon
<1> QED BY <1>2 DEF HandlerAnswers, DirectoryTyped

LEMMA NextDirectory ==
    ASSUME DeskInv, TypeInv', [DeskNext]_deskVars
    PROVE  DirectoryTyped'
<1> USE DEF DirectoryTyped
<1>1. ASSUME NEW c \in Calls, NEW a \in Requests, Admit(c, a[1], a[2])
      PROVE  DirectoryTyped'
  <2>1. ASSUME NEW r \in Response, Turn(c, r), UNCHANGED directoryVars
        PROVE  DirectoryTyped'
    BY <2>1 DEF Turn, DeskInv, directoryVars
  <2>2. ASSUME Begun(c, a[1], a[2]), UNCHANGED directoryVars
        PROVE  DirectoryTyped'
    <3> DEFINE m == CommandOf(a[1], a[2])
    <3>1. m \in Commands /\ a[1] \in Members
      BY <2>2, CommandServed DEF Begun, DeskInv
    <3>2. cmd' = [cmd EXCEPT ![c] = m] /\ actor' = [actor EXCEPT ![c] = a[1]] /\ HandlerAnswers(c)
      BY <2>2, Zenon DEF Begun, Begin
    <3>3. cmd'[c] \in Command
      BY <3>1, <3>2, ServiceAssumption DEF DeskInv, ServiceInv, ReviewInv, TypeInv, TypeOK, CallTypeOK
    <3>4. response' \in [Calls -> Response \cup {None}]
      BY <3>2, <3>3, HandlerTyped DEF DeskInv
    <3> QED BY <2>2, <3>1, <3>2, <3>4 DEF DeskInv, directoryVars
  <2> QED BY <1>1, <2>1, <2>2, AdmissionCases, Zenon
<1>2. ASSUME NEW c \in Calls, Serve(c) PROVE DirectoryTyped'
  <2>1. TypeInv /\ (CallStep(c) \/ CallFails(c))
    BY <1>2 DEF Serve, DeskInv, ServiceInv, ReviewInv
  <2>2. cmd'[c] \in Command
    BY <2>1, CallStepKeepsCommand, CommandHeld
  <2>3. response' \in [Calls -> Response \cup {None}]
    BY <1>2, <2>2, HandlerTyped DEF Serve, DeskInv
  <2> QED BY <1>2, <2>3 DEF Serve, DeskInv, directoryVars
<1>3. CASE DeskRestart
  BY <1>3 DEF DeskRestart, DeskInv, directoryVars
<1>4. CASE OrderSystem
  BY <1>4 DEF OrderSystem, DeskInv, directoryVars, handlerVars
<1>5. CASE Administration
  <2>0. Change
    BY <1>5, Zenon DEF Administration, AssignRole, RevokePermission, RemoveMember
  <2>1. changes' \in 0 .. MaxChanges /\ UNCHANGED handlerVars
    BY <2>0, DeskAssumption DEF Change, DeskInv
  <2>2. ASSUME NEW m \in Members, NEW r \in Roles, AssignRole(m, r)
        PROVE  DirectoryTyped'
    BY <2>1, <2>2 DEF AssignRole, DeskInv, handlerVars
  <2>3. ASSUME NEW r \in Roles, NEW p \in Permissions, RevokePermission(r, p)
        PROVE  DirectoryTyped'
    BY <2>1, <2>3 DEF RevokePermission, DeskInv, handlerVars
  <2>4. ASSUME NEW m \in Members, RemoveMember(m)
        PROVE  DirectoryTyped'
    BY <2>1, <2>4 DEF RemoveMember, DeskInv, handlerVars
  <2> QED BY <1>5, <2>2, <2>3, <2>4 DEF Administration
<1>6. CASE UNCHANGED deskVars
  BY <1>6 DEF deskVars, directoryVars, handlerVars, DeskInv
<1> QED BY <1>1, <1>2, <1>3, <1>4, <1>5, <1>6 DEF DeskNext

-----------------------------------------------------------------------------
(* The promises of the service, at the desk *)

LEMMA InitDesk == DeskInit => DeskInv
<1>1. DeskInit => DirectoryTyped
  BY DeskAssumption DEF DeskInit, DirectoryTyped
<1>2. Init => Owned
  BY DEF Init, StoreInit, Owned, Told
<1> QED BY <1>1, <1>2, InitService DEF DeskInit, DeskInv

LEMMA NextDesk == DeskInv /\ [DeskNext]_deskVars => DeskInv'
<1> SUFFICES ASSUME DeskInv, [DeskNext]_deskVars PROVE DeskInv'
  OBVIOUS
<1>1. CASE [Next]_vars
  <2>1. ServiceInv' /\ Owned'
    BY <1>1, NextService, NextOwned DEF DeskInv
  <2> QED BY <2>1, NextDirectory DEF DeskInv, ServiceInv, ReviewInv
<1>2. ASSUME NEW c \in Calls, Turned(c) PROVE DeskInv'
  <2>1. ServiceInv'
    BY <1>2, TurnedService DEF DeskInv
  <2>2. requests' = requests /\ idempotencyRecords' = idempotencyRecords
    BY <1>2 DEF Turned, storeVars, ledgerVars
  <2>3. Owned'
    BY <2>2 DEF DeskInv, Owned, Told, Written
  <2> QED BY <2>1, <2>3, NextDirectory DEF DeskInv, ServiceInv, ReviewInv
<1> QED BY <1>1, <1>2, DeskSteps

LEMMA DeskInvHolds == DeskSpec => []DeskInv
BY InitDesk, NextDesk, PTL DEF DeskSpec

\* Every variable of the desk keeps its type: whatever the handlers are sent,
\* the service gets a command it knows, and every answer has a status.
THEOREM DeskTypes == DeskSpec => []DeskTypeOK
<1>1. DeskInv => DeskTypeOK
  BY DEF DeskInv, DirectoryTyped, ServiceInv, ReviewInv, TypeInv, DeskTypeOK
<1> QED BY <1>1, DeskInvHolds, PTL

\* A key under which something was written stays taken: no member with a first
\* result on record is dismissed, so none is hired again with the key free
\* (README.md:123, :134).
THEOREM KeysStayTaken == DeskSpec => []OneEffectPerKey
<1>1. DeskInv => OneEffectPerKey
  BY EffectsTell DEF DeskInv, ServiceInv
<1> QED BY <1>1, DeskInvHolds, PTL

\* What the service promises of its store and its answers holds behind the
\* guard too, while members come and go and change roles (docs/mvp.md:84-87).
THEOREM DeskKeepsPromises ==
    DeskSpec => [](/\ OneActivePerOrder /\ DutiesSeparated /\ StatusFollowsApprovals
                   /\ SettledByReceipt /\ ProviderRefundNosUnique /\ AuditTrailComplete
                   /\ RepliesFromFirst /\ DetailShowsCause)
<1>1. DeskInv => /\ OneActivePerOrder /\ DutiesSeparated /\ StatusFollowsApprovals
                 /\ SettledByReceipt /\ ProviderRefundNosUnique /\ AuditTrailComplete
                 /\ RepliesFromFirst /\ DetailShowsCause
  BY FirstResultsTell, CausesTell DEF DeskInv, ServiceInv, ReviewInv, ReceiptInv, TrailInv
<1> QED BY <1>1, DeskInvHolds, PTL

\* A dismissal takes nothing off the record: what is on record at the desk
\* stays, as the service keeps it (docs/mvp.md:102).
THEOREM DeskKeepsHistory == DeskSpec => HistoryKept
<1>1. ASSUME DeskInv, [DeskNext]_deskVars PROVE KeepsHistory
  <2>t. TypeInv
    BY <1>1 DEF DeskInv, ServiceInv, ReviewInv
  <2>1. ASSUME NEW c \in Calls, Turned(c) PROVE KeepsHistory
    <3>1. /\ requests' = requests /\ approvals' = approvals /\ transactions' = transactions
          /\ auditLogs' = auditLogs /\ idempotencyRecords' = idempotencyRecords
      BY <2>1 DEF Turned, storeVars, ledgerVars
    <3>2. \A k \in RequestKeys : /\ IsPrefix(approvals[k], approvals[k])
                                 /\ IsPrefix(transactions[k], transactions[k])
                                 /\ IsPrefix(auditLogs[k], auditLogs[k])
      BY <2>t, PrefixOfAppend DEF TypeInv, TypeOK, StoreTypeOK
    <3>3. \A k \in RequestKeys : Exists(k) =>
              requests[k] = [requests[k] EXCEPT !.status = requests[k].status]
      BY <2>t DEF TypeInv, TypeOK, StoreTypeOK, Exists, Request
    <3> QED BY <3>1, <3>2, <3>3 DEF KeepsHistory, Exists
  <2> QED BY <1>1, <2>t, <2>1, NextHistory, DeskSteps
<1>2. DeskInv /\ [DeskNext]_deskVars => [KeepsHistory]_vars
  BY <1>1
<1> QED BY <1>2, DeskInvHolds, PTL DEF DeskSpec, HistoryKept

\* A retried receipt is answered at the desk as the service answers it.
THEOREM DeskAnswersRetries == DeskSpec => RecordRetryNeverRefused
<1>1. ASSUME DeskInv, [DeskNext]_deskVars, NEW d \in Calls, AnswersRetry(d, "record")
      PROVE  reply'[d].error \in {"OK", "ErrInternal"}
  <2>1. ASSUME NEW c \in Calls, Turned(c) PROVE FALSE
    <3>1. /\ pc'[c] = "Idle" /\ \A e \in Calls : e # c => StandsStill(e)
      BY <1>1, <2>1, TurnedStands DEF DeskInv, ServiceInv, ReviewInv
    <3>2. pc'[d] = "Done" /\ pc[d] \in RepositoryCalls /\ "Done" \notin RepositoryCalls
      BY <1>1 DEF AnswersRetry, RepositoryCalls
    <3> QED BY <3>1, <3>2 DEF StandsStill, Stands
  <2>2. CASE [Next]_vars
    BY <1>1, <2>2, RetryStep DEF DeskInv, ServiceInv, ReviewInv, ReceiptInv
  <2> QED BY <1>1, <2>1, <2>2, DeskSteps
<1>2. DeskInv /\ [DeskNext]_deskVars =>
          [\A c \in Calls : AnswersRetry(c, "record") =>
              reply'[c].error \in {"OK", "ErrInternal"}]_vars
  BY <1>1
<1> QED BY <1>2, DeskInvHolds, PTL DEF DeskSpec, RecordRetryNeverRefused

\* Seen as a book, the desk is the ledger: its guard, its handlers and its
\* administrator add no entry, change none and free no key.
THEOREM DeskImplementsLedger == DeskSpec => LedgerSpec
<1>1. ASSUME DeskInv, DeskInv', [DeskNext]_deskVars PROVE [Ledger!Next]_Ledger!ledger
  <2>1. ASSUME NEW c \in Calls, Turned(c) PROVE UNCHANGED ledgerVars
    BY <2>1 DEF Turned, storeVars
  <2>2. CASE UNCHANGED ledgerVars
    BY <2>2, BookStands DEF Ledger!ledger
  <2>3. CASE [Next]_vars
    BY <1>1, <2>3, NextLedger DEF DeskInv, ServiceInv, LedgerInv
  <2> QED BY <1>1, <2>1, <2>2, <2>3, DeskSteps
<1>2. DeskInit => Ledger!Init
  BY InitLedger DEF DeskInit
<1> QED BY <1>1, <1>2, DeskInvHolds, PTL DEF DeskSpec, LedgerSpec, Ledger!Spec

-----------------------------------------------------------------------------
(* One call among the desk's steps *)

\* The calls a service method makes before it has a result to show.
Undecided == RepositoryCalls \ {"ListApprovals", "ListTransactions"}

Searches(c) ==
    /\ pc[c] \in Undecided /\ pc'[c] \in Undecided
    /\ UNCHANGED <<cmd, reply, ledgerVars>>

\* Only a database error is told of something written, or of a result in hand.
Refuses(c) ==
    \E e \in Errors :
        /\ Fail(c, e)
        /\ UNCHANGED ledgerVars \/ e = "ErrInternal"
        /\ pc[c] \in Undecided \/ e = "ErrInternal"

LEMMA CallOutcomes ==
    ASSUME TypeInv, NEW c \in Calls, CallStep(c) \/ CallFails(c)
    PROVE  Shows(c) \/ Searches(c) \/ Refuses(c)
<1>u. UNCHANGED storeVars => UNCHANGED ledgerVars
  BY DEF storeVars
<1>e. {"ErrIdempotencyKeyConflict", "ErrRefundRequestNotFound", "ErrRefundRequestNotApproved",
       "ErrTransactionAmountMismatch", "ErrInternal"} \subseteq Errors
  BY DEF Errors
<1>1. ASSUME NEW e \in Errors, Fail(c, e), UNCHANGED storeVars, pc[c] \in Undecided
      PROVE  Refuses(c)
  BY <1>u, <1>1 DEF Refuses
<1>2. ASSUME Fail(c, "ErrInternal") PROVE Refuses(c)
  BY <1>2, <1>e DEF Refuses
<1>3. ASSUME NEW label \in Undecided, Goto(c, label), pc[c] \in Undecided,
             UNCHANGED <<storeVars, cmd, reply>>
      PROVE  Searches(c)
  BY <1>u, <1>3 DEF Goto, Searches, TypeInv, TypeOK, CallTypeOK
<1>4. CASE FindCreated(c)
  <2>1. pc[c] \in Undecided /\ "FindOrder" \in Undecided /\ pc[c] \in CreateCalls
    BY <1>4 DEF FindCreated, Undecided, RepositoryCalls, CreateCalls
  <2>2. \/ Fail(c, "ErrIdempotencyKeyConflict") /\ UNCHANGED storeVars
        \/ HitCreated(c)
        \/ Goto(c, "FindOrder") /\ UNCHANGED <<storeVars, cmd, reply>>
    BY <1>4, <2>1, Zenon DEF FindCreated, HitCreated
  <2> QED BY <1>e, <1>1, <1>3, <2>1, <2>2 DEF Shows
<1>5. CASE FindOrder(c)
  <2>1. pc[c] \in Undecided /\ "CreateRefundRequest" \in Undecided
    BY <1>5 DEF FindOrder, Undecided, RepositoryCalls
  <2>2. \/ \E e : e = OrderRefusal(orders[<<cmd[c].tenant, cmd[c].orderNo>>], cmd[c].amount)
                  /\ e # "OK" /\ Fail(c, e) /\ UNCHANGED storeVars
        \/ Goto(c, "CreateRefundRequest") /\ UNCHANGED <<storeVars, cmd, reply>>
    BY <1>5, Zenon DEF FindOrder, Carry
  <2> QED BY <1>1, <1>3, <2>1, <2>2, RefusalTypes
<1>6. CASE CreateRefundRequest(c)
  <2>1. pc[c] = "CreateRefundRequest" /\ pc[c] \in Undecided /\ pc[c] \in CreateCalls
    BY <1>6 DEF CreateRefundRequest, Undecided, RepositoryCalls, CreateCalls
  <2>2. \/ Fail(c, "ErrIdempotencyKeyConflict") /\ UNCHANGED storeVars
        \/ HitCreated(c)
        \/ \E e : e = CreateRefusal(cmd[c].tenant, request[c])
                  /\ e # "OK" /\ Fail(c, e) /\ UNCHANGED storeVars
        \/ WroteCreated(c)
        \/ Fail(c, "ErrInternal")
    BY <1>6, <2>1, Zenon DEF CreateRefundRequest, HitCreated, WroteCreated, Creates
  <2> QED BY <1>e, <1>1, <1>2, <2>1, <2>2, RefusalTypes DEF Shows
<1>7. CASE FindReviewed(c)
  <2>1. pc[c] \in Undecided /\ "ListForLevel" \in Undecided
    BY <1>7 DEF FindReviewed, Undecided, RepositoryCalls
  <2>2. \/ \E e : e = FindReviewedRefusal(cmd[c])
                  /\ e # "OK" /\ Fail(c, e) /\ UNCHANGED storeVars
        \/ Goto(c, "ListForLevel") /\ UNCHANGED <<storeVars, cmd, reply>>
    BY <1>7, Zenon DEF FindReviewed, Carry
  <2> QED BY <1>1, <1>3, <2>1, <2>2, RefusalTypes
<1>8. CASE ListForLevel(c)
  <2>1. pc[c] \in Undecided /\ "ReviewRefundRequest" \in Undecided
    BY <1>8 DEF ListForLevel, Undecided, RepositoryCalls
  <2>2. \/ \E e, l, n : e = ListForLevelRefusal(cmd[c], l, n)
                  /\ e # "OK" /\ Fail(c, e) /\ UNCHANGED storeVars
        \/ Goto(c, "ReviewRefundRequest") /\ UNCHANGED <<storeVars, cmd, reply>>
    BY <1>8, Zenon DEF ListForLevel
  <2> QED BY <1>1, <1>3, <2>1, <2>2, RefusalTypes
<1>9. CASE ReviewRefundRequest(c)
  <2>1. pc[c] = "ReviewRefundRequest" /\ pc[c] \in Undecided
    BY <1>9 DEF ReviewRefundRequest, Undecided, RepositoryCalls
  <2>2. \/ \E e : e = ReviewRefusal(RequestKey(cmd[c]), level[c])
                  /\ e # "OK" /\ Fail(c, e) /\ UNCHANGED storeVars
        \/ WroteReviewed(c)
        \/ Fail(c, "ErrInternal")
    BY <1>9, Zenon DEF ReviewRefundRequest, WroteReviewed, Reviews, Decision
  <2> QED BY <1>1, <1>2, <2>1, <2>2, RefusalTypes DEF Shows
<1>10. CASE FindRecorded(c) \/ FindRecordedAgain(c)
  <2>1. pc[c] \in Undecided /\ "FindApproved" \in Undecided /\ pc[c] \in RecordCalls
    BY <1>10 DEF FindRecorded, FindRecordedAgain, Undecided, RepositoryCalls, RecordCalls
  <2>2. \/ \E e \in {"ErrIdempotencyKeyConflict", "ErrRefundRequestNotApproved"} :
               Fail(c, e) /\ UNCHANGED storeVars
        \/ HitRecorded(c)
        \/ Goto(c, "FindApproved") /\ UNCHANGED <<storeVars, cmd, reply>>
    BY <1>10, <2>1, Zenon DEF FindRecorded, FindRecordedAgain, HitRecorded
  <2> QED BY <1>e, <1>1, <1>3, <2>1, <2>2 DEF Shows
<1>11. CASE FindApproved(c)
  <2>1. /\ pc[c] \in Undecided
        /\ "FindRecordedAgain" \in Undecided /\ "RecordRefundTransaction" \in Undecided
    BY <1>11 DEF FindApproved, Undecided, RepositoryCalls
  <2>2. \/ \E e \in {"ErrRefundRequestNotFound", "ErrTransactionAmountMismatch"} :
               Fail(c, e) /\ UNCHANGED storeVars
        \/ Goto(c, "FindRecordedAgain") /\ UNCHANGED <<storeVars, cmd, reply>>
        \/ Goto(c, "RecordRefundTransaction") /\ UNCHANGED <<storeVars, cmd, reply>>
    BY <1>11, Zenon DEF FindApproved, Carry
  <2> QED BY <1>e, <1>1, <1>3, <2>1, <2>2
<1>12. CASE RecordRefundTransaction(c)
  <2>1. pc[c] = "RecordRefundTransaction" /\ pc[c] \in Undecided /\ pc[c] \in RecordCalls
    BY <1>12 DEF RecordRefundTransaction, Undecided, RepositoryCalls, RecordCalls
  <2>2. \/ Fail(c, "ErrIdempotencyKeyConflict") /\ UNCHANGED storeVars
        \/ HitRecorded(c)
        \/ \E e : e = RecordRefusal(cmd[c])
                  /\ e # "OK" /\ Fail(c, e) /\ UNCHANGED storeVars
        \/ WroteRecorded(c)
        \/ Fail(c, "ErrInternal")
    BY <1>12, <2>1, Zenon DEF RecordRefundTransaction, HitRecorded, WroteRecorded, Records
  <2> QED BY <1>e, <1>1, <1>2, <2>1, <2>2, RefusalTypes DEF Shows
<1>13. CASE GetRequest(c)
  <2>1. pc[c] \in Undecided
    BY <1>13 DEF GetRequest, Undecided, RepositoryCalls
  <2>2. (Fail(c, "ErrRefundRequestNotFound") /\ UNCHANGED storeVars) \/ Got(c)
    BY <1>13, Zenon DEF GetRequest, Got
  <2> QED BY <1>e, <1>1, <2>1, <2>2 DEF Shows
<1>14. CASE ListApprovals(c) \/ ListTransactions(c)
  BY <1>14 DEF Shows
<1>15. CASE CallFails(c)
  BY <1>2, <1>15 DEF CallFails
<1> QED BY <1>4, <1>5, <1>6, <1>7, <1>8, <1>9, <1>10, <1>11, <1>12, <1>13, <1>14, <1>15
        DEF CallStep

LEMMA CallKeepsProcess ==
    ASSUME NEW c \in Calls, CallStep(c) \/ CallFails(c)
    PROVE  threshold' = threshold /\ restarts' = restarts
<1> USE DEF processVars
<1>1. CASE FindCreated(c) \/ FindOrder(c) \/ CreateRefundRequest(c)
  BY <1>1, Zenon DEF FindCreated, FindOrder, CreateRefundRequest
<1>2. CASE FindReviewed(c) \/ ListForLevel(c) \/ ReviewRefundRequest(c)
  BY <1>2, Zenon DEF FindReviewed, ListForLevel, ReviewRefundRequest
<1>3. CASE FindRecorded(c) \/ FindApproved(c) \/ FindRecordedAgain(c) \/ RecordRefundTransaction(c)
  BY <1>3, Zenon DEF FindRecorded, FindApproved, FindRecordedAgain, RecordRefundTransaction
<1>4. CASE GetRequest(c) \/ ListApprovals(c) \/ ListTransactions(c) \/ CallFails(c)
  BY <1>4, Zenon DEF GetRequest, ListApprovals, ListTransactions, CallFails
<1> QED BY <1>1, <1>2, <1>3, <1>4 DEF CallStep

\* What a step of the desk may be to one of its calls.
Rests(c) ==
    /\ StandsStill(c)
    /\ actor'[c] = actor[c]
    /\ response'[c] = response[c]

LEMMA OthersRest ==
    ASSUME DeskInv, NEW c \in Calls, NEW d \in Calls, c # d,
           \/ \E r : Turn(d, r)
           \/ \E a \in Requests : Begun(d, a[1], a[2])
           \/ Serve(d)
    PROVE  Rests(c)
<1>t. /\ TypeInv /\ DirectoryTyped
      /\ response \in [Calls -> Response \cup {None}] /\ actor \in [Calls -> Members \cup {None}]
  BY DEF DeskInv, ServiceInv, ReviewInv, DirectoryTyped
<1>1. ASSUME NEW r, Turn(d, r) PROVE Rests(c)
  BY <1>t, <1>1 DEF Turn, Rests, StandsStill, Stands, TypeInv, TypeOK, CallTypeOK
<1>2. HandlerAnswers(d) => response'[c] = response[c]
  BY <1>t DEF HandlerAnswers
<1>3. ASSUME NEW a \in Requests, Begun(d, a[1], a[2]) PROVE Rests(c)
  <2>1. CommandOf(a[1], a[2]) \in Commands /\ Begin(d, CommandOf(a[1], a[2]))
    BY <1>t, <1>3, CommandServed DEF Begun
  <2>2. StandsStill(c)
    BY <1>t, <2>1, OthersStandStill
  <2>3. actor' = [actor EXCEPT ![d] = a[1]] /\ HandlerAnswers(d)
    BY <1>3 DEF Begun
  <2> QED BY <1>t, <1>2, <2>2, <2>3 DEF Rests
<1>4. CASE Serve(d)
  BY <1>t, <1>2, <1>4, OthersStandStill DEF Serve, Rests
<1> QED BY <1>1, <1>3, <1>4

LEMMA DeskView ==
    ASSUME DeskInv, [DeskNext]_deskVars, NEW c \in Calls
    PROVE  \/ Rests(c)
           \/ pc[c] \in {"Idle", "Done"} /\ \E r \in Response : Turn(c, r)
           \/ \E a \in Requests : Begun(c, a[1], a[2]) /\ UNCHANGED directoryVars
           \/ Serve(c)
           \/ DeskRestart
<1>1. ASSUME NEW d \in Calls, NEW a \in Requests, Admit(d, a[1], a[2])
      PROVE  \/ Rests(c)
             \/ pc[c] \in {"Idle", "Done"} /\ \E r \in Response : Turn(c, r)
             \/ Begun(c, a[1], a[2]) /\ UNCHANGED directoryVars
  <2>1. /\ pc[d] \in {"Idle", "Done"} /\ UNCHANGED directoryVars
        /\ Begun(d, a[1], a[2]) \/ \E r \in Response : Turn(d, r)
    BY <1>1, AdmissionCases
  <2>2. c # d => Rests(c)
    BY <2>1, OthersRest
  <2> QED BY <2>1, <2>2
<1>2. ASSUME NEW d \in Calls, Serve(d) PROVE Serve(c) \/ Rests(c)
  BY <1>2, OthersRest
<1>3. CASE OrderSystem
  BY <1>3 DEF OrderSystem, OrderChanges, callVars, handlerVars, Rests, StandsStill, Stands
<1>4. CASE Administration
  <2>1. Change
    BY <1>4, Zenon DEF Administration, AssignRole, RevokePermission, RemoveMember
  <2> QED BY <2>1 DEF Change, callVars, handlerVars, Rests, StandsStill, Stands
<1>5. CASE UNCHANGED deskVars
  BY <1>5 DEF deskVars, vars, callVars, handlerVars, Rests, StandsStill, Stands
<1> QED BY <1>1, <1>2, <1>3, <1>4, <1>5, Zenon DEF DeskNext

LEMMA DeskProcess ==
    ASSUME DeskInv, [DeskNext]_deskVars
    PROVE  DeskRestart \/ (threshold' = threshold /\ restarts' = restarts)
<1>1. ASSUME NEW c \in Calls, NEW a \in Requests, Admit(c, a[1], a[2])
      PROVE  UNCHANGED processVars
  <2>1. Begun(c, a[1], a[2]) \/ \E r \in Response : Turn(c, r)
    BY <1>1, AdmissionCases
  <2> QED BY <2>1, Zenon DEF Begun, Begin, Turn
<1>2. ASSUME NEW c \in Calls, Serve(c) PROVE threshold' = threshold /\ restarts' = restarts
  BY <1>2, CallKeepsProcess DEF Serve
<1>3. CASE OrderSystem
  BY <1>3 DEF OrderSystem, OrderChanges, processVars
<1>4. CASE Administration
  <2>1. Change
    BY <1>4, Zenon DEF Administration, AssignRole, RevokePermission, RemoveMember
  <2> QED BY <2>1 DEF Change, processVars
<1>5. CASE UNCHANGED deskVars
  BY <1>5 DEF deskVars, vars, processVars
<1> QED BY <1>1, <1>2, <1>3, <1>4, <1>5 DEF DeskNext, processVars

-----------------------------------------------------------------------------
(* Rights *)

\* Whom the guard lets in has a right to what the handler makes of the request,
\* for a decision the right to its level.
LEMMA GuardAdmits ==
    ASSUME NEW q \in Command \cup GetOrderCommand, q.op # "get_order",
           NEW p \in SUBSET Permissions, GuardRefusal(q, p) = "OK", NEW m
    PROVE  LET k == HandlerCommand(m, q, p) IN
           /\ k.op = q.op
           /\ k.op # "get" => k.tenant = m[1] /\ k.by = m[2]
           /\ k.op = "review" => k.level \in Levels
           /\ p \cap RightFor(k.op, IF k.op = "review" THEN k.level ELSE 0) # {}
<1> DEFINE k == HandlerCommand(m, q, p)
<1>1. CASE q \in CreateCommand \cup RecordCommand \cup GetCommand
  <2>1. q.op \in {"create", "record", "get"} /\ "op" \in DOMAIN q
    BY <1>1 DEF CreateCommand, RecordCommand, GetCommand
  <2>2. k.op = q.op
    BY <2>1 DEF HandlerCommand
  <2>3. k.op # "get" => k.tenant = m[1] /\ k.by = m[2]
    <3>1. k.op # "get" => "tenant" \in DOMAIN q /\ "by" \in DOMAIN q
      BY <1>1, <2>2 DEF CreateCommand, RecordCommand, GetCommand
    <3> QED BY <3>1 DEF HandlerCommand
  <2>4. Needed(q.op) \cap p # {}
    BY DEF GuardRefusal
  <2> HIDE DEF k
  <2>5. p \cap RightFor(k.op, IF k.op = "review" THEN k.level ELSE 0) # {}
    BY <2>1, <2>2, <2>4 DEF RightFor
  <2> QED BY <2>1, <2>2, <2>3, <2>5 DEF k
<1>2. CASE q \in ReviewCommand
  <2>1. q.op = "review" /\ {"op", "tenant", "by", "level"} \subseteq DOMAIN q
    BY <1>2 DEF ReviewCommand
  <2>2. /\ k.op = "review" /\ k.tenant = m[1] /\ k.by = m[2]
        /\ k.level = ReviewLevel(p, q.level)
    BY <2>1 DEF HandlerCommand
  <2>3. Needed("review") \cap p # {} /\ LevelRefusal(p, q.level) = "OK"
    BY <2>1 DEF GuardRefusal
  <2> HIDE DEF k
  <2>4. k.level \in Levels
    BY <2>2, <2>3 DEF LevelRefusal, ReviewLevel, Levels
  <2>5. p \cap RightFor("review", k.level) # {}
    BY <2>2, <2>3 DEF LevelRefusal, ReviewLevel, RightFor, Needed
  <2>6. p \cap RightFor(k.op, IF k.op = "review" THEN k.level ELSE 0) # {}
    BY <2>2, <2>5
  <2>7. k.op = q.op /\ k.op # "get"
    BY <2>1, <2>2
  <2> QED BY <2>2, <2>4, <2>6, <2>7 DEF k
<1>3. q \in CreateCommand \cup RecordCommand \cup GetCommand \/ q \in ReviewCommand
  BY DEF Command, GetOrderCommand
<1> QED BY <1>1, <1>2, <1>3

\* A call at work acts for its actor, who had the right to its command, at the
\* level it names, since it began.
Rightful(c) ==
    AtWork(c) =>
        /\ cmd[c].op # "get" => actor[c] = <<cmd[c].tenant, cmd[c].by>>
        /\ cmd[c].op = "review" => cmd[c].level \in Levels
        /\ held[c] \cap RightFor(cmd[c].op, IF cmd[c].op = "review" THEN cmd[c].level ELSE 0) # {}
        /\ pc[c] = "ReviewRefundRequest" => level[c] = cmd[c].level

LEMMA BegunRightful ==
    ASSUME DeskInv, HistoryNext, NEW c \in Calls, NEW a \in Requests, Begun(c, a[1], a[2]),
           UNCHANGED directoryVars
    PROVE  Rightful(c)'
<1> DEFINE m == a[1]
           q == a[2]
           p == grants[roleOf[m]]
<1>1. /\ m \in Members /\ m # None /\ IsMember(m) /\ p \in SUBSET Permissions
      /\ GuardRefusal(q, p) = "OK" /\ q.op # "get_order" /\ q \in Command \cup GetOrderCommand
  BY CommandServed, DeskAssumption DEF Begun, DeskInv
<1>2. /\ cmd' = [cmd EXCEPT ![c] = HandlerCommand(m, q, p)]
      /\ actor' = [actor EXCEPT ![c] = m] /\ pc[c] \in {"Idle", "Done"}
      /\ pc' = [pc EXCEPT ![c] = "Done"] \/ \E k : pc' = [pc EXCEPT ![c] = FirstCall(k)]
  BY Zenon DEF Begun, Begin, CommandOf, Goto
<1>3. /\ cmd'[c] = HandlerCommand(m, q, p) /\ actor'[c] = m
      /\ pc'[c] # "ReviewRefundRequest"
  BY <1>2 DEF DeskInv, DirectoryTyped, ServiceInv, ReviewInv, TypeInv, TypeOK, CallTypeOK, FirstCall
<1>4. AtWork(c)' => held'[c] = p
  <2>1. ~ AtWork(c)
    BY <1>2 DEF AtWork
  <2>2. held'[c] = HeldNext(c)
    BY Zenon DEF HistoryNext
  <2>3. PermissionsOf(actor[c])' = p
    BY <1>1, <1>3 DEF PermissionsOf, IsMember, directoryVars
  <2> QED BY <2>1, <2>2, <2>3 DEF HeldNext
<1>5. m = <<m[1], m[2]>>
  BY <1>1 DEF Members
<1> HIDE DEF m, q, p
<1> DEFINE k == HandlerCommand(m, q, p)
<1>6. /\ k.op # "get" => k.tenant = m[1] /\ k.by = m[2]
      /\ k.op = "review" => k.level \in Levels
      /\ p \cap RightFor(k.op, IF k.op = "review" THEN k.level ELSE 0) # {}
  BY <1>1, GuardAdmits
<1> QED BY <1>3, <1>4, <1>5, <1>6 DEF Rightful

LEMMA NextRightful ==
    ASSUME DeskInv, [HistoryNext]_<<deskVars, histVars>>, NEW c \in Calls, Rightful(c)
    PROVE  Rightful(c)'
<1>t. TypeInv
  BY DEF DeskInv, ServiceInv, ReviewInv
<1>1. CASE UNCHANGED <<deskVars, histVars>>
  BY <1>1 DEF deskVars, vars, callVars, handlerVars, histVars, Rightful, AtWork
<1>2. ASSUME HistoryNext, AtWork(c) PROVE AtWork(c)' => held[c] \subseteq held'[c]
  BY <1>2 DEF HistoryNext, HeldNext
<1>3. CASE HistoryNext /\ Rests(c)
  <2>1. /\ pc'[c] = pc[c] /\ cmd'[c] = cmd[c] /\ actor'[c] = actor[c] /\ level'[c] = level[c]
    BY <1>3 DEF Rests, StandsStill, Stands
  <2> QED BY <1>2, <1>3, <2>1 DEF Rightful, AtWork
<1>4. ASSUME NEW r, Turn(c, r) PROVE Rightful(c)'
  <2>1. pc'[c] = "Idle"
    BY <1>t, <1>4 DEF Turn, TypeInv, TypeOK, CallTypeOK
  <2> QED BY <2>1 DEF Rightful, AtWork
<1>5. CASE HistoryNext /\ Serve(c)
  <2>1. CallStep(c) \/ CallFails(c)
    BY <1>5 DEF Serve
  <2>2. cmd' = cmd /\ actor' = actor /\ AtWork(c)
    <3>1. cmd' = cmd /\ pc[c] \in RepositoryCalls
      BY <1>t, <2>1, CallStepKeepsCommand
    <3> QED BY <1>5, <3>1 DEF Serve, AtWork, RepositoryCalls
  <2>3. ASSUME pc'[c] = "ReviewRefundRequest" PROVE level'[c] = cmd[c].level
    <3>1. FindOrder(c) \/ FindReviewed(c) \/ ListForLevel(c)
      BY <1>t, <2>1, <2>3, StepApproaches DEF Approaches
    <3>2. \/ \E e : Fail(c, e)
          \/ Goto(c, "CreateRefundRequest") \/ Goto(c, "ListForLevel")
          \/ pc[c] = "ListForLevel" /\ \E l, n : /\ ListForLevelRefusal(cmd[c], l, n) = "OK"
                                                 /\ level' = [level EXCEPT ![c] = n]
      BY <3>1, Zenon DEF FindOrder, FindReviewed, ListForLevel, Carry
    <3>3. PICK l, n : /\ ListForLevelRefusal(cmd[c], l, n) = "OK"
                      /\ level' = [level EXCEPT ![c] = n] /\ pc[c] = "ListForLevel"
      BY <1>t, <2>3, <3>2 DEF Fail, Answer, Goto, TypeInv, TypeOK, CallTypeOK
    <3>4. cmd[c].level = 0 \/ cmd[c].level = n
      BY <3>3 DEF ListForLevelRefusal
    <3>5. cmd[c].op = "review"
      BY <1>t, <3>3 DEF TypeInv, CallsHold, ReviewCalls, ReviewCommand
    <3>6. cmd[c].level \in Levels
      BY <2>2, <3>5 DEF Rightful
    <3> QED BY <1>t, <3>3, <3>4, <3>6 DEF Levels, TypeInv, TypeOK, CallTypeOK
  <2> QED BY <1>2, <1>5, <2>2, <2>3 DEF Rightful
<1>6. CASE DeskRestart
  BY <1>6 DEF DeskRestart, Restart, Rightful, AtWork
<1>7. CASE HistoryNext
  <2>1. \/ Rests(c)
        \/ \E r \in Response : Turn(c, r)
        \/ \E a \in Requests : Begun(c, a[1], a[2]) /\ UNCHANGED directoryVars
        \/ Serve(c)
        \/ DeskRestart
    BY <1>7, DeskView DEF HistoryNext
  <2> QED BY <1>3, <1>4, <1>5, <1>6, <1>7, <2>1, BegunRightful
<1> QED BY <1>1, <1>7

\* A call at work that writes puts its own member on record, at its own level.
LEMMA WriterEntitled ==
    ASSUME DeskInv, NEW c \in Calls, Rightful(c), Serve(c), NEW k \in RequestKeys
    PROVE  /\ requests[k] = None /\ requests'[k] # None =>
                Entitled(c, k[1], requests'[k].submittedBy, {"refund_request:create"})
           /\ approvals'[k] # approvals[k] =>
                LET a == Last(approvals'[k]) IN
                Entitled(c, k[1], a.decisionBy, RightFor("review", a.level))
           /\ transactions'[k] # transactions[k] =>
                Entitled(c, k[1], Last(transactions'[k]).processedBy,
                         {"refund_transaction:write"})
<1>t. /\ TypeInv /\ Informed(c)
      /\ approvals[k] \in Seq(Approval) /\ transactions[k] \in Seq(Transaction)
      /\ approvals \in [RequestKeys -> Seq(Approval)]
      /\ transactions \in [RequestKeys -> Seq(Transaction)]
      /\ requests \in [RequestKeys -> Request \cup {None}]
  BY DEF DeskInv, ServiceInv, ReviewInv, InformedInv, TypeInv, TypeOK, StoreTypeOK
<1> DEFINE m == cmd[c]
<1>1. AtWork(c)
  <2>1. pc[c] \in RepositoryCalls
    BY <1>t, CallStepKeepsCommand DEF Serve
  <2> QED BY <2>1 DEF AtWork, RepositoryCalls
<1>2. /\ m.op # "get" => actor[c] = <<m.tenant, m.by>>
      /\ held[c] \cap RightFor(m.op, IF m.op = "review" THEN m.level ELSE 0) # {}
      /\ pc[c] = "ReviewRefundRequest" => level[c] = m.level
  BY <1>1 DEF Rightful
<1>3. UNCHANGED ledgerVars \/ Creates(c) \/ Reviews(c) \/ Records(c)
  BY CallWrites DEF Serve, CallFails, storeVars
<1>4. CASE UNCHANGED ledgerVars
  BY <1>4 DEF ledgerVars
<1>5. CASE Creates(c)
  <2> DEFINE j == <<m.tenant, request[c].no>>
  <2>1. m \in CreateCommand /\ requests'[k] = IF k = j THEN request[c] ELSE requests[k]
    BY <1>t, <1>5, CreateEffect
  <2>2. UNCHANGED <<approvals, transactions>>
    BY <1>5 DEF Creates, StoreCreated
  <2>3. request[c].submittedBy = m.by
    BY <1>t, <1>5 DEF Creates, Informed
  <2>4. m.op = "create"
    BY <2>1 DEF CreateCommand
  <2>5. Entitled(c, m.tenant, m.by, {"refund_request:create"})
    BY <1>2, <2>4 DEF Entitled, RightFor, Needed
  <2> QED BY <2>1, <2>2, <2>3, <2>5
<1>6. CASE Reviews(c)
  <2> DEFINE j == RequestKey(m)
             after == ReviewedStatus(m.decision, request[c].amount, level[c], threshold)
  <2>1. pc[c] = "ReviewRefundRequest" /\ m \in ReviewCommand /\ level[c] \in Levels
    BY <1>t, <1>6 DEF Reviews, TypeInv, CallsHold, ReviewCalls
  <2>2. j \in RequestKeys /\ m.op = "review" /\ j[1] = m.tenant
    BY <2>1 DEF ReviewCommand, RequestKey, RequestKeys
  <2>3. requests[j] # None
    BY <1>6 DEF Reviews, ReviewRefusal
  <2>4. /\ requests' = [requests EXCEPT ![j] = [@ EXCEPT !.status = after]]
        /\ approvals' = [approvals EXCEPT ![j] = Append(@, Decision(c))]
        /\ UNCHANGED transactions
    BY <1>6 DEF Reviews, StoreReviewed
  <2>5. Decision(c) \in Approval /\ Decision(c).level = level[c] /\ Decision(c).decisionBy = m.by
    BY <2>1 DEF Decision, Approval, ReviewCommand
  <2>6. Last(Append(approvals[j], Decision(c))) = Decision(c)
    BY <1>t, <2>2, <2>5, AppendList DEF Last
  <2>7. Entitled(c, m.tenant, m.by, RightFor("review", level[c]))
    BY <1>2, <2>1, <2>2 DEF Entitled
  <2>8. ~ (requests[k] = None /\ requests'[k] # None)
    BY <1>t, <2>3, <2>4
  <2>9. approvals'[k] # approvals[k] => k = j /\ Last(approvals'[k]) = Decision(c)
    BY <1>t, <2>2, <2>4, <2>6
  <2> QED BY <2>2, <2>4, <2>5, <2>7, <2>8, <2>9
<1>7. CASE Records(c)
  <2> DEFINE j == RequestKey(m)
  <2>1. /\ m \in RecordCommand /\ j \in RequestKeys /\ TransactionOf(m) \in Transaction
        /\ requests[j] # None
        /\ requests'[k] = IF k = j THEN [requests[j] EXCEPT !.status = m.status] ELSE requests[k]
        /\ transactions'[k] = IF k = j THEN Append(transactions[j], TransactionOf(m))
                              ELSE transactions[k]
    BY <1>t, <1>7, RecordEffect
  <2>2. UNCHANGED approvals
    BY <1>7 DEF Records, StoreRecorded
  <2>3. m.op = "record" /\ j[1] = m.tenant /\ TransactionOf(m).processedBy = m.by
    BY <2>1 DEF RecordCommand, RequestKey, TransactionOf
  <2>4. Last(Append(transactions[j], TransactionOf(m))) = TransactionOf(m)
    BY <1>t, <2>1, AppendList DEF Last
  <2>5. Entitled(c, m.tenant, m.by, {"refund_transaction:write"})
    BY <1>2, <2>3 DEF Entitled, RightFor, Needed
  <2> HIDE DEF j, m
  <2> QED BY <2>1, <2>2, <2>3, <2>4, <2>5
<1> QED BY <1>3, <1>4, <1>5, <1>6, <1>7

\* The remembered rights, writes and answers constrain no step.
LEMMA HistoryIsDesk == HistorySpec => DeskSpec
<1>1. HistoryInit => DeskInit
  BY DEF HistoryInit
<1>2. [HistoryNext]_<<deskVars, histVars>> => [DeskNext]_deskVars
  BY DEF HistoryNext
<1> QED BY <1>1, <1>2, PTL DEF HistorySpec, DeskSpec

\* Whatever a call puts on record stands under the name and in the tenant of its
\* own session, and that member had the right to it, for a decision the
\* permission of its very level, since the request came in (README.md:26,
\* server.go:134).
THEOREM WritersAreEntitled == HistorySpec => WritesEntitled
<1> DEFINE RightfulInv == \A c \in Calls : Rightful(c)
           Lawful(c) ==
               AtWork(c) /\ pc'[c] # pc[c] => \A k \in RequestKeys :
                  /\ requests[k] = None /\ requests'[k] # None =>
                        Entitled(c, k[1], requests'[k].submittedBy, {"refund_request:create"})
                  /\ approvals'[k] # approvals[k] =>
                        LET a == Last(approvals'[k]) IN
                        Entitled(c, k[1], a.decisionBy, RightFor("review", a.level))
                  /\ transactions'[k] # transactions[k] =>
                        Entitled(c, k[1], Last(transactions'[k]).processedBy,
                                 {"refund_transaction:write"})
<1>1. HistoryInit => RightfulInv
  BY DEF HistoryInit, DeskInit, Init, CallsIdle, Rightful, AtWork
<1>2. DeskInv /\ RightfulInv /\ [HistoryNext]_<<deskVars, histVars>> => RightfulInv'
  BY NextRightful
<1>3. ASSUME DeskInv, RightfulInv, [HistoryNext]_<<deskVars, histVars>>, NEW c \in Calls
      PROVE  Lawful(c)
  <2>1. [DeskNext]_deskVars
    BY <1>3 DEF HistoryNext
  <2>2. CASE Serve(c)
    BY <1>3, <2>2, WriterEntitled
  <2>3. CASE DeskRestart
    BY <2>3 DEF DeskRestart, Restart, storeVars, ledgerVars
  <2>4. ASSUME AtWork(c), pc'[c] # pc[c] PROVE Serve(c) \/ DeskRestart
    BY <1>3, <2>1, <2>4, DeskView DEF AtWork, Begun, Begin, Rests, StandsStill, Stands
  <2> QED BY <2>2, <2>3, <2>4
<1>4. DeskInv /\ RightfulInv /\ [HistoryNext]_<<deskVars, histVars>>
          => [\A c \in Calls : Lawful(c)]_deskVars
  BY <1>3
<1> QED BY <1>1, <1>2, <1>4, HistoryIsDesk, DeskInvHolds, PTL DEF HistorySpec, WritesEntitled

-----------------------------------------------------------------------------
(* Effects *)

LEMMA WritesShow ==
    ASSUME TypeInv, NEW c \in Calls, Creates(c) \/ Reviews(c) \/ Records(c)
    PROVE  ledgerVars' # ledgerVars
<1>1. CASE Creates(c) \/ Records(c)
  <2>1. idempotencyRecords'[Scope(cmd[c])] # None /\ idempotencyRecords[Scope(cmd[c])] = None
    BY <1>1, ResultIsStored DEF Creates, Records, IdempotencyMiss
  <2> QED BY <2>1 DEF ledgerVars
<1>2. CASE Reviews(c)
  <2> DEFINE j == RequestKey(cmd[c])
  <2>1. cmd[c] \in ReviewCommand /\ level[c] \in Levels
    BY <1>2 DEF Reviews, TypeInv, CallsHold, ReviewCalls
  <2>2. j \in RequestKeys /\ Decision(c) \in Approval
    BY <2>1 DEF ReviewCommand, RequestKey, RequestKeys, Decision, Approval
  <2>3. approvals[j] \in Seq(Approval) /\ approvals'[j] = Append(approvals[j], Decision(c))
    BY <1>2, <2>2 DEF Reviews, StoreReviewed, TypeInv, TypeOK, StoreTypeOK
  <2>4. Len(approvals'[j]) = Len(approvals[j]) + 1 /\ Len(approvals[j]) \in Nat
    BY <2>2, <2>3, AppendList, LenProperties
  <2>5. approvals' # approvals
    BY <2>4
  <2> QED BY <2>5 DEF ledgerVars
<1> QED BY <1>1, <1>2

\* How often a call has written by the time it is where it is: not before it
\* has a result; once, if it shows one of its own; and not at all when it was
\* refused, though it may have when it met a database error.
Accounted(c) ==
    /\ pc[c] = "Idle" => cmd[c] = None /\ written[c] = 0
    /\ AtWork(c) => response[c] = None
    /\ pc[c] \in Undecided => written[c] = 0 /\ ~ reply[c].replayed
    /\ Holding(c) => written[c] = IF cmd[c].op # "get" /\ ~ reply[c].replayed THEN 1 ELSE 0
    /\ pc[c] = "Done" =>
         /\ cmd[c] \in Command
         /\ response[c] = ResponseTo(cmd[c], reply[c])
         /\ ~ IsValid(cmd[c]) => written[c] = 0 /\ ~ Answered(c)
         /\ reply[c].error \notin {"OK", "ErrInternal"} => written[c] = 0

AccountInv == \A c \in Calls : Accounted(c)

LEMMA PcCases ==
    ASSUME TypeInv, NEW c \in Calls
    PROVE  /\ \/ pc[c] = "Idle" \/ pc[c] = "Done" \/ pc[c] \in Undecided
              \/ pc[c] \in {"ListApprovals", "ListTransactions"}
           /\ AtWork(c) <=> pc[c] \in RepositoryCalls
           /\ AtWork(c) => cmd[c] \in Command /\ cmd[c] # None
BY CommandHeld, NoneAssumption
   DEF TypeInv, TypeOK, CallTypeOK, AtWork, Undecided, RepositoryCalls

LEMMA RestsAccounted ==
    ASSUME DeskInv, HistoryNext, NEW c \in Calls, Accounted(c), Rests(c), threshold' = threshold
    PROVE  Accounted(c)'
<1>1. /\ pc'[c] = pc[c] /\ cmd'[c] = cmd[c] /\ reply'[c] = reply[c] /\ response'[c] = response[c]
  BY DEF Rests, StandsStill, Stands
<1>2. written'[c] = written[c]
  <2>1. written'[c] = WrittenNext(c)
    BY Zenon DEF HistoryNext
  <2>2. TypeInv
    BY DEF DeskInv, ServiceInv, ReviewInv
  <2>3. CASE cmd[c] = None
    <3>1. pc[c] = "Idle"
      BY <2>2, <2>3, PcCases, NoneAssumption DEF Accounted, AtWork, Undecided, RepositoryCalls
    <3> QED BY <1>1, <2>1, <2>3, <3>1 DEF Accounted, WrittenNext
  <2>4. CASE cmd[c] # None /\ AtWork(c)
    <3>1. written[c] \in {0, 1}
      BY <2>2, <2>4, PcCases DEF Accounted, Holding, AtWork
    <3> QED BY <1>1, <2>1, <2>4, <3>1 DEF WrittenNext
  <2>5. CASE cmd[c] # None /\ ~ AtWork(c)
    BY <1>1, <2>1, <2>5 DEF WrittenNext
  <2> QED BY <2>3, <2>4, <2>5
<1>3. ResponseTo(cmd[c], reply[c])' = ResponseTo(cmd[c], reply[c])
  BY <1>1 DEF ResponseTo
<1> QED BY <1>1, <1>2, <1>3 DEF Accounted, AtWork, Holding, Answered

LEMMA BegunAccounted ==
    ASSUME DeskInv, HistoryNext, NEW c \in Calls, Accounted(c),
           NEW a \in Requests, Begun(c, a[1], a[2])
    PROVE  Accounted(c)'
<1> DEFINE m == CommandOf(a[1], a[2])
<1>t. /\ pc \in [Calls -> RepositoryCalls \cup {"Idle", "Done"}]
      /\ cmd \in [Calls -> Command \cup {None}] /\ reply \in [Calls -> Reply]
      /\ response \in [Calls -> Response \cup {None}]
  BY DEF DeskInv, DirectoryTyped, ServiceInv, ReviewInv, TypeInv, TypeOK, CallTypeOK
<1>1. m \in Command /\ m # None
  BY CommandServed, ServiceAssumption, NoneAssumption DEF Begun, DeskInv
<1>2. Begin(c, m) /\ HandlerAnswers(c) /\ written'[c] = WrittenNext(c)
  BY Zenon DEF Begun, HistoryNext
<1> HIDE DEF m
<1>3. cmd'[c] = m /\ pc[c] \in {"Idle", "Done"} /\ ~ AtWork(c) /\ threshold' = threshold
  BY <1>t, <1>2 DEF Begin, AtWork, processVars
<1>4. CASE IsValid(m)
  <2>1. pc'[c] = FirstCall(m) /\ reply'[c] = NoReply
    BY <1>t, <1>2, <1>4 DEF Begin, Goto
  <2>2. pc'[c] \in Undecided
    BY <2>1 DEF FirstCall, Undecided, RepositoryCalls
  <2>3. pc'[c] \notin {"Idle", "Done", "ListApprovals", "ListTransactions"}
    BY <2>2 DEF Undecided, RepositoryCalls
  <2>4. written'[c] = 0
    BY <1>1, <1>2, <1>3, <2>3 DEF WrittenNext
  <2>5. response'[c] = None
    BY <1>t, <1>2, <2>3 DEF HandlerAnswers
  <2> QED BY <2>1, <2>3, <2>4, <2>5 DEF Accounted, Holding, Answered, NoReply
<1>5. CASE ~ IsValid(m)
  <2>1. pc'[c] = "Done" /\ reply'[c] = [NoReply EXCEPT !.error = "ErrInvalidCommand"]
    BY <1>t, <1>2, <1>5 DEF Begin, Goto
  <2>2. reply'[c].error = "ErrInvalidCommand"
    BY <2>1 DEF NoReply
  <2>3. written'[c] = 0
    BY <1>1, <1>2, <1>3, <1>5, <2>1 DEF WrittenNext, Accounted
  <2>4. response'[c] = ResponseTo(cmd'[c], reply'[c])
    BY <1>t, <1>2, <2>1 DEF HandlerAnswers
  <2>5. response'[c] = ResponseTo(cmd[c], reply[c])'
    BY <1>3, <2>4 DEF ResponseTo
  <2> QED BY <1>1, <1>3, <2>1, <2>2, <2>3, <2>5
          DEF Accounted, AtWork, Holding, Answered, Undecided, RepositoryCalls
<1> QED BY <1>4, <1>5

\* What a call's step does to its reply, and to the store.
LEMMA ShowsAccounted ==
    ASSUME TypeInv, Clean, Gets, NEW c \in Calls, pc[c] \in RepositoryCalls, Shows(c),
           pc[c] \in Undecided => ~ reply[c].replayed
    PROVE  /\ pc'[c] \in {"ListApprovals", "ListTransactions", "Done"}
           /\ pc'[c] # pc[c]
           /\ pc'[c] = "Done" => reply'[c].error = "OK"
           /\ \/ /\ pc[c] \in Undecided /\ UNCHANGED ledgerVars
                 /\ cmd[c].op = "get" \/ reply'[c].replayed
              \/ /\ pc[c] \in Undecided /\ ledgerVars' # ledgerVars
                 /\ cmd[c].op # "get" /\ ~ reply'[c].replayed
              \/ /\ pc[c] \notin Undecided /\ UNCHANGED ledgerVars
                 /\ reply'[c].replayed = reply[c].replayed
<1>t. /\ pc \in [Calls -> RepositoryCalls \cup {"Idle", "Done"}] /\ reply \in [Calls -> Reply]
      /\ reply[c].error = "OK"
  BY DEF TypeInv, TypeOK, CallTypeOK, Clean
<1>u. UNCHANGED storeVars => UNCHANGED ledgerVars
  BY DEF storeVars
<1>a. ASSUME NEW r, NEW b, AnswerCreated(c, r, b)
      PROVE  pc'[c] = "Done" /\ reply'[c].error = "OK" /\ reply'[c].replayed = b
  BY <1>t, <1>a DEF AnswerCreated, Answer, Goto, NoReply
<1>1. CASE HitCreated(c)
  <2>1. pc[c] \in Undecided
    BY <1>1 DEF HitCreated, CreateCalls, Undecided, RepositoryCalls
  <2>2. pc'[c] = "Done" /\ reply'[c].error = "OK" /\ reply'[c].replayed = TRUE
    BY <1>1, <1>a DEF HitCreated
  <2>3. UNCHANGED ledgerVars
    BY <1>1, <1>u DEF HitCreated
  <2> QED BY <2>1, <2>2, <2>3 DEF Undecided, RepositoryCalls
<1>2. CASE WroteCreated(c)
  <2>1. pc[c] = "CreateRefundRequest" /\ ledgerVars' # ledgerVars
    BY <1>2, WritesShow DEF WroteCreated, Creates
  <2>2. pc'[c] = "Done" /\ reply'[c].error = "OK" /\ reply'[c].replayed = FALSE
    BY <1>2, <1>a DEF WroteCreated
  <2>3. cmd[c].op # "get"
    BY <2>1 DEF TypeInv, CallsHold, CreateCalls, CreateCommand
  <2> QED BY <2>1, <2>2, <2>3 DEF Undecided, RepositoryCalls
<1>3. CASE HitRecorded(c)
  <2>1. pc[c] \in Undecided
    BY <1>3 DEF HitRecorded, RecordCalls, Undecided, RepositoryCalls
  <2>2. pc'[c] = "ListApprovals" /\ reply'[c].replayed = TRUE
    <3> DEFINE result == idempotencyRecords[Scope(cmd[c])]
    <3>1. CarryRecorded(c, result.request, result.transaction, TRUE)
      BY <1>3 DEF HitRecorded, CarryFirstResult
    <3> HIDE DEF result
    <3> QED BY <3>1, CarriedIs
  <2>3. UNCHANGED ledgerVars
    BY <1>3, <1>u DEF HitRecorded
  <2> QED BY <2>1, <2>2, <2>3 DEF Undecided, RepositoryCalls
<1>4. CASE WroteRecorded(c)
  <2>1. pc[c] = "RecordRefundTransaction" /\ ledgerVars' # ledgerVars
    BY <1>4, WritesShow DEF WroteRecorded, Records
  <2>2. pc'[c] = "ListApprovals" /\ reply'[c].replayed = FALSE
    BY <1>4, CarriedIs DEF WroteRecorded
  <2>3. cmd[c].op # "get"
    BY <2>1 DEF TypeInv, CallsHold, RecordCalls, RecordCommand
  <2> QED BY <2>1, <2>2, <2>3 DEF Undecided, RepositoryCalls
<1>5. CASE WroteReviewed(c)
  <2>1. pc[c] = "ReviewRefundRequest" /\ ledgerVars' # ledgerVars
    BY <1>5, WritesShow DEF WroteReviewed, Reviews
  <2>2. pc'[c] = "ListApprovals" /\ reply' = reply
    BY <1>5, <1>t DEF WroteReviewed, Carry, Goto
  <2>3. cmd[c].op # "get"
    BY <2>1 DEF TypeInv, CallsHold, ReviewCalls, ReviewCommand
  <2> QED BY <2>1, <2>2, <2>3 DEF Undecided, RepositoryCalls
<1>6. CASE Got(c)
  <2>1. pc[c] = "GetRequest" /\ UNCHANGED ledgerVars /\ cmd[c].op = "get"
    BY <1>6, <1>u DEF Got, Gets
  <2>2. pc'[c] = "ListApprovals" /\ reply' = reply
    BY <1>6, <1>t DEF Got, Carry, Goto
  <2> QED BY <2>1, <2>2 DEF Undecided, RepositoryCalls
<1>7. CASE ListApprovals(c)
  BY <1>7, <1>u, ListApprovalsIs DEF Undecided
<1>8. CASE ListTransactions(c)
  <2>1. reply'[c].error = reply[c].error
    BY <1>8, <1>t DEF ListTransactions, Answer, Reply
  <2> QED BY <1>8, <1>t, <1>u, <2>1, ListTransactionsIs DEF Undecided
<1> QED BY <1>1, <1>2, <1>3, <1>4, <1>5, <1>6, <1>7, <1>8 DEF Shows

LEMMA ServeAccounted ==
    ASSUME DeskInv, HistoryNext, NEW c \in Calls, Accounted(c), Serve(c)
    PROVE  Accounted(c)'
<1>t. /\ TypeInv /\ Clean /\ Gets /\ InformedInv
      /\ pc \in [Calls -> RepositoryCalls \cup {"Idle", "Done"}] /\ reply \in [Calls -> Reply]
      /\ response \in [Calls -> Response \cup {None}]
  BY DEF DeskInv, DirectoryTyped, ServiceInv, ReviewInv, TypeInv, TypeOK, CallTypeOK
<1>1. /\ pc[c] \in RepositoryCalls /\ cmd' = cmd /\ threshold' = threshold
      /\ cmd[c] \in Command /\ cmd[c] # None /\ AtWork(c)
  BY <1>t, CallStepKeepsCommand, CallKeepsProcess, PcCases DEF Serve
<1>2. IsValid(cmd[c])
  BY <1>t, <1>1 DEF InformedInv, Valid
<1>3. written'[c] = written[c] +
          (IF pc'[c] # pc[c] /\ ledgerVars' # ledgerVars THEN 1 ELSE 0)
  <2>1. written'[c] = WrittenNext(c)
    BY Zenon DEF HistoryNext
  <2> QED BY <1>1, <2>1 DEF WrittenNext
<1>4. response'[c] = IF pc'[c] = "Done" THEN ResponseTo(cmd[c], reply[c])' ELSE None
  BY <1>t, <1>1 DEF Serve, HandlerAnswers, ResponseTo
<1>5. CASE Searches(c)
  <2>1. /\ pc'[c] \in Undecided /\ reply'[c] = reply[c] /\ written'[c] = 0
        /\ pc'[c] \notin {"Idle", "Done", "ListApprovals", "ListTransactions"}
    BY <1>3, <1>5 DEF Searches, Accounted, Undecided, RepositoryCalls
  <2> QED BY <1>4, <1>5, <2>1 DEF Searches, Accounted, Holding, Answered
<1>6. CASE Refuses(c)
  <2>1. PICK e \in Errors : /\ Fail(c, e)
                            /\ UNCHANGED ledgerVars \/ e = "ErrInternal"
                            /\ pc[c] \in Undecided \/ e = "ErrInternal"
    BY <1>6 DEF Refuses
  <2>2. pc'[c] = "Done" /\ reply'[c].error = e /\ e # "OK"
    BY <1>t, <2>1 DEF Fail, Answer, Goto, NoReply, Errors
  <2>3. e # "ErrInternal" => written'[c] = 0
    BY <1>3, <2>1 DEF Accounted
  <2>4. ~ Holding(c)' /\ ~ AtWork(c)' /\ pc'[c] \notin Undecided
    BY <2>2 DEF Holding, Answered, AtWork, Undecided, RepositoryCalls
  <2> QED BY <1>1, <1>2, <1>4, <2>2, <2>3, <2>4 DEF Accounted
<1>7. CASE Shows(c)
  <2>1. /\ pc'[c] \in {"ListApprovals", "ListTransactions", "Done"}
        /\ pc'[c] # pc[c]
        /\ pc'[c] = "Done" => reply'[c].error = "OK"
        /\ \/ /\ pc[c] \in Undecided /\ UNCHANGED ledgerVars
              /\ cmd[c].op = "get" \/ reply'[c].replayed
           \/ /\ pc[c] \in Undecided /\ ledgerVars' # ledgerVars
              /\ cmd[c].op # "get" /\ ~ reply'[c].replayed
           \/ /\ pc[c] \notin Undecided /\ UNCHANGED ledgerVars
              /\ reply'[c].replayed = reply[c].replayed
    BY <1>t, <1>1, <1>7, ShowsAccounted DEF Accounted
  <2>2. pc[c] \notin Undecided => Holding(c)
    BY <1>1 DEF Undecided, Holding
  <2>3. written'[c] = IF cmd[c].op # "get" /\ ~ reply'[c].replayed THEN 1 ELSE 0
    BY <1>3, <2>1, <2>2 DEF Accounted
  <2>4. pc'[c] \notin Undecided /\ pc'[c] # "Idle"
    BY <2>1 DEF Undecided, RepositoryCalls
  <2> QED BY <1>1, <1>2, <1>4, <2>1, <2>3, <2>4 DEF Accounted, AtWork
<1> QED BY <1>t, <1>5, <1>6, <1>7, CallOutcomes DEF Serve

LEMMA NextAccounted ==
    ASSUME DeskInv, [HistoryNext]_<<deskVars, histVars>>, NEW c \in Calls, Accounted(c)
    PROVE  Accounted(c)'
<1>t. TypeInv
  BY DEF DeskInv, ServiceInv, ReviewInv
<1>1. CASE UNCHANGED <<deskVars, histVars>>
  BY <1>1 DEF deskVars, vars, callVars, processVars, handlerVars, histVars, Accounted, AtWork,
     Holding, Answered, ResponseTo
<1>2. CASE HistoryNext
  <2>0. written'[c] = WrittenNext(c) /\ [DeskNext]_deskVars
    BY <1>2, Zenon DEF HistoryNext
  <2>1. ASSUME NEW r, Turn(c, r) PROVE Accounted(c)'
    <3>1. pc'[c] = "Idle" /\ cmd'[c] = None
      BY <1>t, <2>1 DEF Turn, TypeInv, TypeOK, CallTypeOK
    <3>2. written'[c] = 0
      BY <2>0, <3>1 DEF WrittenNext
    <3> QED BY <3>1, <3>2 DEF Accounted, AtWork, Undecided, RepositoryCalls, Holding, Answered
  <2>2. CASE DeskRestart
    <3>1. pc'[c] = "Idle" /\ cmd'[c] = None
      BY <2>2 DEF DeskRestart, Restart
    <3>2. written'[c] = 0
      BY <2>0, <3>1 DEF WrittenNext
    <3> QED BY <3>1, <3>2 DEF Accounted, AtWork, Undecided, RepositoryCalls, Holding, Answered
  <2> QED BY <1>2, <2>0, <2>1, <2>2, DeskView, DeskProcess, RestsAccounted, BegunAccounted,
             ServeAccounted
<1> QED BY <1>1, <1>2

LEMMA InitAccount == HistoryInit => AccountInv
BY DEF HistoryInit, DeskInit, Init, CallsIdle, AccountInv, Accounted, AtWork, Undecided,
   RepositoryCalls, Holding, Answered

\* A client can tell from the answer what became of its request: success without
\* the header Idempotency-Replayed means it was carried out once, success with
\* it, or any refusal, that it changed nothing; only a 500 leaves that open
\* (README.md:124, server.go:246).
THEOREM StatusTells == HistorySpec => []StatusTellsEffect
<1>1. DeskInv /\ AccountInv /\ [HistoryNext]_<<deskVars, histVars>> => AccountInv'
  BY NextAccounted DEF AccountInv
<1>2. ASSUME DeskInv, NEW c \in Calls, Accounted(c), response[c] # None
      PROVE  LET succeeded == response[c].status \in {200, 201} IN
             /\ ~ succeeded /\ response[c].status # 500 => written[c] = 0
             /\ succeeded =>
                   written[c] = IF /\ cmd[c] # None /\ cmd[c].op # "get"
                                   /\ ~ response[c].replayed
                                THEN 1 ELSE 0
  <2>t. TypeInv
    BY <1>2 DEF DeskInv, ServiceInv, ReviewInv
  <2>1. CASE pc[c] = "Idle"
    BY <1>2, <2>1 DEF Accounted
  <2>2. CASE AtWork(c)
    BY <1>2, <2>2 DEF Accounted
  <2>3. CASE pc[c] = "Done" /\ reply[c].error = "OK"
    <3>1. response[c].replayed = reply[c].replayed /\ response[c].status \in {200, 201}
      BY <1>2, <2>3 DEF Accounted, ResponseTo
    <3>2. written[c] = IF cmd[c].op # "get" /\ ~ reply[c].replayed THEN 1 ELSE 0
      BY <1>2, <2>3 DEF Accounted, Holding, Answered
    <3>3. cmd[c] # None
      BY <1>2, <2>3, NoneAssumption DEF Accounted
    <3> QED BY <3>1, <3>2, <3>3
  <2>4. CASE pc[c] = "Done" /\ reply[c].error # "OK"
    <3>1. response[c].status = ErrorStatus(reply[c].error)
      BY <1>2, <2>4 DEF Accounted, ResponseTo, ErrorResponse
    <3>2. ErrorStatus(reply[c].error) \notin {200, 201} /\ ErrorStatus("ErrInternal") = 500
      BY DEF ErrorStatus
    <3> QED BY <1>2, <2>4, <3>1, <3>2 DEF Accounted
  <2> QED BY <2>t, <2>1, <2>2, <2>3, <2>4, PcCases DEF AtWork
<1>3. DeskInv /\ AccountInv => StatusTellsEffect
  BY <1>2, Zenon DEF StatusTellsEffect, AccountInv
<1> QED BY InitAccount, <1>1, <1>3, HistoryIsDesk, DeskInvHolds, PTL DEF HistorySpec

-----------------------------------------------------------------------------
(* What answers tell of the approvals a request needs *)

\* In the book of requests, number k[2] of tenant k[1] is a request of amount a.
InBook(book, k, a) == k \in RequestKeys /\ book[k] # None /\ book[k].amount = a

\* First results on record, and what calls have in hand, are requests on record.
RecordsStand ==
    \A s \in Scopes : Told(s) =>
        InBook(requests, Written(s), idempotencyRecords[s].request.amount)
ShowsStanding(c) ==
    Holding(c) => InBook(requests, <<cmd[c].tenant, Shown(c).no>>, Shown(c).amount)

\* A reviewer takes the second level for a request that needs it.
LevelNeeded(c) ==
    pc[c] = "ReviewRefundRequest" /\ level[c] = 2 =>
        RequiresHighAmountApproval(request[c].amount, threshold)

BookInv == RecordsStand /\ \A c \in Calls : ShowsStanding(c) /\ LevelNeeded(c)

LEMMA BookStays ==
    ASSUME TypeInv, [Next]_vars
    PROVE  \A k, a : InBook(requests, k, a) => InBook(requests', k, a)
<1> SUFFICES ASSUME NEW k \in RequestKeys, requests[k] # None
             PROVE  requests'[k] # None /\ requests'[k].amount = requests[k].amount
  BY DEF InBook
<1>1. requests[k] \in Request /\ Exists(k)
  BY DEF Exists, TypeInv, TypeOK, StoreTypeOK
<1>2. ASSUME NEW status \in RequestStatuses,
             requests'[k] = [requests[k] EXCEPT !.status = status]
      PROVE  requests'[k] # None /\ requests'[k].amount = requests[k].amount
  BY <1>1, <1>2, StatusChange
<1>3. requests'[k] = requests[k] \/ \E status \in RequestStatuses :
          requests'[k] = [requests[k] EXCEPT !.status = status]
  BY <1>1, RequestSteps
<1> QED BY <1>2, <1>3

\* What a creation puts on record and in its answer is in the book.
LEMMA CreatedInBook ==
    ASSUME TypeInv, NEW c \in Calls, Creates(c)
    PROVE  InBook(requests', <<cmd[c].tenant, request[c].no>>, request[c].amount)
<1> DEFINE k == <<cmd[c].tenant, request[c].no>>
<1>1. k \in RequestKeys /\ request[c] \in Request /\ requests'[k] = request[c]
  BY CreateEffect
<1> QED BY <1>1, NoneAssumption DEF InBook

\* So is a request on record with another status.
LEMMA RestatedInBook ==
    ASSUME TypeInv, Numbered, [Next]_vars, NEW m, RequestKey(m) \in RequestKeys,
           requests[RequestKey(m)] # None, NEW status \in RequestStatuses
    PROVE  LET q == [requests[RequestKey(m)] EXCEPT !.status = status] IN
           InBook(requests', <<m.tenant, q.no>>, q.amount)
<1> DEFINE k == RequestKey(m)
           q == [requests[k] EXCEPT !.status = status]
<1>1. requests[k] \in Request /\ requests[k].no = k[2]
  BY DEF TypeInv, TypeOK, StoreTypeOK, Numbered, Exists
<1>2. q.no = k[2] /\ q.amount = requests[k].amount
  BY <1>1, StatusChange
<1>3. <<m.tenant, k[2]>> = k
  BY DEF RequestKey
<1>4. InBook(requests, k, requests[k].amount)
  BY DEF InBook
<1> HIDE DEF k, q
<1>5. InBook(requests', <<m.tenant, q.no>>, q.amount)
  BY <1>2, <1>3, <1>4, BookStays
<1> QED BY <1>5 DEF k, q

LEMMA RecordedInBook ==
    ASSUME TypeInv, Numbered, [Next]_vars, NEW c \in Calls, Records(c)
    PROVE  LET q == requests'[RequestKey(cmd[c])] IN
           InBook(requests', <<cmd[c].tenant, q.no>>, q.amount)
<1> DEFINE m == cmd[c]
           k == RequestKey(m)
<1>1. /\ k \in RequestKeys /\ requests[k] # None /\ m \in RecordCommand
      /\ requests'[k] = [requests[k] EXCEPT !.status = m.status]
  BY RecordEffect
<1>2. m.status \in RequestStatuses
  BY <1>1 DEF RecordCommand, TransactionStatuses, RequestStatuses
<1> HIDE DEF m
<1>3. LET q == [requests[k] EXCEPT !.status = m.status] IN
      InBook(requests', <<m.tenant, q.no>>, q.amount)
  BY <1>1, <1>2, RestatedInBook
<1>4. InBook(requests', <<m.tenant, requests'[k].no>>, requests'[k].amount)
  BY <1>1, <1>3
<1> QED BY <1>4 DEF m

LEMMA NextRecordsStand ==
    ASSUME ServiceInv, RecordsStand, [Next]_vars
    PROVE  RecordsStand'
<1>t. TypeInv /\ Numbered
  BY DEF ServiceInv, ReviewInv
<1> DEFINE Booked(s) ==
               InBook(requests', <<s[1], idempotencyRecords'[s].request.no>>,
                      idempotencyRecords'[s].request.amount)
<1>1. ASSUME NEW s \in Scopes, Told(s) PROVE Booked(s)
  <2>1. idempotencyRecords'[s] = idempotencyRecords[s]
    BY <1>t, <1>1, RecordsStay DEF Told
  <2>2. InBook(requests, <<s[1], idempotencyRecords[s].request.no>>,
               idempotencyRecords[s].request.amount)
    BY <1>1 DEF RecordsStand, Written
  <2> QED BY <1>t, <2>1, <2>2, BookStays
<1>2. ASSUME NEW s \in Scopes, ~ Told(s), Told(s)' PROVE Booked(s)
  <2>1. ~ UNCHANGED ledgerVars
    BY <1>2 DEF Told, ledgerVars
  <2>2. ASSUME NEW c \in Calls, Creates(c) PROVE Booked(s)
    <3>1. /\ cmd[c] \in CreateCommand
          /\ \A u \in Scopes : idempotencyRecords'[u] =
                 IF u = Scope(cmd[c])
                 THEN [hash |-> RequestHash(cmd[c]), request |-> request[c], transaction |-> None]
                 ELSE idempotencyRecords[u]
      BY <1>t, <2>2, CreateEffect
    <3>2. s = Scope(cmd[c]) /\ idempotencyRecords'[s].request = request[c]
      BY <1>2, <3>1 DEF Told
    <3>3. s[1] = cmd[c].tenant
      BY <3>2 DEF Scope
    <3>4. InBook(requests', <<cmd[c].tenant, request[c].no>>, request[c].amount)
      BY <1>t, <2>2, CreatedInBook
    <3> QED BY <3>2, <3>3, <3>4
  <2>3. ASSUME NEW c \in Calls, Records(c) PROVE Booked(s)
    <3> DEFINE m == cmd[c]
               k == RequestKey(m)
    <3>1. /\ k \in RequestKeys
          /\ \A j \in RequestKeys :
                requests'[j] = IF j = k THEN [requests[k] EXCEPT !.status = m.status]
                               ELSE requests[j]
          /\ \A u \in Scopes : idempotencyRecords'[u] =
                 IF u = Scope(m)
                 THEN [hash |-> RequestHash(m),
                       request |-> [requests[k] EXCEPT !.status = m.status],
                       transaction |-> TransactionOf(m)]
                 ELSE idempotencyRecords[u]
      BY <1>t, <2>3, RecordEffect
    <3>2. s = Scope(m) /\ idempotencyRecords'[s].request = requests'[k]
      BY <1>2, <3>1 DEF Told
    <3>3. s[1] = m.tenant
      BY <3>2 DEF Scope
    <3>4. InBook(requests', <<m.tenant, requests'[k].no>>, requests'[k].amount)
      BY <1>t, <2>3, RecordedInBook
    <3> QED BY <3>2, <3>3, <3>4
  <2>4. ASSUME NEW c \in Calls, Reviews(c) PROVE FALSE
    BY <1>t, <1>2, <2>4, ReviewEffect DEF Told
  <2> QED BY <2>1, <2>2, <2>3, <2>4, WriteSteps
<1> QED BY <1>1, <1>2 DEF RecordsStand, Told, Written

LEMMA NextShowsStanding ==
    ASSUME ServiceInv, BookInv, [Next]_vars, NEW c \in Calls
    PROVE  ShowsStanding(c)'
<1> SUFFICES ASSUME Holding(c)'
             PROVE  InBook(requests', <<cmd'[c].tenant, Shown(c)'.no>>, Shown(c)'.amount)
  BY DEF ShowsStanding, Shown
<1>t. TypeInv /\ Numbered
  BY DEF ServiceInv, ReviewInv
<1> DEFINE m == cmd[c]
           Holds(r) == cmd'[c] = cmd[c] /\ Shown(c)' = r
           Booked(r) == InBook(requests', <<cmd[c].tenant, r.no>>, r.amount)
<1>1. CASE StandsStill(c) \/ ListApprovals(c) \/ ListTransactions(c)
  <2>1. Holding(c) /\ Holds(Shown(c))
    <3>1. CASE StandsStill(c)
      BY <3>1 DEF StandsStill, Stands, Holding, Answered, Shown
    <3>2. CASE ListApprovals(c)
      BY <1>t, <3>2, ListApprovalsIs DEF Holding, Shown
    <3>3. CASE ListTransactions(c)
      BY <1>t, <3>3, ListTransactionsIs DEF Holding, Shown
    <3> QED BY <1>1, <3>1, <3>2, <3>3
  <2>2. InBook(requests, <<cmd[c].tenant, Shown(c).no>>, Shown(c).amount)
    BY <2>1 DEF BookInv, ShowsStanding
  <2> QED BY <1>t, <2>1, <2>2, BookStays
<1>2. CASE HitCreated(c) \/ HitRecorded(c)
  <2> DEFINE r == idempotencyRecords[Scope(m)].request
  <2>1. Holds(r) /\ IdempotencyHit(m) /\ m \in CreateCommand \cup RecordCommand
    <3>1. CASE HitCreated(c)
      <4>1. AnswerCreated(c, r, TRUE) /\ IdempotencyHit(m) /\ m \in CreateCommand
        BY <1>t, <3>1 DEF HitCreated, TypeInv, CallsHold
      <4> HIDE DEF r
      <4> QED BY <1>t, <4>1, AnswerIs DEF Shown
    <3>2. CASE HitRecorded(c)
      <4> DEFINE receipt == idempotencyRecords[Scope(m)].transaction
      <4>1. /\ CarryRecorded(c, r, receipt, TRUE)
            /\ IdempotencyHit(m) /\ m \in RecordCommand
        BY <1>t, <3>2 DEF HitRecorded, CarryFirstResult, TypeInv, CallsHold
      <4> HIDE DEF r, receipt
      <4>2. pc'[c] = "ListApprovals" /\ cmd' = cmd /\ request'[c] = r
        BY <1>t, <4>1, CarriedIs
      <4> QED BY <4>1, <4>2 DEF Shown
    <3> QED BY <1>2, <3>1, <3>2
  <2>2. Scope(m) \in Scopes /\ Told(Scope(m)) /\ Scope(m)[1] = m.tenant
    BY <2>1 DEF IdempotencyHit, IdempotencyMiss, Told, Scope, Scopes, Operations,
       CreateCommand, RecordCommand
  <2>3. InBook(requests, <<m.tenant, r.no>>, r.amount)
    BY <2>2 DEF BookInv, RecordsStand, Written
  <2> QED BY <1>t, <2>1, <2>3, BookStays
<1>3. CASE WroteCreated(c)
  <2>1. Holds(request[c]) /\ Booked(request[c])
    BY <1>t, <1>3, AnswerIs, CreatedInBook DEF WroteCreated, Shown
  <2> QED BY <2>1
<1>4. CASE WroteRecorded(c)
  <2> DEFINE r == requests'[RequestKey(m)]
  <2>1. Records(c) /\ CarryRecorded(c, r, TransactionOf(m), FALSE)
    BY <1>4 DEF WroteRecorded
  <2>2. Booked(r)
    BY <1>t, <2>1, RecordedInBook
  <2> HIDE DEF r
  <2>3. Holds(r)
    BY <1>t, <2>1, CarriedIs DEF Shown
  <2> QED BY <2>2, <2>3
<1>5. CASE WroteReviewed(c)
  <2> DEFINE k == RequestKey(m)
             after == ReviewedStatus(m.decision, request[c].amount, level[c], threshold)
             r == [requests[k] EXCEPT !.status = after]
  <2>1. /\ Reviews(c) /\ Carry(c, r, "ListApprovals") /\ UNCHANGED <<cmd, reply>>
    BY <1>5 DEF WroteReviewed
  <2>2. m \in ReviewCommand /\ requests[k] # None
    BY <1>t, <2>1 DEF Reviews, ReviewRefusal, TypeInv, CallsHold, ReviewCalls
  <2>3. k \in RequestKeys
    BY <2>2 DEF ReviewCommand, RequestKey, RequestKeys
  <2>4. after \in RequestStatuses
    BY ReviewedStatusType, Zenon DEF RequestStatuses
  <2> HIDE DEF after
  <2>5. Booked(r)
    BY <1>t, <2>2, <2>3, <2>4, RestatedInBook
  <2> HIDE DEF r
  <2>6. Holds(r)
    BY <1>t, <2>1 DEF Carry, Goto, Shown, TypeInv, TypeOK, CallTypeOK
  <2> QED BY <2>5, <2>6
<1>6. CASE Got(c)
  <2> DEFINE k == RequestKey(m)
  <2>1. /\ k \in RequestKeys /\ requests[k] # None /\ requests[k].no = k[2]
        /\ Carry(c, requests[k], "ListApprovals") /\ UNCHANGED <<cmd, requests>>
    BY <1>t, <1>6, DetailKey DEF Got, DetailCalls, Numbered, Exists, storeVars, ledgerVars
  <2>2. Holds(requests[k])
    BY <1>t, <2>1 DEF Carry, Goto, Shown, TypeInv, TypeOK, CallTypeOK
  <2>3. <<m.tenant, requests[k].no>> = k
    BY <2>1 DEF RequestKey
  <2>4. Booked(requests[k])
    BY <2>1, <2>3 DEF InBook
  <2> QED BY <2>2, <2>4
<1> QED BY <1>t, <1>1, <1>2, <1>3, <1>4, <1>5, <1>6, HoldingSteps DEF Shows

LEMMA NextLevelNeeded ==
    ASSUME TypeInv, [Next]_vars, NEW c \in Calls, LevelNeeded(c)
    PROVE  LevelNeeded(c)'
<1> SUFFICES ASSUME pc'[c] = "ReviewRefundRequest", level'[c] = 2
             PROVE  RequiresHighAmountApproval(request'[c].amount, threshold')
  BY DEF LevelNeeded
<1>1. threshold' = threshold
  <2>1. ASSUME NEW d \in Calls, NEW n \in Commands, Begin(d, n) PROVE threshold' = threshold
    BY <2>1 DEF Begin, processVars
  <2>2. ~ Restart
    BY DEF Restart
  <2>3. CASE \/ \E k \in OrderKeys, order \in OrderVersions : OrderChanges(k, order)
             \/ UNCHANGED vars
    BY <2>3 DEF OrderChanges, vars, processVars
  <2> QED BY <2>1, <2>2, <2>3, CallKeepsProcess DEF Next
<1>2. CASE Stands(c)
  BY <1>1, <1>2 DEF Stands, LevelNeeded
<1>3. CASE FindOrder(c) \/ FindReviewed(c)
  <2>1. \/ \E e : Fail(c, e)
        \/ Goto(c, "CreateRefundRequest") \/ Goto(c, "ListForLevel")
    BY <1>3, Zenon DEF FindOrder, FindReviewed, Carry
  <2> QED BY <2>1 DEF Fail, Answer, Goto, TypeInv, TypeOK, CallTypeOK
<1>4. CASE ListForLevel(c)
  <2> DEFINE list == approvals[RequestKey(cmd[c])]
             next == NextApprovalLevel(request[c].amount, list, threshold)
  <2>1. \/ \E e : Fail(c, e)
        \/ level' = [level EXCEPT ![c] = next] /\ request' = request
    BY <1>4, Zenon DEF ListForLevel
  <2>2. level' = [level EXCEPT ![c] = next] /\ request' = request
    BY <2>1 DEF Fail, Answer, Goto, TypeInv, TypeOK, CallTypeOK
  <2>3. next = 2
    BY <2>2 DEF TypeInv, TypeOK, CallTypeOK
  <2>4. RequiresHighAmountApproval(request[c].amount, threshold)
    BY <2>3 DEF NextApprovalLevel
  <2> QED BY <1>1, <2>2, <2>4
<1> QED BY <1>2, <1>3, <1>4, CallSteps DEF Approaches

\* Requests that are answered without the service leave the book and every other
\* call as they are.
LEMMA TurnedBook ==
    ASSUME TypeInv, BookInv, NEW d \in Calls, Turned(d)
    PROVE  BookInv'
<1>1. /\ pc'[d] = "Idle" /\ \A c \in Calls : c # d => StandsStill(c)
      /\ threshold' = threshold
      /\ requests' = requests /\ idempotencyRecords' = idempotencyRecords
  BY TurnedStands DEF storeVars, ledgerVars
<1>2. RecordsStand'
  BY <1>1 DEF BookInv, RecordsStand, Told, Written
<1>3. ShowsStanding(d)' /\ LevelNeeded(d)'
  BY <1>1 DEF ShowsStanding, LevelNeeded, Holding, Answered
<1>4. ASSUME NEW c \in Calls, c # d PROVE ShowsStanding(c)' /\ LevelNeeded(c)'
  <2>1. /\ pc'[c] = pc[c] /\ cmd'[c] = cmd[c] /\ request'[c] = request[c]
        /\ level'[c] = level[c] /\ reply'[c] = reply[c]
    BY <1>1, <1>4 DEF StandsStill, Stands
  <2> QED BY <1>1, <2>1 DEF BookInv, ShowsStanding, LevelNeeded, Holding, Answered, Shown
<1> QED BY <1>2, <1>3, <1>4 DEF BookInv

LEMMA NextBook == DeskInv /\ BookInv /\ [DeskNext]_deskVars => BookInv'
<1> SUFFICES ASSUME DeskInv, BookInv, [DeskNext]_deskVars PROVE BookInv'
  OBVIOUS
<1>1. TypeInv /\ ServiceInv
  BY DEF DeskInv, ServiceInv, ReviewInv
<1>2. CASE [Next]_vars
  <2>1. RecordsStand' /\ \A c \in Calls : ShowsStanding(c)' /\ LevelNeeded(c)'
    BY <1>1, <1>2, NextRecordsStand, NextShowsStanding, NextLevelNeeded DEF BookInv
  <2> QED BY <2>1 DEF BookInv
<1> QED BY <1>1, <1>2, TurnedBook, DeskSteps

\* What clients have been told of a request holds of the one on record.
ToldInv ==
    \A k \in RequestKeys : \A p \in told[k] :
        /\ Exists(k)
        /\ p.high = RequiresHighAmountApproval(requests[k].amount, p.under)

\* A call that comes to its answer is served, and keeps its command.
LEMMA AnswersAreServed ==
    ASSUME DeskInv, [DeskNext]_deskVars, NEW c \in Calls, Answers(c)
    PROVE  Serve(c) /\ cmd' = cmd
<1>1. TypeInv
  BY DEF DeskInv, ServiceInv, ReviewInv
<1>2. ~ DeskRestart
  BY DEF DeskRestart, Restart, Answers
<1>3. Serve(c)
  BY <1>2, DeskView DEF Answers, AtWork, Begun, Begin, Rests, StandsStill, Stands
<1> QED BY <1>1, <1>3, CallStepKeepsCommand DEF Serve

\* An answer of success tells of a request on record what its amount and the
\* threshold of the process make of it.
LEMMA AnswersTell ==
    ASSUME DeskInv, BookInv', [DeskNext]_deskVars, NEW c \in Calls, Answers(c),
           reply'[c].error = "OK"
    PROVE  LET r == reply'[c].request IN
           /\ InBook(requests', <<cmd[c].tenant, r.no>>, r.amount)
           /\ response'[c].high = RequiresHighAmountApproval(r.amount, threshold)
<1>1. Serve(c) /\ cmd' = cmd /\ pc'[c] = "Done"
  BY AnswersAreServed DEF Answers
<1>2. Holding(c)' /\ Shown(c)' = reply'[c].request
  BY <1>1 DEF Holding, Answered, Shown
<1>3. ShowsStanding(c)'
  BY DEF BookInv
<1>4. response'[c] = ResponseTo(cmd'[c], reply'[c])
  BY <1>1 DEF Serve, HandlerAnswers, DeskInv, DirectoryTyped
<1>5. response'[c].high = RequiresHighAmountApproval(reply'[c].request.amount, threshold)
  BY <1>4 DEF ResponseTo
<1> QED BY <1>1, <1>2, <1>3, <1>5 DEF ShowsStanding

LEMMA NextTold ==
    ASSUME DeskInv, BookInv', ToldInv, [HistoryNext]_<<deskVars, histVars>>
    PROVE  ToldInv'
<1>t. TypeInv /\ [DeskNext]_deskVars
  BY DEF DeskInv, ServiceInv, ReviewInv, HistoryNext
<1>1. ASSUME NEW k \in RequestKeys, Exists(k)
      PROVE  requests'[k] # None /\ requests'[k].amount = requests[k].amount
  <2>1. ASSUME NEW c \in Calls, Turned(c) PROVE requests' = requests
    BY <2>1 DEF Turned, storeVars, ledgerVars
  <2>2. CASE [Next]_vars
    <3>1. InBook(requests', k, requests[k].amount)
      BY <1>t, <1>1, <2>2, BookStays DEF InBook, Exists
    <3> QED BY <3>1 DEF InBook
  <2> QED BY <1>t, <1>1, <2>1, <2>2, DeskSteps DEF Exists
<1>2. ASSUME NEW k \in RequestKeys, NEW p \in told'[k]
      PROVE  /\ requests'[k] # None
             /\ p.high = RequiresHighAmountApproval(requests'[k].amount, p.under)
  <2>1. CASE p \in told[k]
    BY <1>1, <1>2, <2>1 DEF ToldInv
  <2>2. CASE p \notin told[k]
    <3>1. HistoryNext
      BY <1>2, <2>2 DEF histVars
    <3>2. told'[k] = ToldNext(k)
      BY <3>1, Zenon DEF HistoryNext
    <3>3. PICK c \in Calls : /\ Answers(c) /\ reply'[c].error = "OK"
                             /\ <<cmd[c].tenant, reply'[c].request.no>> = k
                             /\ p = [high |-> response'[c].high, under |-> threshold]
      BY <1>2, <2>2, <3>2 DEF ToldNext
    <3> DEFINE r == reply'[c].request
    <3>4. /\ InBook(requests', <<cmd[c].tenant, r.no>>, r.amount)
          /\ response'[c].high = RequiresHighAmountApproval(r.amount, threshold)
      BY <1>t, <3>3, AnswersTell
    <3>5. InBook(requests', k, r.amount)
      BY <3>3, <3>4
    <3>6. p.high = RequiresHighAmountApproval(r.amount, threshold) /\ p.under = threshold
      BY <3>3, <3>4
    <3> QED BY <3>5, <3>6 DEF InBook
  <2> QED BY <2>1, <2>2
<1> QED BY <1>2 DEF ToldInv, Exists

\* What a decision of approval does to a request, by the threshold in force.
LEMMA ApprovalDecides ==
    ASSUME DeskInv, BookInv, [DeskNext]_deskVars, NEW k \in RequestKeys,
           approvals'[k] # approvals[k], Last(approvals'[k]).status = "APPROVED"
    PROVE  requests'[k].status = "APPROVED" <=>
               Len(approvals'[k]) =
                   IF RequiresHighAmountApproval(requests[k].amount, threshold) THEN 2 ELSE 1
<1>t. /\ TypeInv /\ ReviewInv
      /\ approvals \in [RequestKeys -> Seq(Approval)]
      /\ requests \in [RequestKeys -> Request \cup {None}]
  BY DEF DeskInv, ServiceInv, ReviewInv, TypeInv, TypeOK, StoreTypeOK
<1>1. PICK c \in Calls : Reviews(c)
  <2>1. ASSUME NEW d \in Calls, Turned(d) PROVE FALSE
    BY <2>1 DEF Turned, storeVars, ledgerVars
  <2>2. CASE UNCHANGED ledgerVars
    BY <2>2 DEF ledgerVars
  <2>3. ASSUME NEW d \in Calls, Creates(d) \/ Records(d) PROVE FALSE
    BY <2>3 DEF Creates, Records, StoreCreated, StoreRecorded
  <2> QED BY <2>1, <2>2, <2>3, DeskSteps, WriteSteps
<1> DEFINE m == cmd[c]
           j == RequestKey(m)
           list == approvals[j]
           after == ReviewedStatus(m.decision, request[c].amount, level[c], threshold)
<1>2. /\ pc[c] = "ReviewRefundRequest" /\ requests[j] # None
      /\ requests' = [requests EXCEPT ![j] = [@ EXCEPT !.status = after]]
      /\ approvals' = [approvals EXCEPT ![j] = Append(@, Decision(c))]
  BY <1>1 DEF Reviews, StoreReviewed, ReviewRefusal
<1>3. Reviewed(c)
  BY <1>1 DEF Reviews, Reviewed, StoreReviewed, Decision
<1>4. m \in ReviewCommand /\ level[c] \in Levels /\ Decision(c) \in Approval
  BY <1>t, <1>3, ReviewedFinds
<1>5. level[c] = Len(list) + 1 /\ requests[j].amount = request[c].amount
  BY <1>t, <1>3, DecisionFollows
<1>6. k = j
  BY <1>t, <1>2
<1>7. requests'[k].status = after
  <2>1. after \in RequestStatuses
    BY ReviewedStatusType, Zenon DEF RequestStatuses
  <2>2. requests[k] \in Request
    BY <1>t, <1>2, <1>6
  <2>3. requests'[k] = [requests[k] EXCEPT !.status = after]
    BY <1>t, <1>2, <1>6
  <2> HIDE DEF after
  <2> QED BY <2>1, <2>2, <2>3, StatusChange
<1>8. /\ Len(approvals'[k]) = level[c]
      /\ Last(approvals'[k]) = Decision(c)
  BY <1>t, <1>2, <1>4, <1>5, <1>6, AppendList DEF Last
<1>9. m.decision = "APPROVED"
  BY <1>8 DEF Decision
<1>10. level[c] = 2 => RequiresHighAmountApproval(request[c].amount, threshold)
  BY <1>2 DEF BookInv, LevelNeeded
<1> DEFINE high == RequiresHighAmountApproval(request[c].amount, threshold)
<1>11. after = IF high /\ level[c] = 1 THEN "PENDING_REVIEW" ELSE "APPROVED"
  BY <1>9 DEF ReviewedStatus
<1>12. level[c] \in {1, 2}
  BY <1>4 DEF Levels
<1> HIDE DEF after, high
<1>13. after = "APPROVED" <=> level[c] = IF high THEN 2 ELSE 1
  BY <1>10, <1>11, <1>12 DEF high
<1> QED BY <1>5, <1>6, <1>7, <1>8, <1>13 DEF high

\* What a client has been told of a request, by the first answer, a replay, a
\* review or a reading, of this process or of an earlier one with the same
\* threshold, is what the desk decides by: two approvals make it approved if it
\* was said to need two, one if not (README.md:110-112, service.go:344, :643,
\* :696, :722).
THEOREM WhatIsToldDecides == HistorySpec => ToldLevelsDecide
<1>1. HistoryInit => BookInv /\ ToldInv
  BY DEF HistoryInit, DeskInit, Init, StoreInit, CallsIdle, BookInv, RecordsStand, Told,
     ShowsStanding, LevelNeeded, Holding, Answered, ToldInv
<1>2. DeskInv /\ BookInv /\ [HistoryNext]_<<deskVars, histVars>> => BookInv'
  BY NextBook DEF HistoryNext
<1>3. DeskInv /\ BookInv' /\ ToldInv /\ [HistoryNext]_<<deskVars, histVars>> => ToldInv'
  BY NextTold
<1> DEFINE Keeps ==
        \A k \in RequestKeys :
          approvals'[k] # approvals[k] /\ Last(approvals'[k]).status = "APPROVED" =>
              \A p \in {q \in told[k] : q.under = threshold} :
                  requests'[k].status = "APPROVED" <=>
                      Len(approvals'[k]) = IF p.high THEN 2 ELSE 1
<1>4. ASSUME DeskInv, BookInv, ToldInv, [DeskNext]_deskVars PROVE Keeps
  <2> SUFFICES ASSUME NEW k \in RequestKeys, approvals'[k] # approvals[k],
                      Last(approvals'[k]).status = "APPROVED",
                      NEW p \in told[k], p.under = threshold
               PROVE  requests'[k].status = "APPROVED" <=>
                          Len(approvals'[k]) = IF p.high THEN 2 ELSE 1
    OBVIOUS
  <2>1. p.high = RequiresHighAmountApproval(requests[k].amount, threshold)
    BY <1>4 DEF ToldInv
  <2> QED BY <1>4, <2>1, ApprovalDecides
<1>5. DeskInv /\ BookInv /\ ToldInv /\ [HistoryNext]_<<deskVars, histVars>> => [Keeps]_deskVars
  BY <1>4 DEF HistoryNext
<1> QED BY <1>1, <1>2, <1>3, <1>5, HistoryIsDesk, DeskInvHolds, PTL
        DEF HistorySpec, ToldLevelsDecide
===============================================================================
