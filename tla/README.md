# LinDesk in TLA+

LinDesk is a refund desk for merchants: customer service submits refund
requests for unshipped orders, supervisors (and, above a threshold, finance
supervisors) review them, finance records what the payment provider did. The
modules here model the parts of it that decide something while other things
happen at the same time, check them with TLC on small instances, and prove
all of their safety properties and refinements with TLAPS, for instances of every
size.

Paths below are relative to `src/` unless they name a module.

## 1. Inventory

| component | state | operations | talks to |
|---|---|---|---|
| Domain (`internal/domain`) | none | `RefundableAmount`, `CanRequestUnshippedRefund`, `RequiresHighAmountApproval`, statuses | everybody |
| Refund service (`internal/refund/service.go`) | none between calls; per call the values it has read | `CreateRequest`, `ApproveRequest`, `RejectRequest`, `RecordTransaction`, `GetRequest`, `GetOrder` | a `Repository`, one call after another, no lock held between them |
| Number generator (same file) | last sequence per tenant, in the process | `Next` | called by `CreateRequest` |
| PostgreSQL repository (`postgres_repository.go`) | orders, requests, approvals, transactions, provider refund numbers, audit log, idempotency records | find, list, `CreateRefundRequest`, `ReviewRefundRequest`, `RecordRefundTransaction` | row locks, unique indexes, a pool of connections |
| In-memory repository (`memory_repository.go`) | the same, in maps | the same | one mutex |
| Persistent auth (`internal/auth/persistent_service.go`, `postgres_repository.go`) | `users`, `tenants`, `tenant_members`, `roles`, `auth_sessions` | `Login`, `Authenticate`, `Logout` | one SQL statement after another |
| In-memory auth (`internal/auth/service.go`) | directory, sessions with an actor snapshot | the same three | one `RWMutex` |
| HTTP layer (`internal/httpapi/server.go`) | the actor in a request's context | guard, handlers, statuses | auth, then the refund service |
| Configuration, database opening (`internal/config`, `internal/database`) | none | `Load`, `Validate`, `Open` | called by `main` |
| Process (`cmd/lindesk/main.go`) | the choice of stores, the threshold, the server | start, signal, shutdown | everything |
| Schema (`migrations`) | unique indexes, foreign keys | - | the repositories rely on them |

Every HTTP request runs in a goroutine of its own, and any number of them, in
one process after another, work on one database. What is hard:

* **stale reads** - a review reads the request, then its approvals, judges, and
  writes in a later transaction; a creation reads the order long before the
  insert; the guard reads the session and then the role, and the handler acts on
  that role afterwards;
* **retries** - clients resend with an `Idempotency-Key`, possibly while the
  first attempt is still running, or after its commit whose answer was lost;
* **clashing writers** - two requests for one order, two receipts for one
  request, one provider number for two requests, one level decided twice, and
  inside the store one statement after another;
* **locks and connections** - transactions wait for rows, for uncommitted index
  entries and for a connection;
* **restarts and stops** - the number sequence and the threshold belong to the
  process, everything else to the database, or to nobody when a start falls back
  to memory; a signal arrives while requests are served;
* **torn answers** - an answer is put together from three reads;
* **boundaries** - an amount equal to the threshold, a session at its expiry.

What makes each component correct: the repository must behave as if every method
were one step (`AtomicRepository`), the service as if every operation were one
step judged on current data (`RefundLedger`), with one effect per idempotency
key and the first result for every retry; both auth services must keep one
promise about tokens (`Authenticator`); the desk as a whole must write nothing
its actor was not entitled to and tell clients what happened; the process must
not stop under its requests, and must stop. `PROJECT.json` lists the hazards
line by line with the properties that cover them, or why none does.

## 2. Modules

```
RefundDomain <- RefundRepository <- RefundService <- RefundProperties <- MCRefund
                      |               |    |              |
                      |               |    |     RefundServiceProofs <-- RefundLedgerProofs <--+
                      |               |    |                               |                   |
                      |               |    +-- RefundRefinement <----------+                   |
                      |               |               +-- INSTANCE --> RefundLedger            |
                      |               +-- RefundDesk (with GuardRules) <- RefundDeskProperties |
                      |                                             <- MCDesk, RefundDeskProofs
                      |
                RepositoryCalls <- AtomicRepository
                      |                 ^      ^
                      |              INSTANCE  INSTANCE
                      |                 |      |
                      +--- MemoryRepository    |     <- MemoryRepositoryProofs
                      +--- PostgresRefundTx <- PostgresRefundTxProperties
                                                     <- MCRefundTx, PostgresRefundTxProofs

GuardRules <- AuthSessions <- AuthProperties <- AuthRefinement <- MCAuth, AuthProofs
    |                                               |
    |                                            INSTANCE --> Authenticator
    +-- MemoryAuth <- MCMemoryAuth,                 ^
            |         MemoryAuthProofs              |
            +------------- INSTANCE ----------------+

LinDeskConfig <- LinDeskProcess <- MCProcess, LinDeskProcessProofs
```

### The refund service

* **RefundDomain** - values and pure rules: orders, requests, approvals,
  receipts, audit entries, `NextApprovalLevel`, `ReviewedStatus`, the commands
  with the checks made before anything is read, idempotency scopes and hashes.
* **RefundRepository** - the store. A writing method is a refusal
  (`CreateRefusal`, `ReviewRefusal`, `RecordRefusal`: its checks in their order)
  and a write (`StoreCreated`, `StoreReviewed`, `StoreRecorded`), taken together
  in one step.
* **RefundService** - the calls. `pc[c]` names the repository call that call `c`
  makes next; one action is that repository call with all the code up to the
  next one. `request[c]`, `level[c]` and `reply[c]` are what the code holds in
  local variables. `Begin` is a client sending a command, new or again;
  `CallFails` a database error or a cancelled context at any repository call;
  the `ErrInternal` alternative of each write is a commit whose acknowledgement
  is lost. `Restart` ends every call and empties the sequence, over the same
  database and with any threshold of `Thresholds`; `OrderChanges` is the order
  system.
* **RefundProperties** - invariants and action properties over the store and
  the answers.
* **RefundLedger** - the abstract desk: a book in which `Submit`, `Approve`,
  `Reject` and `Settle` are indivisible and judge the book as it is.
  **RefundRefinement** maps the service's tables to the book (`BookView`,
  `UsedView`) and states `LedgerSpec`.

### The repositories

* **RepositoryCalls** - what the service asks of a repository when it writes: a
  call with its command and the request, level or status it has judged by; the
  possible answers. **AtomicRepository** - each call is answered in one step,
  with the refusal or the write RefundRepository gives at that moment, or an
  error. Where several refusals hold at once any of them may be the answer:
  `CreateReasons` is a set, because the two repositories look in different
  orders.
* **PostgresRefundTx** - the three transactions statement by statement at READ
  COMMITTED. `pc[t]` is the next statement, `held[t]` its row locks, its
  uncommitted index entries and its uncommitted row versions, `found[t]` the row
  it has read. `Blockers(t)` says for whom a statement waits: the holder of the
  row, of the same key in a unique index, or of a version of a row that is in
  the index (an active request being updated is not yet out of the index of
  active orders); `BeginTx` waits for a connection of `MaxOpenConns` (10 in
  `database.go:26`). Any statement may fail (`StatementFails`), then
  `Rollback`; a commit may be applied and its acknowledgement lost.
  `ON CONFLICT` names the idempotency scope only, so a clash of record
  ids surfaces as a raw error, which `StatementFails` stands for.
* **MemoryRepository** - the same three methods map by map: `Lock`, `Judge`,
  `Write`, `Return`, with the mutex as the only protection.

RefundService uses the repository atomically; `PostgresIsAtomic` and
`MemoryIsAtomic` are what justifies it.

### Guard and sessions

* **GuardRules** - which permission a route and an approval level need, and the
  refusals of `requirePermission`, `requireAnyPermission` and
  `resolveReviewApprovalLevel`.
* **AuthSessions** - login, logout and the guard over PostgreSQL, one SQL
  statement per action, with the administrator who changes members, roles and
  statuses, the clock, and restarts. Removing a member deletes its sessions, as
  the schema's `ON DELETE CASCADE` does. `Handling` is the state of an admitted
  request: its handler is running.
* **AuthProperties** - what the guard promises. Its promises are about what held
  at some moment of a request, so it adds two history variables, `live` and
  `held`, that record this and constrain nothing.
* **MemoryAuth** - the in-memory service: each method is a step under the lock,
  the session keeps a snapshot of its actor, and everything goes with the
  process. It differs from the persistent one where the code does: an ambiguous
  tenant is judged before the tenant's status, while the database only looks
  among active tenants.
* **Authenticator** - what the HTTP layer may assume of either: a token opens one
  member's session, may close at any time, and never opens anything again.
  **AuthRefinement** and the end of **MemoryAuth** map the two services to it.

### The desk behind HTTP

* **RefundDesk** - RefundService under its guard and handlers. `Admit` is the
  guard: it fixes the actor and its permissions; `Serve` takes the service's
  steps for an admitted request; `HandlerAnswers` turns the result into a status
  and the header `Idempotency-Replayed`. Commands take tenant and user from the
  actor and never from the request (`HandlerCommand`). The administrator hires,
  dismisses, changes roles and permissions meanwhile. A dismissal cascades to
  the member's idempotency records, and is refused by the foreign keys of what
  the member has done (`HasActed`); a write by somebody dismissed meanwhile
  fails at the foreign key (`InsertsForeignKey`).
* **RefundDeskProperties** - three history variables (`held`, `written`,
  `told`), and what clients and auditors rely on.

### The process

* **LinDeskConfig** - defaults, file, environment, validation, and which
  configurations open a database.
* **LinDeskProcess** - one process after another: start, choice of stores,
  `Listen` in a goroutine of its own, the signal before and after
  `signal.Notify`, `Shutdown` with its deadline, closing the handle, exit. A
  request is a creation under a key, in two steps. The database comes and goes.

Definitions named `X_Y` with the comment "Mutant" are variants of `X` with a
plausible bug; each shows that some property notices that bug.

### Abstractions

Amounts are naturals: the code only compares them and subtracts once, behind a
comparison (`RefundableAmount`), so int64 never wraps. Times, currencies, texts,
reasons and provider names decide nothing and are left out; a provider with its
refund number is one value. Ids (`refund_...`, `approval_...`) are functions of
tenant, number and level and are these. Request numbers are the sequence alone:
two numbers can be equal only on one date. Hashes are taken as free of
collisions, access tokens as never drawn twice. A blank or over-long field is
`complete = FALSE`. A password is right or wrong (`known`). Clients present only
tokens they have received, or one that was never issued. In RefundDesk a request
comes from a member's session; how long a session lives is AuthSessions.

## 3. Properties and runs

| run | instance | shows |
|---|---|---|
| `CreateRace` | 2 calls, 2 tenants, 3 orders of them, 2 keys, 2 numbers per tenant and process, 1 restart | `TypeOK`, `OneActivePerOrder`, `OneEffectPerKey`, `HistoryKept` |
| `ReviewRace` | 2 calls, 3 users, thresholds 2 and 3, 2 requests for one order, 1 restart | `DutiesSeparated`, `StatusFollowsApprovals`, `AuditTrailComplete`, `DetailShowsCause`, `LedgerSpec` |
| `RecordRace` | 2 calls, 2 requests, 2 keys, 2 provider numbers, orders that ship | `SettledByReceipt`, `ProviderRefundNosUnique`, `RepliesFromFirst`, `RecordRetryNeverRefused`, `LedgerSpec` |
| `TxAtomic` | 3 transactions, any three of 11 calls, 2 connections, every failure | `AtomicSpec`, `ChecksStayTrue`, `NobodyStuck`, `EveryCallEnds` |
| `Desk` | 2 calls, a request whose amount is the lower of two thresholds, 3 roles; one change of the directory, of the order, or restart | `DeskTypeOK`, `StatusTellsEffect`, `ToldLevelsDecide`, `OneEffectPerKey`, `WritesEntitled` |
| `AuthRace` | 2 calls, 2 tokens, 2 tenants, 1 change, 1 restart, clock 0..1 with a life of 1 | `TypeOK`, `AdmittedEntitled`, `LoginBindsTenant`, `SessionsSound`, `SessionsKept`, `AuthenticatorSpec` |
| `MemorySessions` | 2 calls, 2 tokens, 2 tenants, 1 restart, clock 0..2 | `AuthenticatorSpec` |
| `ProcessStops` | 3 processes, 9 launches, 2 calls, 1 key | `TypeOK`, `WorkIsFinished`, `AnswersAgree`, `SignalEndsProcess` |

The first three instantiate the service alone, so that each kind of call races
at full width; `Desk` takes one request through all of them behind HTTP.

Deadlock is checked in every run but `TxAtomic`: everywhere else some client can
always send a command. In `TxAtomic` every call is made once, so the run may
stop; that none stops too early is `NobodyStuck` and `EveryCallEnds`.

Bounds. Every race of the service and of the guard is between two calls (a
unique row, a level, a key, a session is contended by two), so `Calls` has two
members; a call that is done begins again, so histories are not bounded by it.
In the store a third transaction can wait for one of two that wait themselves,
and `MaxOpenConns = 2` makes one of the three wait for a connection.
`MaxRequestNo = 2` gives an order a second request, and a restart makes the
generator draw both numbers again. Two thresholds give an amount below, at and
above each. The sets of commands are chosen so that each contains the clash
that its properties are about: same key with the same and with another request,
same order, same level, same provider number, submitter and reviewer the same
person, one blank field. One change (`MaxChanges`, and `OneEvent` in `Desk`)
hires, dismisses, or moves one member or permission between any two steps;
dismissal followed by hiring is two changes, which `KeysStayTaken` and the other
theorems about the desk cover.
Three starts let a process with the database follow one that has fallen back
after another with it. Calls and tokens are interchangeable: symmetry sets, where
no liveness is checked.

Fairness. `PostgresRefundTx!FairSpec` assumes weak fairness of each
transaction's next statement: it runs in a goroutine of its own, the database
runs a statement whose wait is over, and a pool hands out a free connection.
Under it every call ends. `LinDeskProcess!FairSpec` assumes weak fairness of
`main`'s own steps, the deadline of `Shutdown` among them, and none of the
handlers: a handler may hang, the process ends all the same. Every other
property is a safety property, and those specifications have no fairness.

### Where code and documents disagree

Four runs are expected to find a violation.

| run | what the code does | what is written |
|---|---|---|
| `RefundedTwice` | `refunded_amount` is never updated, so requests for one order, one after another, are each compared with all that was paid; the run refunds two of them that exceed it together (`service.go:290`) | `docs/mvp.md:86` |
| `StuckReview` | after a restart with a higher threshold, a request approved at level 1 is offered level 1 again, which is taken: nobody can decide it (`service.go:696`) | `README.md:113` |
| `NumberReused` | the sequence starts again after a restart, and draws numbers of that day which exist; the constraint refuses them (`service.go:103`) | `docs/mvp.md:101` |
| `RefusedRetry` | a creation looks its key up once; a retry that overtakes its first attempt may be refused because the order has shipped meanwhile (`service.go:287`), where a receipt looks again | `docs/mvp.md:85` |

`HistoryKept` holds beside `NumberReused`: the constraint keeps an old request
from being overwritten. `StatusFollowsApprovals` quantifies over the thresholds
the desk has run with, because of `StuckReview`.

Two more have no run of their own, and no property covers them; what holds
beside them is narrower than the documents. A start that cannot reach the database falls back to empty memory
(`main.go:54`), so a key with a result in the database is carried out again
there, against `docs/mvp.md:85`: `AnswersAgree` compares answers of one store
only. And a replay computes `requires_high_amount_approval` again with the
threshold of its own process (`service.go:344`), so that it may differ from the
first answer, against `README.md:123`: `ToldLevelsDecide` speaks of what was told
under the threshold that a review goes by.

## 4. Proofs

All assumptions are the named ones on the constants; the sets of calls,
transactions, users, tenants, orders, keys, tokens, commands and launches, and
the bounds, are arbitrary (`AuthAssumption` asks for finitely many tenants,
which a query over them needs; `EntryAssumption` of RefundRefinement says that
`None` is no entry of the book, and `HandlerAssumption` of RefundDesk that the
service serves every command a handler can make). TLC evaluates each of them in a run, except
that MemoryRepository, which no run instantiates, only uses those of
RepositoryCalls.

### Refund service

* `TypeCorrect` (**RefundServiceProofs**): type correctness alone is not
  inductive: that a write stores a request needs that a call at a write *holds*
  one, and that the command it serves is of the right kind. The invariant is
  `TypeInv == TypeOK /\ CallsHold`. There is one lemma per action.
* `DutiesStaySeparated`, `StatusAlwaysFollows` (**RefundServiceProofs**): a
  review judges on stale reads; what makes its write right is that it is *still*
  right unless the transaction refuses. `CallReviews` says what a reviewing call
  knows: the request it read exists with the same submitter and amount, and if
  the level it computed has not been taken since, the approvals are exactly the
  ones it read. `ReviewInv` joins that with the two properties. Other calls'
  steps keep it because lists only grow; the write itself extends a separated
  list by the next level and sets the status that list calls for.
* `OneActiveHolds`, `SettledOnce`, `NumbersStayUnique`, `WritesHappenOnce`,
  `RetriesAnswered` (**RefundServiceProofs**): what the store promises whatever the
  calls have read. `ActiveInv` is the unique index; `ReceiptInv` joins
  `SettledByReceipt` with the registry of provider numbers and with what a
  recording call knows of its request; `EffectsOnce` pairs records with writes,
  over `Numbered` requests; a retry is answered because a call that still has to
  answer holds no refusal (`Clean`), and a receipt that finds its request settled
  finds its key's record too, which names that request (`Named`).
* `HistoryIsKept`, `TrailsStayComplete`, `LedgerImplemented`,
  `AnswersRepeatTheFirst`, `CausesAreShown` (**RefundLedgerProofs**). `TrailInv`:
  a write's before status is the one in the table, because a review that is not
  refused finds the request as it read it. `LedgerInv` is what the refinement
  needs beside `ReviewInv` and `ReceiptInv`: what a creating call has read
  (`Informed`: the order it judged is one the order system has shown, and the
  request it holds fits its command) and that requests keep snapshots of orders as
  the order system has shown them (`SnapshotsSeen`). Each step of the service is then a
  step of the ledger or a stutter. `FirstResults` says that a call that holds a
  result holds its key's first one; `ShowsCause`, per `pc`, what the parts of an
  answer read so far already show.

### Repositories

* `MemoryIsAtomic` (**MemoryRepositoryProofs**): at most one call is inside the
  mutex (`MutexInv`), so what was judged still holds at the write.
* `NoDeadlock` (**PostgresRefundTxProofs**): `InOrder` ranks the statements and
  what each has taken; whoever is waited for stands at a later statement, so the
  transaction furthest on never waits. Row locks come first, then keys, numbers,
  orders, row versions and receipts: a creation takes its key first but locks no
  row, and the row versions it may wait for belong to transactions that stand at
  a later statement.
* `ChecksHold`, `PostgresIsAtomic`: `Isolated` says what each statement has
  secured: entries are disjoint (`Apart`), and for each kind of transaction what
  `pc` implies of the tables (`CreateInv`, `RowInv`, `ReviewInv`, `RecordInv`,
  `KeyInv`). A commit then finds its checks true, and writes what AtomicRepository
  writes; all other steps stutter or give a reason that holds.

### Sessions

* `AuthTypes`, `SessionsAreSound`, `SessionsAreKept`, `AdmittedWasEntitled`,
  `LoginBound`, `AuthenticatorImplemented` (**AuthProofs**). `SoundInv` adds to
  types that no session is of the future, that a login about to write holds a
  member, and that a logout's time is not earlier than its session. `SeenInv`
  says, per `pc`, what the history variables hold already: a call that has passed
  the session's statement has seen it live, one that has passed the role's
  statement has held the right. `Found` ties the row a call has read to its token
  for the refinement.
* `MemoryAuthImplemented` (**MemoryAuthProofs**): every method is one step, so types
  are all the invariant it needs (`MemoryTyped`): a session that shows as open
  is one on record whose time has not come, and each step adds one under a fresh
  token, admits by one, or closes some.

### The desk

RefundDeskProofs extends the service's proofs. Behind HTTP a step is either the
service's own, or one of which the service sees nothing but a call that was done
and is idle again (`Turned`, a request answered without the service), or a change of the directory; `DeskSteps` says so. The
invariants of the service (`ServiceInv`) therefore carry over, but for one step:
a dismissal deletes idempotency records, which `EffectsOnce`, `FirstResults` and
`Named` count on.

* `DeskInv == ServiceInv /\ Owned /\ DirectoryTyped` is the inductive invariant.
  `Owned` says that whoever has a first result on record has written it: the
  request it tells of was submitted by that member, or the receipt processed by
  it. Those rows keep their author, so the foreign keys refuse the dismissal
  (`HasActed`) of anybody whose record would be lost: a dismissal that is let
  through deletes no idempotency record (`NoRecordsLost`).
* `DeskTypes`, `KeysStayTaken`, `DeskKeepsPromises`, `DeskKeepsHistory`,
  `DeskAnswersRetries`, `DeskImplementsLedger`: so what holds of the service
  holds of the desk, the refinement of RefundLedger included.
* `WritersAreEntitled`: `Rightful` says of a call at work that its command is in its
  actor's name, and that the actor has held the right to it, at the very level,
  at some moment since the request came in; a write then has that name and that level.
* `StatusTells`: `Accounted` counts writes by where a call is: none before it has
  a result, one when it holds a result of its own, none when it holds a replay
  or a refusal; only `ErrInternal` leaves it open.
* `WhatIsToldDecides`: amounts never change, so an answer's flag is the one that
  the request on record has under that threshold (`ToldInv`). `BookInv` carries
  this from the record to every answer and to every decision: idempotency records
  name requests as they stand in the book (`RecordsStand`), so do the results that
  calls hold (`ShowsStanding`), and a call about to decide at the second level
  reviews a request that needs one (`LevelNeeded`).

The last three are about HistorySpec, the desk with the history variables that
their properties mention; `HistoryIsDesk` shows that every behaviour of it is one of
the desk.

### Process

* `ProcessTypes`, `NoRequestCutOff`, `OneResultPerStore`
  (**LinDeskProcessProofs**): `ProcInv` relates where `main` is to the listener,
  the pool and the requests at work; `AnswersInv` adds that every answer given
  from a store that still exists is the result on its record (`OnRecord`).

Every invariant and action property of the runs that pass, and every refinement
they check, is thus stated by a theorem. Only model-checked, because it is out of
the prover's reach, is liveness: `EveryCallEnds` and `SignalEndsProcess`, which
need `ENABLED`. The four properties that are expected to be violated are
refuted by TLC. No proof rests on what a definition recursive over data computes
for all inputs.

## 5. Not modelled

* Password hashing (`internal/auth/password.go`): cryptographic computation; its
  verdict is a field of the login command.
* JSON decoding and layout: a body that does not decode is answered 400 before
  anything else happens. The other fields of a response, the probes `/`,
  `/healthz` and `/readyz`, and logging keep no state.
* The parsing of a configuration file and of numbers and durations in it: a
  launch parses or not.
* Idle connections and their ages; what the seeds insert (the small instances
  follow them); checks of the schema that repeat the service's validation.
* The in-memory service never removes a session that has expired without a
  logout: no document bounds its memory, so there is nothing to hold it to.
* A signal before `signal.Notify` kills a process that already serves. The model
  has the step; nothing promises otherwise.

## 6. Plan

What would come next: the handlers over the transactions statement by statement,
in place of the atomic repository (`PostgresIsAtomic` is the bridge today); the
guard of AuthSessions and the desk in one module, with sessions that end under a
handler at work; a receipt that raises `refunded_amount` and a threshold stored
with the request, should the code come to have them, with `RefundedTwice` and
`StuckReview` turned into properties that hold.
