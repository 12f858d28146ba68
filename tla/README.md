# Formal models of the moling-yingce backend

This directory holds TLA+ models of the backend of moling-yingce, the TLC runs
that check them on small instances, and TLAPS proofs about them. The program lets
users buy credits, spend them on generation tasks (video, image, audio, text) that
run at third-party suppliers, get them back when a task fails or is cancelled, and
keep the media they upload in a library behind their canvases. A daemon beside it
updates the deployment. What makes it hard is the same everywhere: several actors
write the same rows with no lock between their steps, calls of others may be late,
lost or wrong, and the process may die between any two statements.

Paths below are relative to `src/`; `app/`, `repository/`, `platform/` and so on
mean `backend/internal/app/` and its siblings.

## 1. Inventory

| Component | State | Operations | What is hard | What makes it correct |
|---|---|---|---|---|
| Credit ledger, `repository/finance.go` | `credit_accounts` (available, reserved), `billing_orders`, ledger entries | grant, redeem, adjust, reserve, mark running, mark uncertain, re-price, settle, refund, restore | three transactions read, decide, then write; two databases with different isolation | reserved = what open orders hold; credits are conserved; an order is closed once |
| Task table, `repository/repository.go` | `tasks`: status, lease, request id, cancellation state | claim, renew, defer, finish, save, cancel, retry, recovery lease | conditional updates are the only mutual exclusion; some updates have no condition | a writer without the lease changes nothing that matters |
| Worker, `app/task_worker.go`, `app/task_terminal.go` | a copy of the row, a lease token, a cancellable context | claim, prepare, submit or resume, poll, defer, save, fail, bill | crash, drain and lease loss between any two steps; row first, bill second | a live run has its reservation; a delivered run is not refunded; every task ends |
| Cancel and retry, `app/task_lifecycle.go` | a copy of the row | cancel the row, stop the local execution, ask the supplier, refund or review; retry with a new order | checks are made before the write they guard | a retried run's predecessor is accounted for |
| Cancellation follow-up, `app/provider_task_cancellation.go` | `provider_cancel_*` columns | claim, query, confirm, charge, give up | two rows closed in two steps; supplier may never answer | confirmed means refunded; only delivered jobs are charged; no cancellation stays open |
| Manual recovery, `app/provider_task_recovery.go` | recovery lease | query a failed job, save its result, settle or restore the order | `wasRefunded` is read before a slow call | a recovered task is paid for or under review |
| Provider calls and request log, `app/provider_http_client.go`, `app/admin.go` | `api_call_logs` | log each call; merge polls into the create row | every call writes row, order and log, without the lease | decisions on cost use the right run's calls |
| ComfyUI bridge, `app/comfy_bridge.go`, `repository/comfy_bridge.go` | bridge requests | enqueue, claim, complete, withdraw | worker and cancellation both withdraw | not taken means refunded, taken means review |
| Route attempts, `app/model_router.go`, `app/task_route_executor.go` | `route_attempts`: route, request id, dispatch state; the task's route, the order's price | resume or create an attempt, mark it before the request, verdict, switch to the next route | the attempt row is all that the next execution has to decide from; switch and attempt are two transactions | one job per run; ids and prices belong to the route; the run ends |
| Payment orders, `repository/payment.go`, `app/payment*.go` | `payment_orders`, `payment_notifications`, reconciliation runs, credits granted | create, checkout, refresh, query, close, notify, inbox, expire, poll, reconcile | answers of the provider are old when they are applied; claims without an owner; a failed call may have had its effect | a paid order is credited exactly once, an unpaid one never |
| Host updater, `hostupdate/manager*.go` | operation and phase, last backup; env file, Compose file and its copy, database, services | check, update, roll back; restart of the daemon | ten steps over four places, each may fail; the phase is the only lock | one operation at a time; a lost database has its backup; a report is true |
| Media library, `app/resource*.go`, `app/upload_quota.go`, `canvas/user_data.go`, `canvas/canvas_asset_guard.go` | `resources`, files, `resource_deletion_jobs`, assets, canvases, bytes of the day, bytes reserved in memory | upload, repeat an upload, save and delete assets and canvases, delete by an administrator, clean up, drain deletion jobs | uploads write row and file outside the lock; old rows share files; row, file and quota are taken back one by one | what a canvas shows is there; no file is forgotten; limits hold |
| Coordination, `platform/coordination.go`, `platform/worker_runtime.go` | slot leases, circuit state, drain flag | acquire, renew, release, drain | leases that expire under their holder | the concurrency limit holds (not modelled) |
| Task creation, text replay, creation agent, projects, accounts, plugins, canvas agent, web client | see `PROJECT.json` | | | not modelled |

How they interact: an HTTP handler creates a task together with its reservation in
one transaction. A worker's dispatch loop claims it, marks the order running, picks
or resumes a route attempt, calls the supplier and, after writing the terminal
status, closes the order in a second transaction. Every call passes through the
request log, which writes the request id on order, row and attempt. A user may cancel
or retry meanwhile; a cancellation of a sent task is passed to the supplier and
followed up by a loop of its own. An administrator may recover a failed task. A
payment ends in a grant on the same accounts (`GrantCreditsOnce` with the payment as
its key). All of this goes through the database: there is no other lock.
`docs/content/docs/backend/task-runtime-stability.mdx` describes the leases and says
what they do not protect. The media library has a mutex, `storageMu`, which an
upload holds only while it reserves quota. The host updater shares nothing with the
backend but its database, images and files.

Which steps may go wrong, and at which line, is in `PROJECT.json` under `hazards`;
each entry names the properties that watch it, or why none does.

## 2. Modules

    CreditPromise  <- refined by -  CreditLedger      CreditLedgerProofs, MCCreditLedger
                                    TaskStore
                                      ^ extends
                                    TaskRuntime       TaskRuntimeProofs, TaskOutcomeProofs,
                                                        MCTaskRuntime
                                    RouteAttempts     RouteAttemptsProofs, MCRouteAttempts
    TopupPromise   <- refined by -  PaymentOrders     PaymentOrdersProofs, MCPaymentOrders
    UpdatePromise  <- refined by -  HostUpdater       HostUpdaterProofs, MCHostUpdater
                                    MediaLibrary      MediaLibraryProofs, MCMediaLibrary
    SetSums: lemmas about sums over finite sets, for CreditLedgerProofs and MediaLibraryProofs

The three `...Promise` modules are abstract specifications: what a user or an
administrator is told, without the steps in between. The detailed modules instantiate
them with a refinement mapping and state the abstract specification as a property.

Definitions marked `Fault:` are not part of the system. They are variants of the
definition they stand before, with a mistake that a change to the code could make,
and serve to show that a property notices it.

### CreditLedger and CreditPromise

`available`, `reserved` and `order` are the columns of the tables. `deposited` is
the sum of the ledger entries that belong to no order and `granted` the unique
reference keys; `txn` holds the open transaction of each client with the order row
it has read. Every operation that decides in the WHERE clause of its first write is
one action. Settle, refund and restore are two: `Begin` reads, the second action
writes, and anything may commit between them. A commit makes every other open
snapshot stale; `MayWrite` is what the database does then. SQLite (WAL) refuses the
write of a stale snapshot, PostgreSQL in READ COMMITTED, which `database.Open`
leaves in place, does not. Staleness is counted per database, as SQLite does, not
per row. `Rollback` stands for every error; a metered settlement that is rolled back
then writes the cost it has observed on the order, if that is still open, in a statement
of its own (`SettleFailed`). Prices and metered amounts come from
the set `Amount`; how a price is computed is not modelled, and amounts have no
width, the code checks its int64 sums where they are computed.

`CreditPromise` has no reserved balance and no transactions: an order is placed,
progresses, is switched, charged or returned in one step, and what it has cost may be
noted before it is charged. `KeepsPromise` says that
CreditLedger implements it.

### TaskStore

One task. `row` is its row in `tasks`; `order` and `oreq` are status and request id of
the billing order of each run (a retry starts a run and creates its order);
`jobs` is what exists at the supplier, in the order of creation, so a request id is
an index of it; `log` is what the code reads of `api_call_logs`. Each operator is one
SQL statement with its WHERE clause, named like the method. A lease is an owner and
whether it is alive. Of the log the code asks three questions, so `log` records the
answers: the latest row of a create call, into which later polls of the task are
merged (`root`), whether an older row counts as a successful billable call
(`older`), and the latest request id (`last`, and whether it stands in a row `after`
the create row). The orders appear by status alone; CreditLedger is where the
transactions behind `Settled` and `Refunded` are taken apart.

### TaskRuntime

`at[a]` is where an actor is and its copy of the row: the run it works for, the
request id it knows, and why it does what it does next. One action is one statement,
one transaction or one call.

| Code | Actions |
|---|---|
| `start`, `processNextTask` | `Claim`, `Drain` |
| `processClaimedTask` up to the call | `Prepare`, `MarkBillingRunning` |
| `runProtocolAdapterTask`, `runComfyBridgeWorkflow` | `Submit`, `Resume`, `Record`, `Poll` |
| a cancelled context, a lost lease | `Killed`, `LoseLease` |
| `shouldDeferVideoProviderTask` | `Defer` |
| `ensureFailedProviderAttemptLogged`, `markPreparationFailure`, `handleExecutionFailure` | `LogAttempt`, `Fail`, `Stopped`, `BillFailure` |
| saving, `handleResultPersistenceFailure`, `handleSuccess` | `CheckResult`, `Save`, `SaveFailed`, `SettleSuccess` |
| `cancelTask`, `requestProviderCancellation` | `Cancel`, `CancelIfStatus`, `Interrupt`, `RequestCancellation`, `ClaimCancellation`, `CallCancel`, `WithdrawBridge`, `RefundBridge` |
| `retryTask` | `Retry`, `RetryWrite` |
| `queryFailedVideoTask` | `Recover`, `Restate`, `ClaimRecovery`, `QueryRecovery`, `SaveRecovery`, `ChargeRecovery`, `ReleaseRecovery` |
| `reconcileProviderCancellation` | `ClaimReconciliation`, `CheckJob`, `Reschedule`, `RefundCancelled`, `ChargeFinished` |
| billing calls that several of them end with | `RefundRun`, `MarkRunUncertain`, `GiveUp`, `CloseCancellation` |
| environment | `SupplierStep`, `Expire`, `Crash` |

The protocol of the channel is one of five. `sync`: the answer to the create call is
the result. `other`: polled; neither cancelled nor deferred. `cancellable`: a job
can be cancelled and queried. `deferrable`: a timeout hands the job over to a later
execution. `bridge`: the request waits in our own
table for the user's ComfyUI.

The statement that closes an order, or puts it under review, may fail: the code logs the
error, or adds it to the worker's, goes on, and nothing sends the statement again
(`Bill`, counted in `lapses` up to `MaxLapses`). Only a cancellation that is followed up
tries its refund again (`RefundCancelled`), and a bridge refund that fails gives up
(`RefundBridge`). A terminal update of the row that fails ends the handler, which is a
`Crash`.

A `Worker` is one execution, not one process: two of them may be two replicas, or a
stalled goroutine and its successor.

### RouteAttempts

One run of one task whose logical model has several routes. `row` is the task with its
`route_id`, `order` its billing order with the route it is priced for, `attempts` the
rows of `route_attempts`, `jobs` what suppliers have accepted. `exec` is the execution
at work with its copy of the task; when it ends or dies (`Abandon`), the next one
(`Claim`) has only the rows. Executions are exclusive here; overlapping ones are the
subject of TaskRuntime. Which route is eligible (capabilities, price, blocking times,
weights) is a free choice among those not tried.

| Code | Actions |
|---|---|
| `ClaimNextTask`, `beginTaskRouteAttempt` | `Claim`, `Begin` (with `Resume`, `ResumeUnsaved`, `StopUncertain`), `CreateRouteAttempt`, `NoRoute` |
| `processTask`, `markRouteAttemptDispatching` | `MarkBillingRunning`, `MarkDispatching` |
| `runProtocolAdapterTaskWithTiming`, `LogAPICall`, `protocolMediaBytes` | `Call`, `Record`, `Poll`, `Download` |
| `refreshTaskProviderState`, `finishTaskRouteAttempt` | `Refresh`, `FinishAttempt` with its `Verdict` |
| `nextRouteAttemptAfterFailure`, `SwitchTaskLogicalRoute` | `NextRoute`, `SwitchTaskLogicalRoute`, then `CreateRouteAttempt` |
| `handleSuccess`, `handleExecutionFailure` | `Save`, `Settle`, `Fail`, `CloseOrder` |
| `cancelTask` | `BeginCancel`, `CancelIfStatus`, `CloseCancelled` |
| death, drain, lost lease | `Abandon` |

### PaymentOrders and TopupPromise

`order` is the row of each order (status, checkout mode, expired, checkout shown),
`granted` how often its credits were added, `inbox` the verified notification, `run`
the reconciliation run of its day. `call[a]` is what a request handler or one of the
three loops is doing: each call of the provider is two steps, so its answer may be old
when it is applied. `trade` and `notice` are the provider's side. A QR code opens a
trade at creation; a redirect only signs a URL, so its trade is unknown to the provider
until the user follows it.

| Code | Actions |
|---|---|
| `CreatePaymentOrder` | `CreateOrder`, `Submit`, `Publish`, `GiveUp` |
| `RefreshPaymentCheckout` | `RefreshCheckout`, `Submit`, `Publish` |
| `QueryPaymentOrder`, `ClosePaymentOrder`, also the administrator's | `Request`, `Ask`, `Apply`, `CloseTrade`, `Mark`, `Reapply` |
| notification handlers, `drainPaymentNotifications` | `Deliver`, `Drain`, `Process`, `Ack` |
| `reconcileExpiredPaymentOrders`, `queryPendingPaymentOrders` | `ClaimExpired`, `Poll` |
| `maybeRunDailyPaymentReconciliation`, `comparePaymentReconciliation` | `BeginRun`, `Confirm`, `Credit`, `Report` |
| environment | `UserPays`, `UserOpensPage`, `ProviderCloses`, `LoseNotice`, `Expire`, `Crash` |

TopupPromise knows only who has paid and what was credited.

### HostUpdater and UpdatePromise

`op` and `point` are what the daemon saves, `checks` the checks that wait for GitHub
without the lock, `job` the goroutines; a restart kills both; `tag`, `compose`, `previous`, `running`, `db` are the deployment. A release
stands for its tag, its Compose file and its schema version. Each step of `runUpdate` and
`runRollback` is an action that succeeds or fails; an early failed step
of an update ends it as failed (`Abort`), a later one leads into the rollback (`Undo`);
a failed step of a rollback is remembered and the next one is taken (`GoOnFailed`).
Users write to the database whenever the services run (`UserWrite`).

`StartUpdate` and `StartRollback` look at the phase and at nothing else (`MayStart`), and
`EndCheck` writes its own phase whatever the phase is by then, so operations may overlap.
Two history variables tell such behaviours apart: `overtaken`, the answer to a check was
written over the phase of the operation at work, and `overlapped`, an operation was
started while another one was at work. `GoesOn` is a bound: when it is FALSE, a
behaviour in which operations have overlapped only restarts from there.

`Healthy` asks for the release's own version. `checkHealthOnce` would also take an answer
without one (`hostupdate/manager_ops.go:521`), but no release gives such an answer:
`buildinfo.Current` replaces an empty version by "dev" (`buildinfo/buildinfo.go:48`), and
the health route always includes it (`backend/cmd/server/system_status.go:87`).

| Code | Actions |
|---|---|
| `Check` | `BeginCheck`, `EndCheck` |
| `StartUpdate`, `runUpdate` | `StartUpdate`; `Prepare`, `CreateBackup`, `KeepCompose`, `PullImages`, `StopServices`, `Migrate`, `SetTag`, `SwitchCompose`, `StartServices`, `Verify` |
| `StartRollback`, `runRollback` | `StartRollback`; `UndoStop`, `UndoCompose`, `UndoTag`, `UndoStart`, `UndoVerify` |
| `restoreDatabase` | `DropDatabase`, `CreateDatabase`, `RestoreDatabase` |
| `failWithoutRollback`, `failWithRollback` | `Abort`, `Undo` |
| `NewManager` after a restart of the daemon | `Restart` |

UpdatePromise says what the administrator is told: an operation starts from one
release, and the release that is served at its end fits the report. An answer to a check
that comes in during an operation hides its report until the next phase; only such an
operation can be overlapped, and from then on nothing is promised.

### MediaLibrary

One user. `row` is a resource's status, whether it is old enough for the cleanup and its
place in the order of creation (`born`), `objects` the files, `queued` and `drain` the deletion jobs waiting and at work,
`holds` what each asset names, `canvas` the pairs of asset and resource on the canvas.
`at[h]` is the upload a handler works on; `pending` (in memory) and `daily` (a row)
are the two counters of the quota. Old rows (`Legacy`) may share a file.

| Code | Actions |
|---|---|
| `uploadResource`, `reserveUserStoredFileQuota` | `Lookup`, `Reserve` |
| `storeResource`, `storeResourceObject` | `Create`, `Write`, `Save`, `Undo`, `Drop`, `Fail` |
| `retryStoredResource`, `reserveRetryUploadQuota` | `Claim`, `Charge`, then `Write`, `Save`, `Fail` |
| `releaseUserUploadQuota`, `releaseRetryUploadQuota`, `commitUserUploadQuota` | `Release`, `Commit` |
| `UpsertUserAsset`, `ReplaceUserAssets`, `UpsertUserCanvasProject` and deletion of a canvas | `SaveAsset`, `ReplaceAssets`, `SaveCanvas` |
| `deleteUserAssetWithResources`, `DeleteAdminResources` | `DeleteAsset`, `AdminDelete` |
| `cleanupDetachedResources`, `DeleteDetachedResources` | `ListCandidates`, `Clean` |
| `drainResourceDeletionJobs` | `ClaimJob`, `RunJob` |
| time, death of the process | `Age`, `Crash` |

The cleanup lists the `CleanupLimit` (500) oldest rows that are old enough, those in use
among them; the rows of other users, which the code counts in the same limit, take
places as old rows in use do. What holds `storageMu` in the code is one action. `retried` and `disturbed` are history:
resources uploaded again after a failure, and resources deleted while an upload worked
on them.

## 3. Runs

| Run | Instance | Result |
|---|---|---|
| `ledger_sqlite` | 1 account, 2 orders, 2 clients, amounts 1 and 2, 1 grant key, deposits up to 4; 5.3 million states | `TypeOK`, `ReservedBacksOpenOrders`, `CreditsAreConserved`, `KeepsPromise` hold |
| `ledger_postgres` | the same with READ COMMITTED | `SettledIsNotRefunded` violated |
| `task_race` | 2 executions, 1 client (cancel, retry), 2 runs, 1 job, 1 stall, 1 closing statement that fails, deferrable; 6.8 million states | `TypeOK`, `LiveRunHoldsItsReservation`, `DeliveredRunIsNotRefunded` hold |
| `task_account` | 1 execution, 1 client (cancel, recover), the reconciler, 1 run, 1 job, 1 stall, 1 crash or drain, 1 closing statement that fails, all interfaces but `other`, whose steps `cancellable` has too; 782 000 states | `ConfirmedMeansRefunded`, `OnlyDeliveredRunsAreCharged`, `EveryRunIsAccounted`, `EveryTaskEnds` hold |
| `task_hydrate` | a cancelled queued retry | `OnlySentRunsAreCharged` violated |
| `route_failover` | 3 routes, answers polled or inline, 2 faults, a cancellation; 91 000 states | `TypeOK`, `OneJobPerRun`, `JobsAreRemembered`, `RequestsKeepTheirRoute`, `PriceFollowsTheRoute`, `RoutesAreTriedOnce`, `EveryRunEnds` hold |
| `route_link` | 2 routes, answers that hold a link, no fault | `OneJobPerRun` violated |
| `payment_topup` | 1 order of either mode, 1 handler, 3 loops, 2 attempts of a notification, 1 fault | `TypeOK`, `CreditedMeansGranted`, `ProcessedMeansCredited`, `KeepsTopupPromise`, `ExpiredOrdersEnd` hold |
| `host_update` | 3 releases, 1 write of users, 1 check out at a time, 2 goroutines, self-update, failure at any step, any number of restarts, up to the first overlap; 726 000 states | `TypeOK`, `OneTaskUnlessOvertaken`, `PhaseIsTrue`, `LostDatabaseHasItsBackup`, `RolledBackDatabaseIsTheBackup`, `KeepsUpdatePromise` hold |
| `update_overlap` | 2 releases, 1 check out at a time, 2 goroutines | `OneTask` violated in 7 states |
| `media_files` | 2 old rows that share a file and 1 upload, 1 asset, 1 handler, 2 faults, deletions by anyone, a cleanup of 1 row at a time; 379 000 states | `TypeOK`, `CanvasMediaIsThere`, `FilesAreOwned`, `AbandonedUploadsGo` hold |
| `media_uploads` | 3 rows under 2 keys, 2 handlers, stored limit 3 and daily limit 5 for sizes 1 and 2, 1 fault, a cleanup of 2 rows at a time; 187 000 states | `StoredStaysBelowLimit`, `UploadsCountAgainstTheDay`, `UnnamedFilesGo` hold |

Why the bounds are enough. Every race the code can lose is between two actors, or
between an actor and its own successor, so two executions, or one execution with a
client and the reconciler, meet in each task run. Two orders on one account are what is
needed for one of them to spend the reservation of the other. Two runs are one retry;
a third run would see of the earlier ones only the log, which does not distinguish
them. `MaxChecks` is three: the
first request, one rescheduled check and the one that gives up. One stall, one
crash and one failing statement place the failure at every step. One job is a job that exists
and a second submission that does not arrive; in `task_race` two runs compete for it,
and the other run fails, is cancelled or keeps polling. `EveryTaskEnds` is checked on a
first run: a retry starts a run like it, on the same row. Where it matters that there are
several jobs, the theorems of section 4 are for any number.

Three routes are one that is switched to and one that is left, and two faults are a
crash and a failure of the execution that resumes. Orders of payments share nothing
but accounts, so one order stands for all; the handler and the three loops are all the
actors that can meet on it, and two attempts of a notification are a first one and a
repetition. Three releases are what an update, its rollback and a second update can
tell apart; one write comes before or after a backup, and must be kept in the first case.
One check is the one that overtakes, and a second can follow it. `host_update` ends at the
first overlap (`GoesOn = FALSE`), because its properties say nothing of what comes after;
the theorems are for either value and any number of checks. Two old rows are what it
takes to share a file; two handlers under one key, and a third file under another,
fill both limits. A cleanup of one row is the smallest that older rows in use can fill:
the two old rows of `media_files` do, and cease to when the asset is deleted. Two assets that name one resource are left to the proofs, which cover all
other sizes.

`CHECK_DEADLOCK FALSE`: a task, an order or a library in which nothing is under way,
with the bounds used up, really has nothing more to do.

What the properties rule out:

- `ReservedBacksOpenOrders`, `CreditsAreConserved`: a settlement or refund that acts
  on a row another transaction has closed. Both sums are over all orders of a user.
- `LiveRunHoldsItsReservation`: a stale worker, a late cancellation or the reconciler
  closes the order of a run that a retry or another claim has just started.
- `DeliveredRunIsNotRefunded`: the user gets the result and the credits. Runs in which
  an administrator recovers a task are excepted, see below.
- `ConfirmedMeansRefunded`: the interface shows a confirmed cancellation for an order
  that was charged or kept.
- `OnlyDeliveredRunsAreCharged`: a failure, a timeout or a cancellation is charged.
  It is checked for first runs; for retried ones `OnlySentRunsAreCharged` fails.
- `EveryRunIsAccounted`: a reservation that nobody releases or reviews. It is stated
  for behaviours without a crash, without a failing closing statement and without
  retry: after a crash between the terminal write and the billing, when the billing
  statement fails, and after a retry that supersedes a cancellation, the code has no
  step that would close the order; the billing review lists such orders for a person.
  What it says is that these are the only ways: every other failure, a lost lease, a
  refused refund that is tried again, a supplier that never answers, a withdrawal that
  is refused, ends with the order closed or under review.
- `EveryTaskEnds`, `EveryRunEnds`: a task that stays queued or running for ever.
- `OneJobPerRun`, `JobsAreRemembered`: two suppliers are paid for one run, because an
  execution died, its verdict was lost, or a refused poll was taken for a refused
  request.
- `RequestsKeepTheirRoute`, `PriceFollowsTheRoute`, `RoutesAreTriedOnce`: a switch that
  is half done when the execution ends: the id of one route's job on another route,
  the price of a route the task has left, a failover that goes round in circles.
- `CreditedMeansGranted`: a close, a failed creation or a restored claim that
  overwrites the status of an order while it is being credited.
- `ProcessedMeansCredited`: a notification that is written off by the one of two
  workers that failed.
- `KeepsTopupPromise`: credits without a payment or twice, and a payment that never
  becomes credits although its order was closed, its notification lost or a loop died.
- `ExpiredOrdersEnd`: an order that stays in `closing` because whoever claimed it died.
- `OneTaskUnlessOvertaken`, `PhaseIsTrue`: two operations on one deployment, and a phase
  that keeps the administrator out, or lets him in, after a failure or a restart. The
  answer to a check that comes in during an operation is the one exception, and
  `OneTask` shows what it leads to. The phase never keeps him out without an operation,
  not even then.
- `LostDatabaseHasItsBackup`: wherever the daemon stops, a database that was dropped or
  migrated can be brought back.
- `RolledBackDatabaseIsTheBackup`, `KeepsUpdatePromise`: a report that is not true. These
  three are about operations that have not overlapped: checks may be out, and answer, at
  any moment of them.
- `CanvasMediaIsThere`: a canvas that shows a resource which another way of deletion,
  or the deletion of another row of the same file, has taken.
- `FilesAreOwned`, `UnnamedFilesGo`: a file that no row and no deletion job names, so
  that nobody will ever delete it.
- `StoredStaysBelowLimit`, `UploadsCountAgainstTheDay`: uploads side by side that pass a
  limit together; bytes given back twice.
- `AbandonedUploadsGo`: an upload that died and blocks its key for ever. Excepted are a row
  that a document names, and one before which older rows in use take every place of the
  cleanup (`Crowded`), see below.

### Disagreements found

`PROJECT.json` quotes the code and the texts; in short:

| Run | The code does | A comment, message or document says |
|---|---|---|
| `ledger_postgres` | a settled order becomes refunded when the two transactions overlap | a settled order needs a manual refund |
| `task_hydrate` | a cancelled queued retry takes over the previous run's request id and is charged for its job | cancelled before the supplier was called, credits returned |
| `update_overlap` | a check that ends during an update overwrites its phase, and a second operation starts beside it | there is one update task at a time |
| `route_link` | a refused download of a result counts as a refused request, and the next route makes a second job | the route is changed only when no job was created |

Others are contained in the models and have no run of their own:

- When the statement that closes an order fails, the order stays open and is not put under
  review. The log line at `app/task_lifecycle.go:208` says that a lead for review was kept
  ("已保留人工核对线索"), the one at `app/task_terminal.go:238` that the order went to review
  ("已进入待核对"), also when the mark has failed as well. `EveryRunIsAccounted` excepts such
  runs, because nothing in the code comes back to them. SQLite's refusal of a write on a
  stale or busy database, which CreditLedger models, is enough for it.
- The cleanup lists the 500 oldest rows of all users, ready rows in use among them
  (`app/resource_deletion_worker.go:48`, `repository/repository.go:1234`). With that many
  old rows in use, a younger upload that died is never listed and its key refuses every
  later upload, without any further fault. `AbandonedUploadsGo` excepts these rows
  (`Crowded`); without the exception TLC finds the starvation in `media_files`.
- A retry between the cancellation of the row and the request to the supplier leaves the
  order of the cancelled run open (`app/task_lifecycle.go:178`; the comment at `:180` says
  that the reconciliation goes on with it), and the checks of a retry (`:54`) are stale
  when it writes.
- A recovered task whose order cannot be restored is delivered with its order refunded;
  the log line at `app/provider_task_recovery.go:192` says that it went to review.
- A resumed task whose order is under review (`app/task_worker.go:186`), or a poll without
  a channel slot (`:207`), is refunded as never sent; a bridge request that is taken
  between its reading and its withdrawal is refunded although the comment at
  `app/provider_task_cancellation.go:82` puts it under review.
- A redirect order that the provider does not know is closed for good, with the comment
  at `repository/payment.go:547` taking it for unpaid, while its URL can still be paid
  (`app/payment.go:809`). The notification or the reconciliation credits it, which
  `KeepsTopupPromise` follows; with two faults (`MaxFaults = 2`) it may stay without.
- A rollback starts the services even when the database could not be restored
  (`hostupdate/manager.go:374`; `docs/design/dynamic-update.md:89` says they stay stopped).
  The report is `manual_intervention`, which promises nothing. A rollback also loses what
  users wrote after the backup, which is taken while the services run; `:87` of the same
  document leaves that to the operator.
- A repeated upload reserves the day but not the stored total: the comment at
  `app/upload_quota.go:47` takes failed rows for counted, `UserStoredFileBytes` counts
  ready ones. `StoredStaysBelowLimit` leaves repeated uploads out.
- A row may be deleted while an upload works on it: by the cleanup, which lists its
  candidates before it takes the lock and does not look at their status again
  (`app/resource_deletion_worker.go:66`), and by an administrator, whatever the status
  (`repository/admin_storage_delete.go:43`). The upload's last write inserts the row
  again, ready, while its file is queued for deletion. `CanvasMediaIsThere` and
  `FilesAreOwned` leave such resources (`disturbed`) out; for all others they hold.

### Fairness

Goroutines and handlers that have begun go on, as every call has a timeout; loops take
up what they find. Requests of users, payments, faults, stalls and crashes are never
fair, and no fairness favours one outcome of a call.

- TaskRuntime (`FairSpec`): weak fairness for each actor's steps, for claiming as a
  whole (which execution takes the task is left open), for the reconciliation loop, for
  the supplier's steps and for the expiry of leases. The supplier needs it: a deferred
  task is polled for as long as its job runs, and the code sets no end to that.
- RouteAttempts: weak fairness of `Claim`, of the execution's steps and of a
  cancellation that has begun.
- PaymentOrders: weak fairness of `Continue(a)` and of time (`Expire`), strong fairness
  of what a loop does to an order (`ClaimExpired`, `Poll`, `Drain`, `BeginRun` by the
  daily loop) and of the provider's repeated delivery: each is taken up at every tick,
  but a handler may hold the row or the loop at any one of them. Strong fairness stands for
  the ticks that follow.
- HostUpdater: weak fairness of the goroutines and of the end of a check.
- MediaLibrary: weak fairness of uploads, of listing, cleaning, running a job and of
  time; strong fairness of claiming each job, as jobs are taken in the order in which
  they are due, so that none is passed over for ever.

## 4. Proofs

Liveness under fairness is out of the prover's reach and stays with TLC. All other
properties of the passing runs are proved, and for each of the four runs that find a
violation it is proved under which condition there is none. In each module TLC checked
the inductive invariant before it was proved.

`CreditLedgerProofs` proves for every set of users, clients and amounts and every
number of orders:

- `TypeCorrect`: types under either isolation, in particular `reserved` is never
  negative;
- `ReservationsAreBacked`, `Conservation`, `LedgerKeepsPromise`: the three properties
  of `ledger_sqlite`, from the assumption `~ReadCommitted`;
- `SettlementsAreFinal`: `SettledIsNotRefunded`, from the same assumption, without which
  `ledger_postgres` is a counterexample. It follows from the refinement: no step of
  CreditPromise refunds a settled order.

The invariant (`LedgerInvariant`) adds `SnapshotsAreCurrent`: what an open transaction has read is still
the row, unless its snapshot is marked stale. Without it the second half of a settlement could
not be related to the order it closes. The sums over orders are the community modules'
`SumFunction`; `OrderSums`, an instance of the lemmas of `SetSums`, says how such a sum
follows one order, and `RowUpdate` uses it once for the reserved and once for the spent
total, whatever action changes the row. The refinement needs the same
invariant: it tells that the amount read is the amount the order has.

`SetSums` holds what both sums of the project need: `SumFunctionOnSet` over a finite set of
natural numbers is one, does not depend on the order in which the fold takes the
elements (`SumRemove`: any element may be taken out), grows with the set and follows a
change of one value (`SumUpdate`). That is an induction over finite sets. The library's
induction theorems have an operator as parameter and cannot be used, so it is made with a
least counterexample: if a property of subsets fails, it fails at one none of whose proper
subsets has it (`LeastSubset`, from the well-foundedness of the proper subset relation,
where the property is a set of subsets and not an operator). The fold itself, which
is a CHOOSE of a recursive function, is shown to exist the same way (`SumsExist`).

`TaskRuntimeProofs` proves for any sets of actors, any number of runs and jobs and
any interfaces, crashes and stalls included:

- `TaskTypes`: `TypeOK`, through `TypeInv`, which adds that an actor who is at work
  has a run, and one with a job in flight its request id;
- `ReservationsAreHeld`: `LiveRunHoldsItsReservation`. Its invariant says that an
  actor who is about to close an order (at "refund", "bill", "settle", "confirm" and
  so on) works for a run that has ended: it is an earlier run than the row's, or the
  row has left queued and running. A run never comes back, so the order such an actor
  closes is never that of a live run. The work is in the steps
  that reach those places: each does so only after its conditional update has
  matched.

`TaskOutcomeProofs` continues it, with the exceptions stated as assumptions:

- `DeliveriesAreKept`: `DeliveredRunIsNotRefunded`, from `NoRecovery` (no task is
  recovered by hand), for any number of runs. Its invariant `RefundersAreOut` says that
  when the row has succeeded, whoever is on the way to a refund works for another run.
  It is established when the result is saved, because `ClosersAreLate` holds until then, and
  kept because each way to a refund begins with a conditional update that no longer matches.
- `ConfirmationsAreTrue`: `ConfirmedMeansRefunded`, from `NoRecovery` and `OneRun` (the
  task is not retried): `UpdateTaskProviderCancellation` tests the status of the
  cancellation and not the run, so a reconciler that is slow enough could confirm the
  cancellation of a later run, and the theorem does not claim otherwise.
- `ChargesAreEarned`: `OnlyDeliveredRunsAreCharged`, from `OneRun` (`task_hydrate` is a
  counterexample to the kind of charge it excludes when there are two), manual recovery
  included. It rests on `IdsExist`, that every request id kept on the row, an order, the
  log or by an actor is that of a job, and on `ResultInv`, that whoever has a result in
  hand has seen a job that succeeded.
- `ChargesAreForSentRuns`: `OnlySentRunsAreCharged` from `OneRun`, a corollary. It is
  the other side of `task_hydrate`, which shows that one retry is enough to lose it.

`RouteAttemptsProofs` proves for any routes and any number of faults:

- `TypeCorrect`;
- from `NoLink`, the assumption that no answer holds only a link (without it
  `route_link` is a counterexample): `OneJob`, `JobsRemembered`, `RequestsKept`,
  `PriceFollows`, `RoutesOnce`. The invariant says where the job of a run is remembered: there
  is none, or it belongs to the last attempt, which says so or says that nobody knows
  (`JobIsLast`); an attempt that is `not_sent` is the current one (`UnsentIsCurrent`);
  and an execution that is about to send has either a request id or an unsent attempt
  (`PhaseIsTrue`), so a second job would need a second unsent attempt after the first.

`PaymentOrdersProofs` proves for any set of orders and handlers, any number of attempts
and faults: `PaymentTypeOK`, `CreditsMatchTheRow`, `NoticesAreNotLost` and
`TopupsKeepTheirPromise` (every step is a step of TopupPromise or leaves it alone). The
invariant adds that an actor who carries the answer "paid" carries a true one
(`CallsAreTrue`) and that only paid trades are notified (`NoticesAreTrue`): a payment is
never taken back, so this is the one answer that cannot become old.

`HostUpdaterProofs` proves for any number of releases, goroutines, checks and writes, with
checks that are out and answer at any time, and with operations that overlap:

- `HostTypeOK`;
- `UpdatesDoNotOverlap`: `OneTaskUnlessOvertaken`. `update_overlap` is a counterexample to
  `OneTask`, and this is the condition under which there is none;
- `PhasesAreTrue`: `PhaseIsTrue`. These two and the types are inductive together
  (`Weak`): an operation at work that was not overtaken has an active phase, so a second
  one is refused, so whoever sets the phase at its end is the only one at work;
- `LostDatabasesHaveBackups`, `RollbacksRestoreTheBackup`, `UpdatesKeepTheirPromise`: they
  promise nothing once operations have overlapped, and so does the invariant they rest on
  (`Alone`). It says what is true of tag, files and database at each step of an operation
  (`Facts`), that the goroutine and the saved operation agree (`SameOperation`, whatever
  an answer has made of the phase), and that the backup was taken from the release it
  names (`BackupFits`). An overlap is a step out of `Alone`, and never back.

`MediaLibraryProofs` proves for any resources, files, assets, handlers and limits and
any number of faults: `TypeCorrect`, `CanvasMediaHolds`, `FilesOwned`, `DayIsCounted`,
`LimitHolds`. For the first three the invariant (`IInv`) says that an upload owns its row, which is pending
unless it was deleted under it, and alone works on it (`UploadsArePending`); that it
owns its file, which exists when the row is about to become ready and does not when the
row is about to go (`UploadsHaveFiles`); that no deletion job names the file of a row
(`JobsNameNoRow`), and that old rows are never written again (`LegacyIsOld`), which is what
makes sharing their file harmless. The lemmas `FilesStay`, `RowMoves`, `FileMoves` and
`RowsDeleted` say what a kind of step preserves; each action is an application of one.

The two quotas (`UploadsCountAgainstTheDay`, `StoredStaysBelowLimit`) are sums of sizes.
`DayIsCounted` adds to the first `HandlersKnowTheirRow`, that a handler works on a row of
the key it was asked for, so that what it commits is what it has reserved, and that a
repeated upload is known as one by then (`retried`). `LimitHolds` adds two bounds.
`PendingIsHeld`: the counter in memory is at least the bytes of all handlers between
reservation and commitment. `StoredIsBounded`: what is stored and the bytes of those whose
row is not ready yet are below the limit together. Neither implies the other: the first is
what makes the check in `Reserve` see the uploads under way, the second is what that check
establishes. A handler leaves the second sum in the step in which its row becomes ready,
and the first only after it, so nobody can reserve in between what has just been
stored. The theorem starts from `LegacyFits`, that the old files are below the limit, which is
the property itself at the beginning. That a file has one size, whichever of the rows
sharing it is looked at, is part of `LibraryAssumption`; `FiniteAssumption` says that rows
and handlers are finitely many, without which there would be no sums.

The assumptions are the named ASSUMEs of the modules (disjoint kinds of actors,
`Nobody` is none of them, positive bounds, finite sets where there are sums, files that only old rows share); TLC evaluates
them in every run.

Only model-checked: the liveness properties (`EveryRunIsAccounted`, `EveryTaskEnds`,
`EveryRunEnds`, `ExpiredOrdersEnd`, the liveness halves of `KeepsTopupPromise` and
`KeepsUpdatePromise`, `AbandonedUploadsGo`, `UnnamedFilesGo`), which need fairness and
ENABLED.

## 5. What is left out, and why

Of the tasks:

- Many tasks: one task is enough for everything above, as tasks share only accounts,
  slots and the active-task limit. Counting active tasks and inserting one
  (`repository/finance.go:479`) is a check-then-act over many tasks and is not modelled.
- Logical models in TaskRuntime: its task has none, RouteAttempts has one and no overlapping
  executions. Their composition is too large for TLC; they meet in the conditional
  updates of the task row, which both translate.
- Money in the task models: orders have a status only; amounts are CreditLedger's.
- Request ids that a synchronous answer may carry, and `unbilled` failures of an
  open circuit, which is not logged by the HTTP client.
- `LogAPICall` writes order, row and log in three statements without a transaction;
  they are one step in TaskRuntime, except that the log write may fail on its own, and
  never lost in RouteAttempts.
- Calls that fail before they do anything (a claim of a cancellation, a read) and end
  their handler: they are crashes of that handler, as is a terminal update that fails.
- Sessions, messages, replay windows and project outputs, which follow the status of
  the task and decide nothing about it; the timeline executors, which are local and
  unbilled.
- The text of errors, except where the code decides by it: which errors
  count as timeouts is the `why` of an actor.

Of the routes: a second run and deferral apart from `Abandon`. A database error while an
attempt is resumed is part of the model (`Begin`, `ResumeUnsaved`): the code refunds the run
as never sent although its job may exist.

Of the payments: the limit of active orders of a user, evidence checks (amount, currency,
trade number), the batches of 32 rows of a loop, products and provider settings.

Of the updater: errors while its state is saved, which the code ignores; the archive of
the data directory, which is written and never read; a restart of the daemon for its own
update, which may kill an operation that was started within the second before.

Of the media library: object storage with its fallback to local files and its
ambiguous writes, playback copies, files generated by tasks, references from tasks,
sessions, projects and announcements (they only prevent deletions), the recycle bin
(it goes through the deletion of an asset), a second process (`storageMu` is local to
one), more than one day of quota, uploads that take more than an hour.

Not modelled at all: coordination and drain (`platform/`), text replay, the creation
agent, projects and their documents, accounts and login, protocol adapters and payment
plugins (pure translations), prices and other administration, the billing review (reads
only), the canvas agent (a local program of its own) and the web client, whose requests
are actors of the models. `PROJECT.json` gives the reason for each. They are documents,
formats and single-row operations in the main; the two with a protocol of their own,
slot leases in Redis and text replay, are where the next modules would go.
