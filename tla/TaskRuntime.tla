---------------------------- MODULE TaskRuntime ----------------------------
(***************************************************************************)
(* The life of one generation task: the worker that claims, submits and    *)
(* finishes it (app/task_worker.go, app/task_terminal.go), the user who    *)
(* cancels and retries it (app/task_lifecycle.go), the loop that follows a *)
(* cancellation up at the supplier (app/provider_task_cancellation.go) and *)
(* the manual recovery of a failed one (app/provider_task_recovery.go).    *)
(* Every step is one statement or transaction of TaskStore, or one call to *)
(* the supplier; anything may happen between two steps of an actor.  The   *)
(* task has no logical model, so the worker has no route attempt.          *)
(***************************************************************************)
EXTENDS TaskStore

CONSTANTS ClientOps,    \* requests that clients send
          MaxStalls,    \* leases lost by an execution that is still running (bound)
          MaxCrashes,   \* actors that die between two steps, drains included (bound)
          MaxLapses     \* closing statements that fail and are only logged (bound)

ASSUME RuntimeAssumption ==
    /\ ClientOps \subseteq {"cancel", "retry", "recover"}
    /\ MaxStalls \in Nat /\ MaxCrashes \in Nat /\ MaxLapses \in Nat

VARIABLES at,               \* where each actor is, and what it remembers
          stalls, crashes,  \* how many there were
          lapses            \* how many closing statements failed

vars == <<rows, at, stalls, crashes, lapses>>

WorkerPC == {"claimed", "billing", "unprepared", "ready", "sent", "polling", "error",
             "fail", "bill", "result", "save", "conflict", "unsaved", "settle"}
ClientPC == {"cancel", "interrupt", "request", "send", "call", "withdraw", "bridge", "retry",
             "restate", "reclaim", "query", "recover", "charge", "release"}
ReconcilerPC == {"check", "later", "confirm", "charge", "follow"}
PC == {"idle", "refund", "uncertain", "giveUp", "confirmed", "resolved"}
        \cup WorkerPC \cup ClientPC \cup ReconcilerPC
Why == {"", "killed", "timeout", "refused", "slot", "local", "cancelled",
        "slotCancelled", "unprepared", "queued", "running", "refunded"}

\* The copy of the row that an actor works on: its run, its request id, and
\* why it does what it does next; n is provider_cancel_attempts.
Local == [pc : PC, run : {0} \cup Run, req : {NoJob} \cup JobId, why : Why, n : Nat]
Idle == [pc |-> "idle", run |-> 0, req |-> NoJob, why |-> "", n |-> 0]
Copy(pc) == [pc |-> pc, run |-> row.run, req |-> row.req, why |-> "", n |-> 0]

Init == /\ StoreInit
        /\ at = [a \in Actor |-> Idle]
        /\ stalls = 0 /\ crashes = 0 /\ lapses = 0

-----------------------------------------------------------------------------
At(a, pc) == at[a].pc = pc
Goto(a, pc) == at' = [at EXCEPT ![a].pc = pc]
GotoFor(a, pc, why) == at' = [at EXCEPT ![a].pc = pc, ![a].why = why]
Return(a) == at' = [at EXCEPT ![a] = Idle]
\* the row as it is now tells which order is closed (handleCancelledResult)
GotoLatest(a, pc) == at' = [at EXCEPT ![a].pc = pc, ![a].run = row.run]

Time == <<stalls, crashes, lapses>>
Orders == <<order, oreq>>
Supplier == <<jobs, log>>
Books == <<row, order, oreq, log>>

\* The statement that closes an order or puts it under review; the outcomes are the
\* orders it may leave.  When it fails the error is logged, whoever sent it goes on,
\* and nobody sends it again.
Bill(outcomes) ==
    /\ \/ order' \in outcomes /\ lapses' = lapses
       \/ order' = order /\ lapses < MaxLapses /\ lapses' = lapses + 1
    /\ UNCHANGED <<row, oreq, Supplier, stalls, crashes>>

\* recordProviderRequest: of a create call, a poll, a call about a cancellation.
LogCreate(a, j, status, review) == LogAPICall(at[a].run, j, CreateLogged(j, status), review)
LogPoll(a, ok, review) == LogAPICall(at[a].run, at[a].req, PollLogged(at[a].req, ok), review)
LogCancellation(a) == LogAPICall(at[a].run, at[a].req, ApartLogged(at[a].req), TRUE)

-----------------------------------------------------------------------------
(* The worker: processClaimedTask.                                         *)

Claim(w) ==
    /\ At(w, "idle")
    /\ ClaimNextTask(w)
    /\ at' = [at EXCEPT ![w] = Copy("claimed")]
    /\ UNCHANGED <<Orders, Supplier, Time>>

\* The process is shutting down and starts no goroutine for what it has claimed.
Drain(w) ==
    /\ At(w, "claimed")
    /\ crashes < MaxCrashes
    /\ crashes' = crashes + 1
    /\ ReleaseTaskLease(w)
    /\ Return(w)
    /\ UNCHANGED <<Orders, Supplier, stalls, lapses>>

\* Reading the row again and UpdateTaskProgressForLease: a cancelled row has no
\* lease, so both ways out of the code are the failing write.
Prepare(w) ==
    /\ At(w, "claimed")
    /\ IF Holds(w, "running") THEN Goto(w, "billing") ELSE Return(w)
    /\ UNCHANGED <<rows, Time>>

MarkBillingRunning(w) ==
    /\ At(w, "billing")
    /\ \/ /\ order[at[w].run] \in {"reserved", "running"}
          /\ order' = MarkedRunning(at[w].run) /\ Goto(w, "ready")
       \/ order' = order /\ GotoFor(w, "unprepared", "unprepared")
    /\ UNCHANGED <<row, oreq, Supplier, Time>>

\* refreshTaskProviderState, on the way out of processTask.
Refreshed(w) == IF row'.req # NoJob THEN row'.req ELSE at[w].req
Leaves(w, pc, why) ==
    at' = [at EXCEPT ![w].pc = pc, ![w].why = why, ![w].req = Refreshed(w)]

\* The call that creates the job: no channel slot, a refusal (of an open circuit,
\* which is not logged, or of the supplier), a job whose answer arrives, or a job
\* whose answer is lost.  A cancelled context sends nothing.
\* A bridge request is a row of our own: no slot, no log, no answer that is lost.
Remote == row.interface # "bridge"
NewJob(w, state) == jobs' = Append(jobs, [run |-> at[w].run, state |-> state])
Submit(w) ==
    /\ At(w, "ready") /\ at[w].req = NoJob /\ at[w].why # "killed"
    /\ \/ /\ Remote /\ LogCreate(w, NoJob, "failed", FALSE)
          /\ Leaves(w, "error", "slot") /\ jobs' = jobs
       \/ /\ UNCHANGED Books \/ (Remote /\ LogCreate(w, NoJob, "failed", TRUE))
          /\ Leaves(w, "error", "refused") /\ jobs' = jobs
       \/ /\ Len(jobs) < MaxJobs
          /\ \/ /\ row.interface = "sync"
                /\ NewJob(w, "succeeded")
                /\ LogCreate(w, NoJob, "succeeded", TRUE)
                /\ Leaves(w, "result", "")
             \/ /\ row.interface # "sync"
                /\ NewJob(w, IF Remote THEN "running" ELSE "queued")
                /\ at' = [at EXCEPT ![w].pc = "sent", ![w].req = Len(jobs) + 1]
                /\ UNCHANGED Books
             \/ /\ Remote /\ NewJob(w, "running")
                /\ LogCreate(w, NoJob, "failed", TRUE)
                /\ Leaves(w, "error", "timeout")
    /\ UNCHANGED Time

\* A task that already has a request id polls it instead of submitting again.
Resume(w) ==
    /\ At(w, "ready") /\ at[w].req # NoJob /\ at[w].why # "killed"
    /\ Goto(w, "polling")
    /\ UNCHANGED <<rows, Time>>

\* The answer to the create call is recorded, or (recordWorkflowProviderRequest)
\* the number of the bridge request.
Record(w) ==
    /\ At(w, "sent")
    /\ LET j == at[w].req
       IN \/ Remote /\ LogCreate(w, j, "succeeded", TRUE)
          \/ /\ ~Remote /\ UpdateTaskProviderState(j)
             /\ oreq' = [oreq EXCEPT ![at[w].run] = j]
             /\ UNCHANGED <<order, log>>
    /\ Goto(w, "polling")
    /\ UNCHANGED <<jobs, Time>>

\* Every poll is recorded as the create call was: it writes the request id of this
\* execution on the row, though the row may belong to a later run.
Polled(w, ok) ==
    \/ Remote /\ LogPoll(w, ok, TRUE)
    \/ /\ ~Remote
       /\ IF jobs[at[w].req].state \in {"succeeded", "failed"}
          THEN UpdateTaskProviderState(at[w].req) ELSE row' = row
       /\ UNCHANGED <<order, oreq, log>>

\* The answer of the supplier, a poll that fails or brings a failure (or finds no
\* such job once too often), the end of the worker's patience, or no channel slot:
\* every request needs one, a poll as much as the create call.  Whoever stops waiting for the bridge withdraws the
\* request (WaitComfyBridgeRequest).
StopsWaiting(w) == IF At(w, "polling") /\ ~Remote THEN CancelComfyBridgeRequest(at[w].req)
                                                  ELSE jobs' = jobs
Poll(w) ==
    /\ At(w, "polling") /\ at[w].why # "killed"
    /\ LET state == jobs[at[w].req].state
       IN \/ /\ Remote /\ state \in {"queued", "running"} /\ Polled(w, TRUE)
             /\ UNCHANGED <<at, jobs>>
          \/ /\ state = "succeeded" /\ Polled(w, TRUE)
             /\ Leaves(w, "result", "") /\ jobs' = jobs
          \/ \E ok \in BOOLEAN : /\ Polled(w, ok)
                               /\ \/ Leaves(w, "error", "refused")
                                  \/ /\ state \in {"queued", "running"}
                                     /\ Leaves(w, "error", "timeout")
                               /\ StopsWaiting(w)
          \/ /\ Remote /\ LogPoll(w, FALSE, FALSE)
             /\ Leaves(w, "error", "slot") /\ jobs' = jobs
    /\ UNCHANGED Time

\* The context was cancelled before or during the call; what is written about a
\* bridge request (Record) does not ask the context.  A request that was under way
\* is recorded as failed.
InCall(w) == at[w].pc \in {"ready", "polling"} \cup (IF Remote THEN {"sent"} ELSE {})
Interrupted(w, review) ==
    \/ UNCHANGED Books
    \/ /\ Remote
       /\ \/ At(w, "ready") /\ at[w].req = NoJob /\ LogCreate(w, NoJob, "failed", review)
          \/ At(w, "sent") /\ LogCreate(w, NoJob, "failed", review)
          \/ At(w, "polling") /\ LogPoll(w, FALSE, review)
Killed(w) ==
    /\ at[w].why = "killed"
    /\ \/ /\ at[w].pc \in {"ready", "polling"} /\ Remote /\ Interrupted(w, FALSE)
          /\ Leaves(w, "error", "slotCancelled")
       \/ InCall(w) /\ Interrupted(w, TRUE) /\ Leaves(w, "error", "cancelled")
    /\ StopsWaiting(w)
    /\ UNCHANGED Time

\* A failed renewal stops the execution before it writes the task.
LoseLease(w) ==
    /\ ~Holds(w, "running")
    /\ \/ InCall(w) /\ Interrupted(w, TRUE)
       \/ at[w].pc \in {"error", "result"} /\ UNCHANGED Books
    /\ Return(w)
    /\ StopsWaiting(w)
    /\ UNCHANGED Time

\* shouldDeferVideoProviderTask: the job goes on and the task gives up its lease.
ShouldDefer(w) == /\ at[w].why = "timeout"
                  /\ at[w].req # NoJob
                  /\ row.interface = "deferrable"
Defer(w) ==
    /\ At(w, "error") /\ ShouldDefer(w)
    /\ IF Holds(w, "running") THEN Leave("running") ELSE row' = row
    /\ Return(w)
    /\ UNCHANGED <<Orders, Supplier, Time>>

\* Fault: the billing goes on although the row was not updated.
FinishAnyway(w, status, pc) ==
    /\ IF Holds(w, "running") THEN Leave(status) ELSE row' = row
    /\ Goto(w, pc)

\* markTerminalState: no billing without the row.
Finish(w, status, pc) ==
    IF Holds(w, "running") THEN Leave(status) /\ Goto(w, pc)
                           ELSE row' = row /\ Return(w)

\* ensureFailedProviderAttemptLogged: a failure of a task with no log gets one row.
LogAttempt(w) ==
    /\ \/ At(w, "unprepared")
       \/ /\ At(w, "error") /\ ~ShouldDefer(w)
          /\ at[w].why \notin {"cancelled", "slotCancelled"}
    /\ IF log = NoLog THEN LogCreate(w, at[w].req, "unbilled", FALSE) ELSE UNCHANGED Books
    /\ Goto(w, "fail")
    /\ UNCHANGED <<jobs, Time>>

\* markPreparationFailure (the order is refunded), and handleExecutionFailure of
\* an error that is no cancellation.
Fail(w) ==
    /\ At(w, "fail")
    /\ Finish(w, "failed", IF at[w].why = "unprepared" THEN "refund" ELSE "bill")
    /\ UNCHANGED <<Orders, Supplier, Time>>

\* handleExecutionFailure of a cancelled context: the user's cancellation has
\* settled the bill, otherwise this execution does.
Stopped(w) ==
    /\ At(w, "error")
    /\ at[w].why \in {"cancelled", "slotCancelled"}
    /\ IF row.status = "cancelled"
       THEN row' = row /\ Return(w)
       ELSE Finish(w, "cancelled", IF at[w].why = "slotCancelled" THEN "refund" ELSE "uncertain")
    /\ UNCHANGED <<Orders, Supplier, Time>>

\* BillingFailureRequiresReview.
RequiresReview(w) ==
    \/ at[w].why \in {"timeout", "local"}
    \/ at[w].why # "slot" /\ (order[at[w].run] = "uncertain" \/ HasSuccessfulBillableCall)

\* Fault: a failure that may have cost something is charged.
ChargeFailure(w) ==
    /\ At(w, "bill")
    /\ Bill({IF RequiresReview(w) THEN Settled(at[w].run) ELSE Refunded(at[w].run)})
    /\ Return(w)

BillFailure(w) ==
    /\ At(w, "bill")
    /\ Bill({IF RequiresReview(w) THEN MarkedUncertain(at[w].run) ELSE Refunded(at[w].run)})
    /\ Return(w)

\* The result: persisting the media fails, or the row is read once more.
CheckResult(w) ==
    /\ At(w, "result")
    /\ \/ GotoFor(w, "error", "local")
       \/ row.status = "cancelled" /\ GotoLatest(w, "uncertain")
       \/ row.status # "cancelled" /\ Goto(w, "save")
    /\ UNCHANGED <<rows, Time>>

\* saveTaskCompletionWithinStorageQuota.
Save(w) ==
    /\ At(w, "save")
    /\ \/ /\ Holds(w, "running")
          /\ SaveTaskCompletion(at[w].run, at[w].req)
          /\ Goto(w, "settle")
       \/ ~Holds(w, "running") /\ row' = row /\ Goto(w, "conflict")
       \/ row' = row /\ Goto(w, "unsaved")
    /\ UNCHANGED <<Orders, Supplier, Time>>

\* handleResultPersistenceFailure.
SaveFailed(w) ==
    /\ at[w].pc \in {"conflict", "unsaved"}
    /\ IF At(w, "conflict") /\ row.status = "cancelled"
       THEN row' = row /\ GotoLatest(w, "uncertain")
       ELSE Finish(w, "failed", "uncertain")
    /\ UNCHANGED <<Orders, Supplier, Time>>

\* handleSuccess.  A settlement that fails changes nothing, and the order then
\* goes to review, unless that fails as well.
SettleSuccess(w) ==
    /\ At(w, "settle")
    /\ Bill({Settled(at[w].run), MarkedUncertain(at[w].run)})
    /\ Return(w)

WorkerStep(w) ==
    \/ Prepare(w) \/ MarkBillingRunning(w) \/ Submit(w) \/ Resume(w)
    \/ Record(w) \/ Poll(w) \/ Killed(w) \/ LoseLease(w)
    \/ Defer(w) \/ LogAttempt(w) \/ Fail(w) \/ Stopped(w) \/ BillFailure(w)
    \/ CheckResult(w) \/ Save(w) \/ SaveFailed(w) \/ SettleSuccess(w)

-----------------------------------------------------------------------------
(* Billing calls that several actors end with.                             *)

RefundRun(a) ==
    /\ At(a, "refund")
    /\ Bill({Refunded(at[a].run)})
    /\ Return(a)

MarkRunUncertain(a) ==
    /\ At(a, "uncertain")
    /\ Bill({MarkedUncertain(at[a].run)})
    /\ Return(a)

\* Fault: the cancellation is given up, its order is forgotten.
GiveUpRowOnly(a) ==
    /\ At(a, "giveUp")
    /\ IF BeingCancelled THEN UpdateTaskProviderCancellation("uncertain") ELSE row' = row
    /\ Return(a)
    /\ UNCHANGED <<Orders, Supplier, Time>>

\* markProviderCancellationUncertain: the row, then the order.
GiveUp(a) ==
    /\ At(a, "giveUp")
    /\ IF BeingCancelled THEN UpdateTaskProviderCancellation("uncertain") /\ Goto(a, "uncertain")
                         ELSE row' = row /\ Return(a)
    /\ UNCHANGED <<Orders, Supplier, Time>>

\* Fault: whatever the supplier said, the cancellation counts as confirmed.
CloseAsConfirmed(a) ==
    /\ at[a].pc \in {"confirmed", "resolved"}
    /\ IF BeingCancelled THEN UpdateTaskProviderCancellation("confirmed") ELSE row' = row
    /\ Return(a)
    /\ UNCHANGED <<Orders, Supplier, Time>>

\* The row after the order was closed: confirmed, or uncertain.
CloseCancellation(a) ==
    /\ at[a].pc \in {"confirmed", "resolved"}
    /\ IF BeingCancelled
       THEN UpdateTaskProviderCancellation(IF At(a, "confirmed") THEN "confirmed" ELSE "uncertain")
       ELSE row' = row
    /\ Return(a)
    /\ UNCHANGED <<Orders, Supplier, Time>>

BillingStep(a) == RefundRun(a) \/ MarkRunUncertain(a) \/ GiveUp(a) \/ CloseCancellation(a)

-----------------------------------------------------------------------------
(* The user: cancelTask and requestProviderCancellation.                   *)

\* The task is read, and its request id completed from the order and the log.
Cancel(c) ==
    /\ At(c, "idle")
    /\ row.status \in Live
    /\ at' = [at EXCEPT ![c] = [Copy("cancel") EXCEPT !.why = row.status,
                                                       !.req = Hydrated(row.req, row.run)]]
    /\ UNCHANGED <<rows, Time>>

\* CancelTaskIfStatus: the status that was read must still be there.
CancelIfStatus(c) ==
    /\ At(c, "cancel")
    /\ IF row.status = at[c].why THEN Leave("cancelled") /\ Goto(c, "interrupt")
                                 ELSE row' = row /\ Return(c)
    /\ UNCHANGED <<Orders, Supplier, Time>>

\* cancelActiveTask: an execution in this process, if there is one, is stopped.
\* Then the supplier is asked, or the bill is closed at once.
Registered == {w \in Worker : at[w].pc \in {"claimed", "billing", "ready", "sent", "polling"}}
AfterInterrupt(c) == IF at[c].req # NoJob THEN "request"
                     ELSE IF at[c].why = "queued" THEN "refund" ELSE "uncertain"
Interrupt(c) ==
    /\ At(c, "interrupt")
    /\ \/ Goto(c, AfterInterrupt(c))
       \/ \E w \in Registered : at' = [at EXCEPT ![c].pc = AfterInterrupt(c), ![w].why = "killed"]
    /\ UNCHANGED <<rows, Time>>

RequestCancellation(c) ==
    /\ At(c, "request")
    /\ UpdateTaskProviderState(at[c].req)
    /\ Goto(c, "send")
    /\ UNCHANGED <<Orders, Supplier, Time>>

ClaimCancellation(c) ==
    /\ At(c, "send")
    /\ IF MayRequest THEN ClaimTaskProviderCancellation /\ Goto(c, "call")
                     ELSE row' = row /\ Return(c)
    /\ UNCHANGED <<Orders, Supplier, Time>>

\* The job is cancelled at the supplier, and the answer may be lost, or the
\* supplier only says so.  Of a bridge request the status is read first.
CallCancel(c) ==
    /\ At(c, "call")
    /\ LET j == at[c].req
       IN \/ Goto(c, "giveUp") /\ jobs' = jobs /\ UNCHANGED Books
          \/ /\ row.interface = "cancellable"
             /\ jobs' = jobs \/ (jobs[j].state = "running" /\ JobBecomes(j, "cancelled"))
             /\ LogCancellation(c)
             /\ Return(c) \/ Goto(c, "giveUp")
          \/ /\ row.interface = "bridge"
             /\ GotoFor(c, "withdraw", IF jobs[j].state = "queued" THEN "queued" ELSE "running")
             /\ jobs' = jobs /\ UNCHANGED Books
    /\ UNCHANGED Time

\* A bridge request that was still queued when it was read is refunded.
WithdrawBridge(c) ==
    /\ At(c, "withdraw")
    /\ CancelComfyBridgeRequest(at[c].req)
    /\ Goto(c, IF at[c].why = "queued" THEN "bridge" ELSE "giveUp")
    /\ UNCHANGED <<Books, Time>>

\* A refund that fails, or is refused since the order is settled, gives up.
RefundBridge(c) ==
    /\ At(c, "bridge")
    /\ \/ order[at[c].run] # "settled" /\ order' = Refunded(at[c].run) /\ Goto(c, "confirmed")
       \/ order' = order /\ Goto(c, "giveUp")
    /\ UNCHANGED <<row, oreq, Supplier, Time>>

-----------------------------------------------------------------------------
(* The user: retryTask.                                                    *)

\* Read: the status, the cancellation, and CheckRetryEligibility of the order.
Retry(c) ==
    /\ At(c, "idle")
    /\ row.status \in {"failed", "cancelled"} /\ row.run < MaxRuns
    /\ row.cancel # "requested"
    /\ order[row.run] # "uncertain"
    /\ at' = [at EXCEPT ![c] = Copy("retry")]
    /\ UNCHANGED <<rows, Time>>

RetryWrite(c) ==
    /\ At(c, "retry")
    /\ \/ RetryTaskWithBilling
       \/ row.status \notin {"failed", "cancelled"} /\ row' = row /\ order' = order
    /\ Return(c)
    /\ UNCHANGED <<oreq, Supplier, Time>>

-----------------------------------------------------------------------------
(* Manual recovery: queryFailedVideoTask.                                  *)

\* wasRefunded is read here and used after the supplier has answered.
Recover(c) ==
    /\ At(c, "idle")
    /\ row.status = "failed" /\ row.interface \notin {"sync", "bridge"}
    /\ Hydrated(row.req, row.run) # NoJob
    /\ at' = [at EXCEPT ![c] = [Copy("restate") EXCEPT
                  !.req = Hydrated(row.req, row.run),
                  !.why = IF order[row.run] = "refunded" THEN "refunded" ELSE ""]]
    /\ UNCHANGED <<rows, Time>>

Restate(c) ==
    /\ At(c, "restate")
    /\ UpdateTaskProviderState(at[c].req)
    /\ Goto(c, "reclaim")
    /\ UNCHANGED <<Orders, Supplier, Time>>

ClaimRecovery(c) ==
    /\ At(c, "reclaim")
    /\ \/ ClaimFailedTaskProviderRecovery(c) /\ Goto(c, "query")
       \/ /\ row.status = "failed" => row.owner \in Client /\ row.live
          /\ row' = row /\ Return(c)
    /\ UNCHANGED <<Orders, Supplier, Time>>

QueryRecovery(c) ==
    /\ At(c, "query")
    /\ \E ok \in BOOLEAN :
          /\ LogPoll(c, ok, TRUE)
          /\ \/ ok /\ jobs[at[c].req].state = "succeeded" /\ Goto(c, "recover")
             \/ Goto(c, "release")
    /\ UNCHANGED <<jobs, Time>>

\* The result is saved, or the order goes to review; the error of the latter is
\* dropped.
SaveRecovery(c) ==
    /\ At(c, "recover")
    /\ \/ /\ Holds(c, "failed")
          /\ SaveTaskCompletion(at[c].run, at[c].req)
          /\ Goto(c, "charge")
          /\ UNCHANGED <<Orders, Supplier, Time>>
       \/ Bill({MarkedUncertain(at[c].run)}) /\ Goto(c, "release")

\* RestoreRefundedBilling or SettleBilling, as wasRefunded said; when it fails
\* (too few credits, an order in another status) MarkBillingUncertain.
ChargeRecovery(c) ==
    /\ At(c, "charge")
    /\ LET r == at[c].run
           charged == IF at[c].why = "refunded"
                      THEN IF order[r] = "refunded" THEN {[order EXCEPT ![r] = "settled"]} ELSE {}
                      ELSE IF order[r] = "refunded" THEN {} ELSE {Settled(r)}
       IN Bill(charged \cup {MarkedUncertain(r)})
    /\ Goto(c, "release")

ReleaseRecovery(c) ==
    /\ At(c, "release")
    /\ ReleaseTaskProviderRecovery(c)
    /\ Return(c)
    /\ UNCHANGED <<Orders, Supplier, Time>>

ClientStep(c) ==
    \/ CancelIfStatus(c) \/ Interrupt(c) \/ RequestCancellation(c)
    \/ ClaimCancellation(c) \/ CallCancel(c) \/ WithdrawBridge(c) \/ RefundBridge(c)
    \/ RetryWrite(c)
    \/ Restate(c) \/ ClaimRecovery(c) \/ QueryRecovery(c)
    \/ SaveRecovery(c) \/ ChargeRecovery(c) \/ ReleaseRecovery(c)

-----------------------------------------------------------------------------
(* The reconciler: reconcileProviderCancellation.                          *)

ClaimReconciliation(x) ==
    /\ At(x, "idle")
    /\ ClaimNextTaskProviderCancellation(x)
    /\ at' = [at EXCEPT ![x] = [Copy("check") EXCEPT !.n = row.checks + 1]]
    /\ UNCHANGED <<Orders, Supplier, Time>>

\* The channel is gone, the query fails, or it tells how the job stands.
CheckJob(x) ==
    /\ At(x, "check")
    /\ \/ Goto(x, "giveUp") /\ UNCHANGED Books
       \/ /\ at[x].n < MaxChecks
          /\ IF row.interface = "cancellable" /\ at[x].req # NoJob
             THEN LogCancellation(x) ELSE UNCHANGED Books
          /\ \/ Goto(x, IF at[x].n = MaxChecks - 1 THEN "giveUp" ELSE "later")
             \/ /\ row.interface = "cancellable" /\ at[x].req # NoJob
                /\ LET state == jobs[at[x].req].state
                   IN \/ state = "running" /\ Goto(x, "later")
                      \/ state = "cancelled" /\ Goto(x, "confirm")
                      \/ state = "succeeded" /\ Goto(x, "charge")
                      \/ state = "failed" /\ Goto(x, "follow")
    /\ UNCHANGED <<jobs, Time>>

\* The next check is put off: the row stays requested and is released.
Reschedule(x) ==
    /\ At(x, "later")
    /\ IF BeingCancelled THEN UpdateTaskProviderCancellation("requested") ELSE row' = row
    /\ Return(x)
    /\ UNCHANGED <<Orders, Supplier, Time>>

\* Cancelled or failed: the order is refunded first, then the row is closed.  A
\* refund that fails or is refused is tried again later.
RefundCancelled(x) ==
    /\ at[x].pc \in {"confirm", "follow"}
    /\ \/ /\ order[at[x].run] # "settled"
          /\ order' = Refunded(at[x].run)
          /\ Goto(x, IF At(x, "confirm") THEN "confirmed" ELSE "resolved")
       \/ order' = order /\ Goto(x, "later")
    /\ UNCHANGED <<row, oreq, Supplier, Time>>

\* The job was done before the cancellation reached it.
ChargeFinished(x) ==
    /\ At(x, "charge")
    /\ Bill({Settled(at[x].run), MarkedUncertain(at[x].run)})
    /\ Goto(x, "resolved")

ReconcilerStep(x) == CheckJob(x) \/ Reschedule(x) \/ RefundCancelled(x) \/ ChargeFinished(x)

-----------------------------------------------------------------------------
(* The supplier, the clock and crashes.                                    *)

JobStarts(j) == jobs[j].state = "queued" /\ JobBecomes(j, "running")
JobEnds(j) == jobs[j].state = "running" /\ \E s \in {"succeeded", "failed"} : JobBecomes(j, s)
SupplierStep == /\ \E j \in DOMAIN jobs : JobStarts(j) \/ JobEnds(j)
                /\ UNCHANGED <<Books, at, Time>>

\* A lease runs out when its holder is gone; while the holder is still at work
\* this takes three missed renewals, a stall.
Expire == /\ row.live
          /\ row' = [row EXCEPT !.live = FALSE]
          /\ IF At(row.owner, "idle") \/ row.status = "succeeded" THEN stalls' = stalls
             ELSE stalls < MaxStalls /\ stalls' = stalls + 1
          /\ UNCHANGED <<Orders, Supplier, at, crashes, lapses>>

Crash(a) == /\ crashes < MaxCrashes
            /\ ~At(a, "idle")
            /\ Return(a)
            /\ crashes' = crashes + 1
            /\ UNCHANGED <<rows, stalls, lapses>>

Request(c) == \/ "cancel" \in ClientOps /\ Cancel(c)
              \/ "retry" \in ClientOps /\ Retry(c)
              \/ "recover" \in ClientOps /\ Recover(c)

Next == \/ \E w \in Worker : Claim(w) \/ Drain(w) \/ WorkerStep(w)
        \/ \E c \in Client : Request(c) \/ ClientStep(c)
        \/ \E x \in Reconciler : ClaimReconciliation(x) \/ ReconcilerStep(x)
        \/ \E a \in Actor : BillingStep(a) \/ Crash(a)
        \/ SupplierStep \/ Expire

Spec == Init /\ [][Next]_vars

\* Goroutines go on, dispatch and reconciliation poll, the supplier finishes its
\* jobs and leases of the dead run out.  Nobody has to send a request.
FairSpec ==
    /\ Spec
    /\ \A w \in Worker : WF_vars(WorkerStep(w))
    /\ \A c \in Client : WF_vars(ClientStep(c))
    /\ \A x \in Reconciler : WF_vars(ReconcilerStep(x))
    /\ \A a \in Actor : WF_vars(BillingStep(a))
    /\ WF_vars(\E w \in Worker : Claim(w))
    /\ WF_vars(\E x \in Reconciler : ClaimReconciliation(x))
    /\ WF_vars(SupplierStep) /\ WF_vars(Expire)

-----------------------------------------------------------------------------
(* Properties.                                                             *)

\* Rows, orders, jobs and the memory of every actor have their types.
TypeOK == /\ StoreTypeOK
          /\ at \in [Actor -> Local]
          /\ stalls \in 0 .. MaxStalls /\ crashes \in 0 .. MaxCrashes
          /\ lapses \in 0 .. MaxLapses

\* While a run waits or executes, its order holds the reservation: no stale
\* worker, late cancellation or reconciliation has settled or refunded it.
LiveRunHoldsItsReservation == row.status \in Live => order[row.run] \in Open

\* A task that delivered its result was not refunded (without manual recovery).
DeliveredRunIsNotRefunded == row.status = "succeeded" => order[row.run] # "refunded"

\* A run that is over, in whatever way, has its order closed or under review, as long
\* as nobody who works on it dies, no closing statement fails (the code logs the
\* error and leaves the order open) and it is not retried.  Refusals, refunds that a
\* cancellation tries again and every other failure are among the ways.
EveryRunIsAccounted ==
    order[1] \in {"reserved", "running"}
        ~> \/ order[1] \in {"uncertain", "settled", "refunded"}
           \/ crashes > 0 \/ lapses > 0

\* Every task that was queued ends, whatever worker dies or stalls on the way.
EveryTaskEnds == row.status \in Live ~> row.status \notin Live

\* "Cancelled at the supplier, credits returned" is shown only when they are.
ConfirmedMeansRefunded == row.cancel = "confirmed" => order[row.run] = "refunded"

\* An order is settled only for a job that delivered.
OnlyDeliveredRunsAreCharged ==
    \A r \in Run : order[r] = "settled" =>
        \E j \in DOMAIN jobs : jobs[j].run = r /\ jobs[j].state = "succeeded"

\* An order is settled only when its run sent something to the supplier.
OnlySentRunsAreCharged == \A r \in Run : order[r] = "settled" => Sent(r)

=============================================================================
