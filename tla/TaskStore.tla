----------------------------- MODULE TaskStore -----------------------------
(***************************************************************************)
(* The rows a generation task lives in, and the conditional updates that   *)
(* the repository offers on them (repository/repository.go, and the        *)
(* status side of repository/finance.go).  One task is modelled: its row,  *)
(* the billing order of each of its runs (a retry starts a new run with a  *)
(* new order), the request log, and the jobs that exist at the supplier.   *)
(* Every operator here is one SQL statement or one transaction; what lies  *)
(* between two of them is in TaskRuntime.                                  *)
(***************************************************************************)
EXTENDS Integers, Sequences

CONSTANTS Worker,       \* executions: one goroutine with one lease token each
          Client,       \* HTTP requests: cancel, retry, manual recovery
          Reconciler,   \* loops that follow up cancellations at the supplier
          Nobody,       \* the empty lease_owner
          MaxRuns,      \* runs of the task: the first one and its retries (bound)
          MaxJobs,      \* jobs created at the supplier (bound)
          MaxChecks,    \* providerCancellationMaxAttempts
          Interfaces    \* protocols of the channel the task may be sent to

Actor == Worker \cup Client \cup Reconciler
Run == 1 .. MaxRuns
JobId == 1 .. MaxJobs
NoJob == 0                       \* the empty provider_request_id

ASSUME StoreAssumption ==
    /\ Nobody \notin Actor
    /\ Worker \cap (Client \cup Reconciler) = {}
    /\ Client \cap Reconciler = {}
    /\ MaxRuns \in Nat \ {0}
    /\ MaxJobs \in Nat
    /\ MaxChecks \in Nat \ {0}
    /\ Interfaces \subseteq {"sync", "other", "cancellable", "deferrable", "bridge"}

VARIABLES row,      \* the row of the task
          order,    \* status of the billing order of each run
          oreq,     \* provider_request_id on each order
          jobs,     \* jobs at the supplier, in the order they were created
          log       \* what api_call_logs holds of the task

rows == <<row, order, oreq, jobs, log>>

TaskStatus == {"queued", "running", "succeeded", "failed", "cancelled"}
CancelStatus == {"", "requested", "confirmed", "uncertain"}
OrderStatus == {"none", "reserved", "running", "uncertain", "settled", "refunded"}
\* Whether a request that was withdrawn from the local bridge had been taken by it
\* ("cancelled") or not ("withdrawn") the database does not say.
JobState == {"queued", "running", "succeeded", "failed", "cancelled", "withdrawn"}

Task == [status : TaskStatus, run : Run, owner : Actor \cup {Nobody},
         live : BOOLEAN, req : {NoJob} \cup JobId,
         cancel : CancelStatus, checks : Nat, interface : Interfaces]
Job == [run : Run, state : JobState]

\* Of the log three things are read: root, the latest row of a create call and
\* whether it counts as a successful billable call; whether an older one does;
\* and last, the latest request id, which a row after root may hold.
Log == [root : {"none", "unbilled", "failed", "succeeded"}, older : BOOLEAN,
        last : {NoJob} \cup JobId, after : BOOLEAN]
NoLog == [root |-> "none", older |-> FALSE, last |-> NoJob, after |-> FALSE]

\* A task is created with its first order reserved (CreateTaskWithCreditReservation).
NewTask(i, r) == [status |-> "queued", run |-> r, owner |-> Nobody, live |-> FALSE,
                  req |-> NoJob, cancel |-> "", checks |-> 0, interface |-> i]

StoreInit == /\ \E i \in Interfaces : row = NewTask(i, 1)
             /\ order = [r \in Run |-> IF r = 1 THEN "reserved" ELSE "none"]
             /\ oreq = [r \in Run |-> NoJob]
             /\ jobs = <<>>
             /\ log = NoLog

Live == {"queued", "running"}
Open == {"reserved", "running", "uncertain"}
Ended(r) == row.run # r \/ row.status \notin Live
Sent(r) == \E j \in DOMAIN jobs : jobs[j].run = r

-----------------------------------------------------------------------------
\* Fault: a write that trusts the claim and does not look at the lease again.
HoldsByStatus(a, status) == row.status = status

\* taskLeaseWriter with the expected status: who may still write as an execution.
Holds(a, status) == row.owner = a /\ row.live /\ row.status = status

\* Fault: a task whose execution died is not picked up again.
ClaimQueuedOnly(w) ==
    /\ row.status = "queued"
    /\ row' = [row EXCEPT !.status = "running", !.owner = w, !.live = TRUE]

\* ClaimNextTask: queued, or running under a lease that is absent or has expired.
ClaimNextTask(w) ==
    /\ \/ row.status = "queued"
       \/ row.status = "running" /\ ~row.live
    /\ row' = [row EXCEPT !.status = "running", !.owner = w, !.live = TRUE]

\* UpdateTaskTerminalState, CancelTaskIfStatus, DeferRunningTaskForProviderPoll:
\* the row gets a status and loses its lease.
Leave(status) == row' = [row EXCEPT !.status = status, !.owner = Nobody, !.live = FALSE]

\* UpdateTaskProviderState: no condition but the id of the task.
UpdateTaskProviderState(j) == row' = IF j = NoJob THEN row ELSE [row EXCEPT !.req = j]

\* SaveTaskCompletion writes every column of the caller's copy; the lease stays.
SaveTaskCompletion(r, j) == row' = [row EXCEPT !.status = "succeeded", !.run = r, !.req = j]

\* ClaimTaskProviderCancellation: one caller gets the right to send the request.
MayRequest == row.status = "cancelled" /\ row.cancel = ""
ClaimTaskProviderCancellation ==
    row' = [row EXCEPT !.cancel = "requested", !.checks = 1]

\* ClaimNextTaskProviderCancellation.
ClaimNextTaskProviderCancellation(x) ==
    /\ row.status = "cancelled" /\ row.cancel = "requested"
    /\ ~row.live
    /\ row' = [row EXCEPT !.owner = x, !.live = TRUE, !.checks = @ + 1]

\* UpdateTaskProviderCancellation; the lease is given up with it.
BeingCancelled == row.status = "cancelled" /\ row.cancel = "requested"
UpdateTaskProviderCancellation(status) ==
    row' = [row EXCEPT !.cancel = status, !.owner = Nobody, !.live = FALSE]

\* ClaimFailedTaskProviderRecovery: a worker's lease may be taken over, an
\* unexpired one of another recovery may not.
ClaimFailedTaskProviderRecovery(c) ==
    /\ row.status = "failed"
    /\ row.owner \notin Client \/ ~row.live
    /\ row' = [row EXCEPT !.owner = c, !.live = TRUE]

\* ReleaseTaskProviderRecovery.
ReleaseTaskProviderRecovery(c) ==
    row' = IF row.owner = c THEN [row EXCEPT !.owner = Nobody, !.live = FALSE] ELSE row

\* ReleaseTaskLease: the task stays running, and anybody may claim it.
ReleaseTaskLease(w) ==
    row' = IF row.owner = w /\ row.status = "running"
           THEN [row EXCEPT !.owner = Nobody, !.live = FALSE]
           ELSE row

\* RetryTaskWithBilling: a new run with a new order.  It tests the status only.
RetryTaskWithBilling ==
    /\ row.status \in {"failed", "cancelled"}
    /\ row.run < MaxRuns
    /\ row' = NewTask(row.interface, row.run + 1)
    /\ order' = [order EXCEPT ![row.run + 1] = "reserved"]

JobBecomes(j, state) == jobs' = [jobs EXCEPT ![j].state = state]

\* CancelComfyBridgeRequest: a request that is queued or claimed.
CancelComfyBridgeRequest(j) ==
    \/ jobs[j].state = "queued" /\ JobBecomes(j, "withdrawn")
    \/ jobs[j].state = "running" /\ JobBecomes(j, "cancelled")
    \/ jobs[j].state \notin {"queued", "running"} /\ jobs' = jobs

-----------------------------------------------------------------------------
\* The billing calls, as functions of the orders.
MarkedRunning(r) == [order EXCEPT ![r] = "running"]
\* Fault: the status of the task is written on its order.
MarkedFailed(r) == [order EXCEPT ![r] = "failed"]
MarkedUncertain(r) == [order EXCEPT ![r] = IF @ \in {"reserved", "running"} THEN "uncertain" ELSE @]
Refunded(r) == [order EXCEPT ![r] = IF @ \in Open THEN "refunded" ELSE @]
Settled(r) == [order EXCEPT ![r] = IF @ \in Open THEN "settled" ELSE @]

\* The log after one more call.  A create call gets a row.  A poll is merged into
\* the latest create row of the TASK and writes its own outcome there
\* (mergeVideoAPICallLog); without such a row it gets one, like a cancel call.
CreateLogged(j, status) ==
    [root |-> status, older |-> log.older \/ log.root = "succeeded",
     last |-> IF j = NoJob THEN log.last ELSE j, after |-> FALSE]
ApartLogged(j) == [log EXCEPT !.last = j, !.after = TRUE]
PollLogged(j, ok) ==
    IF log.root = "none" THEN ApartLogged(j)
    ELSE [log EXCEPT !.root = IF @ = "unbilled" THEN @ ELSE IF ok THEN "succeeded" ELSE "failed",
                     !.last = IF log.after THEN @ ELSE j]

\* TaskHasSuccessfulBillableCall: of any run of the task.
HasSuccessfulBillableCall == log.older \/ log.root = "succeeded"

\* LogAPICall: the order and the row get the request id, whatever they are by now,
\* then the log is written.  When that fails the caller may put the order under
\* review, which may fail too (recordProviderRequest).
LogAPICall(r, j, entry, review) ==
    /\ oreq' = IF j = NoJob THEN oreq ELSE [oreq EXCEPT ![r] = j]
    /\ UpdateTaskProviderState(j)
    /\ \/ log' = entry /\ order' = order
       \/ log' = log /\ (order' = order \/ (review /\ order' = MarkedUncertain(r)))

\* hydrateTaskProviderRequestID: the row, else the order, else the latest request
\* that the log has for the TASK, whichever run it belongs to.
Hydrated(known, r) ==
    IF known # NoJob THEN known ELSE IF oreq[r] # NoJob THEN oreq[r] ELSE log.last

StoreTypeOK == /\ row \in Task
               /\ order \in [Run -> OrderStatus]
               /\ oreq \in [Run -> {NoJob} \cup JobId]
               /\ jobs \in Seq(Job) /\ Len(jobs) <= MaxJobs
               /\ log \in Log
=============================================================================
