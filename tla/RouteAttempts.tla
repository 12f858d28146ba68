---------------------------- MODULE RouteAttempts ----------------------------
(***************************************************************************)
(* A task of a logical model, which several routes can serve               *)
(* (backend/internal/app/model_router.go and task_route_executor.go).      *)
(*                                                                         *)
(* Every try of a route is an attempt with a row of its own.  The row says *)
(* how far the request to the supplier has got, and from it alone the next *)
(* execution has to decide whether the request may be sent: a supplier     *)
(* that has accepted a request is paid, with whatever comes of it.         *)
(*                                                                         *)
(* One run of one task.  Executions follow each other: the lease of a task *)
(* is exclusive here, executions that overlap are the subject of           *)
(* TaskRuntime.                                                            *)
(***************************************************************************)
EXTENDS Naturals, Sequences

CONSTANTS
    Route,      \* the routes of the logical model
    Answers,    \* what the answer to a create call can hold
    MaxFaults   \* bound: failed statements and executions that just end

\* polled: the id of a job, whose result is asked for later;
\* inline: the result; link: the address of the result, without an id.
ASSUME RouteAssumption ==
    /\ Route # {}
    /\ Answers \subseteq {"polled", "inline", "link"}
    /\ MaxFaults \in Nat

VARIABLES
    row,       \* the task: status, route_id, provider_request_id and the job
               \* whose result it holds
    order,     \* its billing order: status, and the route it is priced for
    attempts,  \* route_attempts of the run, by number
    jobs,      \* the jobs suppliers have accepted: a request id is an index
    exec,      \* the execution at work
    cancel,    \* the user's request to cancel
    faults

rows == <<row, order, attempts>>
vars == <<rows, jobs, exec, cancel, faults>>

-----------------------------------------------------------------------------

NoJob == 0
Live == {"queued", "running"}
Open == {"reserved", "running", "uncertain"}

Row == [status : Live \cup {"succeeded", "failed", "cancelled"},
        route : Route, request : Nat, result : Nat]
OrderRow == [status : Open \cup {"settled", "refunded"}, route : Route]
Attempt == [route : Route, request : Nat,
            dispatch : {"not_sent", "submission_unknown", "accepted", "rejected_no_job"}]
Job == [route : Route, attempt : Nat]

Step == {"idle", "begin", "create", "bill", "mark", "call", "record", "poll",
         "download", "refresh", "finish", "next", "switch", "save", "settle",
         "fail", "close"}
\* rejected: no channel slot, or HTTP 401, 403, 404, 429; lost: nobody knows what
\* the supplier did; unprepared: before anything was sent in this execution.
Failure == {"none", "unprepared", "rejected", "failed", "lost"}
\* The copy of the task an execution works with, and where it is.
Execution == [step : Step, route : Route, request : Nat, job : Nat, failure : Failure]

Init ==
    /\ \E r \in Route :
         /\ row = [status |-> "queued", route |-> r, request |-> NoJob, result |-> NoJob]
         /\ order = [status |-> "reserved", route |-> r]
         /\ exec = [step |-> "idle", route |-> r, request |-> NoJob, job |-> NoJob,
                    failure |-> "none"]
    /\ attempts = <<>> /\ jobs = <<>>
    /\ cancel = [step |-> "idle", status |-> "queued", request |-> NoJob]
    /\ faults = 0

At(step) == exec.step = step
Goto(step) == exec' = [exec EXCEPT !.step = step]
GotoWith(step, failure) == exec' = [exec EXCEPT !.step = step, !.failure = failure]
Fault == faults < MaxFaults /\ faults' = faults + 1

LastAttempt == attempts[Len(attempts)]
\* Fault: only the last route is left out.
TriedLast == IF attempts = <<>> THEN {} ELSE {LastAttempt.route}
Tried == {attempts[i].route : i \in DOMAIN attempts}
SaveLast(attempt) == attempts' = [attempts EXCEPT ![Len(attempts)] = attempt]

\* MarkBillingUncertain, and what closes an order: an order that is closed stays so.
MarkUncertain ==
    order' = IF order.status \in {"reserved", "running"}
             THEN [order EXCEPT !.status = "uncertain"] ELSE order
Close(status) ==
    order' = IF order.status \in Open THEN [order EXCEPT !.status = status] ELSE order

-----------------------------------------------------------------------------
(* The start of an execution                                               *)

\* Fault: a task that was left running is not claimed again.
ClaimQueued ==
    /\ At("idle") /\ row.status = "queued"
    /\ row' = [row EXCEPT !.status = "running"]
    /\ exec' = [step |-> "begin", route |-> row.route, request |-> row.request,
                job |-> NoJob, failure |-> "none"]
    /\ UNCHANGED <<order, attempts, jobs, cancel, faults>>

\* ClaimNextTask and UpdateTaskProgressForLease.
Claim ==
    /\ At("idle") /\ row.status \in Live
    /\ row' = [row EXCEPT !.status = "running"]
    /\ exec' = [step |-> "begin", route |-> row.route, request |-> row.request,
                job |-> NoJob, failure |-> "none"]
    /\ UNCHANGED <<order, attempts, jobs, cancel, faults>>

\* Fault: an attempt whose fate is unknown is sent again.
BeginAgain ==
    /\ At("begin")
    /\ IF attempts = <<>> THEN Goto("create") /\ UNCHANGED attempts
       ELSE CASE LastAttempt.dispatch = "rejected_no_job" -> Goto("switch") /\ UNCHANGED attempts
              [] OTHER -> SaveLast([LastAttempt EXCEPT !.dispatch = "not_sent"]) /\ Goto("bill")
    /\ UNCHANGED <<row, order, jobs, cancel, faults>>

RequestId == IF exec.request # NoJob THEN exec.request ELSE LastAttempt.request

\* An attempt that was sent goes on with the id it or the task has: the task gets
\* the id, the attempt counts as accepted.
Resume ==
    /\ LastAttempt.dispatch \in {"accepted", "submission_unknown"}
    /\ RequestId # NoJob
    /\ row' = [row EXCEPT !.request = RequestId]
    /\ exec' = [exec EXCEPT !.request = RequestId, !.step = "bill"]
    /\ SaveLast([LastAttempt EXCEPT !.dispatch = "accepted"])

\* These are two statements: the task has the id, and the attempt is not saved.
ResumeUnsaved ==
    /\ LastAttempt.dispatch = "submission_unknown"
    /\ RequestId # NoJob
    /\ row' = [row EXCEPT !.request = RequestId]
    /\ exec' = [exec EXCEPT !.request = RequestId, !.step = "fail", !.failure = "unprepared"]
    /\ UNCHANGED attempts

\* Without an id the request is not sent again, and the cost goes to review.
StopUncertain ==
    /\ LastAttempt.dispatch \in {"accepted", "submission_unknown"}
    /\ RequestId = NoJob
    /\ GotoWith("fail", "lost")

\* beginTaskRouteAttempt.  The route of a first attempt may not be usable any more.
Begin ==
    /\ At("begin")
    /\ \/ attempts = <<>> /\ (Goto("create") \/ Goto("switch")) /\ UNCHANGED <<row, attempts, faults>>
       \/ /\ attempts # <<>>
          /\ UNCHANGED faults
          /\ \/ Resume
             \/ StopUncertain /\ UNCHANGED <<row, attempts>>
             \/ LastAttempt.dispatch = "not_sent" /\ Goto("bill") /\ UNCHANGED <<row, attempts>>
             \/ LastAttempt.dispatch = "rejected_no_job" /\ Goto("switch") /\ UNCHANGED <<row, attempts>>
       \/ attempts # <<>> /\ ResumeUnsaved /\ Fault
       \/ Fault /\ GotoWith("fail", "unprepared") /\ UNCHANGED <<row, attempts>>
    /\ UNCHANGED <<order, jobs, cancel>>

\* A switch that fails ends the preparation, or leaves the failure of the attempt.
NoRoute == GotoWith("fail", IF exec.failure = "none" THEN "unprepared" ELSE exec.failure)

\* Fault: the order keeps the price of the route that was left.
SwitchKeepsPrice ==
    /\ At("switch")
    /\ \/ \E r \in Route \ Tried :
            /\ row.status = "running" /\ row.route = exec.route
            /\ row' = [row EXCEPT !.route = r]
            /\ exec' = [exec EXCEPT !.step = "create", !.route = r, !.request = NoJob]
       \/ NoRoute /\ UNCHANGED row
    /\ UNCHANGED <<order, attempts, jobs, cancel, faults>>

\* switchTaskToNextRoute up to SwitchTaskLogicalRoute: a route that was not tried,
\* unless all are blocked, the credits do not suffice, the row was cancelled or the
\* order is no longer open.  Row and order change in one transaction.
SwitchTaskLogicalRoute ==
    /\ At("switch")
    /\ \/ \E r \in Route \ Tried :
            /\ row.status = "running" /\ row.route = exec.route
            /\ order.status \in {"reserved", "running"}
            /\ row' = [row EXCEPT !.route = r]
            /\ order' = [order EXCEPT !.route = r]
            /\ exec' = [exec EXCEPT !.step = "create", !.route = r, !.request = NoJob]
       \/ NoRoute /\ UNCHANGED <<row, order>>
    /\ UNCHANGED <<attempts, jobs, cancel, faults>>

\* createRouteAttempt: another transaction.  A second attempt of one execution goes
\* straight to the executor, the first one through the billing.
CreateRouteAttempt ==
    /\ At("create")
    /\ \/ /\ attempts' = Append(attempts, [route |-> exec.route, request |-> NoJob,
                                           dispatch |-> "not_sent"])
          /\ GotoWith(IF exec.failure = "none" THEN "bill" ELSE "mark", "none")
          /\ UNCHANGED faults
       \/ Fault /\ NoRoute /\ UNCHANGED attempts
    /\ UNCHANGED <<row, order, jobs, cancel>>

MarkBillingRunning ==
    /\ At("bill")
    /\ \/ /\ order.status \in {"reserved", "running"}
          /\ order' = [order EXCEPT !.status = "running"] /\ Goto("mark")
          /\ UNCHANGED faults
       \/ /\ order.status \notin {"reserved", "running"}
          /\ GotoWith("fail", "unprepared") /\ UNCHANGED <<order, faults>>
       \/ Fault /\ GotoWith("fail", "unprepared") /\ UNCHANGED order
    /\ UNCHANGED <<row, attempts, jobs, cancel>>

-----------------------------------------------------------------------------
(* taskRouteExecutor.execute                                               *)

\* Fault: the request is sent first.
DispatchUnmarked == At("mark") /\ Goto("call") /\ UNCHANGED <<rows, jobs, cancel, faults>>

\* markRouteAttemptDispatching: uncertain before the request is sent.
MarkDispatching ==
    /\ At("mark")
    /\ \/ LastAttempt.dispatch # "not_sent" /\ Goto("call") /\ UNCHANGED <<attempts, faults>>
       \/ /\ LastAttempt.dispatch = "not_sent"
          /\ SaveLast([LastAttempt EXCEPT !.dispatch = "submission_unknown"])
          /\ Goto("call") /\ UNCHANGED faults
       \/ /\ LastAttempt.dispatch = "not_sent"
          /\ Fault /\ GotoWith("fail", "failed") /\ UNCHANGED attempts
    /\ UNCHANGED <<row, order, jobs, cancel>>

NewJob == jobs' = Append(jobs, [route |-> exec.route, attempt |-> Len(attempts)])

\* The create call, unless there is a job to ask for.  It is refused, fails in
\* another way, is accepted without an answer, or answered.
Call ==
    /\ At("call")
    /\ \/ exec.request # NoJob /\ Goto("poll") /\ UNCHANGED jobs
       \/ /\ exec.request = NoJob
          /\ \/ \E failure \in {"rejected", "failed", "lost"} :
                  GotoWith("refresh", failure) /\ UNCHANGED jobs
             \/ NewJob /\ GotoWith("refresh", "lost")
             \/ \E answer \in Answers :
                  /\ NewJob
                  /\ exec' = [exec EXCEPT
                        !.job = Len(jobs) + 1,
                        !.step = CASE answer = "polled" -> "record"
                                   [] answer = "link" -> "download"
                                   [] OTHER -> "refresh"]
    /\ UNCHANGED <<rows, cancel, faults>>

\* LogAPICall writes the id on the row, whatever the row is by now.
Record ==
    /\ At("record")
    /\ row' = [row EXCEPT !.request = exec.job]
    /\ Goto("poll")
    /\ UNCHANGED <<order, attempts, jobs, cancel, faults>>

\* The result of the job, or where it can be downloaded; a poll that is refused
\* says nothing about the job.
Poll ==
    /\ At("poll")
    /\ \/ \E step \in {"refresh", "download"} :
            exec' = [exec EXCEPT !.step = step,
                                 !.job = IF @ = NoJob THEN exec.request ELSE @]
       \/ \E failure \in {"rejected", "failed", "lost"} : GotoWith("refresh", failure)
    /\ UNCHANGED <<rows, jobs, cancel, faults>>

Download ==
    /\ At("download")
    /\ \/ Goto("refresh")
       \/ \E failure \in {"rejected", "failed", "lost"} : GotoWith("refresh", failure)
    /\ UNCHANGED <<rows, jobs, cancel, faults>>

\* refreshTaskProviderState; when it fails the task is left as it is.
Refresh ==
    /\ At("refresh")
    /\ \/ /\ exec' = [exec EXCEPT !.step = "finish",
                                  !.request = IF row.request # NoJob THEN row.request ELSE @]
          /\ UNCHANGED faults
       \/ Fault /\ Goto("idle")
    /\ UNCHANGED <<rows, jobs, cancel>>

\* Fault: the status of the attempt is written as its dispatch state.
StatusAsVerdict == IF exec.failure = "none" THEN "succeeded" ELSE "failed"
\* Fault: a refused poll is taken for a refused request.
VerdictByFailure ==
    CASE exec.failure = "none" -> "accepted"
      [] exec.failure = "rejected" -> "rejected_no_job"
      [] OTHER -> "submission_unknown"

\* What finishTaskRouteAttempt makes of the attempt (safeRouteRejection).
Verdict ==
    CASE exec.failure = "none" \/ exec.request # NoJob -> "accepted"
      [] exec.failure = "rejected" /\ exec.request = NoJob -> "rejected_no_job"
      [] OTHER -> "submission_unknown"

\* An attempt that cannot be saved is only logged.
FinishAttempt ==
    /\ At("finish")
    /\ \/ /\ SaveLast([LastAttempt EXCEPT !.dispatch = Verdict, !.request = exec.request])
          /\ UNCHANGED faults
       \/ Fault /\ UNCHANGED attempts
    /\ CASE exec.failure = "none" -> Goto("save")
         [] exec.failure # "none" /\ Verdict = "rejected_no_job" -> Goto("next")
         [] OTHER -> Goto("fail")
    /\ UNCHANGED <<row, order, jobs, cancel>>

\* nextRouteAttemptAfterFailure: not when the time is up or the task cancelled.
NextRoute ==
    /\ At("next")
    /\ Goto("switch") \/ Goto("fail")
    /\ UNCHANGED <<rows, jobs, cancel, faults>>

-----------------------------------------------------------------------------
(* The end of an execution                                                 *)

\* saveTaskCompletionWithinStorageQuota; the media of the result or the row may
\* not be stored (handleResultPersistenceFailure), or the row has been cancelled.
Save ==
    /\ At("save")
    /\ \/ /\ row.status = "running"
          /\ row' = [row EXCEPT !.status = "succeeded", !.result = exec.job,
                                !.request = exec.request]
          /\ Goto("settle") /\ UNCHANGED order
       \/ row.status = "running" /\ GotoWith("fail", "lost") /\ UNCHANGED <<row, order>>
       \/ row.status = "cancelled" /\ MarkUncertain /\ Goto("idle") /\ UNCHANGED row
    /\ UNCHANGED <<attempts, jobs, cancel, faults>>

Settle ==
    /\ At("settle")
    /\ \/ Close("settled") /\ UNCHANGED faults
       \/ Fault /\ MarkUncertain
    /\ Goto("idle")
    /\ UNCHANGED <<row, attempts, jobs, cancel>>

\* markTerminalState: a row that is not running any more is left alone, and so is
\* its order; when the statement fails the task can be claimed again.
Fail ==
    /\ At("fail")
    /\ \/ /\ row.status = "running"
          /\ row' = [row EXCEPT !.status = "failed"] /\ Goto("close") /\ UNCHANGED faults
       \/ row.status # "running" /\ Goto("idle") /\ UNCHANGED <<row, faults>>
       \/ Fault /\ Goto("idle") /\ UNCHANGED row
    /\ UNCHANGED <<order, attempts, jobs, cancel>>

\* markPreparationFailure and handleExecutionFailure.  What else decides about the
\* review of a failed request is in TaskRuntime.
CloseOrder ==
    /\ At("close")
    /\ CASE exec.failure = "unprepared" -> Close("refunded")
         [] exec.failure = "lost" -> MarkUncertain
         [] OTHER -> Close("refunded") \/ MarkUncertain
    /\ Goto("idle")
    /\ UNCHANGED <<row, attempts, jobs, cancel, faults>>

\* The process dies, the lease is lost or the task is put off: the task stays as
\* it is and is claimed again.
Abandon ==
    /\ ~At("idle") /\ Fault
    /\ Goto("idle")
    /\ UNCHANGED <<rows, jobs, cancel>>

-----------------------------------------------------------------------------
(* The user                                                                *)

\* cancelTask: the row is read, cancelled if its status is still the same, and the
\* order is closed.  With a request id the follow-up of TaskRuntime closes it.
BeginCancel ==
    /\ cancel.step = "idle" /\ row.status \in Live
    /\ cancel' = [step |-> "write", status |-> row.status, request |-> row.request]
    /\ UNCHANGED <<rows, jobs, exec, faults>>

CancelIfStatus ==
    /\ cancel.step = "write"
    /\ IF row.status = cancel.status
       THEN row' = [row EXCEPT !.status = "cancelled"] /\ cancel' = [cancel EXCEPT !.step = "close"]
       ELSE UNCHANGED row /\ cancel' = [cancel EXCEPT !.step = "idle"]
    /\ UNCHANGED <<order, attempts, jobs, exec, faults>>

CloseCancelled ==
    /\ cancel.step = "close"
    /\ CASE cancel.request # NoJob -> Close("refunded") \/ Close("settled") \/ MarkUncertain
         [] cancel.request = NoJob /\ cancel.status = "queued" -> Close("refunded")
         [] OTHER -> MarkUncertain
    /\ cancel' = [cancel EXCEPT !.step = "idle"]
    /\ UNCHANGED <<row, attempts, jobs, exec, faults>>

-----------------------------------------------------------------------------

Execute ==
    \/ Begin \/ SwitchTaskLogicalRoute \/ CreateRouteAttempt \/ MarkBillingRunning
    \/ MarkDispatching \/ Call \/ Record \/ Poll \/ Download \/ Refresh
    \/ FinishAttempt \/ NextRoute
    \/ Save \/ Settle \/ Fail \/ CloseOrder

Next ==
    \/ Claim \/ Execute \/ Abandon
    \/ BeginCancel \/ CancelIfStatus \/ CloseCancelled

\* The dispatch loop claims what can be claimed, an execution goes on (every call
\* has a timeout), and so does a request to cancel; nobody has to cancel.
Fairness ==
    /\ WF_vars(Claim) /\ WF_vars(Execute)
    /\ WF_vars(CancelIfStatus) /\ WF_vars(CloseCancelled)

Spec == Init /\ [][Next]_vars /\ Fairness

-----------------------------------------------------------------------------
(* Properties                                                              *)

\* The types of the rows and of what an execution remembers (type invariant).
TypeOK ==
    /\ row \in Row /\ order \in OrderRow
    /\ attempts \in Seq(Attempt)
    /\ jobs \in Seq(Job)
    /\ exec \in Execution
    /\ cancel \in [step : {"idle", "write", "close"}, status : Live, request : Nat]
    /\ faults \in 0 .. MaxFaults

\* "The request is uncertain before the network call; only when no job was clearly
\* created may the route be changed" (model_router.go): whatever execution
\* dies where, a run never has two jobs at suppliers.  Expected to fail when an
\* answer holds a link.
OneJobPerRun == Len(jobs) <= 1

\* An attempt that has made a job never says that it has not: neither a crash nor a
\* verdict that is not saved lets the next execution send another request.
JobsAreRemembered ==
    \A j \in DOMAIN jobs :
        attempts[jobs[j].attempt].dispatch \in {"submission_unknown", "accepted"}

\* The request id that tasks and attempts carry through switches, crashes and
\* resumed executions belongs to the attempt, and the route, that made the job.
RequestsKeepTheirRoute ==
    /\ \A i \in DOMAIN attempts :
         attempts[i].request # NoJob =>
             /\ jobs[attempts[i].request].attempt = i
             /\ jobs[attempts[i].request].route = attempts[i].route
    /\ row.request # NoJob => jobs[row.request].route = row.route

\* An open order has the price of the route the task runs on, and a settled one the
\* price of the route that made the job.
PriceFollowsTheRoute ==
    /\ order.status \in Open => order.route = row.route
    /\ order.status = "settled" => jobs # <<>> /\ order.route = jobs[Len(jobs)].route

\* A failover never comes back to a route: no two attempts share one.
RoutesAreTriedOnce ==
    \A i, k \in DOMAIN attempts : attempts[i].route = attempts[k].route => i = k

\* Switching routes and resuming attempts comes to an end: the task does.
EveryRunEnds == row.status = "queued" ~> row.status \notin Live

=============================================================================
