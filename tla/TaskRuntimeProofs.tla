------------------------- MODULE TaskRuntimeProofs -------------------------
(***************************************************************************)
(* Proofs about TaskRuntime for any workers, clients, runs and interfaces. *)
(***************************************************************************)
EXTENDS TaskRuntime, SequenceTheorems, TLAPS

\* What an actor at work knows: its run, and its job once it has created it.
Remembers ==
    \A a \in Actor : at[a].pc # "idle" =>
        at[a].run \in Run /\ (at[a].pc = "sent" => at[a].req # NoJob)
Memory == at \in [Actor -> Local] /\ Remembers
TypeInv == TypeOK /\ Remembers

-----------------------------------------------------------------------------
(* The ways an actor moves on keep its memory in order.                    *)

\* Moving on keeps the memory.
LEMMA GotoRemembers ==
    ASSUME Memory, NEW a \in Actor, ~At(a, "idle"), NEW pc \in PC \ {"sent"}, Goto(a, pc)
    PROVE  Memory'
BY DEF Memory, Remembers, At, Goto, Local

\* Moving on for a reason keeps the memory.
LEMMA GotoForRemembers ==
    ASSUME Memory, NEW a \in Actor, ~At(a, "idle"), NEW pc \in PC \ {"sent"}, NEW why \in Why,
           GotoFor(a, pc, why)
    PROVE  Memory'
BY DEF Memory, Remembers, At, GotoFor, Local

\* An actor that returns forgets everything.
LEMMA ReturnRemembers ==
    ASSUME Memory, NEW a \in Actor, Return(a)
    PROVE  Memory'
<1>1. Idle \in Local
  BY DEF Idle, Local, PC, Why, NoJob
<1>. QED  BY <1>1 DEF Memory, Remembers, Return, Idle

\* An actor may take over the run that the row is in.
LEMMA GotoLatestRemembers ==
    ASSUME Memory, row \in Task, NEW a \in Actor, NEW pc \in PC \ {"sent"}, GotoLatest(a, pc)
    PROVE  Memory'
<1>1. row.run \in Run /\ at[a] \in Local
  BY DEF Memory, Task
<1>2. [at[a] EXCEPT !.pc = pc, !.run = row.run] \in Local
  BY <1>1 DEF Local
<1>3. at' = [at EXCEPT ![a] = [@ EXCEPT !.pc = pc, !.run = row.run]]
  BY <1>1 DEF GotoLatest, Memory, Local
<1>4. at' \in [Actor -> Local]
  BY <1>2, <1>3 DEF Memory
<1>5. at'[a].run \in Run /\ at'[a].pc = pc /\ \A b \in Actor \ {a} : at'[b] = at[b]
  BY <1>1, <1>3 DEF Memory, Local
<1>. QED  BY <1>4, <1>5 DEF Memory, Remembers

\* Leaving a call to the supplier, the request id may have become known.
LEMMA LeavesRemembers ==
    ASSUME Memory, row' \in Task, NEW a \in Actor, ~At(a, "idle"), NEW pc \in PC \ {"sent"},
           NEW why \in Why, Leaves(a, pc, why)
    PROVE  Memory'
<1>1. Refreshed(a) \in {NoJob} \cup JobId
  BY DEF Memory, Refreshed, Local, Task
<1>. QED  BY <1>1 DEF Memory, Remembers, At, Leaves, Local

\* An actor may begin with any copy that is well formed.
LEMMA BeginsRemembers ==
    ASSUME Memory, NEW a \in Actor, NEW l \in Local, l.run \in Run, l.pc # "sent",
           at' = [at EXCEPT ![a] = l]
    PROVE  Memory'
BY DEF Memory, Remembers

\* Stopping an execution changes nothing but its reason.
LEMMA InterruptRemembers ==
    ASSUME Memory, NEW c \in Client, NEW w \in Worker, ~At(c, "idle"),
           NEW pc \in PC \ {"sent"}, at' = [at EXCEPT ![c].pc = pc, ![w].why = "killed"]
    PROVE  Memory'
<1>1. c # w /\ c \in Actor /\ w \in Actor
  BY StoreAssumption DEF Actor
<1>2. at' = [at EXCEPT ![c] = [at[c] EXCEPT !.pc = pc], ![w] = [at[w] EXCEPT !.why = "killed"]]
  BY <1>1 DEF Memory
<1>3. [at[c] EXCEPT !.pc = pc] \in Local /\ [at[w] EXCEPT !.why = "killed"] \in Local
  BY <1>1 DEF Memory, Local, Why
<1>4. at' \in [Actor -> Local]
  BY <1>1, <1>2, <1>3 DEF Memory
<1>. QED  BY <1>1, <1>2, <1>4 DEF Memory, Remembers, Local, At

\* A copy of the row is well formed.
LEMMA CopyIsLocal ==
    ASSUME row \in Task, NEW pc \in PC
    PROVE  Copy(pc) \in Local /\ Copy(pc).run \in Run /\ Copy(pc).pc = pc
BY DEF Copy, Local, Task, Why

-----------------------------------------------------------------------------
(* The statements keep the rows in order.                                  *)

\* Every statement on the row of the task writes a row.
LEMMA RowUpdates ==
    ASSUME row \in Task
    PROVE  /\ \A status \in TaskStatus : Leave(status) => row' \in Task
           /\ \A j \in {NoJob} \cup JobId : UpdateTaskProviderState(j) => row' \in Task
           /\ \A r \in Run, j \in {NoJob} \cup JobId : SaveTaskCompletion(r, j) => row' \in Task
           /\ \A status \in CancelStatus : UpdateTaskProviderCancellation(status) => row' \in Task
           /\ ClaimTaskProviderCancellation => row' \in Task
           /\ \A a \in Actor : ClaimNextTask(a) => row' \in Task
           /\ \A a \in Actor : ClaimNextTaskProviderCancellation(a) => row' \in Task
           /\ \A a \in Actor : ClaimFailedTaskProviderRecovery(a) => row' \in Task
           /\ \A a \in Actor : ReleaseTaskProviderRecovery(a) => row' \in Task
           /\ \A a \in Actor : ReleaseTaskLease(a) => row' \in Task
<1> USE DEF Task
<1>1. ASSUME NEW status \in TaskStatus, Leave(status) PROVE row' \in Task
  BY <1>1 DEF Leave
<1>2. ASSUME NEW j \in {NoJob} \cup JobId, UpdateTaskProviderState(j) PROVE row' \in Task
  BY <1>2 DEF UpdateTaskProviderState
<1>3. ASSUME NEW r \in Run, NEW j \in {NoJob} \cup JobId, SaveTaskCompletion(r, j)
      PROVE  row' \in Task
  BY <1>3 DEF SaveTaskCompletion, TaskStatus
<1>4. ASSUME NEW status \in CancelStatus, UpdateTaskProviderCancellation(status)
      PROVE  row' \in Task
  BY <1>4 DEF UpdateTaskProviderCancellation
<1>5. ASSUME ClaimTaskProviderCancellation PROVE row' \in Task
  BY <1>5 DEF ClaimTaskProviderCancellation, CancelStatus
<1>6. ASSUME NEW a \in Actor, ClaimNextTask(a) PROVE row' \in Task
  BY <1>6 DEF ClaimNextTask, TaskStatus
<1>7. ASSUME NEW a \in Actor, ClaimNextTaskProviderCancellation(a) PROVE row' \in Task
  <2>1. row.checks + 1 \in Nat
    OBVIOUS
  <2>. QED  BY <1>7, <2>1 DEF ClaimNextTaskProviderCancellation
<1>8. ASSUME NEW a \in Actor, ClaimFailedTaskProviderRecovery(a) PROVE row' \in Task
  BY <1>8 DEF ClaimFailedTaskProviderRecovery
<1>9. ASSUME NEW a \in Actor, ReleaseTaskProviderRecovery(a) PROVE row' \in Task
  BY <1>9 DEF ReleaseTaskProviderRecovery
<1>10. ASSUME NEW a \in Actor, ReleaseTaskLease(a) PROVE row' \in Task
  BY <1>10 DEF ReleaseTaskLease
<1>. QED  BY <1>1, <1>2, <1>3, <1>4, <1>5, <1>6, <1>7, <1>8, <1>9, <1>10

\* Every billing call writes orders.
LEMMA OrderUpdates ==
    ASSUME order \in [Run -> OrderStatus], NEW r
    PROVE  /\ MarkedRunning(r) \in [Run -> OrderStatus]
           /\ MarkedUncertain(r) \in [Run -> OrderStatus]
           /\ Refunded(r) \in [Run -> OrderStatus]
           /\ Settled(r) \in [Run -> OrderStatus]
BY DEF MarkedRunning, MarkedUncertain, Refunded, Settled, OrderStatus

\* A closing statement writes orders or lapses, and does nothing else.
LEMMA BillTypes ==
    ASSUME TypeOK, NEW outcomes, outcomes \subseteq [Run -> OrderStatus], Bill(outcomes)
    PROVE  /\ UNCHANGED <<row, oreq, jobs, log, stalls, crashes>>
           /\ order' \in [Run -> OrderStatus]
           /\ lapses' \in 0 .. MaxLapses
BY RuntimeAssumption DEF TypeOK, StoreTypeOK, Bill, Supplier

\* The request id found for a run is one, or none.
LEMMA HydratedIsAJob ==
    ASSUME TypeOK, NEW known \in {NoJob} \cup JobId, NEW r \in Run
    PROVE  Hydrated(known, r) \in {NoJob} \cup JobId
BY DEF TypeOK, StoreTypeOK, Hydrated, Log

\* The row, the orders and the log have their types.
BooksOK == /\ row \in Task /\ order \in [Run -> OrderStatus]
           /\ oreq \in [Run -> {NoJob} \cup JobId] /\ log \in Log

\* Every call adds an entry to the log.
LEMMA LogUpdates ==
    ASSUME TypeOK, NEW j \in {NoJob} \cup JobId
    PROVE  /\ \A status \in {"unbilled", "failed", "succeeded"} : CreateLogged(j, status) \in Log
           /\ \A ok \in BOOLEAN : PollLogged(j, ok) \in Log
           /\ ApartLogged(j) \in Log
<1>1. log \in Log
  BY DEF TypeOK, StoreTypeOK
<1>2. ApartLogged(j) \in Log
  BY <1>1 DEF ApartLogged, Log
<1>3. ASSUME NEW status \in {"unbilled", "failed", "succeeded"}
      PROVE  CreateLogged(j, status) \in Log
  BY <1>1 DEF CreateLogged, Log
<1>4. ASSUME NEW ok \in BOOLEAN PROVE PollLogged(j, ok) \in Log
  BY <1>1, <1>2 DEF PollLogged, Log
<1>. QED  BY <1>2, <1>3, <1>4

\* What is recorded of a call to the supplier keeps the books in order.
LEMMA LoggedCalls ==
    ASSUME TypeInv, NEW a \in Actor
    PROVE  /\ UNCHANGED Books => BooksOK'
           /\ ~At(a, "idle") =>
                 /\ \A j \in {NoJob} \cup JobId, status \in {"unbilled", "failed", "succeeded"},
                       review \in BOOLEAN : LogCreate(a, j, status, review) => BooksOK'
                 /\ \A ok \in BOOLEAN, review \in BOOLEAN : LogPoll(a, ok, review) => BooksOK'
                 /\ LogCancellation(a) => BooksOK'
<1>1. BooksOK /\ TypeOK
  BY DEF TypeInv, TypeOK, StoreTypeOK, BooksOK
<1>2. UNCHANGED Books => BooksOK'
  BY <1>1 DEF Books, BooksOK
<1>3. ASSUME NEW r \in Run, NEW j \in {NoJob} \cup JobId, NEW entry \in Log, NEW review \in BOOLEAN,
             LogAPICall(r, j, entry, review)
      PROVE  BooksOK'
  <2>1. row' \in Task
    BY <1>1, <1>3, RowUpdates DEF BooksOK, LogAPICall
  <2>2. oreq' \in [Run -> {NoJob} \cup JobId]
    BY <1>1, <1>3 DEF BooksOK, LogAPICall
  <2>3. order' \in [Run -> OrderStatus] /\ log' \in Log
    BY <1>1, <1>3, OrderUpdates DEF BooksOK, LogAPICall
  <2>. QED  BY <2>1, <2>2, <2>3 DEF BooksOK
<1>4. ~At(a, "idle") => at[a].run \in Run /\ at[a].req \in {NoJob} \cup JobId
  BY <1>1 DEF TypeInv, TypeOK, Remembers, At, Local
<1>. QED
  BY <1>1, <1>2, <1>3, <1>4, LogUpdates DEF LogCreate, LogPoll, LogCancellation

\* So does what an execution makes of a poll, or of a call that is interrupted.
LEMMA LoggedAnswers ==
    ASSUME TypeInv, NEW w \in Worker, ~At(w, "idle")
    PROVE  /\ \A ok \in BOOLEAN : Polled(w, ok) => BooksOK'
           /\ \A review \in BOOLEAN : Interrupted(w, review) => BooksOK'
<1>1. BooksOK /\ w \in Actor /\ at[w].req \in {NoJob} \cup JobId
  BY DEF TypeInv, TypeOK, StoreTypeOK, BooksOK, Actor, Local
<1>2. ASSUME NEW ok \in BOOLEAN, Polled(w, ok) PROVE BooksOK'
  <2>1. CASE LogPoll(w, ok, TRUE)
    BY <1>1, <2>1, LoggedCalls
  <2>2. CASE row' = row \/ UpdateTaskProviderState(at[w].req)
    BY <1>1, <1>2, <2>1, <2>2, RowUpdates DEF Polled, BooksOK
  <2>. QED  BY <1>2, <2>1, <2>2 DEF Polled
<1>3. ASSUME NEW review \in BOOLEAN, Interrupted(w, review) PROVE BooksOK'
  BY <1>1, <1>3, LoggedCalls DEF Interrupted
<1>. QED  BY <1>2, <1>3

\* The supplier changes the state of a job and nothing else.
LEMMA JobChanges ==
    ASSUME TypeOK, NEW j, NEW state \in JobState, JobBecomes(j, state)
    PROVE  jobs' \in Seq(Job) /\ Len(jobs') <= MaxJobs
<1> USE StoreAssumption DEF TypeOK, StoreTypeOK, JobBecomes
<1>1. CASE j \in 1 .. Len(jobs)
  <2>1. jobs[j] \in Job
    BY <1>1
  <2>2. [jobs[j] EXCEPT !.state = state] \in Job
    BY <2>1 DEF Job
  <2>3. jobs' = [jobs EXCEPT ![j] = [jobs[j] EXCEPT !.state = state]]
    OBVIOUS
  <2>. QED  BY <1>1, <2>2, <2>3, ExceptSeq
<1>2. CASE j \notin 1 .. Len(jobs)
  <2>1. jobs \in [1 .. Len(jobs) -> Job]
    OBVIOUS
  <2>2. jobs' = jobs
    BY <1>2, <2>1
  <2>. QED  BY <2>2
<1>. QED  BY <1>1, <1>2

\* So does whoever withdraws a bridge request, or stops waiting for one.
LEMMA JobsStayTyped ==
    ASSUME TypeOK
    PROVE  /\ jobs' = jobs => jobs' \in Seq(Job) /\ Len(jobs') <= MaxJobs
           /\ \A j : CancelComfyBridgeRequest(j) => jobs' \in Seq(Job) /\ Len(jobs') <= MaxJobs
           /\ \A w : StopsWaiting(w) => jobs' \in Seq(Job) /\ Len(jobs') <= MaxJobs
<1>1. jobs' = jobs => jobs' \in Seq(Job) /\ Len(jobs') <= MaxJobs
  BY DEF TypeOK, StoreTypeOK
<1>2. ASSUME NEW j, CancelComfyBridgeRequest(j)
      PROVE  jobs' \in Seq(Job) /\ Len(jobs') <= MaxJobs
  <2>1. "withdrawn" \in JobState /\ "cancelled" \in JobState
    BY DEF JobState
  <2>. QED  BY <1>1, <1>2, <2>1, JobChanges DEF CancelComfyBridgeRequest
<1>. QED  BY <1>1, <1>2 DEF StopsWaiting

\* The counters of a row may be advanced.
LEMMA Counters ==
    ASSUME row \in Task
    PROVE  row.checks + 1 \in Nat /\ (row.run < MaxRuns => row.run + 1 \in Run)
<1>1. row.checks \in Nat /\ row.run \in Run
  BY DEF Task
<1>. QED  BY <1>1, StoreAssumption DEF Run

\* A new job belongs to the run of the execution that submits it.
LEMMA SubmitTypes ==
    ASSUME TypeInv, Memory, NEW w \in Worker, Submit(w)
    PROVE  Memory' /\ jobs' \in Seq(Job) /\ Len(jobs') <= MaxJobs /\ BooksOK'
<1>1. jobs \in Seq(Job) /\ Len(jobs) \in Nat /\ Len(jobs) <= MaxJobs
  BY DEF TypeInv, TypeOK, StoreTypeOK
<1>2. w \in Actor /\ row \in Task /\ at[w].pc = "ready" /\ at[w].run \in Run
  BY DEF Actor, TypeInv, TypeOK, StoreTypeOK, Submit, At, Memory, Remembers
<1>3. \/ jobs' = jobs
      \/ /\ Len(jobs) < MaxJobs
         /\ \E state \in JobState : jobs' = Append(jobs, [run |-> at[w].run, state |-> state])
  BY DEF Submit, NewJob, JobState
<1>4. Len(jobs) < MaxJobs => Len(jobs) + 1 \in JobId \ {NoJob}
  BY <1>1, StoreAssumption DEF JobId, NoJob
<1>5. jobs' \in Seq(Job) /\ Len(jobs') <= MaxJobs
  <2>1. CASE jobs' = jobs
    BY <1>1, <2>1
  <2>2. ASSUME NEW state \in JobState, Len(jobs) < MaxJobs,
               jobs' = Append(jobs, [run |-> at[w].run, state |-> state])
        PROVE  jobs' \in Seq(Job) /\ Len(jobs') <= MaxJobs
    <3>1. [run |-> at[w].run, state |-> state] \in Job
      BY <1>2 DEF Job
    <3>. QED  BY <1>1, <2>2, <3>1, StoreAssumption
  <2>. QED  BY <1>3, <2>1, <2>2
<1>6. BooksOK'
  <2>1. ~At(w, "idle") /\ NoJob \in {NoJob} \cup JobId
    BY <1>2 DEF At
  <2>. QED  BY <1>2, <2>1, LoggedCalls DEF Submit
<1>7. Memory'
  <2>1. CASE \E pc \in {"error", "result"}, why \in {"", "slot", "refused", "timeout"} :
               Leaves(w, pc, why)
    BY <1>2, <1>6, <2>1, LeavesRemembers DEF At, PC, WorkerPC, Why, BooksOK
  <2>2. CASE /\ at' = [at EXCEPT ![w].pc = "sent", ![w].req = Len(jobs) + 1]
             /\ Len(jobs) < MaxJobs
    <3>1. [at[w] EXCEPT !.pc = "sent", !.req = Len(jobs) + 1] \in Local
      BY <1>2, <1>4, <2>2 DEF Memory, Local, PC, WorkerPC
    <3>2. at' = [at EXCEPT ![w] = [at[w] EXCEPT !.pc = "sent", !.req = Len(jobs) + 1]]
      BY <1>2, <2>2 DEF Memory, Local
    <3>3. at' \in [Actor -> Local] /\ \A b \in Actor \ {w} : at'[b] = at[b]
      BY <1>2, <3>1, <3>2 DEF Memory
    <3>4. at'[w].run = at[w].run /\ at'[w].req \in JobId \ {NoJob}
      BY <1>2, <1>4, <2>2, <3>2 DEF Memory, Local
    <3>. QED  BY <1>2, <3>3, <3>4 DEF Memory, Remembers
  <2>. QED  BY <2>1, <2>2 DEF Submit
<1>. QED  BY <1>5, <1>6, <1>7

-----------------------------------------------------------------------------
\* Every step keeps the types and what the actors remember.
LEMMA TypeStep ==
    ASSUME TypeInv, [Next]_vars
    PROVE  TypeInv'
<1>0. Memory
  BY DEF TypeInv, TypeOK, Memory
<1> USE <1>0, StoreAssumption, RuntimeAssumption
    DEF TypeInv, TypeOK, StoreTypeOK, Memory, PC, WorkerPC, ClientPC, ReconcilerPC, Why,
        TaskStatus, CancelStatus, Actor, JobState, At, rows, Time, Orders, Supplier
<1>1. ASSUME NEW w \in Worker, Claim(w) PROVE TypeInv'
  <2>1. Copy("claimed") \in Local /\ Copy("claimed").run \in Run /\ Copy("claimed").pc = "claimed"
    BY CopyIsLocal
  <2>2. Memory'
    BY <1>1, <2>1, BeginsRemembers DEF Claim
  <2>. QED  BY <1>1, <2>2, RowUpdates DEF Claim
<1>2. ASSUME NEW w \in Worker, Prepare(w) PROVE TypeInv'
  BY <1>2, GotoRemembers, ReturnRemembers DEF Prepare
<1>3. ASSUME NEW w \in Worker, MarkBillingRunning(w) PROVE TypeInv'
  <2>1. order' \in [Run -> OrderStatus]
    BY <1>3, OrderUpdates DEF MarkBillingRunning
  <2>2. Memory'
    BY <1>3, GotoRemembers, GotoForRemembers DEF MarkBillingRunning
  <2>3. UNCHANGED <<row, oreq, Supplier, Time>>
    BY <1>3 DEF MarkBillingRunning
  <2>. QED  BY <2>1, <2>2, <2>3
<1>4. ASSUME NEW w \in Worker, LogAttempt(w) PROVE TypeInv'
  <2>1. BooksOK'
    BY <1>4, LoggedCalls DEF LogAttempt, Local
  <2>2. Memory'
    BY <1>4, GotoRemembers DEF LogAttempt
  <2>. QED  BY <1>4, <2>1, <2>2 DEF LogAttempt, BooksOK
<1>5. ASSUME NEW w \in Worker, Submit(w) PROVE TypeInv'
  BY <1>5, SubmitTypes DEF Submit, BooksOK
<1>6. ASSUME NEW w \in Worker, Resume(w) PROVE TypeInv'
  BY <1>6, GotoRemembers DEF Resume
<1>7. ASSUME NEW w \in Worker, Record(w) PROVE TypeInv'
  <2>1. at[w].run \in Run /\ at[w].req \in JobId
    BY <1>7 DEF Record, Remembers, Local
  <2>2. Memory'
    BY <1>7, GotoRemembers DEF Record
  <2>3. BooksOK'
    <3>1. CASE LogCreate(w, at[w].req, "succeeded", TRUE)
      BY <1>7, <2>1, <3>1, LoggedCalls DEF Record
    <3>2. CASE ~LogCreate(w, at[w].req, "succeeded", TRUE)
      <4>1. /\ UpdateTaskProviderState(at[w].req) /\ UNCHANGED <<order, log>>
            /\ oreq' = [oreq EXCEPT ![at[w].run] = at[w].req]
        BY <1>7, <3>2 DEF Record
      <4>. QED  BY <2>1, <4>1, RowUpdates DEF BooksOK
    <3>. QED  BY <3>1, <3>2
  <2>. QED  BY <1>7, <2>2, <2>3 DEF Record, BooksOK
<1>8. ASSUME NEW w \in Worker, Poll(w) PROVE TypeInv'
  <2>1. jobs' \in Seq(Job) /\ Len(jobs') <= MaxJobs
    BY <1>8, JobsStayTyped DEF Poll
  <2>2. BooksOK'
    BY <1>8, LoggedAnswers, LoggedCalls DEF Poll
  <2>3. Memory'
    <3>1. CASE at' = at
      BY <3>1 DEF Remembers
    <3>2. CASE \E pc \in {"error", "result"}, why \in Why : Leaves(w, pc, why)
      <4>1. ~At(w, "idle") /\ row' \in Task
        BY <1>8, <2>2 DEF Poll, BooksOK
      <4>2. PICK pc \in {"error", "result"}, why \in Why : Leaves(w, pc, why)
        BY <3>2
      <4>3. pc \in PC \ {"sent"} /\ w \in Actor
        BY <4>2
      <4>4. ~At(w, "idle") /\ Memory
        BY <4>1
      <4> HIDE DEF PC, WorkerPC, ClientPC, ReconcilerPC, Why, Actor, At, Memory
      <4>. QED  BY <4>1, <4>2, <4>3, <4>4, LeavesRemembers
    <3>. QED  BY <1>8, <3>1, <3>2 DEF Poll
  <2>. QED  BY <1>8, <2>1, <2>2, <2>3 DEF Poll, BooksOK
<1>9. ASSUME NEW w \in Worker, Killed(w) PROVE TypeInv'
  <2>1. jobs' \in Seq(Job) /\ Len(jobs') <= MaxJobs
    BY <1>9, JobsStayTyped DEF Killed
  <2>2. BooksOK' /\ ~At(w, "idle")
    BY <1>9, LoggedAnswers DEF Killed, InCall
  <2>3. Memory'
    BY <1>9, <2>2, LeavesRemembers DEF Killed, BooksOK
  <2>. QED  BY <1>9, <2>1, <2>2, <2>3 DEF Killed, BooksOK
<1>10. ASSUME NEW w \in Worker, LoseLease(w) PROVE TypeInv'
  <2>1. jobs' \in Seq(Job) /\ Len(jobs') <= MaxJobs
    BY <1>10, JobsStayTyped DEF LoseLease
  <2>2. BooksOK'
    BY <1>10, LoggedAnswers, LoggedCalls DEF LoseLease, InCall
  <2>3. Memory'
    BY <1>10, ReturnRemembers DEF LoseLease
  <2>. QED  BY <1>10, <2>1, <2>2, <2>3 DEF LoseLease, BooksOK
<1>11. ASSUME NEW w \in Worker, Defer(w) PROVE TypeInv'
  BY <1>11, RowUpdates, ReturnRemembers DEF Defer
<1>12. ASSUME NEW w \in Worker, Fail(w) PROVE TypeInv'
  BY <1>12, RowUpdates, GotoRemembers, ReturnRemembers DEF Fail, Finish
<1>13. ASSUME NEW w \in Worker, Stopped(w) PROVE TypeInv'
  BY <1>13, ReturnRemembers, RowUpdates, GotoRemembers DEF Stopped, Finish
<1>14. ASSUME NEW w \in Worker, BillFailure(w) PROVE TypeInv'
  <2>1. PICK outcomes \in SUBSET [Run -> OrderStatus] : Bill(outcomes)
    BY <1>14, OrderUpdates DEF BillFailure
  <2>2. Memory'
    BY <1>14, ReturnRemembers DEF BillFailure
  <2>. QED  BY <2>1, <2>2, BillTypes
<1>15. ASSUME NEW w \in Worker, CheckResult(w) PROVE TypeInv'
  BY <1>15, GotoForRemembers, GotoLatestRemembers, GotoRemembers DEF CheckResult
<1>16. ASSUME NEW w \in Worker, Save(w) PROVE TypeInv'
  <2>1. at[w].run \in Run /\ at[w].req \in {NoJob} \cup JobId
    BY <1>16 DEF Save, Remembers, Local
  <2>2. row' \in Task
    BY <1>16, <2>1, RowUpdates DEF Save
  <2>. QED  BY <1>16, <2>2, GotoRemembers DEF Save
<1>17. ASSUME NEW w \in Worker, SaveFailed(w) PROVE TypeInv'
  BY <1>17, GotoLatestRemembers, RowUpdates, GotoRemembers, ReturnRemembers DEF SaveFailed,
     Finish
<1>18. ASSUME NEW w \in Worker, SettleSuccess(w) PROVE TypeInv'
  <2>1. PICK outcomes \in SUBSET [Run -> OrderStatus] : Bill(outcomes)
    BY <1>18, OrderUpdates DEF SettleSuccess
  <2>2. Memory'
    BY <1>18, ReturnRemembers DEF SettleSuccess
  <2>. QED  BY <2>1, <2>2, BillTypes
<1>19. ASSUME NEW a \in Actor, RefundRun(a) PROVE TypeInv'
  <2>1. PICK outcomes \in SUBSET [Run -> OrderStatus] : Bill(outcomes)
    BY <1>19, OrderUpdates DEF RefundRun
  <2>2. Memory'
    BY <1>19, ReturnRemembers DEF RefundRun
  <2>. QED  BY <2>1, <2>2, BillTypes
<1>20. ASSUME NEW a \in Actor, MarkRunUncertain(a) PROVE TypeInv'
  <2>1. PICK outcomes \in SUBSET [Run -> OrderStatus] : Bill(outcomes)
    BY <1>20, OrderUpdates DEF MarkRunUncertain
  <2>2. Memory'
    BY <1>20, ReturnRemembers DEF MarkRunUncertain
  <2>. QED  BY <2>1, <2>2, BillTypes
<1>21. ASSUME NEW a \in Actor, GiveUp(a) PROVE TypeInv'
  BY <1>21, RowUpdates, GotoRemembers, ReturnRemembers DEF GiveUp
<1>22. ASSUME NEW a \in Actor, CloseCancellation(a) PROVE TypeInv'
  BY <1>22, RowUpdates, ReturnRemembers DEF CloseCancellation
<1>23. ASSUME NEW a \in Actor, Crash(a) PROVE TypeInv'
  BY <1>23, ReturnRemembers DEF Crash
<1>24. ASSUME NEW c \in Client, Cancel(c) PROVE TypeInv'
  <2> DEFINE j == Hydrated(row.req, row.run)
  <2>1. at' = [at EXCEPT ![c] = [Copy("cancel") EXCEPT !.why = row.status, !.req = j]]
    BY <1>24 DEF Cancel
  <2>2. j \in {NoJob} \cup JobId /\ row.status \in Why
    BY <1>24, HydratedIsAJob DEF Cancel, Live, Task
  <2> HIDE DEF j
  <2> DEFINE l == [Copy("cancel") EXCEPT !.why = row.status, !.req = j]
  <2>3. l \in Local /\ l.run \in Run /\ l.pc = "cancel"
    BY <2>2 DEF Copy, Local, Task
  <2>4. Memory'
    <3> HIDE DEF l
    <3>. QED  BY <2>1, <2>3, BeginsRemembers DEF l
  <2>. QED  BY <1>24, <2>4 DEF Cancel
<1>25. ASSUME NEW c \in Client, CancelIfStatus(c) PROVE TypeInv'
  BY <1>25, RowUpdates, GotoRemembers, ReturnRemembers DEF CancelIfStatus
<1>26. ASSUME NEW c \in Client, Interrupt(c) PROVE TypeInv'
  <2>1. CASE Goto(c, AfterInterrupt(c))
    BY <1>26, <2>1, GotoRemembers DEF Interrupt, AfterInterrupt
  <2>2. CASE \E w \in Registered : at' = [at EXCEPT ![c].pc = AfterInterrupt(c), ![w].why = "killed"]
    <3>1. AfterInterrupt(c) \in PC \ {"sent", "idle"}
      BY DEF AfterInterrupt
    <3>2. PICK w \in Registered :
            at' = [at EXCEPT ![c].pc = AfterInterrupt(c), ![w].why = "killed"]
      BY <2>2
    <3>3. Memory'
      BY <1>26, <3>1, <3>2, InterruptRemembers DEF Interrupt, Registered
    <3>. QED  BY <1>26, <3>3 DEF Interrupt
  <2>. QED  BY <1>26, <2>1, <2>2 DEF Interrupt
<1>27. ASSUME NEW c \in Client, RequestCancellation(c) PROVE TypeInv'
  <2>1. at[c].req \in {NoJob} \cup JobId
    BY DEF Local
  <2>2. row' \in Task
    BY <1>27, <2>1, RowUpdates DEF RequestCancellation
  <2>. QED  BY <1>27, <2>2, GotoRemembers DEF RequestCancellation
<1>28. ASSUME NEW c \in Client, ClaimCancellation(c) PROVE TypeInv'
  BY <1>28, RowUpdates, GotoRemembers, ReturnRemembers DEF ClaimCancellation
<1>29. ASSUME NEW c \in Client, CallCancel(c) PROVE TypeInv'
  <2>1. jobs' \in Seq(Job) /\ Len(jobs') <= MaxJobs
    BY <1>29, JobsStayTyped, JobChanges DEF CallCancel, JobState
  <2>2. BooksOK'
    BY <1>29, LoggedCalls DEF CallCancel
  <2>3. Memory'
    BY <1>29, ReturnRemembers, GotoRemembers, GotoForRemembers DEF CallCancel
  <2>. QED  BY <1>29, <2>1, <2>2, <2>3 DEF CallCancel, BooksOK
<1>48. ASSUME NEW w \in Worker, Drain(w) PROVE TypeInv'
  <2>1. row' \in Task
    BY <1>48, RowUpdates DEF Drain
  <2>2. Memory'
    BY <1>48, ReturnRemembers DEF Drain
  <2>. QED  BY <1>48, <2>1, <2>2 DEF Drain
<1>47. ASSUME NEW c \in Client, WithdrawBridge(c) PROVE TypeInv'
  <2>1. jobs' \in Seq(Job) /\ Len(jobs') <= MaxJobs
    BY <1>47, JobsStayTyped DEF WithdrawBridge
  <2>. QED  BY <1>47, <2>1, GotoRemembers DEF WithdrawBridge, Books
<1>30. ASSUME NEW c \in Client, RefundBridge(c) PROVE TypeInv'
  BY <1>30, OrderUpdates, GotoRemembers DEF RefundBridge
<1>31. ASSUME NEW c \in Client, Retry(c) PROVE TypeInv'
  <2>1. Copy("retry") \in Local /\ Copy("retry").run \in Run /\ Copy("retry").pc = "retry"
    BY CopyIsLocal
  <2>2. Memory'
    BY <1>31, <2>1, BeginsRemembers DEF Retry
  <2>. QED  BY <1>31, <2>2 DEF Retry
<1>32. ASSUME NEW c \in Client, RetryWrite(c) PROVE TypeInv'
  <2>1. CASE RetryTaskWithBilling
    <3>1. row.run + 1 \in Run /\ row.interface \in Interfaces
      BY <2>1, Counters DEF RetryTaskWithBilling, Task
    <3>2. row' \in Task
      BY <2>1, <3>1 DEF RetryTaskWithBilling, NewTask, Task, NoJob
    <3>3. order' \in [Run -> OrderStatus]
      BY <2>1 DEF RetryTaskWithBilling, OrderStatus
    <3>. QED  BY <1>32, <3>2, <3>3, ReturnRemembers DEF RetryWrite
  <2>2. CASE row' = row /\ order' = order
    BY <1>32, <2>2, ReturnRemembers DEF RetryWrite
  <2>. QED  BY <1>32, <2>1, <2>2 DEF RetryWrite
<1>33. ASSUME NEW c \in Client, Recover(c) PROVE TypeInv'
  <2> DEFINE j == Hydrated(row.req, row.run)
  <2>1. PICK why \in {"", "refunded"} :
          at' = [at EXCEPT ![c] = [Copy("restate") EXCEPT !.req = j, !.why = why]]
    BY <1>33 DEF Recover
  <2>2. j \in {NoJob} \cup JobId
    BY HydratedIsAJob DEF Task
  <2> HIDE DEF j
  <2> DEFINE l == [Copy("restate") EXCEPT !.req = j, !.why = why]
  <2>3. l \in Local /\ l.run \in Run /\ l.pc = "restate"
    BY <2>2 DEF Copy, Local, Task
  <2>4. Memory'
    <3> HIDE DEF l
    <3>. QED  BY <2>1, <2>3, BeginsRemembers DEF l
  <2>. QED  BY <1>33, <2>4 DEF Recover
<1>34. ASSUME NEW c \in Client, Restate(c) PROVE TypeInv'
  <2>1. at[c].req \in {NoJob} \cup JobId
    BY DEF Local
  <2>2. row' \in Task
    BY <1>34, <2>1, RowUpdates DEF Restate
  <2>. QED  BY <1>34, <2>2, GotoRemembers DEF Restate
<1>35. ASSUME NEW c \in Client, ClaimRecovery(c) PROVE TypeInv'
  BY <1>35, RowUpdates, GotoRemembers, ReturnRemembers DEF ClaimRecovery
<1>36. ASSUME NEW c \in Client, QueryRecovery(c) PROVE TypeInv'
  <2>1. BooksOK'
    BY <1>36, LoggedCalls DEF QueryRecovery
  <2>2. Memory'
    BY <1>36, GotoRemembers DEF QueryRecovery
  <2>. QED  BY <1>36, <2>1, <2>2 DEF QueryRecovery, BooksOK
<1>37. ASSUME NEW c \in Client, SaveRecovery(c) PROVE TypeInv'
  <2>1. at[c].run \in Run /\ at[c].req \in {NoJob} \cup JobId
    BY <1>37 DEF SaveRecovery, Remembers, Local
  <2>2. Memory'
    BY <1>37, GotoRemembers DEF SaveRecovery
  <2>3. CASE SaveTaskCompletion(at[c].run, at[c].req) /\ UNCHANGED <<Orders, Supplier, Time>>
    BY <2>1, <2>2, <2>3, RowUpdates
  <2>4. CASE Bill({MarkedUncertain(at[c].run)})
    BY <2>2, <2>4, OrderUpdates, BillTypes
  <2>. QED  BY <1>37, <2>3, <2>4 DEF SaveRecovery
<1>38. ASSUME NEW c \in Client, ChargeRecovery(c) PROVE TypeInv'
  <2>1. [order EXCEPT ![at[c].run] = "settled"] \in [Run -> OrderStatus]
    BY DEF OrderStatus
  <2>2. PICK outcomes \in SUBSET [Run -> OrderStatus] : Bill(outcomes)
    BY <1>38, <2>1, OrderUpdates DEF ChargeRecovery
  <2>3. Memory'
    BY <1>38, GotoRemembers DEF ChargeRecovery
  <2>. QED  BY <2>2, <2>3, BillTypes
<1>39. ASSUME NEW c \in Client, ReleaseRecovery(c) PROVE TypeInv'
  BY <1>39, RowUpdates, ReturnRemembers DEF ReleaseRecovery
<1>40. ASSUME NEW x \in Reconciler, ClaimReconciliation(x) PROVE TypeInv'
  <2>1. row.checks + 1 \in Nat
    BY Counters
  <2> DEFINE l == [Copy("check") EXCEPT !.n = row.checks + 1]
  <2>2. l \in Local /\ l.run \in Run /\ l.pc = "check"
    BY <2>1 DEF Copy, Local, Task
  <2>3. Memory'
    <3> HIDE DEF l
    <3>. QED  BY <1>40, <2>2, BeginsRemembers DEF ClaimReconciliation, l
  <2>. QED  BY <1>40, <2>3, RowUpdates DEF ClaimReconciliation
<1>41. ASSUME NEW x \in Reconciler, CheckJob(x) PROVE TypeInv'
  <2>1. BooksOK'
    BY <1>41, LoggedCalls DEF CheckJob
  <2>2. Memory'
    BY <1>41, GotoRemembers DEF CheckJob
  <2>. QED  BY <1>41, <2>1, <2>2 DEF CheckJob, BooksOK
<1>49. ASSUME NEW x \in Reconciler, Reschedule(x) PROVE TypeInv'
  BY <1>49, RowUpdates, ReturnRemembers DEF Reschedule
<1>42. ASSUME NEW x \in Reconciler, RefundCancelled(x) PROVE TypeInv'
  BY <1>42, OrderUpdates, GotoRemembers DEF RefundCancelled
<1>43. ASSUME NEW x \in Reconciler, ChargeFinished(x) PROVE TypeInv'
  <2>1. PICK outcomes \in SUBSET [Run -> OrderStatus] : Bill(outcomes)
    BY <1>43, OrderUpdates DEF ChargeFinished
  <2>2. Memory'
    BY <1>43, GotoRemembers DEF ChargeFinished
  <2>. QED  BY <2>1, <2>2, BillTypes
<1>44. ASSUME SupplierStep PROVE TypeInv'
  <2>1. jobs' \in Seq(Job) /\ Len(jobs') <= MaxJobs
    BY <1>44, JobChanges DEF SupplierStep, JobStarts, JobEnds
  <2>2. Memory'
    BY <1>44 DEF SupplierStep, Remembers
  <2>. QED  BY <1>44, <2>1, <2>2 DEF SupplierStep, Books
<1>45. ASSUME Expire PROVE TypeInv'
  <2>1. row' \in Task
    BY <1>45 DEF Expire, Task
  <2>2. stalls' \in 0 .. MaxStalls
    BY <1>45 DEF Expire
  <2>3. Memory'
    BY <1>45 DEF Expire, Remembers
  <2>. QED  BY <1>45, <2>1, <2>2, <2>3 DEF Expire
<1>46. CASE UNCHANGED vars
  BY <1>46 DEF vars, Memory, Remembers
<1>. QED
  BY <1>1, <1>2, <1>3, <1>4, <1>5, <1>6, <1>7, <1>8, <1>9, <1>10, <1>11, <1>12,
     <1>13, <1>14, <1>15, <1>16, <1>17, <1>18, <1>19, <1>20, <1>21, <1>22, <1>23, <1>24,
     <1>25, <1>26, <1>27, <1>28, <1>29, <1>30, <1>31, <1>32, <1>33, <1>34, <1>35, <1>36,
     <1>37, <1>38, <1>39, <1>40, <1>41, <1>42, <1>43, <1>44, <1>45, <1>46, <1>47, <1>48, <1>49 DEF Next,
     WorkerStep, ClientStep, ReconcilerStep, BillingStep, Request

\* The initial rows and actors are well formed.
LEMMA InitialTypes == Init => TypeInv
<1> SUFFICES ASSUME Init PROVE TypeInv
  OBVIOUS
<1>1. row \in Task
  <2>1. 1 \in Run /\ 0 \in Nat
    <3>1. MaxRuns \in Nat /\ MaxRuns # 0
      BY StoreAssumption
    <3>. QED  BY <3>1 DEF Run
  <2>2. PICK i \in Interfaces : row = NewTask(i, 1)
    BY DEF Init, StoreInit
  <2>. QED  BY <2>1, <2>2 DEF NewTask, Task, TaskStatus, CancelStatus
<1>2. Idle \in Local
  BY DEF Idle, Local, PC, Why, NoJob
<1>3. order \in [Run -> OrderStatus] /\ oreq \in [Run -> {NoJob} \cup JobId]
  BY DEF Init, StoreInit, OrderStatus
<1>4. jobs \in Seq(Job) /\ Len(jobs) <= MaxJobs /\ log \in Log
  BY StoreAssumption DEF Init, StoreInit, NoLog, Log
<1>5. at \in [Actor -> Local] /\ Remembers
  BY <1>2 DEF Init, Remembers, Idle
<1>6. stalls \in 0 .. MaxStalls /\ crashes \in 0 .. MaxCrashes /\ lapses \in 0 .. MaxLapses
  BY RuntimeAssumption DEF Init
<1>. QED
  BY <1>1, <1>3, <1>4, <1>5, <1>6 DEF TypeInv, TypeOK, StoreTypeOK

\* Type correctness: every row, order, job and actor stays in its domain.
THEOREM TaskTypes == Spec => []TypeOK
<1>1. Init => TypeInv
  BY InitialTypes
<1>2. TypeInv /\ [Next]_vars => TypeInv'
  BY TypeStep
<1>3. TypeInv => TypeOK
  BY DEF TypeInv
<1>. QED  BY <1>1, <1>2, <1>3, PTL DEF Spec
-----------------------------------------------------------------------------
(* The reservation of a live run.                                          *)

\* Where an actor may close the order of its run: at once, or further on.
Closing == {"refund", "bill", "settle", "bridge", "confirm", "follow", "charge",
            "interrupt", "request", "send", "call", "withdraw", "check"}

\* An actor's copy of the row is never ahead of the row ...
NotAhead == row.status # "succeeded" => \A a \in Actor : at[a].run <= row.run
\* ... the copy of the execution that holds the lease is of the current run ...
HolderIsCurrent == \A w \in Worker : ~At(w, "idle") /\ row.owner = w => at[w].run = row.run
\* ... and whoever closes an order does so for a run that is over.
ClosersAreLate == \A a \in Actor : at[a].pc \in Closing => Ended(at[a].run)

ReservationInv == /\ NotAhead /\ HolderIsCurrent /\ ClosersAreLate
                  /\ LiveRunHoldsItsReservation

\* A step that leaves the row in its run, and the order of a live run open.
StaysInRun == /\ row'.run = row.run
              /\ row'.owner \in {row.owner, Nobody} \cup Client \cup Reconciler
              /\ row.status \notin Live => row'.status \notin Live
              /\ row.status = "succeeded" => row'.status = "succeeded"
LiveStaysOpen == row'.status \in Live => order'[row.run] \in Open

\* Which statements do so.
LEMMA RowStays ==
    ASSUME TypeInv
    PROVE  /\ row' = row => StaysInRun
           /\ \A w, status : Holds(w, "running") /\ Leave(status) => StaysInRun
           /\ \A j : UpdateTaskProviderState(j) => StaysInRun
           /\ \A w, j : Holds(w, "running") /\ SaveTaskCompletion(row.run, j) => StaysInRun
           /\ \A status : UpdateTaskProviderCancellation(status) => StaysInRun
           /\ ClaimTaskProviderCancellation => StaysInRun
           /\ \A c \in Client : ClaimFailedTaskProviderRecovery(c) => StaysInRun
           /\ \A c : ReleaseTaskProviderRecovery(c) => StaysInRun
           /\ \A w : ReleaseTaskLease(w) => StaysInRun
           /\ \A x \in Reconciler : ClaimNextTaskProviderCancellation(x) => StaysInRun
<1>1. row \in Task
  BY DEF TypeInv, TypeOK, StoreTypeOK
<1>. QED
  BY <1>1 DEF Task, StaysInRun, Live, Holds, Leave, UpdateTaskProviderState, SaveTaskCompletion,
     UpdateTaskProviderCancellation, ClaimTaskProviderCancellation, ReleaseTaskProviderRecovery,
     ReleaseTaskLease, ClaimFailedTaskProviderRecovery, ClaimNextTaskProviderCancellation

\* What the terminal writes leave behind.
LEMMA RowEnds ==
    ASSUME TypeInv
    PROVE  /\ \A status : Leave(status) => row'.status = status
           /\ \A r, j : SaveTaskCompletion(r, j) =>
                 row'.status = "succeeded" /\ row'.run = r /\ row'.owner = row.owner
<1>1. row \in Task
  BY DEF TypeInv, TypeOK, StoreTypeOK
<1>. QED  BY <1>1 DEF Task, Leave, SaveTaskCompletion

\* Which billing calls do so.
LEMMA OrderStays ==
    ASSUME TypeInv, LiveRunHoldsItsReservation, StaysInRun
    PROVE  /\ order' = order => LiveStaysOpen
           /\ \A r : order' = MarkedUncertain(r) => LiveStaysOpen
           /\ \A r : order' = MarkedRunning(r) => LiveStaysOpen
           /\ \A r : Ended(r) /\ order' = Refunded(r) => LiveStaysOpen
           /\ \A r : Ended(r) /\ order' = Settled(r) => LiveStaysOpen
<1>1. order \in [Run -> OrderStatus] /\ row.run \in Run
  BY DEF TypeInv, TypeOK, StoreTypeOK, Task
<1>2. row'.status \in Live => row.status \in Live /\ order[row.run] \in Open
  BY DEF StaysInRun, LiveRunHoldsItsReservation
<1>. QED
  BY <1>1, <1>2 DEF LiveStaysOpen, MarkedUncertain, MarkedRunning, Refunded, Settled, Open, Ended

\* Nothing that is recorded of a call to the supplier touches a reservation.
LEMMA CallsStay ==
    ASSUME TypeInv, LiveRunHoldsItsReservation, NEW a
    PROVE  /\ UNCHANGED Books => StaysInRun /\ LiveStaysOpen
           /\ \A j, status, review : LogCreate(a, j, status, review) => StaysInRun /\ LiveStaysOpen
           /\ \A ok, review : LogPoll(a, ok, review) => StaysInRun /\ LiveStaysOpen
           /\ LogCancellation(a) => StaysInRun /\ LiveStaysOpen
           /\ \A ok : Polled(a, ok) => StaysInRun /\ LiveStaysOpen
           /\ \A review : Interrupted(a, review) => StaysInRun /\ LiveStaysOpen
<1>1. UNCHANGED Books => StaysInRun /\ LiveStaysOpen
  BY RowStays, OrderStays DEF Books
<1>2. ASSUME NEW r, NEW j, NEW entry, NEW review, LogAPICall(r, j, entry, review)
      PROVE  StaysInRun /\ LiveStaysOpen
  <2>1. StaysInRun
    BY <1>2, RowStays DEF LogAPICall
  <2>. QED  BY <1>2, <2>1, OrderStays DEF LogAPICall
<1>3. ASSUME NEW ok, Polled(a, ok) PROVE StaysInRun /\ LiveStaysOpen
  <2>1. CASE LogPoll(a, ok, TRUE)
    BY <1>2, <2>1 DEF LogPoll
  <2>2. CASE (row' = row \/ UpdateTaskProviderState(at[a].req)) /\ order' = order
    BY <2>2, RowStays, OrderStays
  <2>. QED  BY <1>3, <2>1, <2>2 DEF Polled
<1>. QED
  BY <1>1, <1>2, <1>3 DEF LogCreate, LogPoll, LogCancellation, Interrupted

\* An actor that moves on with run r keeps the invariant when it is not late.
LEMMA MoveKeeps ==
    ASSUME TypeInv, ReservationInv, StaysInRun, LiveStaysOpen, NEW a \in Actor, NEW pc,
           at'[a].pc = pc, at'[a].run \in {0, at[a].run, row.run},
           \A b \in Actor \ {a} : at'[b].pc = at[b].pc /\ at'[b].run = at[b].run,
           pc # "idle" => at'[a].run = row.run \/ (at'[a].run = at[a].run /\ ~At(a, "idle")),
           pc \in Closing => Ended(at'[a].run) \/ row'.status \notin Live
    PROVE  ReservationInv'
<1>0. /\ row.run \in Run /\ Worker \subseteq Actor /\ Nobody \notin Actor
      /\ Worker \cap (Client \cup Reconciler) = {}
  BY StoreAssumption DEF TypeInv, TypeOK, StoreTypeOK, Task, Actor
<1>1. NotAhead'
  BY <1>0, StoreAssumption DEF ReservationInv, NotAhead, StaysInRun, Run
<1>2. HolderIsCurrent'
  BY <1>0 DEF ReservationInv, HolderIsCurrent, StaysInRun, At
<1>3. ClosersAreLate'
  BY DEF ReservationInv, ClosersAreLate, Ended, StaysInRun
<1>4. LiveRunHoldsItsReservation'
  BY DEF LiveRunHoldsItsReservation, StaysInRun, LiveStaysOpen
<1>. QED  BY <1>1, <1>2, <1>3, <1>4 DEF ReservationInv

\* Moving on, an actor may reach a place where it closes only a run that is over.
LEMMA GotoKeeps ==
    ASSUME TypeInv, ReservationInv, StaysInRun, LiveStaysOpen, NEW a \in Actor, ~At(a, "idle"),
           NEW pc, pc \in Closing => Ended(at[a].run) \/ row'.status \notin Live,
           Goto(a, pc) \/ \E why : GotoFor(a, pc, why) \/ Leaves(a, pc, why)
    PROVE  ReservationInv'
<1>1. at \in [Actor -> Local] /\ at[a] \in Local
  BY DEF TypeInv, TypeOK
<1>2. /\ at'[a].pc = pc /\ at'[a].run = at[a].run
      /\ \A b \in Actor \ {a} : at'[b] = at[b]
  <2>1. CASE Goto(a, pc)
    BY <1>1, <2>1 DEF Goto, Local
  <2>2. ASSUME NEW why, GotoFor(a, pc, why)
        PROVE  /\ at'[a].pc = pc /\ at'[a].run = at[a].run
               /\ \A b \in Actor \ {a} : at'[b] = at[b]
    BY <1>1, <2>2 DEF GotoFor, Local
  <2>3. ASSUME NEW why, Leaves(a, pc, why)
        PROVE  /\ at'[a].pc = pc /\ at'[a].run = at[a].run
               /\ \A b \in Actor \ {a} : at'[b] = at[b]
    BY <1>1, <2>3 DEF Leaves, Local
  <2>. QED  BY <2>1, <2>2, <2>3
<1>3. \A b \in Actor \ {a} : at'[b].pc = at[b].pc /\ at'[b].run = at[b].run
  BY <1>2
<1>4. pc \in Closing => Ended(at'[a].run) \/ row'.status \notin Live
  BY <1>2
<1> HIDE DEF Closing
<1>. QED  BY <1>2, <1>3, <1>4, MoveKeeps

\* Returning, an actor can do no harm.
LEMMA ReturnKeeps ==
    ASSUME TypeInv, ReservationInv, StaysInRun, LiveStaysOpen, NEW a \in Actor, Return(a)
    PROVE  ReservationInv'
<1>1. at \in [Actor -> Local]
  BY DEF TypeInv, TypeOK
<1>2. Idle.pc = "idle" /\ Idle.run = 0
  BY DEF Idle
<1>3. /\ at'[a].pc = "idle" /\ at'[a].run = 0
      /\ \A b \in Actor \ {a} : at'[b] = at[b]
  BY <1>1, <1>2 DEF Return
<1>. QED  BY <1>3, MoveKeeps DEF Closing

\* Nor by taking over the current run where it closes nothing.
LEMMA GotoLatestKeeps ==
    ASSUME TypeInv, ReservationInv, StaysInRun, LiveStaysOpen, NEW a \in Actor,
           NEW pc, pc \notin Closing, GotoLatest(a, pc)
    PROVE  ReservationInv'
<1>1. at \in [Actor -> Local] /\ at[a] \in Local
  BY DEF TypeInv, TypeOK
<1>2. /\ at'[a].pc = pc /\ at'[a].run = row.run
      /\ \A b \in Actor \ {a} : at'[b] = at[b]
  BY <1>1 DEF GotoLatest, Local
<1>. QED  BY <1>2, MoveKeeps

\* An actor that starts on a copy of the row.
LEMMA BeginKeeps ==
    ASSUME TypeInv, ReservationInv, StaysInRun, LiveStaysOpen, NEW a \in Actor, NEW l,
           at' = [at EXCEPT ![a] = l], l.run = row.run, l.pc \in Closing => row'.status \notin Live
    PROVE  ReservationInv'
<1>1. at \in [Actor -> Local]
  BY DEF TypeInv, TypeOK
<1>2. /\ at'[a].pc = l.pc /\ at'[a].run = row.run
      /\ \A b \in Actor \ {a} : at'[b] = at[b]
  BY <1>1
<1>. QED  BY <1>2, MoveKeeps

\* The supplier and the clock move no actor.
LEMMA NobodyMovesKeeps ==
    ASSUME TypeInv, ReservationInv, StaysInRun, LiveStaysOpen, at' = at
    PROVE  ReservationInv'
<1>0. /\ Worker \subseteq Actor /\ Nobody \notin Actor
      /\ Worker \cap (Client \cup Reconciler) = {}
  BY StoreAssumption DEF Actor
<1>1. NotAhead' /\ ClosersAreLate' /\ HolderIsCurrent'
  BY <1>0 DEF ReservationInv, NotAhead, ClosersAreLate, HolderIsCurrent, Ended, StaysInRun, At
<1>2. LiveRunHoldsItsReservation'
  BY DEF LiveRunHoldsItsReservation, StaysInRun, LiveStaysOpen
<1>. QED  BY <1>1, <1>2 DEF ReservationInv

\* A claim takes the lease and a copy of the run that the row is in.
LEMMA ClaimKeeps ==
    ASSUME TypeInv, ReservationInv, NEW w \in Worker, Claim(w)
    PROVE  ReservationInv'
<1>1. at \in [Actor -> Local] /\ row \in Task /\ Worker \subseteq Actor
  BY DEF TypeInv, TypeOK, StoreTypeOK, Actor
<1>2. /\ at'[w].pc = "claimed" /\ at'[w].run = row.run
      /\ \A b \in Actor \ {w} : at'[b] = at[b]
  BY <1>1 DEF Claim, Copy
<1>3. /\ row.status \in Live /\ row'.status = "running"
      /\ row'.run = row.run /\ row'.owner = w /\ order' = order
  BY <1>1 DEF Claim, ClaimNextTask, Task, Live, Orders
<1>4. row.run \in Nat
  BY <1>1, StoreAssumption DEF Task, Run
<1>5. NotAhead' /\ HolderIsCurrent'
  BY <1>1, <1>2, <1>3, <1>4 DEF ReservationInv, NotAhead, HolderIsCurrent, At, Live
<1>6. ClosersAreLate'
  BY <1>2, <1>3 DEF ReservationInv, ClosersAreLate, Closing, Ended, Live
<1>7. LiveRunHoldsItsReservation'
  BY <1>3 DEF ReservationInv, LiveRunHoldsItsReservation
<1>. QED  BY <1>5, <1>6, <1>7 DEF ReservationInv

\* A retry starts a run that nobody knows yet.
LEMMA RetryKeeps ==
    ASSUME TypeInv, ReservationInv, NEW c \in Client, RetryTaskWithBilling, Return(c)
    PROVE  ReservationInv'
<1>1. /\ at \in [Actor -> Local] /\ row \in Task /\ order \in [Run -> OrderStatus]
      /\ c \in Actor /\ Worker \subseteq Actor /\ Nobody \notin Actor
  BY StoreAssumption DEF TypeInv, TypeOK, StoreTypeOK, Actor
<1>2. Idle.pc = "idle" /\ Idle.run = 0
  BY DEF Idle
<1>3. /\ at'[c].pc = "idle" /\ at'[c].run = 0
      /\ \A b \in Actor \ {c} : at'[b] = at[b]
  BY <1>1, <1>2 DEF Return
<1>4. /\ row.status # "succeeded" /\ row'.run = row.run + 1 /\ row'.status = "queued"
      /\ row'.owner = Nobody /\ order' = [order EXCEPT ![row.run + 1] = "reserved"]
  BY DEF RetryTaskWithBilling, NewTask
<1>5. row.run \in Nat /\ row.run + 1 \in Run /\ \A a \in Actor : at[a].run \in Nat
  BY <1>1, Counters, StoreAssumption DEF Task, Run, Local, RetryTaskWithBilling
<1>6. \A a \in Actor : at'[a].run <= row.run
  BY <1>3, <1>4, <1>5 DEF ReservationInv, NotAhead
<1>7. NotAhead' /\ HolderIsCurrent' /\ ClosersAreLate'
  <2>1. \A a \in Actor : at'[a].run # row'.run /\ at'[a].run <= row'.run
    BY <1>1, <1>3, <1>4, <1>5, <1>6
  <2>. QED  BY <1>1, <1>4, <2>1 DEF NotAhead, HolderIsCurrent, ClosersAreLate, Ended
<1>8. LiveRunHoldsItsReservation'
  BY <1>1, <1>4, <1>5 DEF LiveRunHoldsItsReservation, Open
<1>. QED  BY <1>7, <1>8 DEF ReservationInv

\* A recovered result ends the task, in whatever run the recovery began.
LEMMA RecoveryKeeps ==
    ASSUME TypeInv, ReservationInv, NEW c \in Client, ~At(c, "idle"), Holds(c, "failed"),
           SaveTaskCompletion(at[c].run, at[c].req), Goto(c, "charge")
    PROVE  ReservationInv'
<1>1. /\ at \in [Actor -> Local] /\ c \in Actor /\ Worker \subseteq Actor
      /\ Worker \cap Client = {}
  BY StoreAssumption DEF TypeInv, TypeOK, Actor
<1>2. row'.status = "succeeded" /\ row'.owner = c
  BY RowEnds DEF Holds
<1>3. NotAhead' /\ ClosersAreLate' /\ LiveRunHoldsItsReservation'
  BY <1>2 DEF NotAhead, ClosersAreLate, LiveRunHoldsItsReservation, Ended, Live
<1>4. HolderIsCurrent'
  BY <1>1, <1>2 DEF HolderIsCurrent
<1>. QED  BY <1>3, <1>4 DEF ReservationInv
\* Every step keeps the reservation of a live run.
LEMMA ReservationStep ==
    ASSUME TypeInv, ReservationInv, [Next]_vars
    PROVE  ReservationInv'
<1>0. /\ \A a \in Actor : at[a].pc \in Closing => Ended(at[a].run)
      /\ LiveRunHoldsItsReservation
      /\ Worker \subseteq Actor /\ Client \subseteq Actor /\ Reconciler \subseteq Actor
  BY DEF ReservationInv, ClosersAreLate, Actor
<1> USE <1>0 DEF rows, Orders, Supplier, Time, At, Closing, Bill
<1>1. ASSUME NEW w \in Worker, Claim(w) PROVE ReservationInv'
  BY <1>1, ClaimKeeps
<1>2. ASSUME NEW w \in Worker, Prepare(w) PROVE ReservationInv'
  <2>1. StaysInRun
    BY <1>2, RowStays DEF Prepare
  <2>2. LiveStaysOpen
    BY <1>2, <2>1, OrderStays DEF Prepare
  <2>. QED
    BY <1>2, <2>1, <2>2, GotoKeeps, ReturnKeeps DEF Prepare
<1>3. ASSUME NEW w \in Worker, MarkBillingRunning(w) PROVE ReservationInv'
  <2>1. StaysInRun
    BY <1>3, RowStays DEF MarkBillingRunning
  <2>2. LiveStaysOpen
    BY <1>3, <2>1, OrderStays DEF MarkBillingRunning
  <2>. QED
    BY <1>3, <2>1, <2>2, GotoKeeps DEF MarkBillingRunning
<1>4. ASSUME NEW w \in Worker, LogAttempt(w) PROVE ReservationInv'
  <2>1. StaysInRun /\ LiveStaysOpen
    BY <1>4, CallsStay DEF LogAttempt
  <2>. QED  BY <1>4, <2>1, GotoKeeps DEF LogAttempt
<1>5. ASSUME NEW w \in Worker, Submit(w) PROVE ReservationInv'
  <2>1. StaysInRun /\ LiveStaysOpen
    BY <1>5, CallsStay DEF Submit
  <2>3. CASE \E pc \in {"error", "result"}, why \in Why : Leaves(w, pc, why)
    BY <1>5, <2>1, <2>3, GotoKeeps DEF Submit
  <2>4. CASE at' = [at EXCEPT ![w].pc = "sent", ![w].req = Len(jobs) + 1]
    <3>1. at \in [Actor -> Local] /\ w \in Actor
      BY DEF TypeInv, TypeOK
    <3>2. /\ at'[w].pc = "sent" /\ at'[w].run = at[w].run
          /\ \A b \in Actor \ {w} : at'[b] = at[b]
      BY <2>4, <3>1 DEF Local
    <3>. QED  BY <1>5, <2>1, <3>1, <3>2, MoveKeeps DEF Submit
  <2>. QED  BY <1>5, <2>3, <2>4 DEF Submit, Why
<1>6. ASSUME NEW w \in Worker, Resume(w) PROVE ReservationInv'
  <2>1. StaysInRun
    BY <1>6, RowStays DEF Resume
  <2>2. LiveStaysOpen
    BY <1>6, <2>1, OrderStays DEF Resume
  <2>. QED
    BY <1>6, <2>1, <2>2, GotoKeeps DEF Resume
<1>7. ASSUME NEW w \in Worker, Record(w) PROVE ReservationInv'
  <2>1. StaysInRun /\ LiveStaysOpen
    <3>1. CASE LogCreate(w, at[w].req, "succeeded", TRUE)
      BY <3>1, CallsStay
    <3>2. CASE UpdateTaskProviderState(at[w].req) /\ order' = order
      BY <3>2, RowStays, OrderStays
    <3>. QED  BY <1>7, <3>1, <3>2 DEF Record
  <2>. QED  BY <1>7, <2>1, GotoKeeps DEF Record
<1>8. ASSUME NEW w \in Worker, Poll(w) PROVE ReservationInv'
  <2>1. StaysInRun /\ LiveStaysOpen
    BY <1>8, CallsStay DEF Poll
  <2>2. CASE at' = at
    BY <2>1, <2>2, NobodyMovesKeeps
  <2>3. CASE \E pc \in {"error", "result"}, why \in Why : Leaves(w, pc, why)
    BY <1>8, <2>1, <2>3, GotoKeeps DEF Poll
  <2>. QED  BY <1>8, <2>2, <2>3 DEF Poll, Why
<1>9. ASSUME NEW w \in Worker, Killed(w) PROVE ReservationInv'
  <2>1. StaysInRun /\ LiveStaysOpen
    BY <1>9, CallsStay DEF Killed
  <2>. QED  BY <1>9, <2>1, GotoKeeps DEF Killed, InCall
<1>10. ASSUME NEW w \in Worker, LoseLease(w) PROVE ReservationInv'
  <2>1. StaysInRun /\ LiveStaysOpen
    BY <1>10, CallsStay DEF LoseLease
  <2>. QED  BY <1>10, <2>1, ReturnKeeps DEF LoseLease, InCall
<1>11. ASSUME NEW w \in Worker, Defer(w) PROVE ReservationInv'
  <2>1. StaysInRun
    BY <1>11, RowStays DEF Defer
  <2>2. LiveStaysOpen
    BY <1>11, <2>1, OrderStays DEF Defer
  <2>. QED
    BY <1>11, <2>1, <2>2, ReturnKeeps DEF Defer
<1>12. ASSUME NEW w \in Worker, Fail(w) PROVE ReservationInv'
  <2>1. StaysInRun
    BY <1>12, RowStays DEF Fail, Finish
  <2>2. LiveStaysOpen
    BY <1>12, <2>1, OrderStays DEF Fail, Finish
  <2>3. Leave("failed") \/ Leave("cancelled") => row'.status \notin Live
    BY RowEnds DEF Live
  <2>. QED
    BY <1>12, <2>1, <2>2, <2>3, GotoKeeps, ReturnKeeps DEF Fail, Finish
<1>13. ASSUME NEW w \in Worker, Stopped(w) PROVE ReservationInv'
  <2>1. StaysInRun
    BY <1>13, RowStays DEF Stopped, Finish
  <2>2. LiveStaysOpen
    BY <1>13, <2>1, OrderStays DEF Stopped, Finish
  <2>3. Leave("failed") \/ Leave("cancelled") => row'.status \notin Live
    BY RowEnds DEF Live
  <2>. QED
    BY <1>13, <2>1, <2>2, <2>3, GotoKeeps, ReturnKeeps DEF Stopped, Finish
<1>14. ASSUME NEW w \in Worker, BillFailure(w) PROVE ReservationInv'
  <2>1. StaysInRun
    BY <1>14, RowStays DEF BillFailure
  <2>2. LiveStaysOpen
    BY <1>14, <2>1, OrderStays DEF BillFailure
  <2>. QED
    BY <1>14, <2>1, <2>2, ReturnKeeps DEF BillFailure
<1>15. ASSUME NEW w \in Worker, CheckResult(w) PROVE ReservationInv'
  <2>1. StaysInRun
    BY <1>15, RowStays DEF CheckResult
  <2>2. LiveStaysOpen
    BY <1>15, <2>1, OrderStays DEF CheckResult
  <2>. QED
    BY <1>15, <2>1, <2>2, GotoKeeps, GotoLatestKeeps DEF CheckResult
<1>16. ASSUME NEW w \in Worker, Save(w) PROVE ReservationInv'
  <2>0. Holds(w, "running") => at[w].run = row.run
    BY <1>16 DEF Save, ReservationInv, HolderIsCurrent, Holds
  <2>1. StaysInRun
    BY <1>16, <2>0, RowStays DEF Save
  <2>2. LiveStaysOpen
    BY <1>16, <2>1, OrderStays DEF Save
  <2>3. At(w, "save") /\ w \in Actor
    BY <1>16 DEF Save
  <2>4. CASE Goto(w, "settle")
    <3>1. row'.status \notin Live
      <4>1. CASE SaveTaskCompletion(at[w].run, at[w].req)
        BY <4>1, RowEnds DEF Live
      <4>2. CASE ~SaveTaskCompletion(at[w].run, at[w].req)
        <5>1. Goto(w, "conflict") \/ Goto(w, "unsaved")
          BY <1>16, <4>2 DEF Save
        <5>. QED  BY <2>4, <5>1 DEF Goto, TypeInv, TypeOK, Local
      <4>. QED  BY <4>1, <4>2
    <3>. QED  BY <2>1, <2>2, <2>3, <2>4, <3>1, GotoKeeps
  <2>5. CASE Goto(w, "conflict") \/ Goto(w, "unsaved")
    BY <2>1, <2>2, <2>3, <2>5, GotoKeeps
  <2>. QED  BY <1>16, <2>4, <2>5 DEF Save
<1>17. ASSUME NEW w \in Worker, SaveFailed(w) PROVE ReservationInv'
  <2>1. StaysInRun
    BY <1>17, RowStays DEF SaveFailed, Finish
  <2>2. LiveStaysOpen
    BY <1>17, <2>1, OrderStays DEF SaveFailed, Finish
  <2>. QED
    BY <1>17, <2>1, <2>2, GotoLatestKeeps, GotoKeeps, ReturnKeeps DEF SaveFailed, Finish
<1>18. ASSUME NEW w \in Worker, SettleSuccess(w) PROVE ReservationInv'
  <2>1. StaysInRun
    BY <1>18, RowStays DEF SettleSuccess
  <2>2. LiveStaysOpen
    BY <1>18, <2>1, OrderStays DEF SettleSuccess
  <2>. QED
    BY <1>18, <2>1, <2>2, ReturnKeeps DEF SettleSuccess
<1>19. ASSUME NEW a \in Actor, RefundRun(a) PROVE ReservationInv'
  <2>1. StaysInRun
    BY <1>19, RowStays DEF RefundRun
  <2>2. LiveStaysOpen
    BY <1>19, <2>1, OrderStays DEF RefundRun
  <2>. QED
    BY <1>19, <2>1, <2>2, ReturnKeeps DEF RefundRun
<1>20. ASSUME NEW a \in Actor, MarkRunUncertain(a) PROVE ReservationInv'
  <2>1. StaysInRun
    BY <1>20, RowStays DEF MarkRunUncertain
  <2>2. LiveStaysOpen
    BY <1>20, <2>1, OrderStays DEF MarkRunUncertain
  <2>. QED
    BY <1>20, <2>1, <2>2, ReturnKeeps DEF MarkRunUncertain
<1>21. ASSUME NEW a \in Actor, GiveUp(a) PROVE ReservationInv'
  <2>1. StaysInRun
    BY <1>21, RowStays DEF GiveUp
  <2>2. LiveStaysOpen
    BY <1>21, <2>1, OrderStays DEF GiveUp
  <2>. QED
    BY <1>21, <2>1, <2>2, GotoKeeps, ReturnKeeps DEF GiveUp
<1>22. ASSUME NEW a \in Actor, CloseCancellation(a) PROVE ReservationInv'
  <2>1. StaysInRun
    BY <1>22, RowStays DEF CloseCancellation
  <2>2. LiveStaysOpen
    BY <1>22, <2>1, OrderStays DEF CloseCancellation
  <2>. QED
    BY <1>22, <2>1, <2>2, ReturnKeeps DEF CloseCancellation
<1>23. ASSUME NEW a \in Actor, Crash(a) PROVE ReservationInv'
  <2>1. StaysInRun
    BY <1>23, RowStays DEF Crash
  <2>2. LiveStaysOpen
    BY <1>23, <2>1, OrderStays DEF Crash
  <2>. QED
    BY <1>23, <2>1, <2>2, ReturnKeeps DEF Crash
<1>24. ASSUME NEW c \in Client, Cancel(c) PROVE ReservationInv'
  <2>1. StaysInRun
    BY <1>24, RowStays DEF Cancel
  <2>2. LiveStaysOpen
    BY <1>24, <2>1, OrderStays DEF Cancel
  <2>3. PICK j, why : at' = [at EXCEPT ![c] = [Copy("cancel") EXCEPT !.why = why, !.req = j]]
    BY <1>24 DEF Cancel
  <2> DEFINE l == [Copy("cancel") EXCEPT !.why = why, !.req = j]
  <2>4. l.run = row.run /\ l.pc = "cancel"
    BY DEF Copy
  <2>. QED
    <3> HIDE DEF l
    <3>. QED  BY <2>1, <2>2, <2>3, <2>4, BeginKeeps DEF l
<1>25. ASSUME NEW c \in Client, CancelIfStatus(c) PROVE ReservationInv'
  <2>0. at[c].why # "succeeded" /\ row \in Task
    BY DEF TypeInv, TypeOK, StoreTypeOK, Local, Why
  <2>1. StaysInRun
    BY <1>25, <2>0, RowStays, RowEnds DEF CancelIfStatus, StaysInRun, Leave, Live, Task
  <2>2. LiveStaysOpen
    BY <1>25, <2>1, OrderStays DEF CancelIfStatus
  <2>3. Leave("cancelled") => row'.status \notin Live
    BY RowEnds DEF Live
  <2>. QED
    BY <1>25, <2>1, <2>2, <2>3, GotoKeeps, ReturnKeeps DEF CancelIfStatus
<1>26. ASSUME NEW c \in Client, Interrupt(c) PROVE ReservationInv'
  <2>1. StaysInRun
    BY <1>26, RowStays DEF Interrupt, AfterInterrupt
  <2>2. LiveStaysOpen
    BY <1>26, <2>1, OrderStays DEF Interrupt, AfterInterrupt
  <2>3. Ended(at[c].run) /\ ~At(c, "idle")
    BY <1>26 DEF Interrupt
  <2>4. CASE Goto(c, AfterInterrupt(c))
    BY <2>1, <2>2, <2>3, <2>4, GotoKeeps
  <2>5. ASSUME NEW w \in Registered,
               at' = [at EXCEPT ![c].pc = AfterInterrupt(c), ![w].why = "killed"]
        PROVE  ReservationInv'
    <3>1. at \in [Actor -> Local] /\ c \in Actor /\ w \in Actor /\ c # w
      BY StoreAssumption DEF TypeInv, TypeOK, Registered
    <3>2. /\ at'[c].pc = AfterInterrupt(c) /\ at'[c].run = at[c].run
          /\ \A b \in Actor \ {c} : at'[b].pc = at[b].pc /\ at'[b].run = at[b].run
      BY <2>5, <3>1 DEF Local
    <3>. QED  BY <2>1, <2>2, <2>3, <3>1, <3>2, MoveKeeps
  <2>. QED  BY <1>26, <2>4, <2>5 DEF Interrupt
<1>27. ASSUME NEW c \in Client, RequestCancellation(c) PROVE ReservationInv'
  <2>1. StaysInRun
    BY <1>27, RowStays DEF RequestCancellation
  <2>2. LiveStaysOpen
    BY <1>27, <2>1, OrderStays DEF RequestCancellation
  <2>. QED
    BY <1>27, <2>1, <2>2, GotoKeeps DEF RequestCancellation
<1>28. ASSUME NEW c \in Client, ClaimCancellation(c) PROVE ReservationInv'
  <2>1. StaysInRun
    BY <1>28, RowStays DEF ClaimCancellation
  <2>2. LiveStaysOpen
    BY <1>28, <2>1, OrderStays DEF ClaimCancellation
  <2>. QED
    BY <1>28, <2>1, <2>2, GotoKeeps, ReturnKeeps DEF ClaimCancellation
<1>29. ASSUME NEW c \in Client, CallCancel(c) PROVE ReservationInv'
  <2>1. StaysInRun /\ LiveStaysOpen
    BY <1>29, CallsStay DEF CallCancel
  <2>. QED  BY <1>29, <2>1, ReturnKeeps, GotoKeeps DEF CallCancel
<1>48. ASSUME NEW w \in Worker, Drain(w) PROVE ReservationInv'
  <2>1. StaysInRun
    BY <1>48, RowStays DEF Drain
  <2>2. LiveStaysOpen
    BY <1>48, <2>1, OrderStays DEF Drain
  <2>. QED
    BY <1>48, <2>1, <2>2, ReturnKeeps DEF Drain
<1>47. ASSUME NEW c \in Client, WithdrawBridge(c) PROVE ReservationInv'
  <2>1. StaysInRun /\ LiveStaysOpen
    BY <1>47, CallsStay DEF WithdrawBridge
  <2>. QED  BY <1>47, <2>1, GotoKeeps DEF WithdrawBridge
<1>30. ASSUME NEW c \in Client, RefundBridge(c) PROVE ReservationInv'
  <2>1. StaysInRun
    BY <1>30, RowStays DEF RefundBridge
  <2>2. LiveStaysOpen
    BY <1>30, <2>1, OrderStays DEF RefundBridge
  <2>. QED
    BY <1>30, <2>1, <2>2, GotoKeeps DEF RefundBridge
<1>31. ASSUME NEW c \in Client, Retry(c) PROVE ReservationInv'
  <2>1. StaysInRun
    BY <1>31, RowStays DEF Retry
  <2>2. LiveStaysOpen
    BY <1>31, <2>1, OrderStays DEF Retry
  <2>3. Copy("retry").run = row.run /\ Copy("retry").pc = "retry"
    BY DEF Copy
  <2>. QED  BY <1>31, <2>1, <2>2, <2>3, BeginKeeps DEF Retry
<1>32. ASSUME NEW c \in Client, RetryWrite(c) PROVE ReservationInv'
  <2>1. CASE RetryTaskWithBilling
    BY <1>32, <2>1, RetryKeeps DEF RetryWrite
  <2>2. CASE row' = row /\ order' = order
    BY <1>32, <2>2, RowStays, OrderStays, ReturnKeeps DEF RetryWrite
  <2>. QED  BY <1>32, <2>1, <2>2 DEF RetryWrite
<1>33. ASSUME NEW c \in Client, Recover(c) PROVE ReservationInv'
  <2>1. StaysInRun
    BY <1>33, RowStays DEF Recover
  <2>2. LiveStaysOpen
    BY <1>33, <2>1, OrderStays DEF Recover
  <2>3. PICK j, why : at' = [at EXCEPT ![c] = [Copy("restate") EXCEPT !.req = j, !.why = why]]
    BY <1>33 DEF Recover
  <2> DEFINE l == [Copy("restate") EXCEPT !.req = j, !.why = why]
  <2>4. l.run = row.run /\ l.pc = "restate"
    BY DEF Copy
  <2>. QED
    <3> HIDE DEF l
    <3>. QED  BY <2>1, <2>2, <2>3, <2>4, BeginKeeps DEF l
<1>34. ASSUME NEW c \in Client, Restate(c) PROVE ReservationInv'
  <2>1. StaysInRun
    BY <1>34, RowStays DEF Restate
  <2>2. LiveStaysOpen
    BY <1>34, <2>1, OrderStays DEF Restate
  <2>. QED
    BY <1>34, <2>1, <2>2, GotoKeeps DEF Restate
<1>35. ASSUME NEW c \in Client, ClaimRecovery(c) PROVE ReservationInv'
  <2>1. StaysInRun
    BY <1>35, RowStays DEF ClaimRecovery
  <2>2. LiveStaysOpen
    BY <1>35, <2>1, OrderStays DEF ClaimRecovery
  <2>. QED
    BY <1>35, <2>1, <2>2, GotoKeeps, ReturnKeeps DEF ClaimRecovery
<1>36. ASSUME NEW c \in Client, QueryRecovery(c) PROVE ReservationInv'
  <2>1. StaysInRun /\ LiveStaysOpen
    BY <1>36, CallsStay DEF QueryRecovery
  <2>. QED  BY <1>36, <2>1, GotoKeeps DEF QueryRecovery
<1>37. ASSUME NEW c \in Client, SaveRecovery(c) PROVE ReservationInv'
  <2>1. CASE SaveTaskCompletion(at[c].run, at[c].req) /\ Holds(c, "failed") /\ Goto(c, "charge")
    BY <1>37, <2>1, RecoveryKeeps DEF SaveRecovery
  <2>2. CASE Bill({MarkedUncertain(at[c].run)}) /\ Goto(c, "release")
    BY <1>37, <2>2, RowStays, OrderStays, GotoKeeps DEF SaveRecovery
  <2>. QED  BY <1>37, <2>1, <2>2 DEF SaveRecovery
<1>38. ASSUME NEW c \in Client, ChargeRecovery(c) PROVE ReservationInv'
  <2>1. StaysInRun
    BY <1>38, RowStays DEF ChargeRecovery
  <2>2. LiveStaysOpen
    <3>1. CASE order' \in {order, Settled(at[c].run), MarkedUncertain(at[c].run)}
      BY <1>38, <2>1, <3>1, OrderStays DEF ChargeRecovery
    <3>2. CASE order' = [order EXCEPT ![at[c].run] = "settled"]
      <4>1. Ended(at[c].run) /\ row' = row
        BY <1>38 DEF ChargeRecovery
      <4>2. order \in [Run -> OrderStatus] /\ row.run \in Run
        BY DEF TypeInv, TypeOK, StoreTypeOK, Task
      <4>. QED  BY <3>2, <4>1, <4>2 DEF LiveStaysOpen, LiveRunHoldsItsReservation, Ended
    <3>. QED  BY <1>38, <3>1, <3>2 DEF ChargeRecovery
  <2>. QED
    BY <1>38, <2>1, <2>2, GotoKeeps DEF ChargeRecovery
<1>39. ASSUME NEW c \in Client, ReleaseRecovery(c) PROVE ReservationInv'
  <2>1. StaysInRun
    BY <1>39, RowStays DEF ReleaseRecovery
  <2>2. LiveStaysOpen
    BY <1>39, <2>1, OrderStays DEF ReleaseRecovery
  <2>. QED
    BY <1>39, <2>1, <2>2, ReturnKeeps DEF ReleaseRecovery
<1>40. ASSUME NEW x \in Reconciler, ClaimReconciliation(x) PROVE ReservationInv'
  <2>1. StaysInRun
    BY <1>40, RowStays DEF ClaimReconciliation
  <2>2. LiveStaysOpen
    BY <1>40, <2>1, OrderStays DEF ClaimReconciliation
  <2>3. row'.status \notin Live
    BY <1>40 DEF ClaimReconciliation, ClaimNextTaskProviderCancellation, TypeInv, TypeOK,
       StoreTypeOK, Task, Live
  <2> DEFINE l == [Copy("check") EXCEPT !.n = row.checks + 1]
  <2>4. l.run = row.run /\ l.pc = "check"
    BY DEF Copy
  <2>. QED
    <3> HIDE DEF l
    <3>. QED  BY <1>40, <2>1, <2>2, <2>3, <2>4, BeginKeeps DEF ClaimReconciliation, l
<1>41. ASSUME NEW x \in Reconciler, CheckJob(x) PROVE ReservationInv'
  <2>1. StaysInRun /\ LiveStaysOpen
    BY <1>41, CallsStay DEF CheckJob
  <2>. QED  BY <1>41, <2>1, GotoKeeps DEF CheckJob
<1>49. ASSUME NEW x \in Reconciler, Reschedule(x) PROVE ReservationInv'
  <2>1. StaysInRun
    BY <1>49, RowStays DEF Reschedule
  <2>2. LiveStaysOpen
    BY <1>49, <2>1, OrderStays DEF Reschedule
  <2>. QED
    BY <1>49, <2>1, <2>2, ReturnKeeps DEF Reschedule
<1>42. ASSUME NEW x \in Reconciler, RefundCancelled(x) PROVE ReservationInv'
  <2>1. StaysInRun
    BY <1>42, RowStays DEF RefundCancelled
  <2>2. LiveStaysOpen
    BY <1>42, <2>1, OrderStays DEF RefundCancelled
  <2>. QED
    BY <1>42, <2>1, <2>2, GotoKeeps, ReturnKeeps DEF RefundCancelled
<1>43. ASSUME NEW x \in Reconciler, ChargeFinished(x) PROVE ReservationInv'
  <2>1. StaysInRun
    BY <1>43, RowStays DEF ChargeFinished
  <2>2. LiveStaysOpen
    BY <1>43, <2>1, OrderStays DEF ChargeFinished
  <2>. QED
    BY <1>43, <2>1, <2>2, GotoKeeps DEF ChargeFinished
<1>44. ASSUME SupplierStep PROVE ReservationInv'
  <2>1. StaysInRun /\ LiveStaysOpen
    BY <1>44, CallsStay DEF SupplierStep
  <2>. QED  BY <1>44, <2>1, NobodyMovesKeeps DEF SupplierStep
<1>45. ASSUME Expire PROVE ReservationInv'
  <2>1. StaysInRun
    BY <1>45 DEF Expire, StaysInRun, TypeInv, TypeOK, StoreTypeOK, Task
  <2>2. LiveStaysOpen
    BY <1>45, <2>1, OrderStays DEF Expire
  <2>. QED  BY <1>45, <2>1, <2>2, NobodyMovesKeeps DEF Expire
<1>46. CASE UNCHANGED vars
  BY <1>46 DEF vars, NotAhead, HolderIsCurrent, ClosersAreLate, LiveRunHoldsItsReservation, ReservationInv, Ended
<1>. QED
  BY <1>1, <1>2, <1>3, <1>4, <1>5, <1>6, <1>7, <1>8, <1>9, <1>10, <1>11, <1>12,
     <1>13, <1>14, <1>15, <1>16, <1>17, <1>18, <1>19, <1>20, <1>21, <1>22, <1>23, <1>24,
     <1>25, <1>26, <1>27, <1>28, <1>29, <1>30, <1>31, <1>32, <1>33, <1>34, <1>35, <1>36,
     <1>37, <1>38, <1>39, <1>40, <1>41, <1>42, <1>43, <1>44, <1>45, <1>46, <1>47, <1>48, <1>49 DEF Next,
     WorkerStep, ClientStep, ReconcilerStep, BillingStep, Request

\* At first nobody works on the task.
LEMMA InitialReservations == Init => ReservationInv
<1> SUFFICES ASSUME Init PROVE ReservationInv
  OBVIOUS
<1>1. row.run = 1 /\ row.status = "queued" /\ row.owner = Nobody /\ order[1] = "reserved"
  <2>1. 1 \in Run
    <3>1. MaxRuns \in Nat /\ MaxRuns # 0
      BY StoreAssumption
    <3>. QED  BY <3>1 DEF Run
  <2>2. order[1] = "reserved"
    BY <2>1 DEF Init, StoreInit
  <2>3. PICK i \in Interfaces : row = NewTask(i, 1)
    BY DEF Init, StoreInit
  <2>. QED  BY <2>2, <2>3 DEF NewTask
<1>2. \A a \in Actor : at[a].pc = "idle" /\ at[a].run = 0
  BY DEF Init, Idle
<1>3. NotAhead
  BY <1>1, <1>2 DEF NotAhead
<1>4. HolderIsCurrent /\ ClosersAreLate
  BY <1>2 DEF HolderIsCurrent, ClosersAreLate, Closing, At, Actor
<1>5. LiveRunHoldsItsReservation
  BY <1>1 DEF LiveRunHoldsItsReservation, Open
<1>. QED  BY <1>3, <1>4, <1>5 DEF ReservationInv

\* While a run waits or executes, its order holds the reservation: no stale worker, late
\* cancellation, reconciliation or recovery has settled or refunded it.
THEOREM ReservationsAreHeld == Spec => []LiveRunHoldsItsReservation
<1>1. Init => TypeInv
  BY InitialTypes
<1>2. Init => ReservationInv
  BY InitialReservations
<1>3. TypeInv /\ ReservationInv /\ [Next]_vars => (TypeInv /\ ReservationInv)'
  BY TypeStep, ReservationStep
<1>4. ReservationInv => LiveRunHoldsItsReservation
  BY DEF ReservationInv
<1>. QED  BY <1>1, <1>2, <1>3, <1>4, PTL DEF Spec
=============================================================================
