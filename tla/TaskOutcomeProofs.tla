------------------------- MODULE TaskOutcomeProofs -------------------------
(***************************************************************************)
(* What becomes of the money of a run, for any workers, clients, jobs and  *)
(* interfaces: who delivered keeps it, who was told "returned" has it.     *)
(***************************************************************************)
EXTENDS TaskRuntimeProofs

\* No task is recovered by hand.
NoRecovery == "recover" \notin ClientOps
\* The task is not retried.
OneRun == MaxRuns = 1

-----------------------------------------------------------------------------
(* How an actor moves.                                                     *)

\* One actor is at pc now, the others are where they were.
Moved(a, pc) == /\ at'[a].pc = pc
                /\ \A b \in Actor \ {a} : /\ at'[b].pc = at[b].pc
                                          /\ at'[b].run = at[b].run
                                          /\ at'[b].req = at[b].req

\* Every way to move on is such a move.
LEMMA Moves ==
    ASSUME TypeInv, NEW a \in Actor, NEW pc
    PROVE  /\ Goto(a, pc) =>
                 Moved(a, pc) /\ at'[a].run = at[a].run /\ at'[a].req = at[a].req
           /\ \A why : GotoFor(a, pc, why) =>
                 Moved(a, pc) /\ at'[a].run = at[a].run /\ at'[a].req = at[a].req
           /\ \A why : Leaves(a, pc, why) =>
                 Moved(a, pc) /\ at'[a].run = at[a].run /\ at'[a].req = Refreshed(a)
           /\ GotoLatest(a, pc) =>
                 Moved(a, pc) /\ at'[a].run = row.run /\ at'[a].req = at[a].req
           /\ \A l : at' = [at EXCEPT ![a] = l] /\ l.pc = pc =>
                 Moved(a, pc) /\ at'[a].run = l.run /\ at'[a].req = l.req
           /\ Return(a) => Moved(a, "idle") /\ at'[a].run = 0 /\ at'[a].req = NoJob
<1>1. at \in [Actor -> Local] /\ at[a] \in Local
  BY DEF TypeInv, TypeOK
<1>2. Goto(a, pc) =>
          Moved(a, pc) /\ at'[a].run = at[a].run /\ at'[a].req = at[a].req
  BY <1>1 DEF Goto, Moved, Local
<1>3. ASSUME NEW why, GotoFor(a, pc, why)
      PROVE  Moved(a, pc) /\ at'[a].run = at[a].run /\ at'[a].req = at[a].req
  BY <1>1, <1>3 DEF GotoFor, Moved, Local
<1>4. ASSUME NEW why, Leaves(a, pc, why)
      PROVE  Moved(a, pc) /\ at'[a].run = at[a].run /\ at'[a].req = Refreshed(a)
  BY <1>1, <1>4 DEF Leaves, Moved, Local
<1>5. GotoLatest(a, pc) =>
          Moved(a, pc) /\ at'[a].run = row.run /\ at'[a].req = at[a].req
  BY <1>1 DEF GotoLatest, Moved, Local
<1>6. ASSUME NEW l, at' = [at EXCEPT ![a] = l], l.pc = pc
      PROVE  Moved(a, pc) /\ at'[a].run = l.run /\ at'[a].req = l.req
  BY <1>1, <1>6 DEF Moved
<1>7. Return(a) => Moved(a, "idle") /\ at'[a].run = 0 /\ at'[a].req = NoJob
  <2>1. Idle.pc = "idle" /\ Idle.run = 0 /\ Idle.req = NoJob
    BY DEF Idle
  <2>. QED  BY <1>1, <2>1 DEF Return, Moved
<1>. QED  BY <1>2, <1>3, <1>4, <1>5, <1>6, <1>7

\* So is the interruption of an execution, which only learns that it is stopped.
LEMMA InterruptMoves ==
    ASSUME TypeInv, NEW c \in Client, Interrupt(c)
    PROVE  /\ Moved(c, AfterInterrupt(c))
           /\ at'[c].run = at[c].run /\ at'[c].req = at[c].req
<1>1. at \in [Actor -> Local] /\ c \in Actor /\ Worker \subseteq Actor /\ Client \cap Worker = {}
  BY StoreAssumption DEF TypeInv, TypeOK, Actor
<1>2. CASE Goto(c, AfterInterrupt(c))
  BY <1>1, <1>2, Moves
<1>3. ASSUME NEW w \in Registered,
             at' = [at EXCEPT ![c].pc = AfterInterrupt(c), ![w].why = "killed"]
      PROVE  /\ Moved(c, AfterInterrupt(c))
             /\ at'[c].run = at[c].run /\ at'[c].req = at[c].req
  <2>1. w \in Actor /\ w # c
    BY <1>1 DEF Registered
  <2>2. /\ at'[c] = [at[c] EXCEPT !.pc = AfterInterrupt(c)]
        /\ at'[w] = [at[w] EXCEPT !.why = "killed"]
        /\ \A b \in Actor \ {c, w} : at'[b] = at[b]
    BY <1>1, <1>3, <2>1
  <2>3. at[c] \in Local /\ at[w] \in Local
    BY <1>1, <2>1
  <2>4. /\ at'[c].pc = AfterInterrupt(c) /\ at'[c].run = at[c].run /\ at'[c].req = at[c].req
        /\ at'[w].pc = at[w].pc /\ at'[w].run = at[w].run /\ at'[w].req = at[w].req
    BY <2>2, <2>3 DEF Local
  <2>. QED  BY <2>2, <2>4 DEF Moved
<1>. QED  BY <1>2, <1>3 DEF Interrupt

\* Who begins has a copy of the row.
LEMMA Begins ==
    ASSUME TypeInv
    PROVE  /\ \A w \in Worker : Claim(w) => Moved(w, "claimed") /\ at'[w].run = row.run
           /\ \A c \in Client : Cancel(c) => Moved(c, "cancel") /\ at'[c].run = row.run
           /\ \A c \in Client : Retry(c) => Moved(c, "retry") /\ at'[c].run = row.run
           /\ \A c \in Client : Recover(c) => Moved(c, "restate") /\ at'[c].run = row.run
           /\ \A x \in Reconciler :
                 ClaimReconciliation(x) => Moved(x, "check") /\ at'[x].run = row.run
<1>1. /\ Worker \subseteq Actor /\ Client \subseteq Actor /\ Reconciler \subseteq Actor
      /\ at \in [Actor -> Local]
  BY DEF Actor, TypeInv, TypeOK
<1>2. \A pc : Copy(pc).pc = pc /\ Copy(pc).run = row.run
  BY DEF Copy
<1>3. \A pc, why, req : /\ [Copy(pc) EXCEPT !.why = why, !.req = req].pc = pc
                        /\ [Copy(pc) EXCEPT !.why = why, !.req = req].run = row.run
                        /\ [Copy(pc) EXCEPT !.req = req, !.why = why].pc = pc
                        /\ [Copy(pc) EXCEPT !.req = req, !.why = why].run = row.run
  BY DEF Copy
<1>4. \A pc, k : /\ [Copy(pc) EXCEPT !.n = k].pc = pc
                 /\ [Copy(pc) EXCEPT !.n = k].run = row.run
  BY DEF Copy
<1>5. ASSUME NEW w \in Worker, Claim(w) PROVE Moved(w, "claimed") /\ at'[w].run = row.run
  BY <1>1, <1>2, <1>5 DEF Claim, Moved
<1>6. ASSUME NEW c \in Client, Cancel(c) PROVE Moved(c, "cancel") /\ at'[c].run = row.run
  BY <1>1, <1>3, <1>6 DEF Cancel, Moved
<1>7. ASSUME NEW c \in Client, Retry(c) PROVE Moved(c, "retry") /\ at'[c].run = row.run
  BY <1>1, <1>2, <1>7 DEF Retry, Moved
<1>8. ASSUME NEW c \in Client, Recover(c) PROVE Moved(c, "restate") /\ at'[c].run = row.run
  BY <1>1, <1>3, <1>8 DEF Recover, Moved
<1>9. ASSUME NEW x \in Reconciler, ClaimReconciliation(x)
      PROVE  Moved(x, "check") /\ at'[x].run = row.run
  BY <1>1, <1>4, <1>9 DEF ClaimReconciliation, Moved
<1>. QED  BY <1>5, <1>6, <1>7, <1>8, <1>9

-----------------------------------------------------------------------------
(* Every request id, wherever it is kept, is that of a job.                *)

KnownIds == 0 .. Len(jobs)
\* Where a request is about to be asked for.
Asking == {"sent", "polling", "restate", "reclaim", "query"}

BooksKnow == row.req \in KnownIds /\ log.last \in KnownIds /\ \A r \in Run : oreq[r] \in KnownIds
ActorsKnow == \A a \in Actor :
    /\ at[a].req \in KnownIds
    /\ at[a].pc \in Asking => at[a].req # NoJob
IdsExist == BooksKnow /\ ActorsKnow

JobsGrow == Len(jobs) \in Nat /\ Len(jobs') \in Nat /\ Len(jobs) <= Len(jobs')
\* Nothing is written that was not known before the step.
BooksLearnNothing ==
    /\ row'.req \in KnownIds /\ log'.last \in KnownIds
    /\ \A r \in Run : oreq'[r] \in KnownIds

\* Jobs are only added.
LEMMA JobsGrowOnly ==
    ASSUME TypeInv
    PROVE  /\ jobs' = jobs => JobsGrow
           /\ \A j, state : JobBecomes(j, state) => JobsGrow
           /\ \A j : CancelComfyBridgeRequest(j) => JobsGrow
           /\ \A w : StopsWaiting(w) => JobsGrow
           /\ \A w \in Actor, state \in JobState : ~At(w, "idle") /\ NewJob(w, state) =>
                 JobsGrow /\ Len(jobs') = Len(jobs) + 1
<1>1. jobs \in Seq(Job) /\ Len(jobs) \in Nat
  BY DEF TypeInv, TypeOK, StoreTypeOK
<1>2. jobs' = jobs => JobsGrow
  BY <1>1 DEF JobsGrow
<1>3. ASSUME NEW j, NEW state, JobBecomes(j, state) PROVE JobsGrow
  <2>1. Len(jobs') = Len(jobs)
    BY <1>1, <1>3 DEF JobBecomes
  <2>. QED  BY <1>1, <2>1 DEF JobsGrow
<1>4. ASSUME NEW j, CancelComfyBridgeRequest(j) PROVE JobsGrow
  BY <1>2, <1>3, <1>4 DEF CancelComfyBridgeRequest
<1>5. ASSUME NEW w, StopsWaiting(w) PROVE JobsGrow
  BY <1>2, <1>4, <1>5 DEF StopsWaiting
<1>6. ASSUME NEW w \in Actor, NEW state \in JobState, ~At(w, "idle"), NewJob(w, state)
      PROVE  JobsGrow /\ Len(jobs') = Len(jobs) + 1
  <2>1. at[w].run \in Run
    BY <1>6 DEF TypeInv, Remembers, At
  <2>2. [run |-> at[w].run, state |-> state] \in Job
    BY <2>1 DEF Job
  <2>3. Len(jobs') = Len(jobs) + 1
    BY <1>1, <1>6, <2>2 DEF NewJob
  <2>. QED  BY <1>1, <2>3 DEF JobsGrow
<1>. QED  BY <1>2, <1>3, <1>4, <1>5, <1>6

\* The statements write request ids that are known.
LEMMA KnownWrites ==
    ASSUME TypeInv, IdsExist
    PROVE  /\ row' = row => row'.req \in KnownIds
           /\ \A status : Leave(status) => row'.req \in KnownIds
           /\ \A j : j \in KnownIds /\ UpdateTaskProviderState(j) => row'.req \in KnownIds
           /\ \A r, j : j \in KnownIds /\ SaveTaskCompletion(r, j) => row'.req \in KnownIds
           /\ \A status : UpdateTaskProviderCancellation(status) => row'.req \in KnownIds
           /\ ClaimTaskProviderCancellation => row'.req \in KnownIds
           /\ \A c : ClaimFailedTaskProviderRecovery(c) => row'.req \in KnownIds
           /\ \A c : ReleaseTaskProviderRecovery(c) => row'.req \in KnownIds
           /\ \A w : ReleaseTaskLease(w) => row'.req \in KnownIds
           /\ \A w : ClaimNextTask(w) => row'.req \in KnownIds
           /\ \A x : ClaimNextTaskProviderCancellation(x) => row'.req \in KnownIds
           /\ log' = log => log'.last \in KnownIds
           /\ oreq' = oreq => \A r \in Run : oreq'[r] \in KnownIds
           /\ \A s, j : j \in KnownIds /\ oreq' = [oreq EXCEPT ![s] = j] =>
                 \A r \in Run : oreq'[r] \in KnownIds
<1>1. row \in Task /\ oreq \in [Run -> {NoJob} \cup JobId]
  BY DEF TypeInv, TypeOK, StoreTypeOK
<1>2. row.req \in KnownIds /\ log.last \in KnownIds /\ \A r \in Run : oreq[r] \in KnownIds
  BY DEF IdsExist, BooksKnow
<1>3. /\ row' = row => row'.req \in KnownIds
      /\ \A status : Leave(status) => row'.req \in KnownIds
      /\ \A j : j \in KnownIds /\ UpdateTaskProviderState(j) => row'.req \in KnownIds
      /\ \A r, j : j \in KnownIds /\ SaveTaskCompletion(r, j) => row'.req \in KnownIds
      /\ \A status : UpdateTaskProviderCancellation(status) => row'.req \in KnownIds
      /\ ClaimTaskProviderCancellation => row'.req \in KnownIds
  BY <1>1, <1>2 DEF Task, Leave, UpdateTaskProviderState, SaveTaskCompletion,
     UpdateTaskProviderCancellation, ClaimTaskProviderCancellation
<1>4. /\ \A c : ClaimFailedTaskProviderRecovery(c) => row'.req \in KnownIds
      /\ \A c : ReleaseTaskProviderRecovery(c) => row'.req \in KnownIds
      /\ \A w : ReleaseTaskLease(w) => row'.req \in KnownIds
      /\ \A w : ClaimNextTask(w) => row'.req \in KnownIds
      /\ \A x : ClaimNextTaskProviderCancellation(x) => row'.req \in KnownIds
  BY <1>1, <1>2 DEF Task, ClaimFailedTaskProviderRecovery, ReleaseTaskProviderRecovery,
     ReleaseTaskLease, ClaimNextTask, ClaimNextTaskProviderCancellation
<1>5. /\ log' = log => log'.last \in KnownIds
      /\ oreq' = oreq => \A r \in Run : oreq'[r] \in KnownIds
      /\ \A s, j : j \in KnownIds /\ oreq' = [oreq EXCEPT ![s] = j] =>
            \A r \in Run : oreq'[r] \in KnownIds
  BY <1>1, <1>2
<1>. QED  BY <1>3, <1>4, <1>5

\* What is recorded of a call to the supplier names a job that exists.
LEMMA CallsLearnNothing ==
    ASSUME TypeInv, IdsExist, NEW a \in Actor
    PROVE  /\ UNCHANGED Books => BooksLearnNothing
           /\ \A j, status, review : j \in KnownIds /\ LogCreate(a, j, status, review) =>
                 BooksLearnNothing
           /\ \A ok, review : LogPoll(a, ok, review) => BooksLearnNothing
           /\ LogCancellation(a) => BooksLearnNothing
           /\ \A ok : Polled(a, ok) => BooksLearnNothing
           /\ \A review : Interrupted(a, review) => BooksLearnNothing
<1>1. at[a].req \in KnownIds /\ log.last \in KnownIds /\ log \in Log
  BY DEF IdsExist, BooksKnow, ActorsKnow, TypeInv, TypeOK, StoreTypeOK
<1>2. UNCHANGED Books => BooksLearnNothing
  <2>1. ASSUME UNCHANGED Books
        PROVE  row' = row /\ log' = log
    BY <2>1 DEF Books
  <2>2. UNCHANGED Books => oreq' = oreq
    BY DEF Books
  <2>. QED  BY <2>1, <2>2, KnownWrites DEF BooksLearnNothing
<1>3. ASSUME NEW r, NEW j, NEW entry, NEW review, j \in KnownIds, entry.last \in KnownIds,
             LogAPICall(r, j, entry, review)
      PROVE  BooksLearnNothing
  <2>1. row'.req \in KnownIds
    BY <1>3, KnownWrites DEF LogAPICall
  <2>2. log'.last \in KnownIds
    BY <1>1, <1>3 DEF LogAPICall
  <2>3. \A s \in Run : oreq'[s] \in KnownIds
    BY <1>3, KnownWrites DEF LogAPICall
  <2>. QED  BY <2>1, <2>2, <2>3 DEF BooksLearnNothing
<1>4. ASSUME NEW j, j \in KnownIds
      PROVE  /\ \A status : CreateLogged(j, status).last \in KnownIds
             /\ ApartLogged(j).last \in KnownIds
             /\ \A ok : PollLogged(j, ok).last \in KnownIds
  <2>1. \A status : CreateLogged(j, status).last \in KnownIds
    BY <1>1, <1>4 DEF CreateLogged
  <2>2. ApartLogged(j).last \in KnownIds
    BY <1>1, <1>4 DEF ApartLogged, Log
  <2>3. \A ok : PollLogged(j, ok).last \in KnownIds
    BY <1>1, <1>4, <2>2 DEF PollLogged, Log
  <2>. QED  BY <2>1, <2>2, <2>3
<1>5. /\ \A j, status, review : j \in KnownIds /\ LogCreate(a, j, status, review) => BooksLearnNothing
      /\ \A ok, review : LogPoll(a, ok, review) => BooksLearnNothing
      /\ LogCancellation(a) => BooksLearnNothing
  BY <1>1, <1>3, <1>4 DEF LogCreate, LogPoll, LogCancellation
<1>6. ASSUME NEW ok, Polled(a, ok) PROVE BooksLearnNothing
  <2>1. CASE LogPoll(a, ok, TRUE)
    BY <1>5, <2>1
  <2>2. CASE (row' = row \/ UpdateTaskProviderState(at[a].req)) /\ oreq' = oreq /\ log' = log
    BY <1>1, <2>2, KnownWrites DEF BooksLearnNothing
  <2>. QED  BY <1>6, <2>1, <2>2 DEF Polled
<1>7. ASSUME NEW review, Interrupted(a, review) PROVE BooksLearnNothing
  <2>1. NoJob \in KnownIds
    BY DEF TypeInv, TypeOK, StoreTypeOK, KnownIds, NoJob
  <2>. QED  BY <2>1, <1>2, <1>5, <1>7 DEF Interrupted
<1>. QED  BY <1>2, <1>5, <1>6, <1>7

\* The request id found for a run is known.
LEMMA HydratedIsKnown ==
    ASSUME IdsExist, NEW r \in Run, NEW known, known \in KnownIds
    PROVE  Hydrated(known, r) \in KnownIds
BY DEF IdsExist, BooksKnow, Hydrated

\* An actor that moves on with a request id that is known.
LEMMA MoveKnows ==
    ASSUME TypeInv, IdsExist, JobsGrow, BooksLearnNothing, NEW a \in Actor, NEW pc, Moved(a, pc),
           at'[a].req \in 0 .. Len(jobs'), pc \in Asking => at'[a].req # NoJob
    PROVE  IdsExist'
<1>1. \A j : j \in KnownIds => j \in 0 .. Len(jobs')
  BY DEF KnownIds, JobsGrow
<1>2. BooksKnow'
  BY <1>1 DEF BooksLearnNothing, BooksKnow, KnownIds
<1>3. ActorsKnow'
  BY <1>1 DEF IdsExist, ActorsKnow, Moved, KnownIds
<1>. QED  BY <1>2, <1>3 DEF IdsExist

\* An actor that moves on with the request id it has, or has just read.
LEMMA GotoKnows ==
    ASSUME TypeInv, IdsExist, JobsGrow, BooksLearnNothing, NEW a \in Actor, NEW pc,
           \/ Goto(a, pc) \/ GotoLatest(a, pc)
           \/ \E why : GotoFor(a, pc, why) \/ Leaves(a, pc, why),
           pc \in Asking => (at[a].pc \in Asking \/ at[a].req # NoJob) /\ Goto(a, pc)
    PROVE  IdsExist'
<1>1. at[a].req \in KnownIds /\ row'.req \in KnownIds /\ (at[a].pc \in Asking => at[a].req # NoJob)
  BY DEF IdsExist, ActorsKnow, BooksLearnNothing
<1>2. \A j : j \in KnownIds => j \in 0 .. Len(jobs')
  BY DEF KnownIds, JobsGrow
<1>3. Moved(a, pc) /\ at'[a].req \in {at[a].req, row'.req}
  BY Moves DEF Refreshed
<1>4. pc \in Asking => at'[a].req = at[a].req
  BY Moves
<1>. QED  BY <1>1, <1>2, <1>3, <1>4, MoveKnows

\* An actor that starts on a copy of the row, or ends.
LEMMA BeginKnows ==
    ASSUME TypeInv, IdsExist, JobsGrow, BooksLearnNothing, NEW a \in Actor, NEW l,
           NEW pc, at' = [at EXCEPT ![a] = l], l.pc = pc,
           l.req \in KnownIds, pc \in Asking => l.req # NoJob
    PROVE  IdsExist'
<1>1. l.req \in 0 .. Len(jobs')
  BY DEF KnownIds, JobsGrow
<1>2. Moved(a, pc) /\ at'[a].req = l.req
  BY DEF TypeInv, TypeOK, Moved
<1>. QED  BY <1>1, <1>2, MoveKnows

\* An actor that returns forgets its request id.
LEMMA ReturnKnows ==
    ASSUME TypeInv, IdsExist, JobsGrow, BooksLearnNothing, NEW a \in Actor, Return(a)
    PROVE  IdsExist'
<1>1. Moved(a, "idle") /\ at'[a].req = NoJob
  BY Moves
<1>2. NoJob \in 0 .. Len(jobs') /\ "idle" \notin Asking
  BY DEF NoJob, JobsGrow, Asking
<1>. QED  BY <1>1, <1>2, MoveKnows

\* Nobody moves.
LEMMA StillKnows ==
    ASSUME TypeInv, IdsExist, JobsGrow, BooksLearnNothing, at' = at
    PROVE  IdsExist'
<1>1. \A j : j \in KnownIds => j \in 0 .. Len(jobs')
  BY DEF KnownIds, JobsGrow
<1>. QED  BY <1>1 DEF IdsExist, ActorsKnow, BooksKnow, BooksLearnNothing, KnownIds
\* Every step keeps it.
LEMMA IdsStep ==
    ASSUME TypeInv, IdsExist, [Next]_vars
    PROVE  IdsExist'
<1>0. /\ Worker \subseteq Actor /\ Client \subseteq Actor /\ Reconciler \subseteq Actor
      /\ row \in Task
      /\ \A a \in Actor : /\ at[a].req \in KnownIds
                          /\ at[a].pc \in Asking => at[a].req # NoJob
      /\ \A a \in Actor : at[a].pc # "idle" => at[a].run \in Run
      /\ row.req \in KnownIds
  BY DEF Actor, IdsExist, BooksKnow, ActorsKnow, TypeInv, TypeOK, StoreTypeOK, Remembers
<1> USE <1>0 DEF rows, Orders, Supplier, Time, Books, At, Asking, Bill
<1>1. ASSUME NEW w \in Worker, Prepare(w) PROVE IdsExist'
  <2>1. JobsGrow
    BY <1>1, JobsGrowOnly DEF Prepare
  <2>2. BooksLearnNothing
    BY <1>1, KnownWrites DEF Prepare, BooksLearnNothing
  <2>. QED  BY <1>1, <2>1, <2>2, GotoKnows, ReturnKnows DEF Prepare
<1>2. ASSUME NEW w \in Worker, MarkBillingRunning(w) PROVE IdsExist'
  <2>1. JobsGrow
    BY <1>2, JobsGrowOnly DEF MarkBillingRunning
  <2>2. BooksLearnNothing
    BY <1>2, KnownWrites DEF MarkBillingRunning, BooksLearnNothing
  <2>. QED  BY <1>2, <2>1, <2>2, GotoKnows, ReturnKnows DEF MarkBillingRunning
<1>3. ASSUME NEW w \in Worker, Resume(w) PROVE IdsExist'
  <2>1. JobsGrow
    BY <1>3, JobsGrowOnly DEF Resume
  <2>2. BooksLearnNothing
    BY <1>3, KnownWrites DEF Resume, BooksLearnNothing
  <2>. QED  BY <1>3, <2>1, <2>2, GotoKnows, ReturnKnows DEF Resume
<1>4. ASSUME NEW w \in Worker, Defer(w) PROVE IdsExist'
  <2>1. JobsGrow
    BY <1>4, JobsGrowOnly DEF Defer
  <2>2. BooksLearnNothing
    BY <1>4, KnownWrites DEF Defer, BooksLearnNothing
  <2>. QED  BY <1>4, <2>1, <2>2, GotoKnows, ReturnKnows DEF Defer
<1>5. ASSUME NEW w \in Worker, Fail(w) PROVE IdsExist'
  <2>1. JobsGrow
    BY <1>5, JobsGrowOnly DEF Fail
  <2>2. BooksLearnNothing
    BY <1>5, KnownWrites DEF Fail, Finish, BooksLearnNothing
  <2>. QED  BY <1>5, <2>1, <2>2, GotoKnows, ReturnKnows DEF Fail, Finish
<1>6. ASSUME NEW w \in Worker, Stopped(w) PROVE IdsExist'
  <2>1. JobsGrow
    BY <1>6, JobsGrowOnly DEF Stopped
  <2>2. BooksLearnNothing
    BY <1>6, KnownWrites DEF Stopped, Finish, BooksLearnNothing
  <2>. QED  BY <1>6, <2>1, <2>2, GotoKnows, ReturnKnows DEF Stopped, Finish
<1>7. ASSUME NEW w \in Worker, BillFailure(w) PROVE IdsExist'
  <2>1. JobsGrow
    BY <1>7, JobsGrowOnly DEF BillFailure
  <2>2. BooksLearnNothing
    BY <1>7, KnownWrites DEF BillFailure, BooksLearnNothing
  <2>. QED  BY <1>7, <2>1, <2>2, GotoKnows, ReturnKnows DEF BillFailure
<1>8. ASSUME NEW w \in Worker, CheckResult(w) PROVE IdsExist'
  <2>1. JobsGrow
    BY <1>8, JobsGrowOnly DEF CheckResult
  <2>2. BooksLearnNothing
    BY <1>8, KnownWrites DEF CheckResult, BooksLearnNothing
  <2>. QED  BY <1>8, <2>1, <2>2, GotoKnows, ReturnKnows DEF CheckResult
<1>9. ASSUME NEW w \in Worker, SaveFailed(w) PROVE IdsExist'
  <2>1. JobsGrow
    BY <1>9, JobsGrowOnly DEF SaveFailed
  <2>2. BooksLearnNothing
    BY <1>9, KnownWrites DEF SaveFailed, Finish, BooksLearnNothing
  <2>. QED  BY <1>9, <2>1, <2>2, GotoKnows, ReturnKnows DEF SaveFailed, Finish
<1>10. ASSUME NEW w \in Worker, SettleSuccess(w) PROVE IdsExist'
  <2>1. JobsGrow
    BY <1>10, JobsGrowOnly DEF SettleSuccess
  <2>2. BooksLearnNothing
    BY <1>10, KnownWrites DEF SettleSuccess, BooksLearnNothing
  <2>. QED  BY <1>10, <2>1, <2>2, GotoKnows, ReturnKnows DEF SettleSuccess
<1>11. ASSUME NEW w \in Worker, Save(w) PROVE IdsExist'
  <2>1. JobsGrow
    BY <1>11, JobsGrowOnly DEF Save
  <2>2. BooksLearnNothing
    BY <1>11, KnownWrites DEF Save, BooksLearnNothing
  <2>. QED  BY <1>11, <2>1, <2>2, GotoKnows, ReturnKnows DEF Save
<1>12. ASSUME NEW w \in Worker, Drain(w) PROVE IdsExist'
  <2>1. JobsGrow
    BY <1>12, JobsGrowOnly DEF Drain
  <2>2. BooksLearnNothing
    BY <1>12, KnownWrites DEF Drain, BooksLearnNothing
  <2>. QED  BY <1>12, <2>1, <2>2, GotoKnows, ReturnKnows DEF Drain
<1>13. ASSUME NEW a \in Actor, RefundRun(a) PROVE IdsExist'
  <2>1. JobsGrow
    BY <1>13, JobsGrowOnly DEF RefundRun
  <2>2. BooksLearnNothing
    BY <1>13, KnownWrites DEF RefundRun, BooksLearnNothing
  <2>. QED  BY <1>13, <2>1, <2>2, GotoKnows, ReturnKnows DEF RefundRun
<1>14. ASSUME NEW a \in Actor, MarkRunUncertain(a) PROVE IdsExist'
  <2>1. JobsGrow
    BY <1>14, JobsGrowOnly DEF MarkRunUncertain
  <2>2. BooksLearnNothing
    BY <1>14, KnownWrites DEF MarkRunUncertain, BooksLearnNothing
  <2>. QED  BY <1>14, <2>1, <2>2, GotoKnows, ReturnKnows DEF MarkRunUncertain
<1>15. ASSUME NEW a \in Actor, GiveUp(a) PROVE IdsExist'
  <2>1. JobsGrow
    BY <1>15, JobsGrowOnly DEF GiveUp
  <2>2. BooksLearnNothing
    BY <1>15, KnownWrites DEF GiveUp, BooksLearnNothing
  <2>. QED  BY <1>15, <2>1, <2>2, GotoKnows, ReturnKnows DEF GiveUp
<1>16. ASSUME NEW a \in Actor, CloseCancellation(a) PROVE IdsExist'
  <2>1. JobsGrow
    BY <1>16, JobsGrowOnly DEF CloseCancellation
  <2>2. BooksLearnNothing
    BY <1>16, KnownWrites DEF CloseCancellation, BooksLearnNothing
  <2>. QED  BY <1>16, <2>1, <2>2, GotoKnows, ReturnKnows DEF CloseCancellation
<1>17. ASSUME NEW a \in Actor, Crash(a) PROVE IdsExist'
  <2>1. JobsGrow
    BY <1>17, JobsGrowOnly DEF Crash
  <2>2. BooksLearnNothing
    BY <1>17, KnownWrites DEF Crash, BooksLearnNothing
  <2>. QED  BY <1>17, <2>1, <2>2, GotoKnows, ReturnKnows DEF Crash
<1>18. ASSUME NEW c \in Client, CancelIfStatus(c) PROVE IdsExist'
  <2>1. JobsGrow
    BY <1>18, JobsGrowOnly DEF CancelIfStatus
  <2>2. BooksLearnNothing
    BY <1>18, KnownWrites DEF CancelIfStatus, BooksLearnNothing
  <2>. QED  BY <1>18, <2>1, <2>2, GotoKnows, ReturnKnows DEF CancelIfStatus
<1>19. ASSUME NEW c \in Client, RequestCancellation(c) PROVE IdsExist'
  <2>1. JobsGrow
    BY <1>19, JobsGrowOnly DEF RequestCancellation
  <2>2. BooksLearnNothing
    BY <1>19, KnownWrites DEF RequestCancellation, BooksLearnNothing
  <2>. QED  BY <1>19, <2>1, <2>2, GotoKnows, ReturnKnows DEF RequestCancellation
<1>20. ASSUME NEW c \in Client, ClaimCancellation(c) PROVE IdsExist'
  <2>1. JobsGrow
    BY <1>20, JobsGrowOnly DEF ClaimCancellation
  <2>2. BooksLearnNothing
    BY <1>20, KnownWrites DEF ClaimCancellation, BooksLearnNothing
  <2>. QED  BY <1>20, <2>1, <2>2, GotoKnows, ReturnKnows DEF ClaimCancellation
<1>21. ASSUME NEW c \in Client, RefundBridge(c) PROVE IdsExist'
  <2>1. JobsGrow
    BY <1>21, JobsGrowOnly DEF RefundBridge
  <2>2. BooksLearnNothing
    BY <1>21, KnownWrites DEF RefundBridge, BooksLearnNothing
  <2>. QED  BY <1>21, <2>1, <2>2, GotoKnows, ReturnKnows DEF RefundBridge
<1>22. ASSUME NEW c \in Client, Restate(c) PROVE IdsExist'
  <2>1. JobsGrow
    BY <1>22, JobsGrowOnly DEF Restate
  <2>2. BooksLearnNothing
    BY <1>22, KnownWrites DEF Restate, BooksLearnNothing
  <2>. QED  BY <1>22, <2>1, <2>2, GotoKnows, ReturnKnows DEF Restate
<1>23. ASSUME NEW c \in Client, ClaimRecovery(c) PROVE IdsExist'
  <2>1. JobsGrow
    BY <1>23, JobsGrowOnly DEF ClaimRecovery
  <2>2. BooksLearnNothing
    BY <1>23, KnownWrites DEF ClaimRecovery, BooksLearnNothing
  <2>. QED  BY <1>23, <2>1, <2>2, GotoKnows, ReturnKnows DEF ClaimRecovery
<1>24. ASSUME NEW c \in Client, SaveRecovery(c) PROVE IdsExist'
  <2>1. JobsGrow
    BY <1>24, JobsGrowOnly DEF SaveRecovery
  <2>2. BooksLearnNothing
    BY <1>24, KnownWrites DEF SaveRecovery, BooksLearnNothing
  <2>. QED  BY <1>24, <2>1, <2>2, GotoKnows, ReturnKnows DEF SaveRecovery
<1>25. ASSUME NEW c \in Client, ChargeRecovery(c) PROVE IdsExist'
  <2>1. JobsGrow
    BY <1>25, JobsGrowOnly DEF ChargeRecovery
  <2>2. BooksLearnNothing
    BY <1>25, KnownWrites DEF ChargeRecovery, BooksLearnNothing
  <2>. QED  BY <1>25, <2>1, <2>2, GotoKnows, ReturnKnows DEF ChargeRecovery
<1>26. ASSUME NEW c \in Client, ReleaseRecovery(c) PROVE IdsExist'
  <2>1. JobsGrow
    BY <1>26, JobsGrowOnly DEF ReleaseRecovery
  <2>2. BooksLearnNothing
    BY <1>26, KnownWrites DEF ReleaseRecovery, BooksLearnNothing
  <2>. QED  BY <1>26, <2>1, <2>2, GotoKnows, ReturnKnows DEF ReleaseRecovery
<1>27. ASSUME NEW x \in Reconciler, Reschedule(x) PROVE IdsExist'
  <2>1. JobsGrow
    BY <1>27, JobsGrowOnly DEF Reschedule
  <2>2. BooksLearnNothing
    BY <1>27, KnownWrites DEF Reschedule, BooksLearnNothing
  <2>. QED  BY <1>27, <2>1, <2>2, GotoKnows, ReturnKnows DEF Reschedule
<1>28. ASSUME NEW x \in Reconciler, RefundCancelled(x) PROVE IdsExist'
  <2>1. JobsGrow
    BY <1>28, JobsGrowOnly DEF RefundCancelled
  <2>2. BooksLearnNothing
    BY <1>28, KnownWrites DEF RefundCancelled, BooksLearnNothing
  <2>. QED  BY <1>28, <2>1, <2>2, GotoKnows, ReturnKnows DEF RefundCancelled
<1>29. ASSUME NEW x \in Reconciler, ChargeFinished(x) PROVE IdsExist'
  <2>1. JobsGrow
    BY <1>29, JobsGrowOnly DEF ChargeFinished
  <2>2. BooksLearnNothing
    BY <1>29, KnownWrites DEF ChargeFinished, BooksLearnNothing
  <2>. QED  BY <1>29, <2>1, <2>2, GotoKnows, ReturnKnows DEF ChargeFinished
<1>30. ASSUME NEW w \in Worker, Claim(w) PROVE IdsExist'
  <2>1. JobsGrow
    BY <1>30, JobsGrowOnly DEF Claim
  <2>2. BooksLearnNothing
    BY <1>30, KnownWrites DEF Claim, BooksLearnNothing
  <2>3. Copy("claimed").req \in KnownIds /\ Copy("claimed").pc = "claimed"
    BY DEF Copy
  <2>. QED  BY <1>30, <2>1, <2>2, <2>3, BeginKnows DEF Claim
<1>31. ASSUME NEW w \in Worker, LogAttempt(w) PROVE IdsExist'
  <2>1. JobsGrow
    BY <1>31, JobsGrowOnly DEF LogAttempt
  <2>2. BooksLearnNothing
    BY <1>31, CallsLearnNothing DEF LogAttempt
  <2>. QED  BY <1>31, <2>1, <2>2, GotoKnows DEF LogAttempt
<1>32. ASSUME NEW w \in Worker, Submit(w) PROVE IdsExist'
  <2>1. NoJob \in KnownIds /\ Len(jobs) \in Nat
    BY DEF TypeInv, TypeOK, StoreTypeOK, KnownIds, NoJob
  <2>2. BooksLearnNothing
    BY <1>32, <2>1, CallsLearnNothing DEF Submit
  <2>3. JobsGrow
    BY <1>32, JobsGrowOnly DEF Submit, JobState
  <2>4. CASE \E pc \in {"error", "result"}, why \in Why : Leaves(w, pc, why)
    BY <2>2, <2>3, <2>4, GotoKnows
  <2>5. CASE /\ at' = [at EXCEPT ![w].pc = "sent", ![w].req = Len(jobs) + 1]
             /\ \E state \in JobState : NewJob(w, state)
    <3>1. Len(jobs') = Len(jobs) + 1
      BY <1>32, <2>5, JobsGrowOnly DEF Submit
    <3>2. Moved(w, "sent") /\ at'[w].req = Len(jobs) + 1
      BY <2>5 DEF TypeInv, TypeOK, Moved, Local
    <3>3. at'[w].req \in 0 .. Len(jobs') /\ at'[w].req # NoJob
      BY <2>1, <3>1, <3>2 DEF NoJob
    <3>. QED  BY <2>2, <2>3, <3>2, <3>3, MoveKnows
  <2>. QED  BY <1>32, <2>4, <2>5 DEF Submit, Why, JobState
<1>33. ASSUME NEW w \in Worker, Record(w) PROVE IdsExist'
  <2>1. JobsGrow
    BY <1>33, JobsGrowOnly DEF Record
  <2>2. BooksLearnNothing
    <3>1. CASE LogCreate(w, at[w].req, "succeeded", TRUE)
      BY <3>1, CallsLearnNothing
    <3>2. CASE /\ UpdateTaskProviderState(at[w].req) /\ log' = log
               /\ oreq' = [oreq EXCEPT ![at[w].run] = at[w].req]
      BY <3>2, KnownWrites DEF BooksLearnNothing
    <3>. QED  BY <1>33, <3>1, <3>2 DEF Record
  <2>. QED  BY <1>33, <2>1, <2>2, GotoKnows DEF Record
<1>34. ASSUME NEW w \in Worker, Poll(w) PROVE IdsExist'
  <2>1. JobsGrow
    BY <1>34, JobsGrowOnly DEF Poll
  <2>2. BooksLearnNothing
    BY <1>34, CallsLearnNothing DEF Poll
  <2>3. CASE at' = at
    BY <2>1, <2>2, <2>3, StillKnows
  <2>4. CASE \E pc \in {"error", "result"}, why \in Why : Leaves(w, pc, why)
    BY <2>1, <2>2, <2>4, GotoKnows
  <2>. QED  BY <1>34, <2>3, <2>4 DEF Poll, Why
<1>35. ASSUME NEW w \in Worker, Killed(w) PROVE IdsExist'
  <2>1. JobsGrow
    BY <1>35, JobsGrowOnly DEF Killed
  <2>2. BooksLearnNothing
    BY <1>35, CallsLearnNothing DEF Killed
  <2>. QED  BY <1>35, <2>1, <2>2, GotoKnows, ReturnKnows DEF Killed
<1>36. ASSUME NEW w \in Worker, LoseLease(w) PROVE IdsExist'
  <2>1. JobsGrow
    BY <1>36, JobsGrowOnly DEF LoseLease
  <2>2. BooksLearnNothing
    BY <1>36, CallsLearnNothing DEF LoseLease
  <2>. QED  BY <1>36, <2>1, <2>2, GotoKnows, ReturnKnows DEF LoseLease
<1>37. ASSUME NEW c \in Client, Cancel(c) PROVE IdsExist'
  <2> DEFINE j == Hydrated(row.req, row.run)
  <2>1. j \in KnownIds
    BY HydratedIsKnown DEF Task
  <2>2. JobsGrow /\ BooksLearnNothing
    BY <1>37, JobsGrowOnly, KnownWrites DEF Cancel, BooksLearnNothing
  <2>3. j # NoJob \/ "cancel" \notin Asking
    BY <1>37 DEF Cancel
  <2> HIDE DEF j
  <2>4. PICK why : at' = [at EXCEPT ![c] = [Copy("cancel") EXCEPT !.req = j, !.why = why]]
    BY <1>37 DEF Cancel, j
  <2> DEFINE l == [Copy("cancel") EXCEPT !.req = j, !.why = why]
  <2>5. l.pc = "cancel" /\ l.req = j
    BY DEF Copy
  <2> HIDE DEF l
  <2>. QED  BY <2>1, <2>2, <2>3, <2>4, <2>5, BeginKnows DEF l
<1>38. ASSUME NEW c \in Client, Recover(c) PROVE IdsExist'
  <2> DEFINE j == Hydrated(row.req, row.run)
  <2>1. j \in KnownIds
    BY HydratedIsKnown DEF Task
  <2>2. JobsGrow /\ BooksLearnNothing
    BY <1>38, JobsGrowOnly, KnownWrites DEF Recover, BooksLearnNothing
  <2>3. j # NoJob \/ "restate" \notin Asking
    BY <1>38 DEF Recover
  <2> HIDE DEF j
  <2>4. PICK why : at' = [at EXCEPT ![c] = [Copy("restate") EXCEPT !.req = j, !.why = why]]
    BY <1>38 DEF Recover, j
  <2> DEFINE l == [Copy("restate") EXCEPT !.req = j, !.why = why]
  <2>5. l.pc = "restate" /\ l.req = j
    BY DEF Copy
  <2> HIDE DEF l
  <2>. QED  BY <2>1, <2>2, <2>3, <2>4, <2>5, BeginKnows DEF l
<1>39. ASSUME NEW c \in Client, Retry(c) PROVE IdsExist'
  <2>1. JobsGrow /\ BooksLearnNothing
    BY <1>39, JobsGrowOnly, KnownWrites DEF Retry, BooksLearnNothing
  <2>2. Copy("retry").req \in KnownIds /\ Copy("retry").pc = "retry"
    BY DEF Copy
  <2>. QED  BY <1>39, <2>1, <2>2, BeginKnows DEF Retry
<1>40. ASSUME NEW c \in Client, Interrupt(c) PROVE IdsExist'
  <2>1. JobsGrow /\ BooksLearnNothing
    BY <1>40, JobsGrowOnly, KnownWrites DEF Interrupt, BooksLearnNothing
  <2>2. at'[c].req \in 0 .. Len(jobs')
    BY <1>40, <2>1, InterruptMoves DEF KnownIds, JobsGrow
  <2>3. AfterInterrupt(c) \notin Asking
    BY DEF AfterInterrupt
  <2>. QED  BY <1>40, <2>1, <2>2, <2>3, InterruptMoves, MoveKnows
<1>41. ASSUME NEW c \in Client, CallCancel(c) PROVE IdsExist'
  <2>1. JobsGrow
    BY <1>41, JobsGrowOnly DEF CallCancel
  <2>2. BooksLearnNothing
    BY <1>41, CallsLearnNothing DEF CallCancel
  <2>. QED  BY <1>41, <2>1, <2>2, GotoKnows, ReturnKnows DEF CallCancel
<1>42. ASSUME NEW c \in Client, WithdrawBridge(c) PROVE IdsExist'
  <2>1. JobsGrow
    BY <1>42, JobsGrowOnly DEF WithdrawBridge
  <2>2. BooksLearnNothing
    BY <1>42, CallsLearnNothing DEF WithdrawBridge
  <2>. QED  BY <1>42, <2>1, <2>2, GotoKnows DEF WithdrawBridge
<1>43. ASSUME NEW c \in Client, QueryRecovery(c) PROVE IdsExist'
  <2>1. JobsGrow
    BY <1>43, JobsGrowOnly DEF QueryRecovery
  <2>2. BooksLearnNothing
    BY <1>43, CallsLearnNothing DEF QueryRecovery
  <2>. QED  BY <1>43, <2>1, <2>2, GotoKnows DEF QueryRecovery
<1>44. ASSUME NEW c \in Client, RetryWrite(c) PROVE IdsExist'
  <2>1. JobsGrow
    BY <1>44, JobsGrowOnly DEF RetryWrite
  <2>2. row'.req \in KnownIds
    <3>1. NoJob \in KnownIds
      BY DEF TypeInv, TypeOK, StoreTypeOK, KnownIds, NoJob
    <3>2. ASSUME RetryTaskWithBilling PROVE row'.req = NoJob
      <4>1. row' = NewTask(row.interface, row.run + 1)
        BY <3>2 DEF RetryTaskWithBilling
      <4>2. \A i, r : NewTask(i, r).req = NoJob
        BY DEF NewTask
      <4>. QED  BY <4>1, <4>2
    <3>. QED  BY <1>44, <3>1, <3>2 DEF RetryWrite
  <2>3. BooksLearnNothing
    BY <1>44, <2>2, KnownWrites DEF RetryWrite, BooksLearnNothing
  <2>. QED  BY <1>44, <2>1, <2>3, ReturnKnows DEF RetryWrite
<1>45. ASSUME NEW x \in Reconciler, ClaimReconciliation(x) PROVE IdsExist'
  <2>1. JobsGrow /\ BooksLearnNothing
    BY <1>45, JobsGrowOnly, KnownWrites DEF ClaimReconciliation, BooksLearnNothing
  <2> DEFINE l == [Copy("check") EXCEPT !.n = row.checks + 1]
  <2>2. l.req \in KnownIds /\ l.pc = "check"
    BY DEF Copy
  <2>3. at' = [at EXCEPT ![x] = l]
    BY <1>45 DEF ClaimReconciliation
  <2> HIDE DEF l
  <2>. QED  BY <2>1, <2>2, <2>3, BeginKnows
<1>46. ASSUME NEW x \in Reconciler, CheckJob(x) PROVE IdsExist'
  <2>1. JobsGrow
    BY <1>46, JobsGrowOnly DEF CheckJob
  <2>2. BooksLearnNothing
    BY <1>46, CallsLearnNothing DEF CheckJob
  <2>. QED  BY <1>46, <2>1, <2>2, GotoKnows DEF CheckJob
<1>47. ASSUME SupplierStep PROVE IdsExist'
  <2>1. JobsGrow
    BY <1>47, JobsGrowOnly DEF SupplierStep, JobStarts, JobEnds
  <2>. QED  BY <1>47, <2>1, StillKnows, KnownWrites DEF SupplierStep, BooksLearnNothing
<1>48. ASSUME Expire PROVE IdsExist'
  <2>1. JobsGrow /\ row'.req = row.req
    BY <1>48, JobsGrowOnly DEF Expire, Task
  <2>. QED  BY <1>48, <2>1, StillKnows, KnownWrites DEF Expire, BooksLearnNothing
<1>49. CASE UNCHANGED vars
  BY <1>49, JobsGrowOnly, StillKnows, KnownWrites DEF vars, BooksLearnNothing
<1>. QED
  BY <1>1, <1>2, <1>3, <1>4, <1>5, <1>6, <1>7, <1>8, <1>9, <1>10, <1>11, <1>12, <1>13,
     <1>14, <1>15, <1>16, <1>17, <1>18, <1>19, <1>20, <1>21, <1>22, <1>23, <1>24, <1>25,
     <1>26, <1>27, <1>28, <1>29, <1>30, <1>31, <1>32, <1>33, <1>34, <1>35, <1>36, <1>37,
     <1>38, <1>39, <1>40, <1>41, <1>42, <1>43, <1>44, <1>45, <1>46, <1>47, <1>48, <1>49
     DEF Next, WorkerStep, ClientStep, ReconcilerStep, BillingStep, Request
-----------------------------------------------------------------------------
(* Who holds a result, or has charged for one, has seen it.                *)

Delivered == \E j \in DOMAIN jobs : jobs[j].state = "succeeded"
\* Where an actor has a result in hand.
WithResult == {"result", "save", "settle", "charge", "recover"}
ResultInv == /\ \A a \in Actor : at[a].pc \in WithResult => Delivered
             /\ \A r \in Run : order[r] = "settled" => Delivered

StaysDelivered == Delivered => Delivered'
SettlesNothing == \A r \in Run : order'[r] = "settled" => order[r] = "settled" \/ Delivered'

\* What was delivered stays delivered.
LEMMA DeliveriesStay ==
    ASSUME TypeInv
    PROVE  /\ jobs' = jobs => StaysDelivered
           /\ \A j, state : jobs[j].state # "succeeded" /\ JobBecomes(j, state) => StaysDelivered
           /\ \A j : CancelComfyBridgeRequest(j) => StaysDelivered
           /\ \A w : StopsWaiting(w) => StaysDelivered
           /\ \A w, state : NewJob(w, state) => StaysDelivered
           /\ \A w : NewJob(w, "succeeded") => Delivered'
<1>1. jobs \in Seq(Job) /\ Len(jobs) \in Nat /\ DOMAIN jobs = 1 .. Len(jobs)
  BY DEF TypeInv, TypeOK, StoreTypeOK
<1>2. jobs' = jobs => StaysDelivered
  BY DEF StaysDelivered, Delivered
<1>3. ASSUME NEW j, NEW state, jobs[j].state # "succeeded", JobBecomes(j, state)
      PROVE  StaysDelivered
  <2> SUFFICES ASSUME NEW k \in DOMAIN jobs, jobs[k].state = "succeeded" PROVE Delivered'
    BY DEF StaysDelivered, Delivered
  <2>1. k # j /\ k \in DOMAIN jobs' /\ jobs'[k] = jobs[k]
    BY <1>1, <1>3 DEF JobBecomes
  <2>. QED  BY <2>1 DEF Delivered
<1>4. ASSUME NEW j, CancelComfyBridgeRequest(j) PROVE StaysDelivered
  BY <1>2, <1>3, <1>4 DEF CancelComfyBridgeRequest
<1>5. ASSUME NEW w, StopsWaiting(w) PROVE StaysDelivered
  BY <1>2, <1>4, <1>5 DEF StopsWaiting
<1>6. ASSUME NEW w, NEW state, NewJob(w, state)
      PROVE  StaysDelivered /\ (state = "succeeded" => Delivered')
  <2> DEFINE job == [run |-> at[w].run, state |-> state]
  <2>1. /\ DOMAIN jobs' = 1 .. Len(jobs) + 1 /\ jobs'[Len(jobs) + 1] = job
        /\ \A k \in DOMAIN jobs : jobs'[k] = jobs[k]
    BY <1>1, <1>6 DEF NewJob
  <2>2. \A k \in DOMAIN jobs : k \in DOMAIN jobs'
    BY <1>1, <2>1
  <2>3. Len(jobs) + 1 \in DOMAIN jobs' /\ job.state = state
    BY <1>1, <2>1
  <2> HIDE DEF job
  <2>. QED  BY <2>1, <2>2, <2>3 DEF StaysDelivered, Delivered
<1>. QED  BY <1>2, <1>3, <1>4, <1>5, <1>6

\* Only a settlement settles.
LEMMA BillingSettlesNothing ==
    ASSUME TypeInv
    PROVE  /\ order' = order => SettlesNothing
           /\ \A r : order' = MarkedUncertain(r) => SettlesNothing
           /\ \A r : order' = MarkedRunning(r) => SettlesNothing
           /\ \A r : order' = Refunded(r) => SettlesNothing
           /\ Delivered' => SettlesNothing
BY DEF TypeInv, TypeOK, StoreTypeOK, SettlesNothing, MarkedUncertain, MarkedRunning, Refunded

\* Recording a call to the supplier does not.
LEMMA CallsSettleNothing ==
    ASSUME TypeInv, NEW a
    PROVE  /\ UNCHANGED Books => SettlesNothing
           /\ \A j, status, review : LogCreate(a, j, status, review) => SettlesNothing
           /\ \A ok, review : LogPoll(a, ok, review) => SettlesNothing
           /\ LogCancellation(a) => SettlesNothing
           /\ \A ok : Polled(a, ok) => SettlesNothing
           /\ \A review : Interrupted(a, review) => SettlesNothing
<1>1. UNCHANGED Books => SettlesNothing
  BY BillingSettlesNothing DEF Books
<1>2. ASSUME NEW r, NEW j, NEW entry, NEW review, LogAPICall(r, j, entry, review)
      PROVE  SettlesNothing
  BY <1>2, BillingSettlesNothing DEF LogAPICall
<1>3. ASSUME NEW ok, Polled(a, ok) PROVE SettlesNothing
  BY <1>2, <1>3, BillingSettlesNothing DEF Polled, LogPoll
<1>. QED
  BY <1>1, <1>2, <1>3 DEF LogCreate, LogPoll, LogCancellation, Interrupted

\* An actor that moves on holds a result only when there is one.
LEMMA MoveHasSeen ==
    ASSUME ResultInv, StaysDelivered, SettlesNothing, NEW a \in Actor, NEW pc,
           Moved(a, pc), pc \in WithResult => at[a].pc \in WithResult \/ Delivered'
    PROVE  ResultInv'
<1>1. \A b \in Actor : at'[b].pc \in WithResult => Delivered'
  BY DEF ResultInv, Moved, StaysDelivered
<1>2. \A r \in Run : order'[r] = "settled" => Delivered'
  BY DEF ResultInv, SettlesNothing, StaysDelivered
<1>. QED  BY <1>1, <1>2 DEF ResultInv

\* In particular by the ways to move on.
LEMMA GotoHasSeen ==
    ASSUME TypeInv, ResultInv, StaysDelivered, SettlesNothing, NEW a \in Actor, NEW pc,
           \/ Goto(a, pc) \/ GotoLatest(a, pc)
           \/ \E why : GotoFor(a, pc, why) \/ Leaves(a, pc, why),
           pc \in WithResult => at[a].pc \in WithResult \/ Delivered'
    PROVE  ResultInv'
BY Moves, MoveHasSeen

\* An actor that returns holds no result.
LEMMA ReturnHasSeen ==
    ASSUME TypeInv, ResultInv, StaysDelivered, SettlesNothing, NEW a \in Actor, Return(a)
    PROVE  ResultInv'
<1>1. Moved(a, "idle") /\ "idle" \notin WithResult
  BY Moves DEF WithResult
<1>. QED  BY <1>1, MoveHasSeen

\* Nor does anybody come to hold one when nobody moves.
LEMMA StillHasSeen ==
    ASSUME ResultInv, StaysDelivered, SettlesNothing, at' = at
    PROVE  ResultInv'
BY DEF ResultInv, StaysDelivered, SettlesNothing, Delivered

\* Every step keeps it.
LEMMA ResultStep ==
    ASSUME TypeInv, IdsExist, ResultInv, [Next]_vars
    PROVE  ResultInv'
<1>0. /\ Worker \subseteq Actor /\ Client \subseteq Actor /\ Reconciler \subseteq Actor
      /\ \A a \in Actor : at[a].pc \in WithResult => Delivered
      /\ \A a \in Actor : at[a].pc \in Asking \/ at[a].req # NoJob => at[a].req \in DOMAIN jobs
  <2>1. jobs \in Seq(Job) /\ Len(jobs) \in Nat /\ DOMAIN jobs = 1 .. Len(jobs)
    BY DEF TypeInv, TypeOK, StoreTypeOK
  <2>2. \A a \in Actor : /\ at[a].req \in KnownIds
                         /\ at[a].pc \in Asking => at[a].req # NoJob
    BY DEF IdsExist, ActorsKnow
  <2>3. \A a \in Actor : at[a].req # NoJob => at[a].req \in DOMAIN jobs
    BY <2>1, <2>2 DEF KnownIds, NoJob
  <2>. QED  BY <2>2, <2>3 DEF ResultInv, Actor
<1> USE <1>0 DEF rows, Orders, Supplier, Time, Books, At, WithResult, Bill
<1>1. ASSUME NEW w \in Worker, Prepare(w) PROVE ResultInv'
  <2>1. StaysDelivered
    BY <1>1, DeliveriesStay DEF Prepare
  <2>2. SettlesNothing
    BY <1>1, BillingSettlesNothing DEF Prepare
  <2>. QED  BY <1>1, <2>1, <2>2, GotoHasSeen, ReturnHasSeen DEF Prepare
<1>2. ASSUME NEW w \in Worker, MarkBillingRunning(w) PROVE ResultInv'
  <2>1. StaysDelivered
    BY <1>2, DeliveriesStay DEF MarkBillingRunning
  <2>2. SettlesNothing
    BY <1>2, BillingSettlesNothing DEF MarkBillingRunning
  <2>. QED  BY <1>2, <2>1, <2>2, GotoHasSeen, ReturnHasSeen DEF MarkBillingRunning
<1>3. ASSUME NEW w \in Worker, Resume(w) PROVE ResultInv'
  <2>1. StaysDelivered
    BY <1>3, DeliveriesStay DEF Resume
  <2>2. SettlesNothing
    BY <1>3, BillingSettlesNothing DEF Resume
  <2>. QED  BY <1>3, <2>1, <2>2, GotoHasSeen, ReturnHasSeen DEF Resume
<1>4. ASSUME NEW w \in Worker, Defer(w) PROVE ResultInv'
  <2>1. StaysDelivered
    BY <1>4, DeliveriesStay DEF Defer
  <2>2. SettlesNothing
    BY <1>4, BillingSettlesNothing DEF Defer
  <2>. QED  BY <1>4, <2>1, <2>2, GotoHasSeen, ReturnHasSeen DEF Defer
<1>5. ASSUME NEW w \in Worker, BillFailure(w) PROVE ResultInv'
  <2>1. StaysDelivered
    BY <1>5, DeliveriesStay DEF BillFailure
  <2>2. SettlesNothing
    BY <1>5, BillingSettlesNothing DEF BillFailure
  <2>. QED  BY <1>5, <2>1, <2>2, GotoHasSeen, ReturnHasSeen DEF BillFailure
<1>6. ASSUME NEW w \in Worker, CheckResult(w) PROVE ResultInv'
  <2>1. StaysDelivered
    BY <1>6, DeliveriesStay DEF CheckResult
  <2>2. SettlesNothing
    BY <1>6, BillingSettlesNothing DEF CheckResult
  <2>. QED  BY <1>6, <2>1, <2>2, GotoHasSeen, ReturnHasSeen DEF CheckResult
<1>7. ASSUME NEW w \in Worker, Save(w) PROVE ResultInv'
  <2>1. StaysDelivered
    BY <1>7, DeliveriesStay DEF Save
  <2>2. SettlesNothing
    BY <1>7, BillingSettlesNothing DEF Save
  <2>. QED  BY <1>7, <2>1, <2>2, GotoHasSeen, ReturnHasSeen DEF Save
<1>8. ASSUME NEW w \in Worker, Drain(w) PROVE ResultInv'
  <2>1. StaysDelivered
    BY <1>8, DeliveriesStay DEF Drain
  <2>2. SettlesNothing
    BY <1>8, BillingSettlesNothing DEF Drain
  <2>. QED  BY <1>8, <2>1, <2>2, GotoHasSeen, ReturnHasSeen DEF Drain
<1>9. ASSUME NEW w \in Worker, Fail(w) PROVE ResultInv'
  <2>1. StaysDelivered
    BY <1>9, DeliveriesStay DEF Fail
  <2>2. SettlesNothing
    BY <1>9, BillingSettlesNothing DEF Fail, Finish
  <2>. QED  BY <1>9, <2>1, <2>2, GotoHasSeen, ReturnHasSeen DEF Fail, Finish
<1>10. ASSUME NEW w \in Worker, Stopped(w) PROVE ResultInv'
  <2>1. StaysDelivered
    BY <1>10, DeliveriesStay DEF Stopped
  <2>2. SettlesNothing
    BY <1>10, BillingSettlesNothing DEF Stopped, Finish
  <2>. QED  BY <1>10, <2>1, <2>2, GotoHasSeen, ReturnHasSeen DEF Stopped, Finish
<1>11. ASSUME NEW w \in Worker, SaveFailed(w) PROVE ResultInv'
  <2>1. StaysDelivered
    BY <1>11, DeliveriesStay DEF SaveFailed
  <2>2. SettlesNothing
    BY <1>11, BillingSettlesNothing DEF SaveFailed, Finish
  <2>. QED  BY <1>11, <2>1, <2>2, GotoHasSeen, ReturnHasSeen DEF SaveFailed, Finish
<1>12. ASSUME NEW w \in Worker, SettleSuccess(w) PROVE ResultInv'
  <2>1. StaysDelivered /\ Delivered'
    BY <1>12, DeliveriesStay DEF SettleSuccess, StaysDelivered
  <2>2. SettlesNothing
    BY <2>1, BillingSettlesNothing
  <2>. QED  BY <1>12, <2>1, <2>2, GotoHasSeen, ReturnHasSeen DEF SettleSuccess
<1>13. ASSUME NEW a \in Actor, RefundRun(a) PROVE ResultInv'
  <2>1. StaysDelivered
    BY <1>13, DeliveriesStay DEF RefundRun
  <2>2. SettlesNothing
    BY <1>13, BillingSettlesNothing DEF RefundRun
  <2>. QED  BY <1>13, <2>1, <2>2, GotoHasSeen, ReturnHasSeen DEF RefundRun
<1>14. ASSUME NEW a \in Actor, MarkRunUncertain(a) PROVE ResultInv'
  <2>1. StaysDelivered
    BY <1>14, DeliveriesStay DEF MarkRunUncertain
  <2>2. SettlesNothing
    BY <1>14, BillingSettlesNothing DEF MarkRunUncertain
  <2>. QED  BY <1>14, <2>1, <2>2, GotoHasSeen, ReturnHasSeen DEF MarkRunUncertain
<1>15. ASSUME NEW a \in Actor, GiveUp(a) PROVE ResultInv'
  <2>1. StaysDelivered
    BY <1>15, DeliveriesStay DEF GiveUp
  <2>2. SettlesNothing
    BY <1>15, BillingSettlesNothing DEF GiveUp
  <2>. QED  BY <1>15, <2>1, <2>2, GotoHasSeen, ReturnHasSeen DEF GiveUp
<1>16. ASSUME NEW a \in Actor, CloseCancellation(a) PROVE ResultInv'
  <2>1. StaysDelivered
    BY <1>16, DeliveriesStay DEF CloseCancellation
  <2>2. SettlesNothing
    BY <1>16, BillingSettlesNothing DEF CloseCancellation
  <2>. QED  BY <1>16, <2>1, <2>2, GotoHasSeen, ReturnHasSeen DEF CloseCancellation
<1>17. ASSUME NEW a \in Actor, Crash(a) PROVE ResultInv'
  <2>1. StaysDelivered
    BY <1>17, DeliveriesStay DEF Crash
  <2>2. SettlesNothing
    BY <1>17, BillingSettlesNothing DEF Crash
  <2>. QED  BY <1>17, <2>1, <2>2, GotoHasSeen, ReturnHasSeen DEF Crash
<1>18. ASSUME NEW c \in Client, CancelIfStatus(c) PROVE ResultInv'
  <2>1. StaysDelivered
    BY <1>18, DeliveriesStay DEF CancelIfStatus
  <2>2. SettlesNothing
    BY <1>18, BillingSettlesNothing DEF CancelIfStatus
  <2>. QED  BY <1>18, <2>1, <2>2, GotoHasSeen, ReturnHasSeen DEF CancelIfStatus
<1>19. ASSUME NEW c \in Client, RequestCancellation(c) PROVE ResultInv'
  <2>1. StaysDelivered
    BY <1>19, DeliveriesStay DEF RequestCancellation
  <2>2. SettlesNothing
    BY <1>19, BillingSettlesNothing DEF RequestCancellation
  <2>. QED  BY <1>19, <2>1, <2>2, GotoHasSeen, ReturnHasSeen DEF RequestCancellation
<1>20. ASSUME NEW c \in Client, ClaimCancellation(c) PROVE ResultInv'
  <2>1. StaysDelivered
    BY <1>20, DeliveriesStay DEF ClaimCancellation
  <2>2. SettlesNothing
    BY <1>20, BillingSettlesNothing DEF ClaimCancellation
  <2>. QED  BY <1>20, <2>1, <2>2, GotoHasSeen, ReturnHasSeen DEF ClaimCancellation
<1>21. ASSUME NEW c \in Client, RefundBridge(c) PROVE ResultInv'
  <2>1. StaysDelivered
    BY <1>21, DeliveriesStay DEF RefundBridge
  <2>2. SettlesNothing
    BY <1>21, BillingSettlesNothing DEF RefundBridge
  <2>. QED  BY <1>21, <2>1, <2>2, GotoHasSeen, ReturnHasSeen DEF RefundBridge
<1>22. ASSUME NEW c \in Client, Restate(c) PROVE ResultInv'
  <2>1. StaysDelivered
    BY <1>22, DeliveriesStay DEF Restate
  <2>2. SettlesNothing
    BY <1>22, BillingSettlesNothing DEF Restate
  <2>. QED  BY <1>22, <2>1, <2>2, GotoHasSeen, ReturnHasSeen DEF Restate
<1>23. ASSUME NEW c \in Client, ClaimRecovery(c) PROVE ResultInv'
  <2>1. StaysDelivered
    BY <1>23, DeliveriesStay DEF ClaimRecovery
  <2>2. SettlesNothing
    BY <1>23, BillingSettlesNothing DEF ClaimRecovery
  <2>. QED  BY <1>23, <2>1, <2>2, GotoHasSeen, ReturnHasSeen DEF ClaimRecovery
<1>24. ASSUME NEW c \in Client, SaveRecovery(c) PROVE ResultInv'
  <2>1. StaysDelivered
    BY <1>24, DeliveriesStay DEF SaveRecovery
  <2>2. SettlesNothing
    BY <1>24, BillingSettlesNothing DEF SaveRecovery
  <2>. QED  BY <1>24, <2>1, <2>2, GotoHasSeen, ReturnHasSeen DEF SaveRecovery
<1>25. ASSUME NEW c \in Client, ReleaseRecovery(c) PROVE ResultInv'
  <2>1. StaysDelivered
    BY <1>25, DeliveriesStay DEF ReleaseRecovery
  <2>2. SettlesNothing
    BY <1>25, BillingSettlesNothing DEF ReleaseRecovery
  <2>. QED  BY <1>25, <2>1, <2>2, GotoHasSeen, ReturnHasSeen DEF ReleaseRecovery
<1>26. ASSUME NEW c \in Client, ChargeRecovery(c) PROVE ResultInv'
  <2>1. StaysDelivered /\ Delivered'
    BY <1>26, DeliveriesStay DEF ChargeRecovery, StaysDelivered
  <2>2. SettlesNothing
    BY <2>1, BillingSettlesNothing
  <2>. QED  BY <1>26, <2>1, <2>2, GotoHasSeen, ReturnHasSeen DEF ChargeRecovery
<1>27. ASSUME NEW x \in Reconciler, Reschedule(x) PROVE ResultInv'
  <2>1. StaysDelivered
    BY <1>27, DeliveriesStay DEF Reschedule
  <2>2. SettlesNothing
    BY <1>27, BillingSettlesNothing DEF Reschedule
  <2>. QED  BY <1>27, <2>1, <2>2, GotoHasSeen, ReturnHasSeen DEF Reschedule
<1>28. ASSUME NEW x \in Reconciler, RefundCancelled(x) PROVE ResultInv'
  <2>1. StaysDelivered
    BY <1>28, DeliveriesStay DEF RefundCancelled
  <2>2. SettlesNothing
    BY <1>28, BillingSettlesNothing DEF RefundCancelled
  <2>. QED  BY <1>28, <2>1, <2>2, GotoHasSeen, ReturnHasSeen DEF RefundCancelled
<1>29. ASSUME NEW x \in Reconciler, ChargeFinished(x) PROVE ResultInv'
  <2>1. StaysDelivered /\ Delivered'
    BY <1>29, DeliveriesStay DEF ChargeFinished, StaysDelivered
  <2>2. SettlesNothing
    BY <2>1, BillingSettlesNothing
  <2>. QED  BY <1>29, <2>1, <2>2, GotoHasSeen, ReturnHasSeen DEF ChargeFinished
<1>30. ASSUME NEW w \in Worker, Claim(w) PROVE ResultInv'
  <2>1. StaysDelivered /\ SettlesNothing
    BY <1>30, DeliveriesStay, BillingSettlesNothing DEF Claim
  <2>2. Moved(w, "claimed")
    BY <1>30, Begins
  <2>. QED  BY <2>1, <2>2, MoveHasSeen
<1>31. ASSUME NEW c \in Client, Cancel(c) PROVE ResultInv'
  <2>1. StaysDelivered /\ SettlesNothing
    BY <1>31, DeliveriesStay, BillingSettlesNothing DEF Cancel
  <2>2. Moved(c, "cancel")
    BY <1>31, Begins
  <2>. QED  BY <2>1, <2>2, MoveHasSeen
<1>32. ASSUME NEW c \in Client, Recover(c) PROVE ResultInv'
  <2>1. StaysDelivered /\ SettlesNothing
    BY <1>32, DeliveriesStay, BillingSettlesNothing DEF Recover
  <2>2. Moved(c, "restate")
    BY <1>32, Begins
  <2>. QED  BY <2>1, <2>2, MoveHasSeen
<1>33. ASSUME NEW c \in Client, Retry(c) PROVE ResultInv'
  <2>1. StaysDelivered /\ SettlesNothing
    BY <1>33, DeliveriesStay, BillingSettlesNothing DEF Retry
  <2>2. Moved(c, "retry")
    BY <1>33, Begins
  <2>. QED  BY <2>1, <2>2, MoveHasSeen
<1>34. ASSUME NEW x \in Reconciler, ClaimReconciliation(x) PROVE ResultInv'
  <2>1. StaysDelivered /\ SettlesNothing
    BY <1>34, DeliveriesStay, BillingSettlesNothing DEF ClaimReconciliation
  <2>2. Moved(x, "check")
    BY <1>34, Begins
  <2>. QED  BY <2>1, <2>2, MoveHasSeen
<1>35. ASSUME NEW w \in Worker, LogAttempt(w) PROVE ResultInv'
  <2>1. StaysDelivered
    BY <1>35, DeliveriesStay DEF LogAttempt
  <2>2. SettlesNothing
    BY <1>35, CallsSettleNothing DEF LogAttempt
  <2>. QED  BY <1>35, <2>1, <2>2, GotoHasSeen DEF LogAttempt
<1>36. ASSUME NEW w \in Worker, Submit(w) PROVE ResultInv'
  <2>1. StaysDelivered
    BY <1>36, DeliveriesStay DEF Submit
  <2>2. SettlesNothing
    BY <1>36, CallsSettleNothing DEF Submit
  <2>3. CASE \E why : Leaves(w, "error", why)
    BY <2>1, <2>2, <2>3, GotoHasSeen
  <2>4. CASE Leaves(w, "result", "") /\ NewJob(w, "succeeded")
    BY <2>1, <2>2, <2>4, DeliveriesStay, GotoHasSeen
  <2>5. CASE at' = [at EXCEPT ![w].pc = "sent", ![w].req = Len(jobs) + 1]
    <3>1. Moved(w, "sent")
      BY <2>5 DEF TypeInv, TypeOK, Moved, Local
    <3>. QED  BY <2>1, <2>2, <3>1, MoveHasSeen
  <2>. QED  BY <1>36, <2>3, <2>4, <2>5 DEF Submit
<1>37. ASSUME NEW w \in Worker, Record(w) PROVE ResultInv'
  <2>1. StaysDelivered
    BY <1>37, DeliveriesStay DEF Record
  <2>2. SettlesNothing
    <3>1. CASE LogCreate(w, at[w].req, "succeeded", TRUE)
      BY <3>1, CallsSettleNothing
    <3>2. CASE order' = order
      BY <3>2, BillingSettlesNothing
    <3>. QED  BY <1>37, <3>1, <3>2 DEF Record
  <2>. QED  BY <1>37, <2>1, <2>2, GotoHasSeen DEF Record
<1>38. ASSUME NEW w \in Worker, Poll(w) PROVE ResultInv'
  <2>1. StaysDelivered
    BY <1>38, DeliveriesStay DEF Poll
  <2>2. SettlesNothing
    BY <1>38, CallsSettleNothing DEF Poll
  <2>3. CASE at' = at
    BY <2>1, <2>2, <2>3, StillHasSeen
  <2>4. CASE \E why : Leaves(w, "error", why)
    BY <2>1, <2>2, <2>4, GotoHasSeen
  <2>5. CASE Leaves(w, "result", "") /\ jobs[at[w].req].state = "succeeded"
    <3>1. Delivered'
      BY <1>38, <2>1, <2>5 DEF Poll, Asking, Delivered, StaysDelivered
    <3>. QED  BY <2>1, <2>2, <2>5, <3>1, GotoHasSeen
  <2>. QED  BY <1>38, <2>3, <2>4, <2>5 DEF Poll
<1>39. ASSUME NEW w \in Worker, Killed(w) PROVE ResultInv'
  <2>1. StaysDelivered
    BY <1>39, DeliveriesStay DEF Killed
  <2>2. SettlesNothing
    BY <1>39, CallsSettleNothing DEF Killed
  <2>. QED  BY <1>39, <2>1, <2>2, GotoHasSeen DEF Killed
<1>40. ASSUME NEW w \in Worker, LoseLease(w) PROVE ResultInv'
  <2>1. StaysDelivered
    BY <1>40, DeliveriesStay DEF LoseLease
  <2>2. SettlesNothing
    BY <1>40, CallsSettleNothing DEF LoseLease
  <2>. QED  BY <1>40, <2>1, <2>2, ReturnHasSeen DEF LoseLease
<1>41. ASSUME NEW c \in Client, Interrupt(c) PROVE ResultInv'
  <2>1. StaysDelivered /\ SettlesNothing
    BY <1>41, DeliveriesStay, BillingSettlesNothing DEF Interrupt
  <2>2. AfterInterrupt(c) \notin WithResult
    BY DEF AfterInterrupt
  <2>. QED  BY <1>41, <2>1, <2>2, InterruptMoves, MoveHasSeen
<1>42. ASSUME NEW c \in Client, CallCancel(c) PROVE ResultInv'
  <2>1. StaysDelivered
    BY <1>42, DeliveriesStay DEF CallCancel
  <2>2. SettlesNothing
    BY <1>42, CallsSettleNothing DEF CallCancel
  <2>. QED  BY <1>42, <2>1, <2>2, GotoHasSeen, ReturnHasSeen DEF CallCancel
<1>43. ASSUME NEW c \in Client, WithdrawBridge(c) PROVE ResultInv'
  <2>1. StaysDelivered
    BY <1>43, DeliveriesStay DEF WithdrawBridge
  <2>2. SettlesNothing
    BY <1>43, CallsSettleNothing DEF WithdrawBridge
  <2>. QED  BY <1>43, <2>1, <2>2, GotoHasSeen DEF WithdrawBridge
<1>44. ASSUME NEW c \in Client, QueryRecovery(c) PROVE ResultInv'
  <2>1. StaysDelivered
    BY <1>44, DeliveriesStay DEF QueryRecovery
  <2>2. SettlesNothing
    BY <1>44, CallsSettleNothing DEF QueryRecovery
  <2>3. CASE \E pc \in {"release"} : Goto(c, pc)
    BY <2>1, <2>2, <2>3, GotoHasSeen
  <2>4. CASE jobs[at[c].req].state = "succeeded" /\ Goto(c, "recover")
    <3>1. Delivered'
      BY <1>44, <2>1, <2>4 DEF QueryRecovery, Asking, Delivered, StaysDelivered
    <3>. QED  BY <2>1, <2>2, <2>4, <3>1, GotoHasSeen
  <2>. QED  BY <1>44, <2>3, <2>4 DEF QueryRecovery
<1>45. ASSUME NEW x \in Reconciler, CheckJob(x) PROVE ResultInv'
  <2>1. StaysDelivered
    BY <1>45, DeliveriesStay DEF CheckJob
  <2>2. SettlesNothing
    BY <1>45, CallsSettleNothing DEF CheckJob
  <2>3. CASE \E pc \in {"giveUp", "later", "confirm", "follow"} : Goto(x, pc)
    BY <2>1, <2>2, <2>3, GotoHasSeen
  <2>4. CASE at[x].req # NoJob /\ jobs[at[x].req].state = "succeeded" /\ Goto(x, "charge")
    <3>1. Delivered'
      BY <1>45, <2>1, <2>4 DEF CheckJob, Asking, Delivered, StaysDelivered
    <3>. QED  BY <2>1, <2>2, <2>4, <3>1, GotoHasSeen
  <2>. QED  BY <1>45, <2>3, <2>4 DEF CheckJob
<1>46. ASSUME NEW c \in Client, RetryWrite(c) PROVE ResultInv'
  <2>1. StaysDelivered
    BY <1>46, DeliveriesStay DEF RetryWrite
  <2>2. SettlesNothing
    <3>1. RetryTaskWithBilling => SettlesNothing
      BY DEF RetryTaskWithBilling, SettlesNothing, TypeInv, TypeOK, StoreTypeOK
    <3>. QED  BY <1>46, <3>1, BillingSettlesNothing DEF RetryWrite
  <2>. QED  BY <1>46, <2>1, <2>2, ReturnHasSeen DEF RetryWrite
<1>47. ASSUME SupplierStep PROVE ResultInv'
  <2>1. StaysDelivered
    BY <1>47, DeliveriesStay DEF SupplierStep, JobStarts, JobEnds
  <2>. QED  BY <1>47, <2>1, StillHasSeen, BillingSettlesNothing DEF SupplierStep
<1>48. ASSUME Expire PROVE ResultInv'
  BY <1>48, StillHasSeen, DeliveriesStay, BillingSettlesNothing DEF Expire
<1>49. CASE UNCHANGED vars
  BY <1>49, StillHasSeen, DeliveriesStay, BillingSettlesNothing DEF vars
<1>. QED
  BY <1>1, <1>2, <1>3, <1>4, <1>5, <1>6, <1>7, <1>8, <1>9, <1>10, <1>11, <1>12, <1>13,
     <1>14, <1>15, <1>16, <1>17, <1>18, <1>19, <1>20, <1>21, <1>22, <1>23, <1>24, <1>25,
     <1>26, <1>27, <1>28, <1>29, <1>30, <1>31, <1>32, <1>33, <1>34, <1>35, <1>36, <1>37,
     <1>38, <1>39, <1>40, <1>41, <1>42, <1>43, <1>44, <1>45, <1>46, <1>47, <1>48, <1>49
     DEF Next, WorkerStep, ClientStep, ReconcilerStep, BillingStep, Request
-----------------------------------------------------------------------------
(* Who refunds, and what a confirmed cancellation rests on.                *)

\* Where an actor is on its way to a refund.
Refunding == Closing \ {"settle", "charge"}
\* No client works on a recovery.
NobodyRecovers == \A c \in Client :
    at[c].pc \notin {"restate", "reclaim", "query", "recover", "charge", "release"}
\* Whoever is about to refund does so for another run than the one that succeeded.
RefundersAreOut ==
    row.status = "succeeded" => \A a \in Actor : at[a].pc \in Refunding => at[a].run # row.run
\* Whoever is about to confirm a cancellation has refunded its order.
CancellationInv == /\ order[1] # "none"
                   /\ \A a \in Actor : at[a].pc = "confirmed" => order[1] = "refunded"
                   /\ row.cancel = "confirmed" => order[1] = "refunded"
OutcomeInv == /\ NobodyRecovers /\ RefundersAreOut /\ DeliveredRunIsNotRefunded
              /\ OneRun => CancellationInv

\* What a step may not do to the row, unless it saves a result ...
RowQuiet == /\ row'.run = row.run
            /\ row'.status = "succeeded" => row.status = "succeeded"
            /\ row'.cancel = "confirmed" =>
                  row.cancel = "confirmed" \/ (OneRun => order[1] = "refunded")
\* ... and to the orders: no refund is taken back, no delivered run is refunded.
OrdersQuiet ==
    /\ \A r \in Run : /\ order[r] = "refunded" => order'[r] = "refunded"
                      /\ order[r] # "none" => order'[r] # "none"
    /\ row.status = "succeeded" /\ order'[row.run] = "refunded" => order[row.run] = "refunded"

\* The statements on the row.
LEMMA RowIsQuiet ==
    ASSUME TypeInv
    PROVE  /\ row' = row => RowQuiet
           /\ \A status : status # "succeeded" /\ Leave(status) => RowQuiet
           /\ \A j : UpdateTaskProviderState(j) => RowQuiet
           /\ \A status : status # "confirmed" /\ UpdateTaskProviderCancellation(status) => RowQuiet
           /\ ClaimTaskProviderCancellation => RowQuiet
           /\ \A w : ReleaseTaskLease(w) => RowQuiet
           /\ \A w : ClaimNextTask(w) => RowQuiet
           /\ \A x : ClaimNextTaskProviderCancellation(x) => RowQuiet
<1>1. row \in Task
  BY DEF TypeInv, TypeOK, StoreTypeOK
<1>2. row' = row => RowQuiet
  BY DEF RowQuiet
<1>6. \A status : status # "succeeded" /\ Leave(status) => RowQuiet
  BY <1>1 DEF Task, RowQuiet, Leave
<1>7. ASSUME NEW j, UpdateTaskProviderState(j) PROVE RowQuiet
  <2>1. /\ row'.run = row.run /\ row'.status = row.status /\ row'.cancel = row.cancel
    BY <1>1, <1>7 DEF Task, UpdateTaskProviderState
  <2>. QED  BY <2>1 DEF RowQuiet
<1>8. ClaimTaskProviderCancellation => RowQuiet
  BY <1>1 DEF Task, RowQuiet, ClaimTaskProviderCancellation
<1>3. \A status : status # "confirmed" /\ UpdateTaskProviderCancellation(status) => RowQuiet
  BY <1>1 DEF Task, RowQuiet, UpdateTaskProviderCancellation
<1>4. /\ \A w : ReleaseTaskLease(w) => RowQuiet
      /\ \A w : ClaimNextTask(w) => RowQuiet
  BY <1>1 DEF Task, RowQuiet, ReleaseTaskLease, ClaimNextTask
<1>5. ASSUME NEW x, ClaimNextTaskProviderCancellation(x) PROVE RowQuiet
  <2>1. /\ row'.run = row.run /\ row'.status = row.status /\ row'.cancel = row.cancel
    BY <1>1, <1>5 DEF Task, ClaimNextTaskProviderCancellation
  <2>. QED  BY <2>1 DEF RowQuiet
<1>. QED  BY <1>2, <1>3, <1>4, <1>5, <1>6, <1>7, <1>8

\* The billing calls.
LEMMA OrdersAreQuiet ==
    ASSUME TypeInv, RefundersAreOut
    PROVE  /\ order' = order => OrdersQuiet
           /\ \A r : order' = MarkedUncertain(r) => OrdersQuiet
           /\ \A r : order[r] \in {"reserved", "running"} /\ order' = MarkedRunning(r) => OrdersQuiet
           /\ \A r : order' = Settled(r) => OrdersQuiet
           /\ \A a \in Actor : at[a].pc \in Refunding /\ order' = Refunded(at[a].run) => OrdersQuiet
<1>1. order \in [Run -> OrderStatus] /\ row.run \in Run
  BY DEF TypeInv, TypeOK, StoreTypeOK, Task
<1>2. /\ order' = order => OrdersQuiet
      /\ \A r : order' = MarkedUncertain(r) => OrdersQuiet
      /\ \A r : order' = Settled(r) => OrdersQuiet
  BY <1>1 DEF OrdersQuiet, MarkedUncertain, Settled, Open
<1>3. ASSUME NEW r, order[r] \in {"reserved", "running"}, order' = MarkedRunning(r)
      PROVE  OrdersQuiet
  BY <1>1, <1>3 DEF OrdersQuiet, MarkedRunning
<1>4. ASSUME NEW a \in Actor, at[a].pc \in Refunding, order' = Refunded(at[a].run)
      PROVE  OrdersQuiet
  <2>1. row.status = "succeeded" => at[a].run # row.run
    BY <1>4 DEF RefundersAreOut
  <2>2. \A r \in Run : /\ order[r] = "refunded" => order'[r] = "refunded"
                       /\ order[r] # "none" => order'[r] # "none"
    BY <1>1, <1>4 DEF Refunded
  <2>3. row.status = "succeeded" => order'[row.run] = order[row.run]
    BY <1>1, <1>4, <2>1 DEF Refunded
  <2>. QED  BY <2>2, <2>3 DEF OrdersQuiet
<1>. QED  BY <1>2, <1>3, <1>4

\* What is recorded of a call to the supplier.
LEMMA CallsAreQuiet ==
    ASSUME TypeInv, RefundersAreOut, NEW a
    PROVE  /\ UNCHANGED Books => RowQuiet /\ OrdersQuiet
           /\ \A j, status, review : LogCreate(a, j, status, review) => RowQuiet /\ OrdersQuiet
           /\ \A ok, review : LogPoll(a, ok, review) => RowQuiet /\ OrdersQuiet
           /\ LogCancellation(a) => RowQuiet /\ OrdersQuiet
           /\ \A ok : Polled(a, ok) => RowQuiet /\ OrdersQuiet
           /\ \A review : Interrupted(a, review) => RowQuiet /\ OrdersQuiet
<1>1. UNCHANGED Books => RowQuiet /\ OrdersQuiet
  BY RowIsQuiet, OrdersAreQuiet DEF Books
<1>2. ASSUME NEW r, NEW j, NEW entry, NEW review, LogAPICall(r, j, entry, review)
      PROVE  RowQuiet /\ OrdersQuiet
  BY <1>2, RowIsQuiet, OrdersAreQuiet DEF LogAPICall
<1>3. ASSUME NEW ok, Polled(a, ok) PROVE RowQuiet /\ OrdersQuiet
  BY <1>2, <1>3, RowIsQuiet, OrdersAreQuiet DEF Polled, LogPoll
<1>. QED
  BY <1>1, <1>2, <1>3 DEF LogCreate, LogPoll, LogCancellation, Interrupted

\* Where an actor may go: to a refund only when the run is over without a result,
\* to a confirmation only when the order is refunded, to a recovery never.
MayBe(a, pc) ==
    /\ pc \in Refunding => \/ row'.status # "succeeded"
                           \/ at[a].pc \in Refunding /\ at'[a].run = at[a].run
    /\ pc = "confirmed" /\ OneRun => order'[1] = "refunded"
    /\ a \in Client => pc \notin {"restate", "reclaim", "query", "recover", "charge", "release"}

\* Then the invariant is kept.
LEMMA MoveAccounts ==
    ASSUME TypeInv, OutcomeInv, RowQuiet, OrdersQuiet, NEW a \in Actor, NEW pc, Moved(a, pc),
           MayBe(a, pc)
    PROVE  OutcomeInv'
<1>0. row.run \in Run /\ Client \subseteq Actor
  BY DEF TypeInv, TypeOK, StoreTypeOK, Task, Actor
<1>1. NobodyRecovers'
  BY <1>0 DEF OutcomeInv, NobodyRecovers, Moved, MayBe
<1>2. RefundersAreOut'
  BY DEF OutcomeInv, RefundersAreOut, Moved, MayBe, RowQuiet
<1>3. DeliveredRunIsNotRefunded'
  BY DEF OutcomeInv, DeliveredRunIsNotRefunded, RowQuiet, OrdersQuiet
<1>4. ASSUME OneRun PROVE CancellationInv'
  <2>1. 1 \in Run
    BY <1>4 DEF OneRun, Run
  <2>2. CancellationInv
    BY <1>4 DEF OutcomeInv
  <2>. QED  BY <1>4, <2>1, <2>2 DEF CancellationInv, Moved, MayBe, RowQuiet, OrdersQuiet
<1>. QED  BY <1>1, <1>2, <1>3, <1>4 DEF OutcomeInv, OneRun

\* In particular by the ways to move on.
LEMMA GotoAccounts ==
    ASSUME TypeInv, OutcomeInv, RowQuiet, OrdersQuiet, NEW a \in Actor, NEW pc,
           Goto(a, pc) \/ \E why : GotoFor(a, pc, why) \/ Leaves(a, pc, why),
           pc \in Refunding => row'.status # "succeeded" \/ at[a].pc \in Refunding,
           pc = "confirmed" /\ OneRun => order'[1] = "refunded",
           a \in Client =>
               pc \notin {"restate", "reclaim", "query", "recover", "charge", "release"}
    PROVE  OutcomeInv'
<1>1. Moved(a, pc) /\ at'[a].run = at[a].run
  BY Moves
<1>2. MayBe(a, pc)
  BY <1>1 DEF MayBe
<1>. QED  BY <1>1, <1>2, MoveAccounts

\* An actor that returns refunds and confirms nothing.
LEMMA ReturnAccounts ==
    ASSUME TypeInv, OutcomeInv, RowQuiet, OrdersQuiet, NEW a \in Actor, Return(a)
    PROVE  OutcomeInv'
<1>1. Moved(a, "idle") /\ MayBe(a, "idle")
  BY Moves DEF MayBe, Refunding, Closing
<1>. QED  BY <1>1, MoveAccounts

\* Nor does anybody when nobody moves.
LEMMA StillAccounts ==
    ASSUME TypeInv, OutcomeInv, RowQuiet, OrdersQuiet, at' = at
    PROVE  OutcomeInv'
<1>1. NobodyRecovers' /\ RefundersAreOut'
  BY DEF OutcomeInv, NobodyRecovers, RefundersAreOut, RowQuiet
<1>2. DeliveredRunIsNotRefunded'
  BY DEF OutcomeInv, DeliveredRunIsNotRefunded, RowQuiet, OrdersQuiet, TypeInv, TypeOK,
     StoreTypeOK, Task
<1>3. ASSUME OneRun PROVE CancellationInv'
  <2>1. 1 \in Run /\ CancellationInv
    BY <1>3 DEF OneRun, Run, OutcomeInv
  <2>. QED  BY <1>3, <2>1 DEF CancellationInv, RowQuiet, OrdersQuiet
<1>. QED  BY <1>1, <1>2, <1>3 DEF OutcomeInv, OneRun

\* A refund before a confirmation: the order was open or refunded.
LEMMA RefundIsMade ==
    ASSUME TypeInv, OutcomeInv, OneRun, NEW a \in Actor, ~At(a, "idle"),
           order' = Refunded(at[a].run), order[at[a].run] # "settled"
    PROVE  order'[1] = "refunded"
<1>1. order \in [Run -> OrderStatus] /\ at[a].run \in Run /\ Run = {1}
  BY DEF TypeInv, TypeOK, StoreTypeOK, Remembers, At, OneRun, Run
<1>2. order[1] \in OrderStatus \ {"none", "settled"} /\ at[a].run = 1
  BY <1>1 DEF OutcomeInv, CancellationInv
<1>. QED  BY <1>1, <1>2 DEF Refunded, OrderStatus, Open

\* Every step keeps it.
LEMMA OutcomeStep ==
    ASSUME NoRecovery, TypeInv, ReservationInv, OutcomeInv, [Next]_vars
    PROVE  OutcomeInv'
<1>0. /\ Worker \subseteq Actor /\ Client \subseteq Actor /\ Reconciler \subseteq Actor
      /\ Client \cap Worker = {} /\ Client \cap Reconciler = {}
      /\ RefundersAreOut /\ NobodyRecovers
  BY StoreAssumption DEF Actor, OutcomeInv
<1> USE <1>0 DEF rows, Orders, Supplier, Time, Books, At, Refunding, Closing, Bill
<1>1. ASSUME NEW w \in Worker, Prepare(w) PROVE OutcomeInv'
  <2>1. RowQuiet
    BY <1>1, RowIsQuiet DEF Prepare
  <2>2. OrdersQuiet
    BY <1>1, OrdersAreQuiet DEF Prepare
  <2>. QED  BY <1>1, <2>1, <2>2, GotoAccounts, ReturnAccounts DEF Prepare
<1>2. ASSUME NEW w \in Worker, MarkBillingRunning(w) PROVE OutcomeInv'
  <2>1. RowQuiet
    BY <1>2, RowIsQuiet DEF MarkBillingRunning
  <2>2. OrdersQuiet
    BY <1>2, OrdersAreQuiet DEF MarkBillingRunning
  <2>. QED  BY <1>2, <2>1, <2>2, GotoAccounts, ReturnAccounts DEF MarkBillingRunning
<1>3. ASSUME NEW w \in Worker, Resume(w) PROVE OutcomeInv'
  <2>1. RowQuiet
    BY <1>3, RowIsQuiet DEF Resume
  <2>2. OrdersQuiet
    BY <1>3, OrdersAreQuiet DEF Resume
  <2>. QED  BY <1>3, <2>1, <2>2, GotoAccounts, ReturnAccounts DEF Resume
<1>4. ASSUME NEW w \in Worker, Defer(w) PROVE OutcomeInv'
  <2>1. RowQuiet
    BY <1>4, RowIsQuiet DEF Defer
  <2>2. OrdersQuiet
    BY <1>4, OrdersAreQuiet DEF Defer
  <2>. QED  BY <1>4, <2>1, <2>2, GotoAccounts, ReturnAccounts DEF Defer
<1>5. ASSUME NEW w \in Worker, BillFailure(w) PROVE OutcomeInv'
  <2>1. RowQuiet
    BY <1>5, RowIsQuiet DEF BillFailure
  <2>2. OrdersQuiet
    BY <1>5, OrdersAreQuiet DEF BillFailure
  <2>. QED  BY <1>5, <2>1, <2>2, GotoAccounts, ReturnAccounts DEF BillFailure
<1>6. ASSUME NEW w \in Worker, SettleSuccess(w) PROVE OutcomeInv'
  <2>1. RowQuiet
    BY <1>6, RowIsQuiet DEF SettleSuccess
  <2>2. OrdersQuiet
    BY <1>6, OrdersAreQuiet DEF SettleSuccess
  <2>. QED  BY <1>6, <2>1, <2>2, GotoAccounts, ReturnAccounts DEF SettleSuccess
<1>7. ASSUME NEW w \in Worker, Drain(w) PROVE OutcomeInv'
  <2>1. RowQuiet
    BY <1>7, RowIsQuiet DEF Drain
  <2>2. OrdersQuiet
    BY <1>7, OrdersAreQuiet DEF Drain
  <2>. QED  BY <1>7, <2>1, <2>2, GotoAccounts, ReturnAccounts DEF Drain
<1>8. ASSUME NEW w \in Worker, Fail(w) PROVE OutcomeInv'
  <2>1. RowQuiet
    BY <1>8, RowIsQuiet DEF Fail, Finish
  <2>2. OrdersQuiet
    BY <1>8, OrdersAreQuiet DEF Fail, Finish
  <2>. QED  BY <1>8, <2>1, <2>2, RowEnds, GotoAccounts, ReturnAccounts DEF Fail, Finish
<1>9. ASSUME NEW w \in Worker, Stopped(w) PROVE OutcomeInv'
  <2>1. RowQuiet
    BY <1>9, RowIsQuiet DEF Stopped, Finish
  <2>2. OrdersQuiet
    BY <1>9, OrdersAreQuiet DEF Stopped, Finish
  <2>. QED  BY <1>9, <2>1, <2>2, RowEnds, GotoAccounts, ReturnAccounts DEF Stopped, Finish
<1>10. ASSUME NEW w \in Worker, CheckResult(w) PROVE OutcomeInv'
  <2>1. RowQuiet /\ OrdersQuiet
    BY <1>10, RowIsQuiet, OrdersAreQuiet DEF CheckResult
  <2>2. CASE GotoLatest(w, "uncertain")
    <3>1. Moved(w, "uncertain") /\ MayBe(w, "uncertain")
      BY <2>2, Moves DEF MayBe
    <3>. QED  BY <2>1, <3>1, MoveAccounts
  <2>3. CASE GotoFor(w, "error", "local") \/ Goto(w, "save")
    BY <2>1, <2>3, GotoAccounts
  <2>. QED  BY <1>10, <2>2, <2>3 DEF CheckResult
<1>11. ASSUME NEW w \in Worker, SaveFailed(w) PROVE OutcomeInv'
  <2>1. RowQuiet /\ OrdersQuiet
    BY <1>11, RowIsQuiet, OrdersAreQuiet DEF SaveFailed, Finish
  <2>2. CASE GotoLatest(w, "uncertain")
    <3>1. Moved(w, "uncertain") /\ MayBe(w, "uncertain")
      BY <2>2, Moves DEF MayBe
    <3>. QED  BY <2>1, <3>1, MoveAccounts
  <2>3. CASE Goto(w, "uncertain") \/ Return(w)
    BY <2>1, <2>3, GotoAccounts, ReturnAccounts
  <2>. QED  BY <1>11, <2>2, <2>3 DEF SaveFailed, Finish
<1>12. ASSUME NEW w \in Worker, Save(w) PROVE OutcomeInv'
  <2>1. CASE /\ Holds(w, "running") /\ SaveTaskCompletion(at[w].run, at[w].req)
             /\ Goto(w, "settle") /\ order' = order
    <3>1. /\ row.status = "running" /\ row.owner = w /\ row.run \in Run
          /\ row \in Task /\ order[row.run] \in Open
      BY <2>1 DEF Holds, TypeInv, TypeOK, StoreTypeOK, Task, ReservationInv,
         LiveRunHoldsItsReservation, Live
    <3>2. at[w].run = row.run
      BY <1>12, <3>1 DEF Save, ReservationInv, HolderIsCurrent
    <3>3. row'.run = row.run /\ row'.cancel = row.cancel
      BY <2>1, <3>1, <3>2 DEF SaveTaskCompletion, Task
    <3>4. Moved(w, "settle")
      BY <2>1, Moves
    <3>5. NobodyRecovers'
      BY <3>4 DEF NobodyRecovers, Moved
    <3>6. RefundersAreOut'
      <4>1. \A a \in Actor : at[a].pc \in Refunding => at[a].run # row.run
        BY <3>1 DEF ReservationInv, ClosersAreLate, Ended, Live
      <4>. QED  BY <3>3, <3>4, <4>1 DEF RefundersAreOut, Moved
    <3>7. DeliveredRunIsNotRefunded'
      BY <2>1, <3>1, <3>3 DEF DeliveredRunIsNotRefunded, Open
    <3>8. OneRun => CancellationInv'
      BY <2>1, <3>3, <3>4 DEF OutcomeInv, CancellationInv, Moved
    <3>. QED  BY <3>5, <3>6, <3>7, <3>8 DEF OutcomeInv, OneRun
  <2>2. CASE row' = row /\ order' = order /\ (Goto(w, "conflict") \/ Goto(w, "unsaved"))
    <3>1. RowQuiet /\ OrdersQuiet
      BY <2>2, RowIsQuiet, OrdersAreQuiet
    <3>. QED  BY <2>2, <3>1, GotoAccounts
  <2>. QED  BY <1>12, <2>1, <2>2 DEF Save
<1>13. ASSUME NEW a \in Actor, RefundRun(a) PROVE OutcomeInv'
  <2>1. RowQuiet
    BY <1>13, RowIsQuiet DEF RefundRun
  <2>2. OrdersQuiet
    BY <1>13, OrdersAreQuiet DEF RefundRun
  <2>. QED  BY <1>13, <2>1, <2>2, GotoAccounts, ReturnAccounts DEF RefundRun
<1>14. ASSUME NEW a \in Actor, MarkRunUncertain(a) PROVE OutcomeInv'
  <2>1. RowQuiet
    BY <1>14, RowIsQuiet DEF MarkRunUncertain
  <2>2. OrdersQuiet
    BY <1>14, OrdersAreQuiet DEF MarkRunUncertain
  <2>. QED  BY <1>14, <2>1, <2>2, GotoAccounts, ReturnAccounts DEF MarkRunUncertain
<1>15. ASSUME NEW a \in Actor, Crash(a) PROVE OutcomeInv'
  <2>1. RowQuiet
    BY <1>15, RowIsQuiet DEF Crash
  <2>2. OrdersQuiet
    BY <1>15, OrdersAreQuiet DEF Crash
  <2>. QED  BY <1>15, <2>1, <2>2, GotoAccounts, ReturnAccounts DEF Crash
<1>16. ASSUME NEW a \in Actor, GiveUp(a) PROVE OutcomeInv'
  <2>1. RowQuiet
    BY <1>16, RowIsQuiet DEF GiveUp
  <2>2. OrdersQuiet
    BY <1>16, OrdersAreQuiet DEF GiveUp
  <2>. QED  BY <1>16, <2>1, <2>2, GotoAccounts, ReturnAccounts DEF GiveUp
<1>17. ASSUME NEW a \in Actor, CloseCancellation(a) PROVE OutcomeInv'
  <2>1. OrdersQuiet
    BY <1>17, OrdersAreQuiet DEF CloseCancellation
  <2>2. RowQuiet
    <3>1. CASE At(a, "confirmed") /\ UpdateTaskProviderCancellation("confirmed")
      <4>1. OneRun => order[1] = "refunded"
        BY <3>1 DEF OutcomeInv, CancellationInv
      <4>2. row'.run = row.run /\ row'.status = row.status
        BY <3>1 DEF UpdateTaskProviderCancellation, TypeInv, TypeOK, StoreTypeOK, Task
      <4>. QED  BY <4>1, <4>2 DEF RowQuiet
    <3>2. CASE row' = row \/ UpdateTaskProviderCancellation("uncertain")
      BY <3>2, RowIsQuiet
    <3>. QED  BY <1>17, <3>1, <3>2 DEF CloseCancellation
  <2>. QED  BY <1>17, <2>1, <2>2, ReturnAccounts DEF CloseCancellation
<1>18. ASSUME NEW c \in Client, CancelIfStatus(c) PROVE OutcomeInv'
  <2>1. RowQuiet
    BY <1>18, RowIsQuiet DEF CancelIfStatus
  <2>2. OrdersQuiet
    BY <1>18, OrdersAreQuiet DEF CancelIfStatus
  <2>. QED  BY <1>18, <2>1, <2>2, RowEnds, GotoAccounts, ReturnAccounts DEF CancelIfStatus
<1>19. ASSUME NEW c \in Client, RequestCancellation(c) PROVE OutcomeInv'
  <2>1. RowQuiet
    BY <1>19, RowIsQuiet DEF RequestCancellation
  <2>2. OrdersQuiet
    BY <1>19, OrdersAreQuiet DEF RequestCancellation
  <2>. QED  BY <1>19, <2>1, <2>2, GotoAccounts, ReturnAccounts DEF RequestCancellation
<1>20. ASSUME NEW c \in Client, ClaimCancellation(c) PROVE OutcomeInv'
  <2>1. RowQuiet
    BY <1>20, RowIsQuiet DEF ClaimCancellation
  <2>2. OrdersQuiet
    BY <1>20, OrdersAreQuiet DEF ClaimCancellation
  <2>. QED  BY <1>20, <2>1, <2>2, GotoAccounts, ReturnAccounts DEF ClaimCancellation
<1>21. ASSUME NEW c \in Client, RefundBridge(c) PROVE OutcomeInv'
  <2>1. RowQuiet /\ OrdersQuiet
    BY <1>21, RowIsQuiet, OrdersAreQuiet DEF RefundBridge
  <2>2. CASE /\ order[at[c].run] # "settled" /\ order' = Refunded(at[c].run)
             /\ Goto(c, "confirmed")
    <3>1. OneRun => order'[1] = "refunded"
      BY <1>21, <2>2, RefundIsMade DEF RefundBridge
    <3>. QED  BY <1>21, <2>1, <2>2, <3>1, GotoAccounts DEF RefundBridge
  <2>3. CASE order' = order /\ Goto(c, "giveUp")
    BY <1>21, <2>1, <2>3, GotoAccounts DEF RefundBridge
  <2>. QED  BY <1>21, <2>2, <2>3 DEF RefundBridge
<1>22. ASSUME NEW c \in Client,
             Restate(c) \/ ClaimRecovery(c) \/ QueryRecovery(c) \/ SaveRecovery(c)
                 \/ ChargeRecovery(c) \/ ReleaseRecovery(c) \/ ("recover" \in ClientOps /\ Recover(c))
      PROVE  OutcomeInv'
  BY <1>22 DEF Restate, ClaimRecovery, QueryRecovery, SaveRecovery, ChargeRecovery,
     ReleaseRecovery, NobodyRecovers, NoRecovery
<1>23. ASSUME NEW x \in Reconciler, Reschedule(x) PROVE OutcomeInv'
  <2>1. RowQuiet
    BY <1>23, RowIsQuiet DEF Reschedule
  <2>2. OrdersQuiet
    BY <1>23, OrdersAreQuiet DEF Reschedule
  <2>. QED  BY <1>23, <2>1, <2>2, GotoAccounts, ReturnAccounts DEF Reschedule
<1>24. ASSUME NEW x \in Reconciler, RefundCancelled(x) PROVE OutcomeInv'
  <2>1. RowQuiet /\ OrdersQuiet
    BY <1>24, RowIsQuiet, OrdersAreQuiet DEF RefundCancelled
  <2>2. CASE /\ order[at[x].run] # "settled" /\ order' = Refunded(at[x].run)
             /\ (Goto(x, "confirmed") \/ Goto(x, "resolved"))
    <3>1. OneRun => order'[1] = "refunded"
      BY <1>24, <2>2, RefundIsMade DEF RefundCancelled
    <3>. QED  BY <1>24, <2>1, <2>2, <3>1, GotoAccounts DEF RefundCancelled
  <2>3. CASE order' = order /\ Goto(x, "later")
    BY <1>24, <2>1, <2>3, GotoAccounts DEF RefundCancelled
  <2>. QED  BY <1>24, <2>2, <2>3 DEF RefundCancelled
<1>25. ASSUME NEW x \in Reconciler, ChargeFinished(x) PROVE OutcomeInv'
  <2>1. RowQuiet
    BY <1>25, RowIsQuiet DEF ChargeFinished
  <2>2. OrdersQuiet
    BY <1>25, OrdersAreQuiet DEF ChargeFinished
  <2>. QED  BY <1>25, <2>1, <2>2, GotoAccounts, ReturnAccounts DEF ChargeFinished
<1>26. ASSUME NEW w \in Worker, Claim(w) PROVE OutcomeInv'
  <2>1. RowQuiet /\ OrdersQuiet
    BY <1>26, RowIsQuiet, OrdersAreQuiet DEF Claim
  <2>2. Moved(w, "claimed") /\ MayBe(w, "claimed")
    BY <1>26, Begins DEF MayBe
  <2>. QED  BY <2>1, <2>2, MoveAccounts
<1>27. ASSUME NEW c \in Client, Cancel(c) PROVE OutcomeInv'
  <2>1. RowQuiet /\ OrdersQuiet
    BY <1>27, RowIsQuiet, OrdersAreQuiet DEF Cancel
  <2>2. Moved(c, "cancel") /\ MayBe(c, "cancel")
    BY <1>27, Begins DEF MayBe
  <2>. QED  BY <2>1, <2>2, MoveAccounts
<1>28. ASSUME NEW c \in Client, Retry(c) PROVE OutcomeInv'
  <2>1. RowQuiet /\ OrdersQuiet
    BY <1>28, RowIsQuiet, OrdersAreQuiet DEF Retry
  <2>2. Moved(c, "retry") /\ MayBe(c, "retry")
    BY <1>28, Begins DEF MayBe
  <2>. QED  BY <2>1, <2>2, MoveAccounts
<1>29. ASSUME NEW x \in Reconciler, ClaimReconciliation(x) PROVE OutcomeInv'
  <2>1. RowQuiet /\ OrdersQuiet
    BY <1>29, RowIsQuiet, OrdersAreQuiet DEF ClaimReconciliation
  <2>2. row'.status # "succeeded"
    BY <1>29, <2>1 DEF ClaimReconciliation, ClaimNextTaskProviderCancellation, RowQuiet
  <2>3. Moved(x, "check") /\ MayBe(x, "check")
    BY <1>29, <2>2, Begins DEF MayBe
  <2>. QED  BY <2>1, <2>3, MoveAccounts
<1>30. ASSUME NEW w \in Worker, LogAttempt(w) PROVE OutcomeInv'
  <2>1. RowQuiet
    BY <1>30, CallsAreQuiet DEF LogAttempt
  <2>2. OrdersQuiet
    BY <1>30, CallsAreQuiet DEF LogAttempt
  <2>. QED  BY <1>30, <2>1, <2>2, GotoAccounts DEF LogAttempt
<1>31. ASSUME NEW w \in Worker, Submit(w) PROVE OutcomeInv'
  <2>1. RowQuiet /\ OrdersQuiet
    BY <1>31, CallsAreQuiet DEF Submit
  <2>2. CASE \E pc \in {"error", "result"}, why \in Why : Leaves(w, pc, why)
    BY <2>1, <2>2, GotoAccounts
  <2>3. CASE at' = [at EXCEPT ![w].pc = "sent", ![w].req = Len(jobs) + 1]
    <3>1. Moved(w, "sent") /\ MayBe(w, "sent")
      BY <2>3 DEF TypeInv, TypeOK, Moved, Local, MayBe
    <3>. QED  BY <2>1, <3>1, MoveAccounts
  <2>. QED  BY <1>31, <2>2, <2>3 DEF Submit, Why
<1>32. ASSUME NEW w \in Worker, Record(w) PROVE OutcomeInv'
  <2>1. RowQuiet /\ OrdersQuiet
    <3>1. CASE LogCreate(w, at[w].req, "succeeded", TRUE)
      BY <3>1, CallsAreQuiet
    <3>2. CASE UpdateTaskProviderState(at[w].req) /\ order' = order
      BY <3>2, RowIsQuiet, OrdersAreQuiet
    <3>. QED  BY <1>32, <3>1, <3>2 DEF Record
  <2>. QED  BY <1>32, <2>1, GotoAccounts DEF Record
<1>33. ASSUME NEW w \in Worker, Poll(w) PROVE OutcomeInv'
  <2>1. RowQuiet /\ OrdersQuiet
    BY <1>33, CallsAreQuiet DEF Poll
  <2>2. CASE at' = at
    BY <2>1, <2>2, StillAccounts
  <2>3. CASE \E pc \in {"error", "result"}, why \in Why : Leaves(w, pc, why)
    BY <2>1, <2>3, GotoAccounts
  <2>. QED  BY <1>33, <2>2, <2>3 DEF Poll, Why
<1>34. ASSUME NEW w \in Worker, Killed(w) PROVE OutcomeInv'
  <2>1. RowQuiet
    BY <1>34, CallsAreQuiet DEF Killed
  <2>2. OrdersQuiet
    BY <1>34, CallsAreQuiet DEF Killed
  <2>. QED  BY <1>34, <2>1, <2>2, GotoAccounts DEF Killed
<1>35. ASSUME NEW w \in Worker, LoseLease(w) PROVE OutcomeInv'
  <2>1. RowQuiet
    BY <1>35, CallsAreQuiet DEF LoseLease
  <2>2. OrdersQuiet
    BY <1>35, CallsAreQuiet DEF LoseLease
  <2>. QED  BY <1>35, <2>1, <2>2, ReturnAccounts DEF LoseLease
<1>36. ASSUME NEW c \in Client, Interrupt(c) PROVE OutcomeInv'
  <2>1. RowQuiet /\ OrdersQuiet
    BY <1>36, RowIsQuiet, OrdersAreQuiet DEF Interrupt
  <2>2. MayBe(c, AfterInterrupt(c))
    BY <1>36, InterruptMoves DEF MayBe, AfterInterrupt, Interrupt
  <2>. QED  BY <1>36, <2>1, <2>2, InterruptMoves, MoveAccounts
<1>37. ASSUME NEW c \in Client, CallCancel(c) PROVE OutcomeInv'
  <2>1. RowQuiet
    BY <1>37, CallsAreQuiet DEF CallCancel
  <2>2. OrdersQuiet
    BY <1>37, CallsAreQuiet DEF CallCancel
  <2>. QED  BY <1>37, <2>1, <2>2, GotoAccounts, ReturnAccounts DEF CallCancel
<1>38. ASSUME NEW c \in Client, WithdrawBridge(c) PROVE OutcomeInv'
  <2>1. RowQuiet
    BY <1>38, CallsAreQuiet DEF WithdrawBridge
  <2>2. OrdersQuiet
    BY <1>38, CallsAreQuiet DEF WithdrawBridge
  <2>. QED  BY <1>38, <2>1, <2>2, GotoAccounts DEF WithdrawBridge
<1>39. ASSUME NEW x \in Reconciler, CheckJob(x) PROVE OutcomeInv'
  <2>1. RowQuiet
    BY <1>39, CallsAreQuiet DEF CheckJob
  <2>2. OrdersQuiet
    BY <1>39, CallsAreQuiet DEF CheckJob
  <2>. QED  BY <1>39, <2>1, <2>2, GotoAccounts DEF CheckJob
<1>40. ASSUME NEW c \in Client, RetryWrite(c) PROVE OutcomeInv'
  <2>1. CASE RetryTaskWithBilling
    <3>1. /\ row'.run = row.run + 1 /\ row'.status = "queued" /\ row.run < MaxRuns
          /\ row.run \in Run
      BY <2>1 DEF RetryTaskWithBilling, NewTask, TypeInv, TypeOK, StoreTypeOK, Task
    <3>2. ~OneRun
      BY <3>1 DEF OneRun, Run
    <3>3. Moved(c, "idle")
      BY <1>40, Moves DEF RetryWrite
    <3>4. NobodyRecovers'
      BY <3>3 DEF NobodyRecovers, Moved
    <3>. QED  BY <3>1, <3>2, <3>4 DEF OutcomeInv, OneRun, RefundersAreOut, DeliveredRunIsNotRefunded
  <2>2. CASE row' = row /\ order' = order
    <3>1. RowQuiet /\ OrdersQuiet
      BY <2>2, RowIsQuiet, OrdersAreQuiet
    <3>. QED  BY <1>40, <3>1, ReturnAccounts DEF RetryWrite
  <2>. QED  BY <1>40, <2>1, <2>2 DEF RetryWrite
<1>41. ASSUME SupplierStep PROVE OutcomeInv'
  BY <1>41, StillAccounts, RowIsQuiet, OrdersAreQuiet DEF SupplierStep
<1>42. ASSUME Expire PROVE OutcomeInv'
  <2>1. RowQuiet
    BY <1>42 DEF Expire, RowQuiet, TypeInv, TypeOK, StoreTypeOK, Task
  <2>. QED  BY <1>42, <2>1, StillAccounts, OrdersAreQuiet DEF Expire
<1>43. CASE UNCHANGED vars
  BY <1>43, StillAccounts, RowIsQuiet, OrdersAreQuiet DEF vars
<1>. QED
  BY <1>1, <1>2, <1>3, <1>4, <1>5, <1>6, <1>7, <1>8, <1>9, <1>10, <1>11, <1>12, <1>13,
     <1>14, <1>15, <1>16, <1>17, <1>18, <1>19, <1>20, <1>21, <1>22, <1>23, <1>24, <1>25,
     <1>26, <1>27, <1>28, <1>29, <1>30, <1>31, <1>32, <1>33, <1>34, <1>35, <1>36, <1>37,
     <1>38, <1>39, <1>40, <1>41, <1>42, <1>43
     DEF Next, WorkerStep, ClientStep, ReconcilerStep, BillingStep, Request

-----------------------------------------------------------------------------
(* The theorems.                                                           *)

\* The invariants of TaskRuntimeProofs and the two of this module hold of Init.
LEMMA InitialOutcomes == Init => TypeInv /\ ReservationInv /\ IdsExist /\ ResultInv /\ OutcomeInv
<1> SUFFICES ASSUME Init PROVE TypeInv /\ ReservationInv /\ IdsExist /\ ResultInv /\ OutcomeInv
  OBVIOUS
<1>1. TypeInv /\ ReservationInv
  BY InitialTypes, InitialReservations
<1>2. /\ row.status = "queued" /\ row.req = NoJob /\ row.cancel = ""
      /\ jobs = <<>> /\ Len(jobs) = 0 /\ log.last = NoJob
  <2>1. PICK i \in Interfaces : row = NewTask(i, 1)
    BY DEF Init, StoreInit
  <2>. QED  BY <2>1 DEF NewTask, Init, StoreInit, NoLog
<1>3. \A a \in Actor : at[a].pc = "idle" /\ at[a].req = NoJob
  BY DEF Init, Idle
<1>4. \A r \in Run : oreq[r] = NoJob /\ order[r] = IF r = 1 THEN "reserved" ELSE "none"
  BY DEF Init, StoreInit
<1>5. IdsExist
  <2>1. NoJob \in KnownIds
    <3>1. KnownIds = 0 .. 0
      BY <1>2 DEF KnownIds
    <3>. QED  BY <3>1 DEF NoJob
  <2>. QED  BY <1>2, <1>3, <1>4, <2>1 DEF IdsExist, BooksKnow, ActorsKnow, Asking
<1>6. ResultInv
  BY <1>3, <1>4 DEF ResultInv, WithResult
<1>7. OutcomeInv
  <2>1. OneRun => 1 \in Run
    BY DEF OneRun, Run
  <2>2. NobodyRecovers /\ RefundersAreOut /\ DeliveredRunIsNotRefunded
    BY <1>2, <1>3 DEF NobodyRecovers, RefundersAreOut, DeliveredRunIsNotRefunded, Actor
  <2>3. OneRun => CancellationInv
    <3>1. OneRun => order[1] = "reserved"
      BY <1>4, <2>1
    <3>. QED  BY <1>2, <1>3, <3>1 DEF CancellationInv
  <2>. QED  BY <2>2, <2>3 DEF OutcomeInv
<1>. QED  BY <1>1, <1>5, <1>6, <1>7

\* A task that delivered its result was not refunded, however many workers and
\* clients cancelled, retried and died; manual recovery (queryFailedVideoTask) aside.
THEOREM DeliveriesAreKept == ASSUME NoRecovery PROVE Spec => []DeliveredRunIsNotRefunded
<1>1. TypeInv /\ ReservationInv /\ OutcomeInv /\ [Next]_vars
          => (TypeInv /\ ReservationInv /\ OutcomeInv)'
  BY TypeStep, ReservationStep, OutcomeStep
<1>2. OutcomeInv => DeliveredRunIsNotRefunded
  BY DEF OutcomeInv
<1>. QED  BY <1>1, <1>2, InitialOutcomes, PTL DEF Spec

\* A task whose cancellation is shown as confirmed has its credits back, for a task
\* that is neither retried nor recovered by hand.
THEOREM ConfirmationsAreTrue ==
    ASSUME NoRecovery, OneRun PROVE Spec => []ConfirmedMeansRefunded
<1>1. TypeInv /\ ReservationInv /\ OutcomeInv /\ [Next]_vars
          => (TypeInv /\ ReservationInv /\ OutcomeInv)'
  BY TypeStep, ReservationStep, OutcomeStep
<1>2. TypeInv /\ OutcomeInv => ConfirmedMeansRefunded
  <2> SUFFICES ASSUME TypeInv, OutcomeInv PROVE ConfirmedMeansRefunded
    OBVIOUS
  <2>1. row.run = 1
    BY DEF TypeInv, TypeOK, StoreTypeOK, Task, Run, OneRun
  <2>. QED  BY <2>1 DEF OutcomeInv, CancellationInv, ConfirmedMeansRefunded
<1>. QED  BY <1>1, <1>2, InitialOutcomes, PTL DEF Spec

\* A run of a task that is not retried is charged only for a job that delivered,
\* manual recovery included.
THEOREM ChargesAreEarned == ASSUME OneRun PROVE Spec => []OnlyDeliveredRunsAreCharged
<1>1. TypeInv /\ IdsExist /\ ResultInv /\ [Next]_vars => (TypeInv /\ IdsExist /\ ResultInv)'
  BY TypeStep, IdsStep, ResultStep
<1>2. TypeInv /\ ResultInv => OnlyDeliveredRunsAreCharged
  <2> SUFFICES ASSUME TypeInv, ResultInv, NEW r \in Run, order[r] = "settled"
               PROVE  \E j \in DOMAIN jobs : jobs[j].run = r /\ jobs[j].state = "succeeded"
    BY DEF OnlyDeliveredRunsAreCharged
  <2>1. PICK j \in DOMAIN jobs : jobs[j].state = "succeeded"
    BY DEF ResultInv, Delivered
  <2>2. jobs[j].run \in Run
    <3>1. jobs \in Seq(Job)
      BY DEF TypeInv, TypeOK, StoreTypeOK
    <3>2. jobs[j] \in Job
      BY <3>1
    <3>. QED  BY <3>2 DEF Job
  <2>3. jobs[j].run = r
    BY <2>2 DEF Run, OneRun
  <2>. QED  BY <2>1, <2>3
<1>. QED  BY <1>1, <1>2, InitialOutcomes, PTL DEF Spec

\* A run of a task that is not retried is charged only when something was sent for
\* it: the counterexample of a hydrated retry (hydrateTaskProviderState) needs two runs.
THEOREM ChargesAreForSentRuns == ASSUME OneRun PROVE Spec => []OnlySentRunsAreCharged
<1>1. OnlyDeliveredRunsAreCharged => OnlySentRunsAreCharged
  BY DEF OnlyDeliveredRunsAreCharged, OnlySentRunsAreCharged, Sent
<1>. QED  BY <1>1, ChargesAreEarned, PTL
=============================================================================
