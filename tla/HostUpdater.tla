----------------------------- MODULE HostUpdater -----------------------------
(***************************************************************************)
(* The host updater (backend/internal/hostupdate): a daemon beside the     *)
(* Docker Compose deployment that replaces the running release, with a     *)
(* database backup to go back to.                                          *)
(*                                                                         *)
(* An operation is a goroutine (runUpdate, runRollback) that works on the  *)
(* deployment - the CANVAS_IMAGE_TAG of the env file, the Compose file and *)
(* its kept copy, the database, the running services - step by step, each  *)
(* of which may fail.  What the daemon remembers (m.state) is saved at     *)
(* every change and read again after a restart; a goroutine is not.        *)
(*                                                                         *)
(* A release stands for its tag, its Compose file and its schema version.  *)
(***************************************************************************)
EXTENDS Integers, FiniteSets

CONSTANTS
    Job,           \* the goroutines that can be at work
    MaxRelease,    \* the releases are 1 .. MaxRelease, in version order
    MaxWrites,     \* bound: the writes users make
    MaxChecks,     \* bound: the checks that are out at once
    GoesOn,        \* bound: whether runs go on after operations have overlapped
    SelfUpdate     \* config.SelfUpdate: the updater replaces its own binary

ASSUME HostAssumption ==
    /\ MaxRelease \in Nat \ {0}
    /\ MaxWrites \in Nat /\ MaxChecks \in Nat
    /\ {GoesOn, SelfUpdate} \subseteq BOOLEAN

VARIABLES
    op,        \* state.Operation: phase, from, target
    latest,    \* state.LatestRelease
    point,     \* state.LastBackup with state.RollbackVersion
    checks,    \* number of Checks that wait for GitHub, without the lock
    job,       \* the goroutines
    tag,       \* CANVAS_IMAGE_TAG of the env file
    compose,   \* release of the Compose file in use
    previous,  \* release of previous-compose.yml
    running,   \* release the services run
    db,        \* the database: its schema version and the users' writes
    written,   \* number of writes the services have acknowledged
    overtaken,  \* history: the answer to a check was written over the phase of the
                \* operation at work
    overlapped  \* history: an operation was started while another was at work

daemon == <<op, latest, point, checks>>
files == <<tag, compose, previous>>
history == <<overtaken, overlapped>>
vars == <<daemon, job, files, running, db, written, history>>

-----------------------------------------------------------------------------

Release == 1 .. MaxRelease
None == 0    \* no release; as a schema version, an empty database
Gone == -1   \* schema version of a database that has been dropped

Database == [schema : {Gone, None} \cup Release, writes : SUBSET (1 .. MaxWrites)]
Dropped == [schema |-> Gone, writes |-> {}]
Empty == [schema |-> None, writes |-> {}]

Point == [release : Release, data : Database]
NoPoint == [release |-> None, data |-> Dropped]

\* Phase.Active
Active == {"preflight", "backing_up", "pulling", "draining", "migrating",
           "switching", "verifying", "rolling_back"}
Phase == Active \cup {"idle", "checking", "ready", "no_update", "succeeded",
                      "rolled_back", "failed", "manual_intervention"}
Operation == [phase : Phase, from : Release \cup {None}, target : Release \cup {None}]

UpdateStep == {"prepare", "backup", "keep", "pull", "stop", "migrate",
               "tag", "compose", "up", "verify"}
RollbackStep == {"undo_stop", "undo_compose", "drop", "create", "restore",
                 "undo_tag", "undo_up", "undo_verify"}
NoJob == [step |-> "idle", from |-> None, target |-> None,
          point |-> NoPoint, failed |-> FALSE, auto |-> FALSE]
\* The local variables of runUpdate and runRollback.  failed: failures # nil.
Working ==
    [step : UpdateStep \cup RollbackStep, from : Release, target : Release,
     point : Point \cup {NoPoint}, failed : BOOLEAN, auto : BOOLEAN]
JobState == Working \cup {NoJob}

AtWork == {j \in Job : job[j].step # "idle"}

\* The official installation: release 1 is up on its own schema.
Init ==
    /\ op = [phase |-> "idle", from |-> None, target |-> None]
    /\ latest = None /\ point = NoPoint /\ checks = 0
    /\ job = [j \in Job |-> NoJob]
    /\ tag = 1 /\ compose = 1 /\ previous = None
    /\ running = 1
    /\ db = [schema |-> 1, writes |-> {}]
    /\ written = 0
    /\ overtaken = FALSE /\ overlapped = FALSE

-----------------------------------------------------------------------------
(* Requests of the administrator                                           *)

\* Bound: after operations have overlapped, the daemon may be left to restart.
InBounds == overlapped => GoesOn

At(j, step) == InBounds /\ job[j].step = step

\* Check up to the unlock before the call of GitHub.
BeginCheck ==
    /\ InBounds /\ checks < MaxChecks
    /\ op.phase \notin Active
    /\ checks' = checks + 1
    /\ op' = [op EXCEPT !.phase = "checking"]
    /\ UNCHANGED <<latest, point, job, files, running, db, written, history>>

\* Check after the answer: it sets the phase whatever the phase is by then.
EndCheck ==
    /\ InBounds /\ checks > 0 /\ checks' = checks - 1
    /\ \/ op' = [op EXCEPT !.phase = "failed"] /\ latest' \in {latest} \cup Release
       \/ \E r \in Release :
            /\ latest' = r
            /\ op' = [op EXCEPT !.phase = IF tag < r THEN "ready" ELSE "no_update"]
    /\ overtaken' = (overtaken \/ AtWork # {})
    /\ UNCHANGED <<point, job, files, running, db, written, overlapped>>

\* Fault: the phase does not keep the next operation out.
MayStartAnyway == TRUE

\* Whether a check is out, and whether a goroutine is at work, is not looked at.
MayStart == op.phase \notin Active

Start(o, j, c) ==
    /\ op' = o
    /\ job' = [job EXCEPT ![j] = c]
    /\ overlapped' = (overlapped \/ AtWork # {})
    /\ overtaken' = (overtaken /\ AtWork # {})
    /\ UNCHANGED <<latest, point, checks, files, running, db, written>>

StartUpdate(j, r) ==
    /\ At(j, "idle")
    /\ MayStart
    /\ latest = r /\ tag < r
    /\ Start([phase |-> "preflight", from |-> tag, target |-> r], j,
             [NoJob EXCEPT !.step = "prepare", !.from = tag, !.target = r])

\* Fault: a rollback starts without a backup.
StartRollbackAnyway(j) ==
    /\ At(j, "idle")
    /\ MayStart
    /\ Start([phase |-> "rolling_back", from |-> tag, target |-> point.release], j,
             [NoJob EXCEPT !.step = "undo_stop", !.from = tag,
                           !.target = point.release, !.point = point])

StartRollback(j) ==
    /\ At(j, "idle")
    /\ MayStart
    /\ point # NoPoint
    /\ Start([phase |-> "rolling_back", from |-> tag, target |-> point.release], j,
             [NoJob EXCEPT !.step = "undo_stop", !.from = tag,
                           !.target = point.release, !.point = point])

-----------------------------------------------------------------------------
(* How a step goes on                                                      *)

GoTo(j, step) == job' = [job EXCEPT ![j].step = step]
SetPhase(phase) == op' = [op EXCEPT !.phase = phase]
End(j, phase) == SetPhase(phase) /\ job' = [job EXCEPT ![j] = NoJob]

\* Fault: an update that ends leaves its phase behind.
AbortSilently(j) == job' = [job EXCEPT ![j] = NoJob] /\ UNCHANGED op

\* failWithoutRollback
Abort(j) == End(j, "failed")

\* Fault: the rollback is given the version that was to be installed.
UndoToTarget(j) ==
    /\ SetPhase("rolling_back")
    /\ job' = [job EXCEPT ![j].step = "undo_stop", ![j].auto = TRUE]

\* failWithRollback: runRollback(fromVersion, backup, true) in the same goroutine.
Undo(j) ==
    /\ SetPhase("rolling_back")
    /\ job' = [job EXCEPT ![j].step = "undo_stop", ![j].target = job[j].from,
                          ![j].auto = TRUE]

\* runRollback goes on after a failure and remembers it.
GoOn(j, step) == GoTo(j, step) /\ UNCHANGED op
\* Fault: a failed step of the rollback is not remembered.
GoOnForgetful(j, step) == GoOn(j, step)

GoOnFailed(j, step) ==
    job' = [job EXCEPT ![j].step = step, ![j].failed = TRUE] /\ UNCHANGED op

\* docker compose stop web backend: a failure may have stopped them or not.
Stopped == running' = None
StopFails == running' \in {running, None}

\* migrate-schema up of release r, in one transaction; it refuses a database
\* whose schema is newer than the release knows.
CanMigrate(r) == db.schema \in None .. r
Migrated(r) == [db EXCEPT !.schema = r]

\* docker compose up of release r: its migrate job first, then the services.
Started(r) == CanMigrate(r) /\ db' = Migrated(r) /\ running' = r
StartFails(r) ==
    \/ UNCHANGED db /\ running' \in {running, None}
    \/ CanMigrate(r) /\ db' = Migrated(r) /\ running' \in {r, None}

\* checkHealthOnce: the services answer with their version and are ready.  An answer
\* without a version would pass, but buildinfo.Current puts one into every answer.
Healthy(r) == running = r /\ db.schema = r

-----------------------------------------------------------------------------
(* runUpdate                                                               *)

\* The target's Compose file, the checks before anything is touched and the
\* updater's new binary.
Prepare(j) ==
    /\ At(j, "prepare")
    /\ \/ Healthy(tag) /\ GoTo(j, "backup") /\ SetPhase("backing_up")
       \/ Abort(j)
    /\ UNCHANGED <<latest, point, checks, files, running, db, written, history>>

\* Fault: the daemon does not remember the backup.
CreateBackupForgotten(j) ==
    /\ At(j, "backup")
    /\ \/ /\ db.schema # Gone /\ running # None
          /\ job' = [job EXCEPT ![j].step = "keep",
                                ![j].point = [release |-> job[j].from, data |-> db]]
          /\ UNCHANGED op
       \/ Abort(j)
    /\ UNCHANGED <<latest, point, checks, files, running, db, written, history>>

\* createBackup: pg_dump and the data directory, while the services run.
CreateBackup(j) ==
    /\ At(j, "backup")
    /\ \/ /\ db.schema # Gone /\ running # None
          /\ point' = [release |-> job[j].from, data |-> db]
          /\ job' = [job EXCEPT ![j].step = "keep", ![j].point = point']
          /\ UNCHANGED op
       \/ Abort(j) /\ UNCHANGED point
    /\ UNCHANGED <<latest, checks, files, running, db, written, history>>

KeepCompose(j) ==
    /\ At(j, "keep")
    /\ \/ previous' = compose /\ GoTo(j, "pull") /\ SetPhase("pulling")
       \/ Abort(j) /\ UNCHANGED previous
    /\ UNCHANGED <<latest, point, checks, tag, compose, running, db, written, history>>

\* compose pull and verifyImages
PullImages(j) ==
    /\ At(j, "pull")
    /\ \/ GoTo(j, "stop") /\ SetPhase("draining")
       \/ Abort(j)
    /\ UNCHANGED <<latest, point, checks, files, running, db, written, history>>

StopServices(j) ==
    /\ At(j, "stop")
    /\ \/ Stopped /\ GoTo(j, "migrate") /\ SetPhase("migrating")
       \/ StopFails /\ Undo(j)
    /\ UNCHANGED <<latest, point, checks, files, db, written, history>>

Migrate(j) ==
    /\ At(j, "migrate")
    /\ \/ /\ CanMigrate(job[j].target) /\ db' = Migrated(job[j].target)
          /\ GoTo(j, "tag") /\ SetPhase("switching")
       \/ /\ \/ UNCHANGED db
             \/ CanMigrate(job[j].target) /\ db' = Migrated(job[j].target)
          /\ Undo(j)
    /\ UNCHANGED <<latest, point, checks, files, running, written, history>>

SetTag(j) ==
    /\ At(j, "tag")
    /\ \/ tag' = job[j].target /\ GoOn(j, "compose")
       \/ Undo(j) /\ UNCHANGED tag
    /\ UNCHANGED <<latest, point, checks, compose, previous, running, db, written, history>>

\* A failure tries to put the tag back, and drops the error of that.
SwitchCompose(j) ==
    /\ At(j, "compose")
    /\ \/ compose' = job[j].target /\ GoOn(j, "up") /\ UNCHANGED tag
       \/ tag' \in {tag, job[j].from} /\ Undo(j) /\ UNCHANGED compose
    /\ UNCHANGED <<latest, point, checks, previous, running, db, written, history>>

StartServices(j) ==
    /\ At(j, "up")
    /\ \/ Started(job[j].target) /\ GoTo(j, "verify") /\ SetPhase("verifying")
       \/ StartFails(job[j].target) /\ Undo(j)
    /\ UNCHANGED <<latest, point, checks, files, written, history>>

\* verifyHealthy, then the updater's own binary.
Verify(j) ==
    /\ At(j, "verify")
    /\ \/ Healthy(job[j].target) /\ End(j, "succeeded")
       \/ Healthy(job[j].target) /\ SelfUpdate /\ End(j, "manual_intervention")
       \/ Undo(j)
    /\ UNCHANGED <<latest, point, checks, files, running, db, written, history>>

-----------------------------------------------------------------------------
(* runRollback                                                             *)

UndoStop(j) ==
    /\ At(j, "undo_stop")
    /\ \/ Stopped /\ GoOn(j, "undo_compose")
       \/ StopFails /\ GoOnFailed(j, "undo_compose")
    /\ UNCHANGED <<latest, point, checks, files, db, written, history>>

UndoCompose(j) ==
    /\ At(j, "undo_compose")
    /\ \/ previous = None /\ GoOn(j, "drop") /\ UNCHANGED compose
       \/ previous # None /\ compose' = previous /\ GoOn(j, "drop")
       \/ previous # None /\ GoOnFailed(j, "drop") /\ UNCHANGED compose
    /\ UNCHANGED <<latest, point, checks, tag, previous, running, db, written, history>>

\* restoreDatabase verifies the archive, then dropdb, createdb, pg_restore;
\* a failure ends it where it is.
DropDatabase(j) ==
    /\ At(j, "drop")
    /\ \/ db' = Dropped /\ GoOn(j, "create")
       \/ db' \in {db, Dropped} /\ GoOnFailed(j, "undo_tag")
    /\ UNCHANGED <<latest, point, checks, files, running, written, history>>

CreateDatabase(j) ==
    /\ At(j, "create")
    /\ \/ db = Dropped /\ db' = Empty /\ GoOn(j, "restore")
       \/ /\ \/ UNCHANGED db
             \/ db = Dropped /\ db' = Empty
          /\ GoOnFailed(j, "undo_tag")
    /\ UNCHANGED <<latest, point, checks, files, running, written, history>>

\* pg_restore is not one transaction: what it has done before it fails stays.  A
\* database that is not empty, because another operation is at work, makes it fail.
RestoreDatabase(j) ==
    /\ At(j, "restore")
    /\ \/ db = Empty /\ db' = job[j].point.data /\ GoOn(j, "undo_tag")
       \/ /\ \/ UNCHANGED db
             \/ \E w \in SUBSET job[j].point.data.writes :
                  \/ db = Empty /\ db' = [job[j].point.data EXCEPT !.writes = w]
                  \/ db.schema \in Release /\ db' = [db EXCEPT !.writes = @ \cup w]
          /\ GoOnFailed(j, "undo_tag")
    /\ UNCHANGED <<latest, point, checks, files, running, written, history>>

UndoTag(j) ==
    /\ At(j, "undo_tag")
    /\ \/ tag' = job[j].target /\ GoOn(j, "undo_up")
       \/ GoOnFailed(j, "undo_up") /\ UNCHANGED tag
    /\ UNCHANGED <<latest, point, checks, compose, previous, running, db, written, history>>

\* The services are started whatever has failed before; when they do not come
\* up, nothing is verified and the failures are reported.
UndoStart(j) ==
    /\ At(j, "undo_up")
    /\ \/ Started(job[j].target) /\ GoOn(j, "undo_verify")
       \/ StartFails(job[j].target) /\ End(j, "manual_intervention")
    /\ UNCHANGED <<latest, point, checks, files, written, history>>

UndoVerify(j) ==
    /\ At(j, "undo_verify")
    /\ \/ Healthy(job[j].target) /\ ~job[j].failed /\ End(j, "rolled_back")
       \/ End(j, "manual_intervention")
    /\ UNCHANGED <<latest, point, checks, files, running, db, written, history>>

-----------------------------------------------------------------------------
(* The rest of the world                                                   *)

\* The daemon stops - a crash, or restartSelf after an update of its binary -
\* and NewManager reads the saved state.
Restart ==
    /\ checks' = 0
    /\ job' = [j \in Job |-> NoJob]
    /\ op' = IF op.phase \in Active
             THEN [op EXCEPT !.phase = "manual_intervention"] ELSE op
    /\ UNCHANGED <<latest, point, files, running, db, written, history>>

\* A user's write reaches the services and is acknowledged.
UserWrite ==
    /\ InBounds /\ written < MaxWrites
    /\ running # None /\ db.schema = running
    /\ written' = written + 1
    /\ db' = [db EXCEPT !.writes = @ \cup {written'}]
    /\ UNCHANGED <<daemon, job, files, running, history>>

Work(j) ==
    \/ Prepare(j) \/ CreateBackup(j) \/ KeepCompose(j) \/ PullImages(j)
    \/ StopServices(j) \/ Migrate(j) \/ SetTag(j) \/ SwitchCompose(j)
    \/ StartServices(j) \/ Verify(j)
    \/ UndoStop(j) \/ UndoCompose(j) \/ DropDatabase(j) \/ CreateDatabase(j)
    \/ RestoreDatabase(j) \/ UndoTag(j) \/ UndoStart(j) \/ UndoVerify(j)

Next ==
    \/ BeginCheck \/ EndCheck
    \/ \E j \in Job : Work(j) \/ StartRollback(j) \/ \E r \in Release : StartUpdate(j, r)
    \/ Restart \/ UserWrite

\* A goroutine goes on and every command it runs has a timeout; the call of
\* GitHub has one too.  Nobody has to ask for anything, or to crash.
Fairness == WF_vars(EndCheck) /\ \A j \in Job : WF_vars(Work(j))

Spec == Init /\ [][Next]_vars /\ Fairness

-----------------------------------------------------------------------------
(* Correctness                                                             *)

\* The daemon's state has the shape its types give it (type invariant).
TypeOK ==
    /\ op \in Operation
    /\ latest \in Release \cup {None}
    /\ point \in Point \cup {NoPoint}
    /\ checks \in 0 .. MaxChecks
    /\ job \in [Job -> JobState]
    /\ tag \in Release /\ compose \in Release /\ previous \in Release \cup {None}
    /\ running \in Release \cup {None}
    /\ db \in Database
    /\ written \in 0 .. MaxWrites
    /\ overtaken \in BOOLEAN /\ overlapped \in BOOLEAN

\* "At any time there is one update task" (dynamic-update.md:5): at most one
\* goroutine works on the deployment.  The code does not keep it: the answer to a
\* check overwrites the phase that keeps the next operation out.
OneTask == \A i, j \in AtWork : i = j

\* That is the only way: as long as no answer comes in during an operation, no
\* restart, failure or request lets a second goroutine work on the deployment.
OneTaskUnlessOvertaken == ~overtaken => OneTask

\* The phase is active only while a goroutine is at work, also when answers come in
\* and operations overlap: nobody is locked out.  And it is active as long as one
\* is at work, unless an answer was written over it.
PhaseIsTrue ==
    /\ op.phase \in Active => AtWork # {}
    /\ AtWork # {} /\ ~overtaken => op.phase \in Active

\* Wherever an operation or the daemon stops, a database that has been dropped,
\* emptied or migrated past the tag can be rolled back: the remembered backup holds
\* the database of the remembered release.  Checks do not matter, as long as they
\* have not let two operations overlap.
LostDatabaseHasItsBackup ==
    ~overlapped /\ db.schema # tag => point # NoPoint /\ point.data.schema = point.release

\* A rollback reported as done has put back every write the backup held, and serves
\* it with the release it belongs to, when no operations have overlapped.
RolledBackDatabaseIsTheBackup ==
    ~overlapped /\ op.phase = "rolled_back" =>
        /\ point.data.writes \subseteq db.writes
        /\ db.schema = point.release /\ tag = point.release /\ running = point.release

\* The release the deployment serves.
Serving == IF running = tag /\ db.schema = tag THEN tag ELSE None

Verdict == {"succeeded", "rolled_back", "failed", "manual_intervention"}

Promise == INSTANCE UpdatePromise WITH
    serving <- IF AtWork = {} THEN Serving ELSE None,
    busy <- AtWork # {},
    base <- op.from,
    goal <- op.target,
    verdict <- IF op.phase \in Verdict THEN op.phase ELSE "none"

\* Until operations overlap, every report of an operation is true of the deployment,
\* nothing else changes the release it serves, only an answer that overtook the
\* operation hides its report or lets it overlap, and an operation comes to an end.
KeepsUpdatePromise == Promise!PromiseSpec

=============================================================================
