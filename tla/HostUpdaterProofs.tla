------------------------- MODULE HostUpdaterProofs --------------------------
(***************************************************************************)
(* Proofs about HostUpdater for any number of releases, writes, checks and *)
(* goroutines.  What holds whatever overlaps (Weak) comes first, then what *)
(* holds until an operation is started while another is at work (Alone).   *)
(***************************************************************************)
EXTENDS HostUpdater, TLAPS

USE HostAssumption DEF At

\* What a goroutine in state c may rely on: tg is the tag, run the running
\* release, d the database and pt the backup.  Until the services are stopped
\* nothing was touched; afterwards the backup is that of the release it came
\* from; a rollback without a failure has put back what it says.
Facts(c, pt, tg, run, d) ==
    /\ c.step \in UpdateStep => c.from \in Release /\ c.target \in Release /\ c.from < c.target
    /\ c.step \in {"prepare", "backup", "keep", "pull", "stop"} => c.from = tg
    /\ c.step \in {"backup", "keep", "pull", "stop"} => run = tg /\ d.schema = tg
    /\ c.step \in UpdateStep \ {"prepare", "backup"} =>
          pt # NoPoint /\ c.point = pt /\ pt.release = c.from
    /\ c.step \in {"compose", "up", "verify"} => tg = c.target
    /\ c.step \in {"migrate", "tag"} => tg = c.from
    /\ c.step \in RollbackStep => pt # NoPoint /\ c.point = pt /\ c.target = pt.release
    /\ c.step \in {"undo_tag", "undo_up", "undo_verify"} /\ ~c.failed =>
          pt.data.writes \subseteq d.writes
    /\ c.step \in {"undo_up", "undo_verify"} /\ ~c.failed => tg = c.target

\* The backup belongs to a release that is not newer than the tag, and
\* there is one as soon as the database is not that of the tag.
BackupFits(pt, tg, d) ==
    /\ pt # NoPoint => pt.data.schema = pt.release /\ pt.release <= tg
    /\ d.schema # tg => pt # NoPoint

\* The operation that the daemon remembers is the one that is at work.
SameOperation(c, o) ==
    /\ o.from = c.from
    /\ c.step \in UpdateStep => o.target = c.target
    /\ c.step \in RollbackStep => IF c.auto THEN c.target = o.from /\ o.from < o.target
                                          ELSE c.target = o.target /\ o.target <= o.from
    /\ c.step \in RollbackStep => o.from \in Release

\* The phases a check leaves.
Looked == {"checking", "failed", "ready", "no_update"}

\* Until operations overlap.
Alone ==
    /\ TypeOK /\ OneTask /\ PhaseIsTrue
    /\ ~overlapped
    /\ AtWork # {} => op.phase \in Active \cup Looked
    /\ \A j \in AtWork : /\ Facts(job[j], point, tag, running, db)
                         /\ SameOperation(job[j], op)
    /\ BackupFits(point, tag, db)
    /\ RolledBackDatabaseIsTheBackup

\* Whatever overlaps.
Weak == TypeOK /\ PhaseIsTrue /\ OneTaskUnlessOvertaken

IInv == Weak /\ (~overlapped => Alone)

-----------------------------------------------------------------------------

LEMMA Releases ==
    /\ (\A r \in Release : r \in Int) /\ None \notin Release /\ Gone \notin Release /\ Gone # None
    /\ NoPoint.release = None /\ \A p \in Point : p # NoPoint /\ p.release \in Release
BY DEF Release, None, Gone, NoPoint, Point

\* The local variables of a goroutine at work.
LEMMA WorkingState ==
    ASSUME NEW c \in JobState
    PROVE  /\ c.step # "idle" <=> c \in Working
           /\ c \in Working => c.step \in UpdateStep \cup RollbackStep
<1>1. NoJob.step = "idle" /\ "idle" \notin UpdateStep \cup RollbackStep
  BY DEF NoJob, UpdateStep, RollbackStep
<1>. QED  BY <1>1 DEF JobState, Working

\* The step of a goroutine: it is the only one, so its new state is what counts.
LEMMA WorkFrame ==
    ASSUME Alone, NEW j \in Job, job[j].step # "idle", NEW c \in JobState,
           job' = [job EXCEPT ![j] = c], UNCHANGED <<latest, checks, written, history>>,
           op' \in Operation, point' \in Point \cup {NoPoint},
           tag' \in Release, compose' \in Release, previous' \in Release \cup {None},
           running' \in Release \cup {None}, db' \in Database,
           c.step = "idle" => op'.phase \notin Active,
           c.step # "idle" => op' = op \/ op'.phase \in Active,
           c.step # "idle" => Facts(c, point', tag', running', db') /\ SameOperation(c, op'),
           BackupFits(point', tag', db'),
           RolledBackDatabaseIsTheBackup'
    PROVE  Alone'
<1>1. j \in AtWork /\ \A i \in Job : i # j => job[i].step = "idle"
  BY DEF Alone, OneTask, AtWork
<1>2. job' \in [Job -> JobState] /\ job'[j] = c /\ \A i \in Job : i # j => job'[i] = job[i]
  BY DEF Alone, TypeOK
<1>3. AtWork' = IF c.step = "idle" THEN {} ELSE {j}
  BY <1>1, <1>2 DEF AtWork
<1>4. TypeOK'
  BY <1>2 DEF Alone, TypeOK, history
<1>5. OneTask' /\ PhaseIsTrue' /\ ~overlapped'
  BY <1>1, <1>3 DEF OneTask, PhaseIsTrue, Alone, history
<1>6. AtWork' # {} => op'.phase \in Active \cup Looked
  BY <1>1, <1>3 DEF Alone
<1>7. \A i \in AtWork' : /\ Facts(job'[i], point', tag', running', db')
                        /\ SameOperation(job'[i], op')
  BY <1>2, <1>3
<1>. QED  BY <1>4, <1>5, <1>6, <1>7 DEF Alone

\* What a goroutine at work knows.
LEMMA AtWorkFacts ==
    ASSUME Alone, NEW j \in Job, job[j].step # "idle"
    PROVE  /\ Facts(job[j], point, tag, running, db) /\ SameOperation(job[j], op)
           /\ job[j] \in Working /\ AtWork = {j} /\ op.phase \in Active \cup Looked
           /\ BackupFits(point, tag, db)
BY WorkingState DEF Alone, AtWork, TypeOK, OneTask

LEMMA EndFrame ==
    ASSUME Alone, NEW j \in Job, job[j].step # "idle",
           NEW phase \in {"succeeded", "failed", "manual_intervention", "rolled_back"},
           End(j, phase), UNCHANGED <<latest, point, checks, compose, previous, written, history>>,
           tag' \in Release, running' \in Release \cup {None}, db' \in Database,
           BackupFits(point, tag', db'),
           phase = "rolled_back" => RolledBackDatabaseIsTheBackup'
    PROVE  Alone'
<1>1. op \in Operation /\ op' = [op EXCEPT !.phase = phase]
  BY DEF Alone, TypeOK, End, SetPhase
<1>2. op' \in Operation /\ op'.phase = phase
  BY <1>1 DEF Operation, Phase
<1>3. NoJob \in JobState /\ NoJob.step = "idle"
  BY DEF NoJob, JobState, Working
<1>4. phase \notin Active
  BY DEF Active
<1>5. RolledBackDatabaseIsTheBackup'
  BY <1>2 DEF RolledBackDatabaseIsTheBackup
<1>6. /\ point' \in Point \cup {NoPoint} /\ compose' \in Release
      /\ previous' \in Release \cup {None}
  BY DEF Alone, TypeOK
<1>. QED  BY <1>2, <1>3, <1>4, <1>5, <1>6, WorkFrame DEF End

LEMMA GoFrame ==
    ASSUME Alone, NEW j \in Job, job[j].step # "idle",
           NEW c \in JobState, c.step \in UpdateStep \cup RollbackStep,
           c.step \in UpdateStep <=> job[j].step \in UpdateStep,
           c.from = job[j].from, c.target = job[j].target, c.auto = job[j].auto,
           job' = [job EXCEPT ![j] = c],
           op' = op \/ \E phase \in Active : SetPhase(phase),
           UNCHANGED <<latest, checks, written, history>>,
           point' \in Point \cup {NoPoint},
           tag' \in Release, compose' \in Release, previous' \in Release \cup {None},
           running' \in Release \cup {None}, db' \in Database,
           Facts(c, point', tag', running', db'), BackupFits(point', tag', db')
    PROVE  Alone'
<1>1. op \in Operation /\ op.phase \in Active \cup Looked
  BY AtWorkFacts DEF Alone, TypeOK
<1>2. /\ op' \in Operation /\ op'.from = op.from /\ op'.target = op.target
      /\ op' = op \/ op'.phase \in Active
  BY <1>1 DEF SetPhase, Operation, Phase
<1>3. c.step # "idle"
  BY DEF UpdateStep, RollbackStep
<1>4. SameOperation(c, op')
  <2>1. SameOperation(job[j], op)
    BY AtWorkFacts
  <2>2. job[j].step \in UpdateStep \cup RollbackStep
    BY WorkingState DEF Alone, TypeOK
  <2>3. UpdateStep \cap RollbackStep = {}
    BY DEF UpdateStep, RollbackStep
  <2>. QED  BY <2>1, <2>2, <2>3, <1>2 DEF SameOperation
<1>5. RolledBackDatabaseIsTheBackup'
  BY <1>1, <1>2 DEF RolledBackDatabaseIsTheBackup, Active, Looked
<1>. QED  BY <1>2, <1>3, <1>4, <1>5, WorkFrame

LEMMA Types ==
    ASSUME Alone
    PROVE  /\ point \in Point \cup {NoPoint} /\ tag \in Release /\ compose \in Release
           /\ previous \in Release \cup {None} /\ running \in Release \cup {None}
           /\ db \in Database
BY DEF Alone, TypeOK

LEMMA StepTo ==
    ASSUME Alone, NEW j \in Job, job[j].step # "idle",
           NEW step \in UpdateStep \cup RollbackStep, GoTo(j, step)
    PROVE  \E c \in JobState :
              /\ job' = [job EXCEPT ![j] = c] /\ c.step = step
              /\ c.from = job[j].from /\ c.target = job[j].target /\ c.auto = job[j].auto
              /\ c.point = job[j].point /\ c.failed = job[j].failed
<1> DEFINE c == [job[j] EXCEPT !.step = step]
<1>1. job[j] \in Working
  BY WorkingState DEF Alone, TypeOK
<1>2. /\ c \in JobState /\ c.step = step
      /\ c.from = job[j].from /\ c.target = job[j].target /\ c.auto = job[j].auto
      /\ c.point = job[j].point /\ c.failed = job[j].failed
  BY <1>1 DEF JobState, Working
<1>3. job' = [job EXCEPT ![j] = c]
  BY DEF GoTo
<1> HIDE DEF c
<1>. QED  BY <1>2, <1>3

LEMMA StepToFailed ==
    ASSUME Alone, NEW j \in Job, job[j].step # "idle",
           NEW step \in UpdateStep \cup RollbackStep, GoOnFailed(j, step)
    PROVE  \E c \in JobState :
              /\ job' = [job EXCEPT ![j] = c] /\ c.step = step
              /\ c.from = job[j].from /\ c.target = job[j].target /\ c.auto = job[j].auto
              /\ c.point = job[j].point /\ c.failed
<1> DEFINE c == [job[j] EXCEPT !.step = step, !.failed = TRUE]
<1>1. job[j] \in Working
  BY WorkingState DEF Alone, TypeOK
<1>2. /\ c \in JobState /\ c.step = step
      /\ c.from = job[j].from /\ c.target = job[j].target /\ c.auto = job[j].auto
      /\ c.point = job[j].point /\ c.failed
  BY <1>1 DEF JobState, Working
<1>3. job' = [job EXCEPT ![j] = c]
  BY DEF GoOnFailed, Alone, TypeOK
<1> HIDE DEF c
<1>. QED  BY <1>2, <1>3

\* A failure after the services were stopped begins the rollback.
LEMMA UndoFrame ==
    ASSUME Alone, NEW j \in Job, job[j].step \in UpdateStep \ {"prepare", "backup"}, Undo(j),
           UNCHANGED <<latest, point, checks, compose, previous, written, history>>,
           tag' \in Release, running' \in Release \cup {None}, db' \in Database,
           BackupFits(point, tag', db')
    PROVE  Alone'
<1> DEFINE c == [job[j] EXCEPT !.step = "undo_stop", !.target = job[j].from, !.auto = TRUE]
<1>1. job[j] \in Working /\ op \in Operation /\ job[j].step # "idle"
  BY WorkingState DEF Alone, TypeOK, UpdateStep
<1>2. /\ Facts(job[j], point, tag, running, db) /\ SameOperation(job[j], op)
  BY <1>1, AtWorkFacts
<1>3. job[j].from \in Release /\ job[j].target \in Release /\ job[j].from < job[j].target
  BY <1>2 DEF Facts
<1>4. /\ c \in JobState /\ c.step = "undo_stop" /\ c.from = job[j].from
      /\ c.target = job[j].from /\ c.auto /\ c.point = job[j].point
  BY <1>1, <1>3 DEF JobState, Working, RollbackStep
<1>5. job' = [job EXCEPT ![j] = c]
  BY DEF Undo, Alone, TypeOK
<1> HIDE DEF c
<1>6. /\ op' \in Operation /\ op'.phase = "rolling_back"
      /\ op'.from = op.from /\ op'.target = op.target
  BY <1>1 DEF Undo, SetPhase, Operation, Phase, Active
<1>7. Facts(c, point', tag', running', db')
  BY <1>2, <1>4 DEF Facts, UpdateStep, RollbackStep
<1>8. SameOperation(c, op')
  BY <1>2, <1>3, <1>4, <1>6 DEF SameOperation, UpdateStep, RollbackStep
<1>9. RolledBackDatabaseIsTheBackup'
  BY <1>6 DEF RolledBackDatabaseIsTheBackup
<1>10. c.step # "idle" /\ op'.phase \in Active
  BY <1>4, <1>6 DEF Active
<1>11. /\ point' \in Point \cup {NoPoint} /\ compose' \in Release
       /\ previous' \in Release \cup {None}
  BY Types
<1>. QED  BY <1>1, <1>4, <1>5, <1>6, <1>7, <1>8, <1>9, <1>10, <1>11, WorkFrame

-----------------------------------------------------------------------------
(* runUpdate                                                               *)

\* An update that ends before the services are stopped has touched nothing.
LEMMA AbortStep ==
    ASSUME Alone, NEW j \in Job, job[j].step # "idle", Abort(j),
           UNCHANGED <<latest, point, checks, files, running, db, written, history>>
    PROVE  Alone'
<1>1. /\ tag' \in Release /\ running' \in Release \cup {None} /\ db' \in Database
      /\ BackupFits(point, tag', db')
  BY Types DEF Alone, files
<1>2. End(j, "failed") /\ UNCHANGED <<compose, previous>>
  BY DEF Abort, files
<1>. QED  BY <1>1, <1>2, EndFrame

\* A step forward that leaves the deployment alone.
LEMMA QuietStep ==
    ASSUME Alone, NEW j \in Job, job[j].step # "idle",
           NEW step \in UpdateStep \cup RollbackStep,
           step \in UpdateStep <=> job[j].step \in UpdateStep,
           GoTo(j, step), op' = op \/ \E phase \in Active : SetPhase(phase),
           UNCHANGED <<latest, point, checks, tag, compose, running, db, written, history>>,
           previous' \in Release \cup {None},
           \A c \in JobState :
              /\ c.step = step /\ c.from = job[j].from /\ c.target = job[j].target
              /\ c.point = job[j].point /\ c.failed = job[j].failed
              => Facts(c, point, tag, running, db)
    PROVE  Alone'
<1>1. PICK c \in JobState :
              /\ job' = [job EXCEPT ![j] = c] /\ c.step = step
              /\ c.from = job[j].from /\ c.target = job[j].target /\ c.auto = job[j].auto
              /\ c.point = job[j].point /\ c.failed = job[j].failed
  BY StepTo
<1>2. Facts(c, point, tag, running, db)
  BY <1>1
<1>3. Facts(c, point', tag', running', db') /\ BackupFits(point', tag', db')
  BY <1>2 DEF Alone
<1>4. /\ point' \in Point \cup {NoPoint} /\ tag' \in Release /\ compose' \in Release
      /\ running' \in Release \cup {None} /\ db' \in Database
  BY Types
<1>. QED  BY <1>1, <1>3, <1>4, GoFrame

LEMMA PrepareStep == ASSUME Alone, NEW j \in Job, Prepare(j)  PROVE Alone'
<1>1. job[j].step = "prepare" /\ job[j].step # "idle"
  BY DEF Prepare
<1>2. Facts(job[j], point, tag, running, db)
  BY <1>1, AtWorkFacts
<1>3. CASE Healthy(tag) /\ GoTo(j, "backup") /\ SetPhase("backing_up")
  <2>1. "backup" \in UpdateStep /\ job[j].step \in UpdateStep /\ "backing_up" \in Active
    BY <1>1 DEF UpdateStep, Active
  <2>2. UNCHANGED <<latest, point, checks, tag, compose, previous, running, db, written, history>>
    BY DEF Prepare, files
  <2>3. previous' \in Release \cup {None}
    BY <2>2, Types
  <2>4. \A c \in JobState :
           c.step = "backup" /\ c.from = job[j].from /\ c.target = job[j].target
           => Facts(c, point, tag, running, db)
    BY <1>1, <1>2, <1>3 DEF Facts, UpdateStep, RollbackStep, Healthy
  <2>. QED  BY <1>1, <1>3, <2>1, <2>2, <2>3, <2>4, QuietStep
<1>4. CASE Abort(j)
  BY <1>1, <1>4, AbortStep DEF Prepare
<1>. QED  BY <1>3, <1>4 DEF Prepare

LEMMA CreateBackupStep == ASSUME Alone, NEW j \in Job, CreateBackup(j)  PROVE Alone'
<1>1. job[j].step = "backup" /\ job[j].step # "idle" /\ job[j].step \in UpdateStep
  BY DEF CreateBackup, UpdateStep
<1>2. Facts(job[j], point, tag, running, db) /\ job[j] \in Working
  BY <1>1, AtWorkFacts
<1>3. CASE Abort(j) /\ UNCHANGED point
  BY <1>1, <1>3, AbortStep DEF CreateBackup
<1>4. CASE /\ db.schema # Gone /\ point' = [release |-> job[j].from, data |-> db]
           /\ job' = [job EXCEPT ![j].step = "keep", ![j].point = point']
           /\ UNCHANGED op
  <2> DEFINE p == [release |-> job[j].from, data |-> db]
             c == [job[j] EXCEPT !.step = "keep", !.point = p]
  <2>1. p \in Point /\ p.release = job[j].from /\ p.data = db
    BY <1>1, <1>2, Types DEF Facts, Point
  <2>2. point' = p /\ job' = [job EXCEPT ![j] = c]
    BY <1>4 DEF Alone, TypeOK
  <2> HIDE DEF p
  <2>3. /\ c \in JobState /\ c.step = "keep" /\ c.from = job[j].from
        /\ c.target = job[j].target /\ c.auto = job[j].auto /\ c.point = p
    BY <1>2, <2>1 DEF JobState, Working, UpdateStep
  <2> HIDE DEF c
  <2>4. UNCHANGED <<latest, checks, tag, compose, previous, running, db, written, history>>
    BY DEF CreateBackup, files
  <2>5. p # NoPoint
    BY <2>1, Releases
  <2>6. Facts(c, point', tag', running', db')
    BY <1>1, <1>2, <2>1, <2>2, <2>3, <2>4, <2>5 DEF Facts, UpdateStep, RollbackStep
  <2>7. BackupFits(point', tag', db')
    <3>1. p.data.schema = tag /\ p.release = tag /\ tag \in Int
      BY <1>1, <1>2, <2>1, Releases, Types DEF Facts
    <3>. QED  BY <2>2, <2>4, <2>5, <3>1 DEF BackupFits
  <2>8. c.step \in UpdateStep
    BY <2>3 DEF UpdateStep
  <2>. QED  BY <1>1, <1>4, <2>1, <2>2, <2>3, <2>4, <2>6, <2>7, <2>8, Types, GoFrame
<1>. QED  BY <1>3, <1>4 DEF CreateBackup

LEMMA KeepComposeStep == ASSUME Alone, NEW j \in Job, KeepCompose(j)  PROVE Alone'
<1>1. job[j].step = "keep" /\ job[j].step # "idle"
  BY DEF KeepCompose
<1>2. Facts(job[j], point, tag, running, db)
  BY <1>1, AtWorkFacts
<1>3. CASE previous' = compose /\ GoTo(j, "pull") /\ SetPhase("pulling")
  <2>1. "pull" \in UpdateStep /\ job[j].step \in UpdateStep /\ "pulling" \in Active
    BY <1>1 DEF UpdateStep, Active
  <2>2. UNCHANGED <<latest, point, checks, tag, compose, running, db, written, history>>
    BY DEF KeepCompose
  <2>3. previous' \in Release \cup {None}
    BY <1>3, Types
  <2>4. \A c \in JobState :
           /\ c.step = "pull" /\ c.from = job[j].from /\ c.target = job[j].target
           /\ c.point = job[j].point
           => Facts(c, point, tag, running, db)
    BY <1>1, <1>2 DEF Facts, UpdateStep, RollbackStep
  <2>. QED  BY <1>1, <1>3, <2>1, <2>2, <2>3, <2>4, QuietStep
<1>4. CASE Abort(j) /\ UNCHANGED previous
  BY <1>1, <1>4, AbortStep DEF KeepCompose, files
<1>. QED  BY <1>3, <1>4 DEF KeepCompose

LEMMA PullImagesStep == ASSUME Alone, NEW j \in Job, PullImages(j)  PROVE Alone'
<1>1. job[j].step = "pull" /\ job[j].step # "idle"
  BY DEF PullImages
<1>2. Facts(job[j], point, tag, running, db)
  BY <1>1, AtWorkFacts
<1>3. CASE GoTo(j, "stop") /\ SetPhase("draining")
  <2>1. "stop" \in UpdateStep /\ job[j].step \in UpdateStep /\ "draining" \in Active
    BY <1>1 DEF UpdateStep, Active
  <2>2. UNCHANGED <<latest, point, checks, tag, compose, previous, running, db, written, history>>
    BY DEF PullImages, files
  <2>3. previous' \in Release \cup {None}
    BY <2>2, Types
  <2>4. \A c \in JobState :
           /\ c.step = "stop" /\ c.from = job[j].from /\ c.target = job[j].target
           /\ c.point = job[j].point
           => Facts(c, point, tag, running, db)
    BY <1>1, <1>2 DEF Facts, UpdateStep, RollbackStep
  <2>. QED  BY <1>1, <1>3, <2>1, <2>2, <2>3, <2>4, QuietStep
<1>4. CASE Abort(j)
  BY <1>1, <1>4, AbortStep DEF PullImages
<1>. QED  BY <1>3, <1>4 DEF PullImages

LEMMA MigratedType ==
    ASSUME Alone, NEW r \in Release, db' = Migrated(r)
    PROVE  db' \in Database /\ db'.schema = r /\ db'.writes = db.writes
BY Types DEF Migrated, Database

LEMMA StopServicesStep == ASSUME Alone, NEW j \in Job, StopServices(j)  PROVE Alone'
<1>1. job[j].step = "stop" /\ job[j].step # "idle" /\ job[j].step \in UpdateStep \ {"prepare", "backup"}
  BY DEF StopServices, UpdateStep
<1>2. Facts(job[j], point, tag, running, db)
  BY <1>1, AtWorkFacts
<1>3. UNCHANGED <<latest, point, checks, tag, compose, previous, db, written, history>>
  BY DEF StopServices, files
<1>4. running' \in Release \cup {None}
  BY Types DEF StopServices, Stopped, StopFails
<1>5. BackupFits(point', tag', db') /\ tag' \in Release /\ db' \in Database
  BY <1>3, Types DEF Alone
<1>6. CASE Stopped /\ GoTo(j, "migrate") /\ SetPhase("migrating")
  <2>1. "migrate" \in UpdateStep /\ "migrating" \in Active
    BY DEF UpdateStep, Active
  <2>2. PICK c \in JobState :
              /\ job' = [job EXCEPT ![j] = c] /\ c.step = "migrate"
              /\ c.from = job[j].from /\ c.target = job[j].target /\ c.auto = job[j].auto
              /\ c.point = job[j].point /\ c.failed = job[j].failed
    BY <1>1, <1>6, <2>1, StepTo
  <2>3. Facts(c, point', tag', running', db')
    BY <1>1, <1>2, <1>3, <2>2 DEF Facts, UpdateStep, RollbackStep
  <2>. QED  BY <1>1, <1>3, <1>4, <1>5, <1>6, <2>1, <2>2, <2>3, Types, GoFrame
<1>7. CASE Undo(j)
  BY <1>1, <1>3, <1>4, <1>5, <1>7, UndoFrame
<1>. QED  BY <1>6, <1>7 DEF StopServices

LEMMA MigrateStep == ASSUME Alone, NEW j \in Job, Migrate(j)  PROVE Alone'
<1>1. job[j].step = "migrate" /\ job[j].step # "idle" /\ job[j].step \in UpdateStep \ {"prepare", "backup"}
  BY DEF Migrate, UpdateStep
<1>2. Facts(job[j], point, tag, running, db) /\ BackupFits(point, tag, db)
  BY <1>1, AtWorkFacts
<1>3. job[j].target \in Release /\ point # NoPoint
  BY <1>1, <1>2 DEF Facts
<1>4. UNCHANGED <<latest, point, checks, tag, compose, previous, running, written, history>>
  BY DEF Migrate, files
<1>5. db' = db \/ db' = Migrated(job[j].target)
  BY DEF Migrate
<1>6. db' \in Database
  BY <1>3, <1>5, MigratedType, Types
<1>7. BackupFits(point', tag', db')
  BY <1>2, <1>3, <1>4 DEF BackupFits
<1>8. CASE GoTo(j, "tag") /\ SetPhase("switching")
  <2>1. "tag" \in UpdateStep /\ "switching" \in Active
    BY DEF UpdateStep, Active
  <2>2. PICK c \in JobState :
              /\ job' = [job EXCEPT ![j] = c] /\ c.step = "tag"
              /\ c.from = job[j].from /\ c.target = job[j].target /\ c.auto = job[j].auto
              /\ c.point = job[j].point /\ c.failed = job[j].failed
    BY <1>1, <1>8, <2>1, StepTo
  <2>3. Facts(c, point', tag', running', db')
    BY <1>1, <1>2, <1>4, <2>2 DEF Facts, UpdateStep, RollbackStep
  <2>. QED  BY <1>1, <1>4, <1>6, <1>7, <1>8, <2>1, <2>2, <2>3, Types, GoFrame
<1>9. CASE Undo(j)
  <2>1. tag' \in Release /\ running' \in Release \cup {None}
    BY <1>4, Types
  <2>. QED  BY <1>1, <1>4, <1>6, <1>7, <1>9, <2>1, UndoFrame
<1>. QED  BY <1>8, <1>9 DEF Migrate

LEMMA SetTagStep == ASSUME Alone, NEW j \in Job, SetTag(j)  PROVE Alone'
<1>1. job[j].step = "tag" /\ job[j].step # "idle" /\ job[j].step \in UpdateStep \ {"prepare", "backup"}
  BY DEF SetTag, UpdateStep
<1>2. Facts(job[j], point, tag, running, db) /\ BackupFits(point, tag, db)
  BY <1>1, AtWorkFacts
<1>3. /\ job[j].target \in Release /\ job[j].from \in Release /\ point # NoPoint
      /\ job[j].from < job[j].target /\ point.release = job[j].from
  BY <1>1, <1>2 DEF Facts
<1>4. UNCHANGED <<latest, point, checks, compose, previous, running, db, written, history>>
  BY DEF SetTag
<1>5. CASE tag' = job[j].target /\ GoOn(j, "compose")
  <2>1. "compose" \in UpdateStep
    BY DEF UpdateStep
  <2>2. PICK c \in JobState :
              /\ job' = [job EXCEPT ![j] = c] /\ c.step = "compose"
              /\ c.from = job[j].from /\ c.target = job[j].target /\ c.auto = job[j].auto
              /\ c.point = job[j].point /\ c.failed = job[j].failed
    BY <1>1, <1>5, <2>1, StepTo DEF GoOn
  <2>3. Facts(c, point', tag', running', db')
    BY <1>1, <1>2, <1>4, <1>5, <2>2 DEF Facts, UpdateStep, RollbackStep
  <2>4. BackupFits(point', tag', db')
    <3>0. job[j].from \in Int /\ job[j].target \in Int
      BY <1>3, Releases
    <3>1. point.release <= job[j].target
      BY <1>3, <3>0
    <3>. QED  BY <1>2, <1>3, <1>4, <1>5, <3>1 DEF BackupFits
  <2>. QED  BY <1>1, <1>3, <1>4, <1>5, <2>1, <2>2, <2>3, <2>4, Types, GoFrame DEF GoOn
<1>6. CASE Undo(j) /\ UNCHANGED tag
  <2>1. /\ tag' \in Release /\ running' \in Release \cup {None} /\ db' \in Database
        /\ BackupFits(point, tag', db')
    BY <1>2, <1>4, <1>6, Types
  <2>. QED  BY <1>1, <1>4, <1>6, <2>1, UndoFrame
<1>. QED  BY <1>5, <1>6 DEF SetTag

LEMMA SwitchComposeStep == ASSUME Alone, NEW j \in Job, SwitchCompose(j)  PROVE Alone'
<1>1. job[j].step = "compose" /\ job[j].step # "idle" /\ job[j].step \in UpdateStep \ {"prepare", "backup"}
  BY DEF SwitchCompose, UpdateStep
<1>2. Facts(job[j], point, tag, running, db) /\ BackupFits(point, tag, db)
  BY <1>1, AtWorkFacts
<1>3. /\ job[j].target \in Release /\ job[j].from \in Release /\ point # NoPoint
      /\ point.release = job[j].from
  BY <1>1, <1>2 DEF Facts
<1>4. UNCHANGED <<latest, point, checks, previous, running, db, written, history>>
  BY DEF SwitchCompose
<1>5. CASE compose' = job[j].target /\ GoOn(j, "up") /\ UNCHANGED tag
  <2>1. "up" \in UpdateStep
    BY DEF UpdateStep
  <2>2. PICK c \in JobState :
              /\ job' = [job EXCEPT ![j] = c] /\ c.step = "up"
              /\ c.from = job[j].from /\ c.target = job[j].target /\ c.auto = job[j].auto
              /\ c.point = job[j].point /\ c.failed = job[j].failed
    BY <1>1, <1>5, <2>1, StepTo DEF GoOn
  <2>3. Facts(c, point', tag', running', db')
    BY <1>1, <1>2, <1>4, <1>5, <2>2 DEF Facts, UpdateStep, RollbackStep
  <2>4. BackupFits(point', tag', db')
    BY <1>2, <1>4, <1>5
  <2>. QED  BY <1>1, <1>3, <1>4, <1>5, <2>1, <2>2, <2>3, <2>4, Types, GoFrame DEF GoOn
<1>6. CASE tag' \in {tag, job[j].from} /\ Undo(j) /\ UNCHANGED compose
  <2>1. tag' \in Release /\ running' \in Release \cup {None} /\ db' \in Database
    BY <1>3, <1>4, <1>6, Types
  <2>2. BackupFits(point, tag', db')
    <3>0. job[j].from \in Int
      BY <1>3, Releases
    <3>1. point.release <= job[j].from
      BY <1>3, <3>0
    <3>. QED  BY <1>2, <1>3, <1>4, <1>6, <3>1 DEF BackupFits
  <2>. QED  BY <1>1, <1>4, <1>6, <2>1, <2>2, UndoFrame
<1>. QED  BY <1>5, <1>6 DEF SwitchCompose

\* docker compose up leaves a database of the release, or the one it found.
LEMMA StartedType ==
    ASSUME Alone, NEW r \in Release, Started(r) \/ StartFails(r)
    PROVE  /\ running' \in Release \cup {None} /\ db' \in Database
           /\ db'.writes = db.writes
BY Types, MigratedType DEF Started, StartFails

LEMMA StartServicesStep == ASSUME Alone, NEW j \in Job, StartServices(j)  PROVE Alone'
<1>1. job[j].step = "up" /\ job[j].step # "idle" /\ job[j].step \in UpdateStep \ {"prepare", "backup"}
  BY DEF StartServices, UpdateStep
<1>2. Facts(job[j], point, tag, running, db) /\ BackupFits(point, tag, db)
  BY <1>1, AtWorkFacts
<1>3. job[j].target \in Release /\ point # NoPoint
  BY <1>1, <1>2 DEF Facts
<1>4. UNCHANGED <<latest, point, checks, tag, compose, previous, written, history>>
  BY DEF StartServices, files
<1>5. running' \in Release \cup {None} /\ db' \in Database
  BY <1>3, StartedType DEF StartServices
<1>6. BackupFits(point', tag', db')
  BY <1>2, <1>3, <1>4 DEF BackupFits
<1>7. CASE GoTo(j, "verify") /\ SetPhase("verifying")
  <2>1. "verify" \in UpdateStep /\ "verifying" \in Active
    BY DEF UpdateStep, Active
  <2>2. PICK c \in JobState :
              /\ job' = [job EXCEPT ![j] = c] /\ c.step = "verify"
              /\ c.from = job[j].from /\ c.target = job[j].target /\ c.auto = job[j].auto
              /\ c.point = job[j].point /\ c.failed = job[j].failed
    BY <1>1, <1>7, <2>1, StepTo
  <2>3. Facts(c, point', tag', running', db')
    BY <1>1, <1>2, <1>4, <2>2 DEF Facts, UpdateStep, RollbackStep
  <2>. QED  BY <1>1, <1>4, <1>5, <1>6, <1>7, <2>1, <2>2, <2>3, Types, GoFrame
<1>8. CASE Undo(j)
  <2>1. tag' \in Release
    BY <1>4, Types
  <2>. QED  BY <1>1, <1>4, <1>5, <1>6, <1>8, <2>1, UndoFrame
<1>. QED  BY <1>7, <1>8 DEF StartServices

LEMMA VerifyStep == ASSUME Alone, NEW j \in Job, Verify(j)  PROVE Alone'
<1>1. job[j].step = "verify" /\ job[j].step # "idle" /\ job[j].step \in UpdateStep \ {"prepare", "backup"}
  BY DEF Verify, UpdateStep
<1>2. UNCHANGED <<latest, point, checks, tag, compose, previous, running, db, written, history>>
  BY DEF Verify, files
<1>3. /\ tag' \in Release /\ running' \in Release \cup {None} /\ db' \in Database
      /\ BackupFits(point, tag', db')
  BY <1>2, Types DEF Alone
<1>4. CASE End(j, "succeeded") \/ End(j, "manual_intervention")
  BY <1>1, <1>2, <1>3, <1>4, EndFrame
<1>5. CASE Undo(j)
  BY <1>1, <1>2, <1>3, <1>5, UndoFrame
<1>. QED  BY <1>4, <1>5 DEF Verify

-----------------------------------------------------------------------------
(* runRollback                                                             *)

\* A step of a rollback: either it worked, or the failure is remembered.
LEMMA UndoStepFrame ==
    ASSUME Alone, NEW j \in Job, job[j].step \in RollbackStep, NEW step \in RollbackStep,
           GoOn(j, step) \/ GoOnFailed(j, step),
           UNCHANGED <<latest, point, checks, previous, written, history>>,
           tag' \in Release, compose' \in Release,
           running' \in Release \cup {None}, db' \in Database,
           BackupFits(point, tag', db'),
           \A c \in JobState :
              /\ c.step = step /\ c.from = job[j].from /\ c.target = job[j].target
              /\ c.point = job[j].point
              /\ c.failed \/ (GoOn(j, step) /\ c.failed = job[j].failed)
              => Facts(c, point, tag', running', db')
    PROVE  Alone'
<1>1. job[j].step # "idle" /\ job[j].step \notin UpdateStep /\ step \notin UpdateStep
  BY DEF UpdateStep, RollbackStep
<1>2. PICK c \in JobState :
         /\ job' = [job EXCEPT ![j] = c] /\ c.step = step
         /\ c.from = job[j].from /\ c.target = job[j].target /\ c.auto = job[j].auto
         /\ c.point = job[j].point
         /\ c.failed \/ (GoOn(j, step) /\ c.failed = job[j].failed)
  <2>1. CASE GoOn(j, step)
    BY <1>1, <2>1, StepTo DEF GoOn
  <2>2. CASE GoOnFailed(j, step)
    BY <1>1, <2>2, StepToFailed
  <2>. QED  BY <2>1, <2>2
<1>3. op' = op
  BY DEF GoOn, GoOnFailed
<1>4. Facts(c, point', tag', running', db')
  BY <1>2
<1>. QED  BY <1>1, <1>2, <1>3, <1>4, Types, GoFrame

LEMMA UndoStopStep == ASSUME Alone, NEW j \in Job, UndoStop(j)  PROVE Alone'
<1>1. /\ job[j].step = "undo_stop" /\ job[j].step # "idle" /\ job[j].step \in RollbackStep
      /\ "undo_compose" \in RollbackStep
  BY DEF UndoStop, RollbackStep
<1>2. Facts(job[j], point, tag, running, db)
  BY <1>1, AtWorkFacts
<1>3. UNCHANGED <<latest, point, checks, tag, compose, previous, db, written, history>>
  BY DEF UndoStop, files
<1>4. GoOn(j, "undo_compose") \/ GoOnFailed(j, "undo_compose")
  BY DEF UndoStop
<1>5. running' \in Release \cup {None}
  BY Types DEF UndoStop, Stopped, StopFails
<1>6. tag' \in Release /\ compose' \in Release /\ db' \in Database /\ BackupFits(point, tag', db')
  BY <1>3, Types DEF Alone
<1>7. \A c \in JobState :
         c.step = "undo_compose" /\ c.target = job[j].target /\ c.point = job[j].point
         => Facts(c, point, tag', running', db')
  BY <1>1, <1>2 DEF Facts, UpdateStep, RollbackStep
<1>. QED  BY <1>1, <1>3, <1>4, <1>5, <1>6, <1>7, UndoStepFrame

LEMMA UndoComposeStep == ASSUME Alone, NEW j \in Job, UndoCompose(j)  PROVE Alone'
<1>1. /\ job[j].step = "undo_compose" /\ job[j].step # "idle" /\ job[j].step \in RollbackStep
      /\ "drop" \in RollbackStep
  BY DEF UndoCompose, RollbackStep
<1>2. Facts(job[j], point, tag, running, db)
  BY <1>1, AtWorkFacts
<1>3. UNCHANGED <<latest, point, checks, tag, previous, running, db, written, history>>
  BY DEF UndoCompose
<1>4. GoOn(j, "drop") \/ GoOnFailed(j, "drop")
  BY DEF UndoCompose
<1>5. compose' \in Release
  BY Types DEF UndoCompose
<1>6. /\ tag' \in Release /\ running' \in Release \cup {None} /\ db' \in Database
      /\ BackupFits(point, tag', db')
  BY <1>3, Types DEF Alone
<1>7. \A c \in JobState :
         c.step = "drop" /\ c.target = job[j].target /\ c.point = job[j].point
         => Facts(c, point, tag', running', db')
  BY <1>1, <1>2 DEF Facts, UpdateStep, RollbackStep
<1>. QED  BY <1>1, <1>3, <1>4, <1>5, <1>6, <1>7, UndoStepFrame

LEMMA Databases == Dropped \in Database /\ Empty \in Database
BY DEF Dropped, Empty, Database

\* A failure of a rollback promises nothing about what it should have put back.
LEMMA FailFrame ==
    ASSUME Alone, NEW j \in Job, job[j].step \in RollbackStep,
           NEW step \in {"undo_tag", "undo_up"}, GoOnFailed(j, step),
           UNCHANGED <<latest, point, checks, previous, written, history>>,
           tag' \in Release, compose' \in Release,
           running' \in Release \cup {None}, db' \in Database,
           BackupFits(point, tag', db')
    PROVE  Alone'
<1>1. /\ job[j].step # "idle" /\ job[j].step \notin UpdateStep
      /\ step \in RollbackStep /\ step \notin UpdateStep
  BY DEF UpdateStep, RollbackStep
<1>2. Facts(job[j], point, tag, running, db)
  BY <1>1, AtWorkFacts
<1>3. PICK c \in JobState :
         /\ job' = [job EXCEPT ![j] = c] /\ c.step = step
         /\ c.from = job[j].from /\ c.target = job[j].target /\ c.auto = job[j].auto
         /\ c.point = job[j].point /\ c.failed
  BY <1>1, StepToFailed
<1>4. Facts(c, point', tag', running', db')
  BY <1>1, <1>2, <1>3 DEF Facts, UpdateStep
<1>5. op' = op
  BY DEF GoOnFailed
<1>. QED  BY <1>1, <1>3, <1>4, <1>5, Types, GoFrame

LEMMA DropDatabaseStep == ASSUME Alone, NEW j \in Job, DropDatabase(j)  PROVE Alone'
<1>1. /\ job[j].step = "drop" /\ job[j].step # "idle" /\ job[j].step \in RollbackStep
      /\ "create" \in RollbackStep
  BY DEF DropDatabase, RollbackStep
<1>2. Facts(job[j], point, tag, running, db) /\ BackupFits(point, tag, db)
  BY <1>1, AtWorkFacts
<1>3. UNCHANGED <<latest, point, checks, tag, compose, previous, running, written, history>>
  BY DEF DropDatabase, files
<1>4. db' \in {db, Dropped}
  BY DEF DropDatabase
<1>5. /\ tag' \in Release /\ compose' \in Release /\ running' \in Release \cup {None}
      /\ db' \in Database
  BY <1>3, <1>4, Types, Databases
<1>6. point # NoPoint
  BY <1>1, <1>2 DEF Facts
<1>7. BackupFits(point, tag', db')
  BY <1>2, <1>3, <1>6 DEF BackupFits
<1>8. CASE GoOn(j, "create")
  <2>1. \A c \in JobState :
           c.step = "create" /\ c.target = job[j].target /\ c.point = job[j].point
           => Facts(c, point, tag', running', db')
    BY <1>1, <1>2 DEF Facts, UpdateStep, RollbackStep
  <2>. QED  BY <1>1, <1>3, <1>5, <1>7, <1>8, <2>1, UndoStepFrame
<1>9. CASE GoOnFailed(j, "undo_tag")
  BY <1>1, <1>3, <1>5, <1>7, <1>9, FailFrame
<1>. QED  BY <1>8, <1>9 DEF DropDatabase

LEMMA CreateDatabaseStep == ASSUME Alone, NEW j \in Job, CreateDatabase(j)  PROVE Alone'
<1>1. /\ job[j].step = "create" /\ job[j].step # "idle" /\ job[j].step \in RollbackStep
      /\ "restore" \in RollbackStep
  BY DEF CreateDatabase, RollbackStep
<1>2. Facts(job[j], point, tag, running, db) /\ BackupFits(point, tag, db)
  BY <1>1, AtWorkFacts
<1>3. UNCHANGED <<latest, point, checks, tag, compose, previous, running, written, history>>
  BY DEF CreateDatabase, files
<1>4. db' \in {db, Empty}
  BY DEF CreateDatabase
<1>5. /\ tag' \in Release /\ compose' \in Release /\ running' \in Release \cup {None}
      /\ db' \in Database
  BY <1>3, <1>4, Types, Databases
<1>6. point # NoPoint
  BY <1>1, <1>2 DEF Facts
<1>7. BackupFits(point, tag', db')
  BY <1>2, <1>3, <1>6 DEF BackupFits
<1>8. CASE GoOn(j, "restore")
  <2>1. \A c \in JobState :
           c.step = "restore" /\ c.target = job[j].target /\ c.point = job[j].point
           => Facts(c, point, tag', running', db')
    BY <1>1, <1>2 DEF Facts, UpdateStep, RollbackStep
  <2>. QED  BY <1>1, <1>3, <1>5, <1>7, <1>8, <2>1, UndoStepFrame
<1>9. CASE GoOnFailed(j, "undo_tag")
  BY <1>1, <1>3, <1>5, <1>7, <1>9, FailFrame
<1>. QED  BY <1>8, <1>9 DEF CreateDatabase

LEMMA RestoreDatabaseStep == ASSUME Alone, NEW j \in Job, RestoreDatabase(j)  PROVE Alone'
<1>1. /\ job[j].step = "restore" /\ job[j].step # "idle" /\ job[j].step \in RollbackStep
      /\ "undo_tag" \in RollbackStep
  BY DEF RestoreDatabase, RollbackStep
<1>2. Facts(job[j], point, tag, running, db) /\ BackupFits(point, tag, db)
  BY <1>1, AtWorkFacts
<1>3. UNCHANGED <<latest, point, checks, tag, compose, previous, running, written, history>>
  BY DEF RestoreDatabase, files
<1>4. point # NoPoint /\ job[j].point = point /\ point \in Point
  BY <1>1, <1>2, Types DEF Facts
<1>5. point.data \in Database
  BY <1>4 DEF Point
<1>6. CASE db' = job[j].point.data /\ GoOn(j, "undo_tag")
  <2>1. /\ tag' \in Release /\ compose' \in Release /\ running' \in Release \cup {None}
        /\ db' \in Database
    BY <1>3, <1>4, <1>5, <1>6, Types
  <2>2. BackupFits(point, tag', db')
    BY <1>2, <1>3, <1>4 DEF BackupFits
  <2>3. \A c \in JobState :
           c.step = "undo_tag" /\ c.target = job[j].target /\ c.point = job[j].point
           => Facts(c, point, tag', running', db')
    BY <1>1, <1>2, <1>4, <1>6 DEF Facts, UpdateStep, RollbackStep
  <2>. QED  BY <1>1, <1>3, <1>6, <2>1, <2>2, <2>3, UndoStepFrame
<1>7. CASE /\ GoOnFailed(j, "undo_tag")
           /\ \/ UNCHANGED db
              \/ \E w \in SUBSET job[j].point.data.writes :
                   \/ db' = [job[j].point.data EXCEPT !.writes = w]
                   \/ db' = [db EXCEPT !.writes = @ \cup w]
  <2>1. db' \in Database
    BY <1>4, <1>5, <1>7, Types DEF Database
  <2>2. /\ tag' \in Release /\ compose' \in Release /\ running' \in Release \cup {None}
    BY <1>3, Types
  <2>3. BackupFits(point, tag', db')
    BY <1>2, <1>3, <1>4 DEF BackupFits
  <2>. QED  BY <1>1, <1>3, <1>7, <2>1, <2>2, <2>3, FailFrame
<1>. QED  BY <1>6, <1>7 DEF RestoreDatabase

LEMMA UndoTagStep == ASSUME Alone, NEW j \in Job, UndoTag(j)  PROVE Alone'
<1>1. /\ job[j].step = "undo_tag" /\ job[j].step # "idle" /\ job[j].step \in RollbackStep
      /\ "undo_up" \in RollbackStep
  BY DEF UndoTag, RollbackStep
<1>2. Facts(job[j], point, tag, running, db) /\ BackupFits(point, tag, db)
  BY <1>1, AtWorkFacts
<1>3. UNCHANGED <<latest, point, checks, compose, previous, running, db, written, history>>
  BY DEF UndoTag
<1>4. /\ point # NoPoint /\ job[j].target = point.release /\ point \in Point
      /\ point.release \in Release
  BY <1>1, <1>2, Types, Releases DEF Facts
<1>5. /\ compose' \in Release /\ running' \in Release \cup {None} /\ db' \in Database
  BY <1>3, Types
<1>6. CASE tag' = job[j].target /\ GoOn(j, "undo_up")
  <2>1. BackupFits(point, tag', db')
    <3>1. point.release \in Int
      BY <1>4, Releases
    <3>. QED  BY <1>2, <1>3, <1>4, <1>6, <3>1 DEF BackupFits
  <2>2. \A c \in JobState :
           /\ c.step = "undo_up" /\ c.target = job[j].target /\ c.point = job[j].point
           /\ c.failed \/ c.failed = job[j].failed
           => Facts(c, point, tag', running', db')
    BY <1>1, <1>2, <1>3, <1>6 DEF Facts, UpdateStep, RollbackStep
  <2>. QED  BY <1>1, <1>3, <1>4, <1>5, <1>6, <2>1, <2>2, UndoStepFrame
<1>7. CASE GoOnFailed(j, "undo_up") /\ UNCHANGED tag
  <2>1. tag' \in Release /\ BackupFits(point, tag', db')
    BY <1>2, <1>3, <1>7, Types
  <2>. QED  BY <1>1, <1>3, <1>5, <1>7, <2>1, FailFrame
<1>. QED  BY <1>6, <1>7 DEF UndoTag

LEMMA UndoStartStep == ASSUME Alone, NEW j \in Job, UndoStart(j)  PROVE Alone'
<1>1. /\ job[j].step = "undo_up" /\ job[j].step # "idle" /\ job[j].step \in RollbackStep
      /\ "undo_verify" \in RollbackStep
  BY DEF UndoStart, RollbackStep
<1>2. Facts(job[j], point, tag, running, db) /\ BackupFits(point, tag, db)
  BY <1>1, AtWorkFacts
<1>3. UNCHANGED <<latest, point, checks, tag, compose, previous, written, history>>
  BY DEF UndoStart, files
<1>4. point # NoPoint /\ job[j].target \in Release
  BY <1>1, <1>2, Types, Releases DEF Facts
<1>5. running' \in Release \cup {None} /\ db' \in Database /\ db'.writes = db.writes
  BY <1>4, StartedType DEF UndoStart
<1>6. BackupFits(point, tag', db') /\ tag' \in Release /\ compose' \in Release
  BY <1>2, <1>3, <1>4, Types DEF BackupFits
<1>7. CASE GoOn(j, "undo_verify")
  <2>1. \A c \in JobState :
           /\ c.step = "undo_verify" /\ c.target = job[j].target /\ c.point = job[j].point
           /\ c.failed \/ c.failed = job[j].failed
           => Facts(c, point, tag', running', db')
    BY <1>1, <1>2, <1>3, <1>5 DEF Facts, UpdateStep, RollbackStep
  <2>. QED  BY <1>1, <1>3, <1>5, <1>6, <1>7, <2>1, UndoStepFrame
<1>8. CASE End(j, "manual_intervention")
  BY <1>1, <1>3, <1>5, <1>6, <1>8, EndFrame
<1>. QED  BY <1>7, <1>8 DEF UndoStart

LEMMA UndoVerifyStep == ASSUME Alone, NEW j \in Job, UndoVerify(j)  PROVE Alone'
<1>1. job[j].step = "undo_verify" /\ job[j].step # "idle"
  BY DEF UndoVerify
<1>2. Facts(job[j], point, tag, running, db)
  BY <1>1, AtWorkFacts
<1>3. UNCHANGED <<latest, point, checks, tag, compose, previous, running, db, written, history>>
  BY DEF UndoVerify, files
<1>4. /\ tag' \in Release /\ running' \in Release \cup {None} /\ db' \in Database
      /\ BackupFits(point, tag', db')
  BY <1>3, Types DEF Alone
<1>5. CASE Healthy(job[j].target) /\ ~job[j].failed /\ End(j, "rolled_back")
  <2>1. RolledBackDatabaseIsTheBackup'
    BY <1>1, <1>2, <1>3, <1>5 DEF RolledBackDatabaseIsTheBackup, Facts, Healthy, RollbackStep
  <2>. QED  BY <1>1, <1>3, <1>4, <1>5, <2>1, EndFrame
<1>6. CASE End(j, "manual_intervention")
  BY <1>1, <1>3, <1>4, <1>6, EndFrame
<1>. QED  BY <1>5, <1>6 DEF UndoVerify

-----------------------------------------------------------------------------
(* Requests and the rest of the world                                      *)

\* A check begins or is answered, also while a goroutine is at work.
LEMMA LookFrame ==
    ASSUME Alone, NEW phase \in Looked, SetPhase(phase),
           latest' \in Release \cup {None}, checks' \in 0 .. MaxChecks,
           overtaken' \in BOOLEAN, overtaken => overtaken',
           AtWork = {} \/ overtaken',
           UNCHANGED <<point, job, files, running, db, written, overlapped>>
    PROVE  Alone'
<1>1. op \in Operation /\ op' = [op EXCEPT !.phase = phase]
  BY DEF Alone, TypeOK, SetPhase
<1>2. /\ op' \in Operation /\ op'.phase = phase
      /\ op'.from = op.from /\ op'.target = op.target
  BY <1>1 DEF Operation, Phase, Looked
<1>3. TypeOK'
  BY <1>2 DEF Alone, TypeOK, files
<1>4. AtWork' = AtWork
  BY DEF AtWork
<1>5. phase \notin Active /\ phase # "rolled_back"
  BY DEF Active, Looked
<1>6. RolledBackDatabaseIsTheBackup' /\ PhaseIsTrue'
  BY <1>2, <1>4, <1>5 DEF RolledBackDatabaseIsTheBackup, PhaseIsTrue
<1>7. BackupFits(point, tag, db)'
  BY DEF Alone, BackupFits, files
<1>8. \A i \in AtWork' : Facts(job[i], point, tag, running, db)' /\ SameOperation(job[i], op)'
  <2>. SUFFICES ASSUME NEW i \in AtWork
                PROVE  Facts(job[i], point, tag, running, db)' /\ SameOperation(job[i], op)'
    BY <1>4
  <2>1. Facts(job[i], point, tag, running, db) /\ SameOperation(job[i], op)
    BY DEF Alone
  <2>. QED  BY <2>1, <1>2 DEF Facts, SameOperation, files
<1>. QED  BY <1>2, <1>3, <1>4, <1>6, <1>7, <1>8 DEF Alone, OneTask

LEMMA CheckStep == ASSUME Alone, BeginCheck \/ EndCheck  PROVE Alone'
<1>1. AtWork # {} /\ op.phase \notin Active => overtaken
  BY DEF Alone, PhaseIsTrue
<1>2. PICK phase \in Looked : SetPhase(phase)
  BY DEF BeginCheck, EndCheck, SetPhase, Looked
<1>3. /\ latest' \in Release \cup {None} /\ checks' \in 0 .. MaxChecks
      /\ overtaken' \in BOOLEAN /\ (overtaken => overtaken')
      /\ AtWork = {} \/ overtaken'
  <2>1. CASE BeginCheck
    BY <1>1, <2>1 DEF BeginCheck, Alone, TypeOK, history
  <2>2. CASE EndCheck
    <3>1. latest' \in Release \cup {None} /\ checks' \in 0 .. MaxChecks
      BY <2>2 DEF EndCheck, Alone, TypeOK
    <3>2. /\ overtaken' \in BOOLEAN /\ (overtaken => overtaken')
          /\ AtWork = {} \/ overtaken'
      BY <2>2 DEF EndCheck
    <3>. QED  BY <3>1, <3>2
  <2>. QED  BY <2>1, <2>2
<1>4. UNCHANGED <<point, job, files, running, db, written, overlapped>>
  BY DEF BeginCheck, EndCheck, history
<1>. QED  BY <1>2, <1>3, <1>4, LookFrame

\* A goroutine begins when there is none.
LEMMA BeginFrame ==
    ASSUME Alone, ~overlapped', NEW j \in Job, NEW c \in JobState, NEW o \in Operation,
           Start(o, j, c), c.step # "idle", o.phase \in Active,
           Facts(c, point, tag, running, db), SameOperation(c, o)
    PROVE  Alone'
<1>1. AtWork = {} /\ overtaken' = FALSE
  BY DEF Start
<1>2. TypeOK'
  BY <1>1 DEF Alone, TypeOK, files, Start
<1>3. job'[j] = c /\ op' = o /\ \A i \in Job : i # j => job'[i].step = "idle"
  BY <1>1 DEF Alone, TypeOK, AtWork, Start
<1>4. AtWork' = {j}
  BY <1>3 DEF AtWork
<1>5. RolledBackDatabaseIsTheBackup'
  BY <1>3 DEF RolledBackDatabaseIsTheBackup, Active
<1>6. /\ Facts(job[j], point, tag, running, db)' /\ SameOperation(job[j], op)'
      /\ BackupFits(point, tag, db)'
  BY <1>3 DEF Alone, files, Start
<1>. QED  BY <1>2, <1>3, <1>4, <1>5, <1>6 DEF Alone, OneTask, PhaseIsTrue

LEMMA StartUpdateStep ==
    ASSUME Alone, ~overlapped', NEW j \in Job, NEW r \in Release, StartUpdate(j, r)
    PROVE  Alone'
<1> DEFINE c == [NoJob EXCEPT !.step = "prepare", !.from = tag, !.target = r]
           o == [phase |-> "preflight", from |-> tag, target |-> r]
<1>1. /\ c \in JobState /\ c.step = "prepare" /\ c.from = tag /\ c.target = r
  BY Types DEF NoJob, JobState, Working, UpdateStep
<1>2. o \in Operation /\ o.phase \in Active /\ o.from = tag /\ o.target = r
  BY Types DEF Operation, Phase, Active
<1>3. Start(o, j, c)
  BY DEF StartUpdate
<1> HIDE DEF c, o
<1>4. Facts(c, point, tag, running, db)
  BY <1>1, Types DEF Facts, StartUpdate, UpdateStep, RollbackStep
<1>5. SameOperation(c, o)
  BY <1>1, <1>2 DEF SameOperation, UpdateStep, RollbackStep
<1>. QED  BY <1>1, <1>2, <1>3, <1>4, <1>5, BeginFrame

LEMMA StartRollbackStep ==
    ASSUME Alone, ~overlapped', NEW j \in Job, StartRollback(j)
    PROVE  Alone'
<1> DEFINE c == [NoJob EXCEPT !.step = "undo_stop", !.from = tag,
                              !.target = point.release, !.point = point]
           o == [phase |-> "rolling_back", from |-> tag, target |-> point.release]
<1>1. point \in Point /\ point # NoPoint /\ point.release \in Release
  BY Types, Releases DEF StartRollback
<1>2. /\ c \in JobState /\ c.step = "undo_stop" /\ c.from = tag
      /\ c.target = point.release /\ c.point = point /\ ~c.auto
  BY <1>1, Types DEF NoJob, JobState, Working, RollbackStep
<1>3. /\ o \in Operation /\ o.phase \in Active /\ o.from = tag /\ o.target = point.release
  BY <1>1, Types DEF Operation, Phase, Active
<1>4. Start(o, j, c)
  BY DEF StartRollback
<1> HIDE DEF c, o
<1>5. Facts(c, point, tag, running, db)
  BY <1>1, <1>2 DEF Facts, UpdateStep, RollbackStep
<1>6. SameOperation(c, o)
  <2>1. point.release <= tag /\ tag \in Release
    BY <1>1, Types DEF Alone, BackupFits
  <2>. QED  BY <1>2, <1>3, <2>1 DEF SameOperation, UpdateStep, RollbackStep
<1>7. c.step # "idle"
  BY <1>2
<1>. QED  BY <1>2, <1>3, <1>4, <1>5, <1>6, <1>7, BeginFrame

LEMMA RestartStep == ASSUME Alone, Restart  PROVE Alone'
<1>1. /\ op' \in Operation /\ op'.phase \notin Active
      /\ op'.phase \in {op.phase, "manual_intervention"}
  BY DEF Restart, Alone, TypeOK, Operation, Phase, Active
<1>2. NoJob \in JobState /\ NoJob.step = "idle"
  BY DEF NoJob, JobState, Working
<1>3. TypeOK'
  BY <1>1, <1>2 DEF Restart, Alone, TypeOK, files, history
<1>4. AtWork' = {}
  BY <1>2 DEF Restart, AtWork
<1>5. RolledBackDatabaseIsTheBackup'
  BY <1>1 DEF RolledBackDatabaseIsTheBackup, Restart, Alone, files, history
<1>6. BackupFits(point, tag, db)' /\ ~overlapped'
  BY DEF Alone, BackupFits, files, Restart, history
<1>. QED  BY <1>1, <1>3, <1>4, <1>5, <1>6 DEF Alone, OneTask, PhaseIsTrue

LEMMA UserWriteStep == ASSUME Alone, UserWrite  PROVE Alone' /\ UNCHANGED Promise!promised
<1>1. written + 1 \in 1 .. MaxWrites
  BY DEF UserWrite, Alone, TypeOK
<1>2. db' = [db EXCEPT !.writes = db.writes \cup {written + 1}] /\ db \in Database
  BY Types DEF UserWrite
<1>3. db' \in Database /\ db'.schema = db.schema /\ db.writes \subseteq db'.writes
  BY <1>1, <1>2 DEF Database
<1>4. UNCHANGED <<op, latest, point, checks, job, tag, compose, previous, running, overtaken, overlapped>>
  BY DEF UserWrite, daemon, files, history
<1>5. AtWork' = AtWork
  BY <1>4 DEF AtWork
<1>6. TypeOK'
  BY <1>1, <1>3, <1>4 DEF UserWrite, Alone, TypeOK
<1>7. /\ OneTask' /\ PhaseIsTrue' /\ ~overlapped'
      /\ AtWork' # {} => op'.phase \in Active \cup Looked
  BY <1>4, <1>5 DEF Alone, OneTask, PhaseIsTrue
<1>8. BackupFits(point, tag, db)' /\ RolledBackDatabaseIsTheBackup'
  BY <1>3, <1>4 DEF Alone, BackupFits, RolledBackDatabaseIsTheBackup
<1>9. \A i \in AtWork' : Facts(job[i], point, tag, running, db)' /\ SameOperation(job[i], op)'
  <2>. SUFFICES ASSUME NEW i \in AtWork
                PROVE  Facts(job[i], point, tag, running, db)' /\ SameOperation(job[i], op)'
    BY <1>5
  <2>1. Facts(job[i], point, tag, running, db) /\ SameOperation(job[i], op)
    BY DEF Alone
  <2>. QED  BY <2>1, <1>3, <1>4 DEF Facts, SameOperation
<1>10. Serving' = Serving
  BY <1>3, <1>4 DEF Serving
<1>. QED  BY <1>4, <1>5, <1>6, <1>7, <1>8, <1>9, <1>10 DEF Alone, Promise!promised

LEMMA InitStep == ASSUME Init  PROVE IInv /\ Promise!PromiseInit
<1>1. 1 \in Release /\ NoJob \in JobState /\ NoJob.step = "idle" /\ AtWork = {}
  BY DEF Release, NoJob, JobState, Init, AtWork
<1>2. op.phase = "idle" /\ "idle" \notin Active /\ op \in Operation
  BY DEF Init, Active, Operation, Phase
<1>3. db \in Database /\ written \in 0 .. MaxWrites
  BY <1>1 DEF Init, Database
<1>4. TypeOK
  <2>1. checks \in 0 .. MaxChecks
    BY DEF Init
  <2>2. job \in [Job -> JobState]
    BY <1>1 DEF Init
  <2>3. overtaken \in BOOLEAN /\ overlapped \in BOOLEAN
    BY DEF Init
  <2>. QED  BY <1>1, <1>2, <1>3, <2>1, <2>2, <2>3 DEF Init, TypeOK
<1>5. BackupFits(point, tag, db)
  BY DEF Init, BackupFits
<1>6. Alone
  BY <1>1, <1>2, <1>4, <1>5 DEF Alone, OneTask, PhaseIsTrue, RolledBackDatabaseIsTheBackup, Init
<1>7. Promise!PromiseInit
  BY <1>1, <1>2 DEF Init, Promise!PromiseInit, Serving, Promise!NotServing, None, Verdict
<1>8. Weak
  BY <1>6 DEF Alone, Weak, OneTaskUnlessOvertaken
<1>. QED  BY <1>6, <1>7, <1>8 DEF IInv

-----------------------------------------------------------------------------
(* Every step keeps the promise to the administrator                       *)

PStep == [Promise!PromiseNext]_(Promise!promised)

LEMMA PromiseNames ==
    Promise!NotServing = None /\ Promise!Releases = Release /\ Active \cap Verdict = {}
BY DEF Promise!NotServing, None, Promise!Releases, Release, Active, Verdict

\* While a goroutine goes on, nothing is reported but the answer to a check.
LEMMA StaysBusy ==
    ASSUME Alone, Alone', AtWork # {}, AtWork' # {},
           op'.from = op.from, op'.target = op.target, overtaken => overtaken'
    PROVE  PStep
<1>1. ~overlapped /\ ~overlapped' /\ {overtaken, overlapped, overtaken', overlapped'} \subseteq BOOLEAN
  BY DEF Alone, TypeOK
<1>2. CASE overtaken'
  <2>1. op'.phase \in Verdict => op'.phase = "failed"
    BY DEF Alone, Active, Looked, Verdict
  <2>2. Promise!Overtake
    BY <1>1, <1>2, <2>1 DEF Promise!Overtake
  <2>. QED  BY <2>2 DEF PStep, Promise!PromiseNext
<1>3. CASE ~overtaken'
  <2>1. op.phase \in Active /\ op'.phase \in Active
    BY <1>3 DEF Alone, PhaseIsTrue
  <2>. QED  BY <1>1, <1>3, <2>1, PromiseNames DEF PStep, Promise!promised
<1>. QED  BY <1>2, <1>3

\* What is reported at the end is true.
LEMMA Ended ==
    ASSUME Alone, Alone', AtWork # {}, AtWork' = {}, op'.from = op.from, op'.target = op.target,
           op'.phase \in Verdict, UNCHANGED history,
           op'.phase = "succeeded" => op.from < op.target /\ Serving' = op.target,
           op'.phase = "failed" => op.from < op.target /\ Serving' \in {op.from, None},
           op'.phase = "rolled_back" =>
              Serving' = IF op.from < op.target THEN op.from ELSE op.target
    PROVE  PStep
<1>1. Serving' \in Release \cup {None}
  BY DEF Serving, Alone, TypeOK
<1>2. op.from \in Int /\ op.target \in Int
  BY DEF Alone, TypeOK, Operation, Release, None
<1>3. op.target > op.from <=> op.from < op.target
  BY <1>2
<1>4. Promise!Before = IF op.from < op.target THEN op.from ELSE op.target
  BY <1>3 DEF Promise!Before
<1>5. Promise!End
  <2>1. CASE op'.phase = "succeeded"
    BY <2>1, <1>3 DEF Promise!End, Promise!Finish, Verdict, history
  <2>2. CASE op'.phase = "failed"
    BY <2>2, <1>3, PromiseNames DEF Promise!End, Promise!Finish, Verdict, history
  <2>3. CASE op'.phase = "rolled_back"
    BY <2>3, <1>4 DEF Promise!End, Promise!Finish, Verdict, history
  <2>4. CASE op'.phase = "manual_intervention"
    BY <2>4, <1>1, PromiseNames DEF Promise!End, Promise!Finish, Promise!Anything, Verdict, history
  <2>. QED  BY <2>1, <2>2, <2>3, <2>4 DEF Verdict
<1>. QED  BY <1>5 DEF PStep, Promise!PromiseNext

\* A goroutine ends or goes on; the operation it works on stays the same.
LEMMA EndsOrGoesOn ==
    ASSUME Alone, Alone', NEW j \in Job, job[j].step # "idle",
           \/ \E step \in UpdateStep \cup RollbackStep : GoTo(j, step) \/ GoOnFailed(j, step)
           \/ Undo(j)
           \/ \E phase \in Verdict :
                /\ End(j, phase)
                /\ phase = "succeeded" => op.from < op.target /\ Serving' = op.target
                /\ phase = "failed" => op.from < op.target /\ Serving' \in {op.from, None}
                /\ phase = "rolled_back" =>
                      Serving' = IF op.from < op.target THEN op.from ELSE op.target,
           op'.from = op.from, op'.target = op.target, UNCHANGED history
    PROVE  PStep
<1>1. AtWork = {j} /\ overtaken' = overtaken /\ job \in [Job -> JobState] /\ op \in Operation
  BY AtWorkFacts DEF Alone, TypeOK, history
<1>2. "idle" \notin UpdateStep \cup RollbackStep
  BY DEF UpdateStep, RollbackStep
<1>3. CASE \E step \in UpdateStep \cup RollbackStep : GoTo(j, step) \/ GoOnFailed(j, step)
  <2>1. job'[j].step # "idle"
    BY <1>1, <1>2, <1>3, StepTo, StepToFailed
  <2>2. j \in AtWork'
    BY <2>1 DEF AtWork
  <2>. QED  BY <1>1, <2>2, StaysBusy
<1>4. CASE Undo(j)
  <2>1. op'.phase \in Active
    BY <1>1, <1>4 DEF Undo, SetPhase, Operation, Active
  <2>. QED  BY <1>1, <2>1, StaysBusy DEF Alone, PhaseIsTrue
<1>5. ASSUME NEW phase \in Verdict, End(j, phase),
             phase = "succeeded" => op.from < op.target /\ Serving' = op.target,
             phase = "failed" => op.from < op.target /\ Serving' \in {op.from, None},
             phase = "rolled_back" =>
                Serving' = IF op.from < op.target THEN op.from ELSE op.target
      PROVE  PStep
  <2>1. op'.phase = phase
    BY <1>1, <1>5 DEF End, SetPhase, Operation
  <2>2. AtWork' = {}
    BY <1>1, <1>5 DEF End, AtWork, NoJob
  <2>. QED  BY <1>1, <1>5, <2>1, <2>2, Ended
<1>. QED  BY <1>3, <1>4, <1>5

LEMMA SameOp ==
    ASSUME Alone, NEW j \in Job,
           \/ op' = op \/ \E phase \in Phase : SetPhase(phase)
           \/ Undo(j) \/ \E phase \in Phase : End(j, phase)
    PROVE  op'.from = op.from /\ op'.target = op.target
BY DEF Alone, TypeOK, Operation, SetPhase, Undo, End

LEMMA Phases ==
    /\ Active \subseteq Phase /\ Verdict \subseteq Phase
    /\ {"backing_up", "pulling", "draining", "migrating", "switching", "verifying"} \subseteq Phase
BY DEF Active, Verdict, Phase

\* The serving release of an update that has touched nothing is the one it
\* came from, or none can be told.
LEMMA AbortKeeps ==
    ASSUME Alone, Alone', NEW j \in Job, job[j].step \in {"prepare", "backup", "keep", "pull"},
           Abort(j), UNCHANGED <<tag, running, db, history>>
    PROVE  PStep
<1>1. job[j].step # "idle" /\ job[j].step \in UpdateStep
  BY DEF UpdateStep
<1>2. Facts(job[j], point, tag, running, db) /\ SameOperation(job[j], op)
  BY <1>1, AtWorkFacts
<1>3. op.from = tag /\ op.from < op.target
  BY <1>1, <1>2 DEF Facts, SameOperation
<1>4. Serving' \in {op.from, None}
  BY <1>3 DEF Serving
<1>5. "failed" \in Verdict /\ End(j, "failed")
  BY DEF Verdict, Abort
<1>. QED  BY <1>1, <1>3, <1>4, <1>5, SameOp, Phases, EndsOrGoesOn

LEMMA UpdateKeeps ==
    ASSUME Alone, Alone', NEW j \in Job,
           \/ Prepare(j) \/ CreateBackup(j) \/ KeepCompose(j) \/ PullImages(j)
           \/ StopServices(j) \/ Migrate(j) \/ SetTag(j) \/ SwitchCompose(j)
           \/ StartServices(j) \/ Verify(j)
    PROVE  PStep
<1>1. job[j].step # "idle" /\ job[j].step \in UpdateStep
  BY DEF UpdateStep, Prepare, CreateBackup, KeepCompose, PullImages, StopServices, Migrate,
         SetTag, SwitchCompose, StartServices, Verify
<1>15. UNCHANGED history
  BY DEF Prepare, CreateBackup, KeepCompose, PullImages, StopServices, Migrate,
         SetTag, SwitchCompose, StartServices, Verify
<1>2. Facts(job[j], point, tag, running, db) /\ SameOperation(job[j], op)
  BY <1>1, AtWorkFacts
<1>3. "manual_intervention" \in Verdict /\ "succeeded" \in Verdict
  BY DEF Verdict
<1>4. CASE Prepare(j)
  <2>1. CASE Abort(j)
    BY <1>4, <2>1, <1>15, AbortKeeps DEF Prepare, files
  <2>2. CASE GoTo(j, "backup") /\ SetPhase("backing_up")
    <3>1. "backup" \in UpdateStep
      BY DEF UpdateStep
    <3>. QED  BY <1>1, <2>2, <3>1, SameOp, <1>15, Phases, EndsOrGoesOn
  <2>. QED  BY <1>4, <2>1, <2>2 DEF Prepare
<1>5. CASE CreateBackup(j)
  <2>1. CASE Abort(j)
    BY <1>5, <2>1, <1>15, AbortKeeps DEF CreateBackup, files
  <2>2. CASE job' = [job EXCEPT ![j].step = "keep", ![j].point = point'] /\ UNCHANGED op
    <3>1. job'[j].step = "keep" /\ j \in Job
      BY <2>2, AtWorkFacts, <1>1 DEF Alone, TypeOK, JobState
    <3>2. j \in AtWork' /\ AtWork # {}
      BY <3>1, <1>1 DEF AtWork
    <3>. QED  BY <2>2, <3>2, <1>15, StaysBusy DEF history
  <2>. QED  BY <1>5, <2>1, <2>2 DEF CreateBackup
<1>6. CASE KeepCompose(j)
  <2>1. CASE Abort(j)
    BY <1>6, <2>1, <1>15, AbortKeeps DEF KeepCompose
  <2>2. CASE GoTo(j, "pull") /\ SetPhase("pulling")
    <3>1. "pull" \in UpdateStep
      BY DEF UpdateStep
    <3>. QED  BY <1>1, <2>2, <3>1, SameOp, <1>15, Phases, EndsOrGoesOn
  <2>. QED  BY <1>6, <2>1, <2>2 DEF KeepCompose
<1>7. CASE PullImages(j)
  <2>1. CASE Abort(j)
    BY <1>7, <2>1, <1>15, AbortKeeps DEF PullImages, files
  <2>2. CASE GoTo(j, "stop") /\ SetPhase("draining")
    <3>1. "stop" \in UpdateStep
      BY DEF UpdateStep
    <3>. QED  BY <1>1, <2>2, <3>1, SameOp, <1>15, Phases, EndsOrGoesOn
  <2>. QED  BY <1>7, <2>1, <2>2 DEF PullImages
<1>8. ASSUME Undo(j)  PROVE PStep
  BY <1>1, <1>8, SameOp, <1>15, EndsOrGoesOn
<1>9. CASE StopServices(j)
  <2>1. "migrate" \in UpdateStep
    BY DEF UpdateStep
  <2>. QED  BY <1>1, <1>8, <1>9, <2>1, SameOp, <1>15, Phases, EndsOrGoesOn DEF StopServices
<1>10. CASE Migrate(j)
  <2>1. "tag" \in UpdateStep
    BY DEF UpdateStep
  <2>. QED  BY <1>1, <1>8, <1>10, <2>1, SameOp, <1>15, Phases, EndsOrGoesOn DEF Migrate
<1>11. CASE SetTag(j)
  <2>1. "compose" \in UpdateStep
    BY DEF UpdateStep
  <2>. QED  BY <1>1, <1>8, <1>11, <2>1, SameOp, <1>15, EndsOrGoesOn DEF SetTag, GoOn
<1>12. CASE SwitchCompose(j)
  <2>1. "up" \in UpdateStep
    BY DEF UpdateStep
  <2>. QED  BY <1>1, <1>8, <1>12, <2>1, SameOp, <1>15, EndsOrGoesOn DEF SwitchCompose, GoOn
<1>13. CASE StartServices(j)
  <2>1. "verify" \in UpdateStep
    BY DEF UpdateStep
  <2>. QED  BY <1>1, <1>8, <1>13, <2>1, SameOp, <1>15, Phases, EndsOrGoesOn DEF StartServices
<1>14. CASE Verify(j)
  <2>1. ASSUME Healthy(job[j].target), End(j, "succeeded")  PROVE PStep
    <3>1. tag = job[j].target /\ op.target = job[j].target /\ op.from < op.target
      BY <1>1, <1>2, <1>14 DEF Facts, SameOperation, Verify
    <3>2. Serving' = op.target
      BY <1>14, <2>1, <3>1 DEF Verify, Healthy, Serving, files
    <3>. QED  BY <1>1, <1>3, <2>1, <3>1, <3>2, SameOp, <1>15, Phases, EndsOrGoesOn
  <2>2. ASSUME End(j, "manual_intervention")  PROVE PStep
    BY <1>1, <1>3, <2>2, SameOp, <1>15, Phases, EndsOrGoesOn
  <2>. QED  BY <1>8, <1>14, <2>1, <2>2 DEF Verify
<1>. QED  BY <1>4, <1>5, <1>6, <1>7, <1>9, <1>10, <1>11, <1>12, <1>13, <1>14

LEMMA RollbackKeeps ==
    ASSUME Alone, Alone', NEW j \in Job,
           \/ UndoStop(j) \/ UndoCompose(j) \/ DropDatabase(j) \/ CreateDatabase(j)
           \/ RestoreDatabase(j) \/ UndoTag(j) \/ UndoStart(j) \/ UndoVerify(j)
    PROVE  PStep
<1>1. job[j].step # "idle" /\ job[j].step \in RollbackStep
  BY DEF RollbackStep, UndoStop, UndoCompose, DropDatabase, CreateDatabase,
         RestoreDatabase, UndoTag, UndoStart, UndoVerify
<1>15. UNCHANGED history
  BY DEF UndoStop, UndoCompose, DropDatabase, CreateDatabase,
         RestoreDatabase, UndoTag, UndoStart, UndoVerify
<1>2. Facts(job[j], point, tag, running, db) /\ SameOperation(job[j], op)
  BY <1>1, AtWorkFacts
<1>3. "manual_intervention" \in Verdict /\ "rolled_back" \in Verdict
  BY DEF Verdict
<1>4. ASSUME NEW step \in RollbackStep, GoOn(j, step) \/ GoOnFailed(j, step)  PROVE PStep
  BY <1>1, <1>4, SameOp, <1>15, EndsOrGoesOn DEF GoOn, GoOnFailed
<1>5. {"undo_compose", "drop", "create", "restore", "undo_tag", "undo_up", "undo_verify"}
         \subseteq RollbackStep
  BY DEF RollbackStep
<1>6. ASSUME End(j, "manual_intervention")  PROVE PStep
  BY <1>1, <1>3, <1>6, SameOp, <1>15, Phases, EndsOrGoesOn
<1>7. CASE UndoStop(j)
  BY <1>4, <1>5, <1>7 DEF UndoStop
<1>8. CASE UndoCompose(j)
  BY <1>4, <1>5, <1>8 DEF UndoCompose
<1>9. CASE DropDatabase(j)
  BY <1>4, <1>5, <1>9 DEF DropDatabase
<1>10. CASE CreateDatabase(j)
  BY <1>4, <1>5, <1>10 DEF CreateDatabase
<1>11. CASE RestoreDatabase(j)
  BY <1>4, <1>5, <1>11 DEF RestoreDatabase
<1>12. CASE UndoTag(j)
  BY <1>4, <1>5, <1>12 DEF UndoTag
<1>13. CASE UndoStart(j)
  BY <1>4, <1>5, <1>6, <1>13 DEF UndoStart
<1>14. CASE UndoVerify(j)
  <2>1. ASSUME Healthy(job[j].target), ~job[j].failed, End(j, "rolled_back")  PROVE PStep
    <3>1. tag = job[j].target
      BY <1>1, <1>2, <1>14, <2>1 DEF Facts, UndoVerify
    <3>2. Serving' = job[j].target
      BY <1>14, <2>1, <3>1 DEF UndoVerify, Healthy, Serving, files
    <3>3. op.from \in Int /\ op.target \in Int
      BY DEF Alone, TypeOK, Operation, Release, None
    <3>4. job[j].target = IF op.from < op.target THEN op.from ELSE op.target
      BY <1>1, <1>2, <3>3 DEF SameOperation
    <3>. QED  BY <1>1, <1>3, <2>1, <3>2, <3>4, SameOp, <1>15, Phases, EndsOrGoesOn
  <2>. QED  BY <1>6, <1>14, <2>1 DEF UndoVerify
<1>. QED  BY <1>7, <1>8, <1>9, <1>10, <1>11, <1>12, <1>13, <1>14

\* A request.
LEMMA RequestKeeps ==
    ASSUME Alone, Alone',
           \/ BeginCheck \/ EndCheck
           \/ \E j \in Job : StartRollback(j) \/ \E r \in Release : StartUpdate(j, r)
    PROVE  PStep
<1>1. op \in Operation /\ tag \in Release /\ {overtaken, overlapped} \subseteq BOOLEAN
  BY DEF Alone, TypeOK
<1>2. CASE BeginCheck \/ EndCheck
  <2>1. AtWork' = AtWork /\ Serving' = Serving /\ overlapped' = overlapped
    BY <1>2 DEF BeginCheck, EndCheck, AtWork, Serving, files, history
  <2>2. /\ op'.from = op.from /\ op'.target = op.target
        /\ op'.phase \in {"checking", "failed", "ready", "no_update"}
    BY <1>1, <1>2 DEF BeginCheck, EndCheck, Operation
  <2>3. (overtaken => overtaken') /\ (AtWork = {} => overtaken' = overtaken)
    BY <1>1, <1>2 DEF BeginCheck, EndCheck, history
  <2>4. CASE AtWork = {}
    <3>1. Promise!Look
      BY <2>1, <2>2, <2>3, <2>4 DEF Promise!Look, Verdict
    <3>. QED  BY <3>1 DEF PStep, Promise!PromiseNext
  <2>5. CASE AtWork # {}
    BY <2>1, <2>2, <2>3, <2>5, StaysBusy
  <2>. QED  BY <2>4, <2>5
<1>3. ASSUME NEW j \in Job, StartRollback(j) \/ \E r \in Release : StartUpdate(j, r)
      PROVE  PStep
  <2>1. /\ op'.phase \in {"preflight", "rolling_back"}
        /\ op'.from = tag /\ op'.target \in Release
        /\ AtWork = {} /\ overtaken' = FALSE
    <3>1. ~overlapped'
      BY DEF Alone
    <3>2. CASE StartRollback(j)
      <4>1. point.release \in Release
        BY <3>2, Types, Releases DEF StartRollback
      <4>. QED  BY <3>1, <3>2, <4>1 DEF StartRollback, Start
    <3>3. CASE \E r \in Release : StartUpdate(j, r)
      <4>1. PICK r \in Release : StartUpdate(j, r)
        BY <3>3
      <4>. QED  BY <3>1, <4>1 DEF StartUpdate, Start
    <3>. QED  BY <1>3, <3>2, <3>3
  <2>2. AtWork' # {}
    BY <2>1 DEF Alone, PhaseIsTrue, Active
  <2>3. Serving \in {None, tag} /\ overlapped' = overlapped
    BY DEF Serving, Alone, TypeOK
  <2>4. Promise!Begin
    BY <1>1, <2>1, <2>2, <2>3, PromiseNames DEF Promise!Begin, Verdict
  <2>. QED  BY <2>4 DEF PStep, Promise!PromiseNext
<1>. QED  BY <1>2, <1>3

\* The daemon stops: the operation at work is reported as in need of a hand, unless
\* the answer to a check stands for its phase.
LEMMA RestartKeeps == ASSUME Alone, Alone', Restart  PROVE PStep
<1>1. AtWork' = {} /\ UNCHANGED history
  BY DEF Restart, AtWork, NoJob
<1>2. CASE AtWork = {}
  <2>1. op' = op /\ Serving' = Serving
    BY <1>2 DEF Restart, Alone, PhaseIsTrue, Serving, files
  <2>. QED  BY <1>1, <1>2, <2>1 DEF PStep, Promise!promised, history
<1>3. CASE AtWork # {} /\ op.phase \in Active
  <2>1. /\ op'.phase = "manual_intervention"
        /\ op'.from = op.from /\ op'.target = op.target
    BY <1>3 DEF Restart, Operation, Alone, TypeOK
  <2>. QED  BY <1>1, <1>3, <2>1, Ended DEF Verdict
<1>4. CASE AtWork # {} /\ op.phase \notin Active
  <2>1. op' = op /\ overtaken
    BY <1>4 DEF Restart, Alone, PhaseIsTrue
  <2>2. Serving' \in Release \cup {None}
    BY DEF Serving, Alone, TypeOK
  <2>3. Promise!End
    BY <1>1, <1>4, <2>1, <2>2, PromiseNames
    DEF Promise!End, Promise!Finish, Promise!Anything, history
  <2>. QED  BY <2>3 DEF PStep, Promise!PromiseNext
<1>. QED  BY <1>2, <1>3, <1>4

-----------------------------------------------------------------------------
(* Whatever overlaps                                                       *)

\* What a step of goroutine j does to the goroutine and to the phase.
Moves(j) ==
    \/ \E step \in UpdateStep \cup RollbackStep :
          \/ GoTo(j, step) /\ (op' = op \/ \E phase \in Active : SetPhase(phase))
          \/ GoOnFailed(j, step)
          \/ /\ job' = [job EXCEPT ![j].step = step, ![j].point = point']
             /\ op' = op
    \/ Undo(j)
    \/ \E phase \in Verdict : End(j, phase)

\* And to the rest.
Rest(j) ==
    /\ point' \in Point \cup {NoPoint}
    /\ tag' \in Release /\ compose' \in Release /\ previous' \in Release \cup {None}
    /\ running' \in Release \cup {None} /\ db' \in Database
    /\ UNCHANGED <<latest, checks, written, history>>

LEMMA MovesStep ==
    ASSUME TypeOK, PhaseIsTrue, OneTaskUnlessOvertaken, NEW j \in Job, job[j].step # "idle",
           Moves(j), Rest(j)
    PROVE  Weak'
<1>1. /\ job \in [Job -> JobState] /\ op \in Operation /\ job[j] \in Working
      /\ job[j].from \in Release
  BY WorkingState DEF TypeOK, Working
<1>2. NoJob \in JobState /\ NoJob.step = "idle" /\ "idle" \notin UpdateStep \cup RollbackStep
  BY DEF NoJob, JobState, Working, UpdateStep, RollbackStep
<1>3. PICK c \in JobState :
         /\ job' = [job EXCEPT ![j] = c]
         /\ c.step # "idle" => op' = op \/ op'.phase \in Active
         /\ c.step = "idle" => op'.phase \notin Active
         /\ op' \in Operation
  <2>1. ASSUME NEW step \in UpdateStep \cup RollbackStep, GoTo(j, step),
               op' = op \/ \E phase \in Active : SetPhase(phase)
        PROVE  [job[j] EXCEPT !.step = step] \in JobState
               /\ job' = [job EXCEPT ![j] = [job[j] EXCEPT !.step = step]]
               /\ op' \in Operation /\ (op' = op \/ op'.phase \in Active)
    BY <1>1, <2>1 DEF JobState, Working, GoTo, SetPhase, Operation, Phase
  <2>2. ASSUME NEW step \in UpdateStep \cup RollbackStep, GoOnFailed(j, step)
        PROVE  [job[j] EXCEPT !.step = step, !.failed = TRUE] \in JobState
               /\ job' = [job EXCEPT ![j] = [job[j] EXCEPT !.step = step, !.failed = TRUE]]
               /\ op' = op
    BY <1>1, <2>2 DEF JobState, Working, GoOnFailed
  <2>3. ASSUME NEW step \in UpdateStep \cup RollbackStep,
               job' = [job EXCEPT ![j].step = step, ![j].point = point'], op' = op
        PROVE  [job[j] EXCEPT !.step = step, !.point = point'] \in JobState
               /\ job' = [job EXCEPT ![j] = [job[j] EXCEPT !.step = step, !.point = point']]
    BY <1>1, <2>3 DEF JobState, Working, Rest
  <2>4. ASSUME Undo(j)
        PROVE  /\ [job[j] EXCEPT !.step = "undo_stop", !.target = job[j].from, !.auto = TRUE]
                     \in JobState
               /\ job' = [job EXCEPT ![j] = [job[j] EXCEPT !.step = "undo_stop",
                                                !.target = job[j].from, !.auto = TRUE]]
               /\ op' \in Operation /\ op'.phase \in Active
    BY <1>1, <2>4 DEF JobState, Working, Undo, RollbackStep, SetPhase, Operation, Phase, Active
  <2>5. ASSUME NEW phase \in Verdict, End(j, phase)
        PROVE  job' = [job EXCEPT ![j] = NoJob] /\ op' \in Operation /\ op'.phase \notin Active
    BY <1>1, <2>5 DEF End, SetPhase, Operation, Phase, Active, Verdict
  <2>6. CASE \E step \in UpdateStep \cup RollbackStep :
               GoTo(j, step) /\ (op' = op \/ \E phase \in Active : SetPhase(phase))
    <3>1. PICK step \in UpdateStep \cup RollbackStep :
             GoTo(j, step) /\ (op' = op \/ \E phase \in Active : SetPhase(phase))
      BY <2>6
    <3> DEFINE c == [job[j] EXCEPT !.step = step]
    <3>2. c \in JobState /\ c.step = step /\ job' = [job EXCEPT ![j] = c]
      BY <1>1, <2>1, <3>1 DEF JobState, Working
    <3> HIDE DEF c
    <3>. QED  BY <1>2, <2>1, <3>1, <3>2
  <2>7. CASE \E step \in UpdateStep \cup RollbackStep : GoOnFailed(j, step)
    <3>1. PICK step \in UpdateStep \cup RollbackStep : GoOnFailed(j, step)
      BY <2>7
    <3> DEFINE c == [job[j] EXCEPT !.step = step, !.failed = TRUE]
    <3>2. c \in JobState /\ c.step = step /\ job' = [job EXCEPT ![j] = c] /\ op' = op
      BY <1>1, <2>2, <3>1 DEF JobState, Working
    <3> HIDE DEF c
    <3>. QED  BY <1>1, <1>2, <3>2
  <2>8. CASE \E step \in UpdateStep \cup RollbackStep :
               job' = [job EXCEPT ![j].step = step, ![j].point = point'] /\ op' = op
    <3>1. PICK step \in UpdateStep \cup RollbackStep :
             job' = [job EXCEPT ![j].step = step, ![j].point = point'] /\ op' = op
      BY <2>8
    <3> DEFINE c == [job[j] EXCEPT !.step = step, !.point = point']
    <3>2. c \in JobState /\ c.step = step /\ job' = [job EXCEPT ![j] = c]
      BY <1>1, <2>3, <3>1 DEF JobState, Working
    <3> HIDE DEF c
    <3>. QED  BY <1>1, <1>2, <3>1, <3>2
  <2>9. CASE Undo(j)
    <3> DEFINE c == [job[j] EXCEPT !.step = "undo_stop", !.target = job[j].from, !.auto = TRUE]
    <3>1. c \in JobState /\ c.step = "undo_stop" /\ job' = [job EXCEPT ![j] = c]
      BY <1>1, <2>4, <2>9 DEF JobState, Working
    <3> HIDE DEF c
    <3>. QED  BY <2>4, <2>9, <3>1
  <2>10. CASE \E phase \in Verdict : End(j, phase)
    BY <1>2, <2>5, <2>10
  <2>. QED  BY <2>6, <2>7, <2>8, <2>9, <2>10 DEF Moves
<1>4. TypeOK'
  BY <1>3 DEF TypeOK, Rest, history
<1>5. job'[j] = c /\ \A i \in Job : i # j => job'[i] = job[i]
  BY <1>1, <1>3
<1>6. /\ AtWork' \subseteq AtWork /\ j \in AtWork
      /\ c.step # "idle" => AtWork' = AtWork
      /\ overtaken' = overtaken
  BY <1>5 DEF AtWork, Rest, history
<1>7. PhaseIsTrue'
  <2>1. CASE c.step # "idle"
    BY <1>3, <1>6, <2>1 DEF PhaseIsTrue
  <2>2. CASE c.step = "idle"
    <3>1. op'.phase \notin Active /\ j \notin AtWork'
      BY <1>3, <1>5, <2>2 DEF AtWork
    <3>2. AtWork' = {} \/ overtaken'
      BY <1>6, <3>1 DEF OneTaskUnlessOvertaken, OneTask
    <3>. QED  BY <3>1, <3>2 DEF PhaseIsTrue
  <2>. QED  BY <2>1, <2>2
<1>8. OneTaskUnlessOvertaken'
  BY <1>6 DEF OneTaskUnlessOvertaken, OneTask
<1>. QED  BY <1>4, <1>7, <1>8 DEF Weak

Phases1 == {"backing_up", "pulling", "draining", "migrating", "switching", "verifying"}

LEMMA Steps ==
    /\ Phases1 \subseteq Active
    /\ {"backup", "keep", "pull", "stop", "migrate", "tag", "compose", "up", "verify",
        "undo_stop", "undo_compose", "drop", "create", "restore", "undo_tag", "undo_up",
        "undo_verify"} \subseteq UpdateStep \cup RollbackStep
    /\ {"failed", "succeeded", "rolled_back", "manual_intervention"} \subseteq Verdict
BY DEF Phases1, Active, UpdateStep, RollbackStep, Verdict

\* A step forward of an update or one that ends it.
LEMMA UpdateMoves ==
    ASSUME TypeOK, NEW j \in Job,
           \/ Prepare(j) \/ CreateBackup(j) \/ KeepCompose(j) \/ PullImages(j)
           \/ StopServices(j) \/ Migrate(j) \/ SetTag(j) \/ SwitchCompose(j)
           \/ StartServices(j) \/ Verify(j)
    PROVE  job[j].step # "idle" /\ Moves(j)
<1>1. CASE Prepare(j)
  BY <1>1, Steps DEF Prepare, Moves, Abort, Phases1
<1>2. CASE CreateBackup(j)
  BY <1>2, Steps DEF CreateBackup, Moves, Abort
<1>3. CASE KeepCompose(j)
  BY <1>3, Steps DEF KeepCompose, Moves, Abort, Phases1
<1>4. CASE PullImages(j)
  BY <1>4, Steps DEF PullImages, Moves, Abort, Phases1
<1>5. CASE StopServices(j)
  BY <1>5, Steps DEF StopServices, Moves, Phases1
<1>6. CASE Migrate(j)
  BY <1>6, Steps DEF Migrate, Moves, Phases1
<1>7. CASE SetTag(j)
  BY <1>7, Steps DEF SetTag, Moves, GoOn
<1>8. CASE SwitchCompose(j)
  BY <1>8, Steps DEF SwitchCompose, Moves, GoOn
<1>9. CASE StartServices(j)
  BY <1>9, Steps DEF StartServices, Moves, Phases1
<1>10. CASE Verify(j)
  BY <1>10, Steps DEF Verify, Moves
<1>. QED  BY <1>1, <1>2, <1>3, <1>4, <1>5, <1>6, <1>7, <1>8, <1>9, <1>10

LEMMA RollbackMoves ==
    ASSUME TypeOK, NEW j \in Job,
           \/ UndoStop(j) \/ UndoCompose(j) \/ DropDatabase(j) \/ CreateDatabase(j)
           \/ RestoreDatabase(j) \/ UndoTag(j) \/ UndoStart(j) \/ UndoVerify(j)
    PROVE  job[j].step # "idle" /\ Moves(j)
<1>1. CASE UndoStop(j)
  BY <1>1, Steps DEF UndoStop, Moves, GoOn
<1>2. CASE UndoCompose(j)
  BY <1>2, Steps DEF UndoCompose, Moves, GoOn
<1>3. CASE DropDatabase(j)
  BY <1>3, Steps DEF DropDatabase, Moves, GoOn
<1>4. CASE CreateDatabase(j)
  BY <1>4, Steps DEF CreateDatabase, Moves, GoOn
<1>5. CASE RestoreDatabase(j)
  BY <1>5, Steps DEF RestoreDatabase, Moves, GoOn
<1>6. CASE UndoTag(j)
  BY <1>6, Steps DEF UndoTag, Moves, GoOn
<1>7. CASE UndoStart(j)
  BY <1>7, Steps DEF UndoStart, Moves, GoOn
<1>8. CASE UndoVerify(j)
  BY <1>8, Steps DEF UndoVerify, Moves
<1>. QED  BY <1>1, <1>2, <1>3, <1>4, <1>5, <1>6, <1>7, <1>8

LEMMA WorkTypes == ASSUME TypeOK, NEW j \in Job, job[j].step # "idle", Work(j)  PROVE Rest(j)
<1>1. /\ job[j] \in Working /\ job[j].from \in Release /\ job[j].target \in Release
      /\ job[j].point \in Point \cup {NoPoint} /\ job[j].point.data \in Database
      /\ db \in Database /\ Dropped \in Database /\ Empty \in Database
  BY Databases, WorkingState DEF TypeOK, Working, Point, NoPoint
<1>2. ASSUME NEW r \in Release  PROVE Migrated(r) \in Database
  BY <1>1 DEF Migrated, Database
<1>3. CASE Prepare(j)
  BY <1>1, <1>3 DEF Rest, TypeOK, Prepare, files
<1>4. CASE CreateBackup(j)
  <2>1. [release |-> job[j].from, data |-> db] \in Point
    BY <1>1 DEF Point
  <2>. QED  BY <1>1, <1>4, <2>1 DEF Rest, TypeOK, CreateBackup, files
<1>5. CASE KeepCompose(j)
  BY <1>1, <1>5 DEF Rest, TypeOK, KeepCompose
<1>6. CASE PullImages(j)
  BY <1>1, <1>6 DEF Rest, TypeOK, PullImages, files
<1>7. CASE StopServices(j)
  BY <1>1, <1>7 DEF Rest, TypeOK, StopServices, files, Stopped, StopFails
<1>8. CASE Migrate(j)
  BY <1>1, <1>2, <1>8 DEF Rest, TypeOK, Migrate, files
<1>9. CASE SetTag(j)
  BY <1>1, <1>9 DEF Rest, TypeOK, SetTag
<1>10. CASE SwitchCompose(j)
  BY <1>1, <1>10 DEF Rest, TypeOK, SwitchCompose
<1>11. CASE StartServices(j)
  BY <1>1, <1>2, <1>11 DEF Rest, TypeOK, StartServices, files, Started, StartFails
<1>12. CASE Verify(j)
  BY <1>1, <1>12 DEF Rest, TypeOK, Verify, files
<1>13. CASE UndoStop(j)
  BY <1>1, <1>13 DEF Rest, TypeOK, UndoStop, files, Stopped, StopFails
<1>14. CASE UndoCompose(j)
  BY <1>1, <1>14 DEF Rest, TypeOK, UndoCompose
<1>15. CASE DropDatabase(j)
  BY <1>1, <1>15 DEF Rest, TypeOK, DropDatabase, files
<1>16. CASE CreateDatabase(j)
  BY <1>1, <1>16 DEF Rest, TypeOK, CreateDatabase, files
<1>17. CASE RestoreDatabase(j)
  <2>1. ASSUME NEW w \in SUBSET job[j].point.data.writes
        PROVE  /\ [job[j].point.data EXCEPT !.writes = w] \in Database
               /\ [db EXCEPT !.writes = db.writes \cup w] \in Database
    BY <1>1 DEF Database
  <2>. QED  BY <1>1, <1>17, <2>1 DEF Rest, TypeOK, RestoreDatabase, files
<1>18. CASE UndoTag(j)
  BY <1>1, <1>18 DEF Rest, TypeOK, UndoTag
<1>19. CASE UndoStart(j)
  BY <1>1, <1>2, <1>19 DEF Rest, TypeOK, UndoStart, files, Started, StartFails
<1>20. CASE UndoVerify(j)
  BY <1>1, <1>20 DEF Rest, TypeOK, UndoVerify, files
<1>. QED  BY <1>3, <1>4, <1>5, <1>6, <1>7, <1>8, <1>9, <1>10, <1>11, <1>12, <1>13, <1>14,
             <1>15, <1>16, <1>17, <1>18, <1>19, <1>20 DEF Work

LEMMA WeakWork == ASSUME Weak, NEW j \in Job, Work(j)  PROVE Weak' /\ UNCHANGED history
<1>1. job[j].step # "idle" /\ Moves(j)
  BY UpdateMoves, RollbackMoves DEF Work, Weak
<1>2. Rest(j)
  BY <1>1, WorkTypes DEF Weak
<1>. QED  BY <1>1, <1>2, MovesStep DEF Weak, Rest

\* A second goroutine begins only when an answer was written over the phase of the first.
LEMMA WeakStart ==
    ASSUME Weak, NEW j \in Job, NEW c \in JobState, NEW o \in Operation, Start(o, j, c),
           MayStart, o.phase \in Active, c.step # "idle"
    PROVE  Weak' /\ (AtWork = {} \/ overtaken)
<1>1. AtWork = {} \/ overtaken
  BY DEF Weak, PhaseIsTrue, MayStart
<1>2. TypeOK'
  BY DEF Weak, TypeOK, Start, files
<1>3. job'[j] = c /\ \A i \in Job : i # j => job'[i] = job[i]
  BY DEF Weak, TypeOK, Start
<1>4. AtWork' = AtWork \cup {j}
  BY <1>3 DEF AtWork
<1>5. CASE AtWork = {}
  <2>1. OneTask' /\ op'.phase \in Active
    BY <1>4, <1>5 DEF OneTask, Start
  <2>. QED  BY <1>1, <1>2, <1>4, <2>1 DEF Weak, PhaseIsTrue, OneTaskUnlessOvertaken
<1>6. CASE AtWork # {}
  <2>1. overtaken'
    BY <1>1, <1>6 DEF Start
  <2>. QED  BY <1>1, <1>2, <1>4, <2>1 DEF Weak, PhaseIsTrue, OneTaskUnlessOvertaken
<1>. QED  BY <1>5, <1>6

LEMMA WeakUpdate ==
    ASSUME Weak, NEW j \in Job, NEW r \in Release, StartUpdate(j, r)
    PROVE  Weak' /\ (AtWork = {} \/ overtaken) /\ overlapped' = (overlapped \/ AtWork # {})
<1> DEFINE c == [NoJob EXCEPT !.step = "prepare", !.from = tag, !.target = r]
           o == [phase |-> "preflight", from |-> tag, target |-> r]
<1>1. /\ c \in JobState /\ c.step # "idle" /\ o \in Operation /\ o.phase \in Active
  BY DEF Weak, TypeOK, NoJob, JobState, Working, UpdateStep, Operation, Phase, Active
<1>2. Start(o, j, c) /\ MayStart
  BY DEF StartUpdate
<1> HIDE DEF c, o
<1>. QED  BY <1>1, <1>2, WeakStart DEF Start

LEMMA WeakRollback ==
    ASSUME Weak, NEW j \in Job, StartRollback(j)
    PROVE  Weak' /\ (AtWork = {} \/ overtaken) /\ overlapped' = (overlapped \/ AtWork # {})
<1> DEFINE c == [NoJob EXCEPT !.step = "undo_stop", !.from = tag,
                              !.target = point.release, !.point = point]
           o == [phase |-> "rolling_back", from |-> tag, target |-> point.release]
<1>1. point \in Point /\ point.release \in Release /\ tag \in Release
  BY Releases DEF StartRollback, Weak, TypeOK
<1>2. /\ c \in JobState /\ c.step # "idle" /\ o \in Operation /\ o.phase \in Active
  BY <1>1 DEF NoJob, JobState, Working, RollbackStep, Operation, Phase, Active
<1>3. Start(o, j, c) /\ MayStart
  BY DEF StartRollback
<1> HIDE DEF c, o
<1>. QED  BY <1>2, <1>3, WeakStart DEF Start

LEMMA WeakCheck == ASSUME Weak, BeginCheck \/ EndCheck  PROVE Weak'
<1>1. AtWork' = AtWork /\ op'.phase \in Looked /\ op' \in Operation
  BY DEF BeginCheck, EndCheck, AtWork, Weak, TypeOK, Operation, Phase, Looked
<1>2. TypeOK'
  <2>1. CASE BeginCheck
    BY <1>1, <2>1 DEF BeginCheck, Weak, TypeOK, files, history
  <2>2. CASE EndCheck
    <3>1. latest' \in Release \cup {None} /\ checks' \in 0 .. MaxChecks
      BY <2>2 DEF EndCheck, Weak, TypeOK
    <3>2. overtaken' \in BOOLEAN
      BY <2>2 DEF EndCheck
    <3>. QED  BY <1>1, <2>2, <3>1, <3>2 DEF EndCheck, Weak, TypeOK, files
  <2>. QED  BY <2>1, <2>2
<1>3. overtaken => overtaken'
  BY DEF BeginCheck, EndCheck, history
<1>4. AtWork = {} \/ overtaken'
  BY <1>3 DEF BeginCheck, EndCheck, Weak, PhaseIsTrue
<1>5. op'.phase \notin Active
  BY <1>1 DEF Looked, Active
<1>. QED  BY <1>1, <1>2, <1>3, <1>4, <1>5 DEF Weak, PhaseIsTrue, OneTaskUnlessOvertaken, OneTask

LEMMA WeakRestart == ASSUME Weak, Restart  PROVE Weak'
<1>1. op' \in Operation /\ op'.phase \notin Active
  BY DEF Restart, Weak, TypeOK, Operation, Phase, Active
<1>2. NoJob \in JobState /\ AtWork' = {}
  BY DEF NoJob, JobState, Working, Restart, AtWork
<1>3. TypeOK'
  BY <1>1, <1>2 DEF Restart, Weak, TypeOK, files, history
<1>. QED  BY <1>1, <1>2, <1>3 DEF Weak, PhaseIsTrue, OneTaskUnlessOvertaken, OneTask

LEMMA WeakWrite == ASSUME Weak, UserWrite  PROVE Weak'
<1>1. written + 1 \in 1 .. MaxWrites /\ db \in Database
  BY DEF UserWrite, Weak, TypeOK
<1>2. [db EXCEPT !.writes = db.writes \cup {written + 1}] \in Database
  BY <1>1 DEF Database
<1>3. TypeOK'
  BY <1>1, <1>2 DEF UserWrite, Weak, TypeOK, daemon, files, history
<1>4. AtWork' = AtWork /\ op' = op /\ overtaken' = overtaken
  BY DEF UserWrite, AtWork, daemon, history
<1>. QED  BY <1>3, <1>4 DEF Weak, PhaseIsTrue, OneTaskUnlessOvertaken, OneTask

-----------------------------------------------------------------------------
(* The results                                                             *)

\* Nothing is promised after operations have overlapped.
LEMMA Overlapped ==
    ASSUME overlapped', TypeOK', overlapped \/ (AtWork # {} /\ overtaken)
    PROVE  PStep
<1>1. overlapped' = TRUE
  BY DEF TypeOK
<1>2. Promise!Overlap
  BY <1>1 DEF Promise!Overlap
<1>. QED  BY <1>2 DEF PStep, Promise!PromiseNext

LEMMA AloneNext == ASSUME Alone, Next, ~overlapped'  PROVE Alone' /\ PStep
<1>1. ASSUME NEW j \in Job, Work(j)  PROVE Alone' /\ PStep
  <2>1. Alone'
    BY <1>1, PrepareStep, CreateBackupStep, KeepComposeStep, PullImagesStep, StopServicesStep,
       MigrateStep, SetTagStep, SwitchComposeStep, StartServicesStep, VerifyStep,
       UndoStopStep, UndoComposeStep, DropDatabaseStep, CreateDatabaseStep,
       RestoreDatabaseStep, UndoTagStep, UndoStartStep, UndoVerifyStep DEF Work
  <2>. QED  BY <1>1, <2>1, UpdateKeeps, RollbackKeeps DEF Work
<1>2. CASE BeginCheck \/ EndCheck
  BY <1>2, CheckStep, RequestKeeps
<1>3. ASSUME NEW j \in Job, StartRollback(j) \/ \E r \in Release : StartUpdate(j, r)
      PROVE  Alone' /\ PStep
  BY <1>3, StartRollbackStep, StartUpdateStep, RequestKeeps
<1>4. CASE Restart
  BY <1>4, RestartStep, RestartKeeps
<1>5. CASE UserWrite
  BY <1>5, UserWriteStep DEF PStep
<1>. QED  BY <1>1, <1>2, <1>3, <1>4, <1>5 DEF Next

LEMMA WeakNext ==
    ASSUME Weak, Next
    PROVE  Weak' /\ (overlapped' => overlapped \/ (AtWork # {} /\ overtaken))
<1>1. ASSUME NEW j \in Job, Work(j)
      PROVE  Weak' /\ (overlapped' => overlapped \/ (AtWork # {} /\ overtaken))
  BY <1>1, WeakWork DEF history
<1>2. ASSUME NEW j \in Job, StartRollback(j) \/ \E r \in Release : StartUpdate(j, r)
      PROVE  Weak' /\ (overlapped' => overlapped \/ (AtWork # {} /\ overtaken))
  BY <1>2, WeakUpdate, WeakRollback
<1>3. CASE BeginCheck \/ EndCheck
  BY <1>3, WeakCheck DEF BeginCheck, EndCheck, history
<1>4. CASE Restart
  BY <1>4, WeakRestart DEF Restart, history
<1>5. CASE UserWrite
  BY <1>5, WeakWrite DEF UserWrite, history
<1>. QED  BY <1>1, <1>2, <1>3, <1>4, <1>5 DEF Next

\* Once operations have overlapped, they have.
LEMMA Sticky == ASSUME Weak, Next, overlapped  PROVE overlapped'
<1>1. ASSUME NEW j \in Job, Work(j)  PROVE overlapped'
  BY <1>1, WeakWork DEF history
<1>. QED  BY <1>1 DEF Next, BeginCheck, EndCheck, StartRollback, StartUpdate, Start, Restart,
                   UserWrite, history

LEMMA NextStep == ASSUME IInv, [Next]_vars  PROVE IInv' /\ PStep
<1>1. CASE Next
  <2>1. Weak' /\ (overlapped' => overlapped \/ (AtWork # {} /\ overtaken))
    BY <1>1, WeakNext DEF IInv
  <2>2. CASE overlapped'
    BY <2>1, <2>2, Overlapped DEF IInv, Weak
  <2>3. CASE ~overlapped'
    <3>1. ~overlapped
      BY <1>1, <2>3, Sticky DEF IInv
    <3>. QED  BY <1>1, <2>1, <2>3, <3>1, AloneNext DEF IInv
  <2>. QED  BY <2>2, <2>3
<1>2. CASE UNCHANGED vars
  <2>1. UNCHANGED <<op, latest, point, checks, job, tag, compose, previous, running, db,
                    written, overtaken, overlapped>>
    BY <1>2 DEF vars, daemon, files, history
  <2>2. AtWork' = AtWork /\ Serving' = Serving
    BY <2>1 DEF AtWork, Serving
  <2>3. Weak'
    BY <2>1, <2>2 DEF IInv, Weak, TypeOK, OneTask, PhaseIsTrue, OneTaskUnlessOvertaken
  <2>4. Alone => Alone'
    BY <2>1, <2>2 DEF Alone, TypeOK, OneTask, PhaseIsTrue, BackupFits,
                      RolledBackDatabaseIsTheBackup, Facts, SameOperation
  <2>. QED  BY <2>1, <2>2, <2>3, <2>4 DEF IInv, PStep, Promise!promised
<1>. QED  BY <1>1, <1>2

LEMMA HostInvariant == Spec => []IInv
<1>1. IInv /\ [Next]_vars => IInv'
  BY NextStep
<1>. QED  BY <1>1, InitStep, PTL DEF Spec

\* The daemon's state keeps its type, also when operations overlap.
THEOREM HostTypeOK == Spec => []TypeOK
<1>1. IInv => TypeOK
  BY DEF IInv, Weak
<1>. QED  BY <1>1, HostInvariant, PTL

\* Two goroutines work on the deployment only after the answer to a check was
\* written over the phase of the first: whatever else the daemon goes through, they
\* do not.
THEOREM UpdatesDoNotOverlap == Spec => []OneTaskUnlessOvertaken
<1>1. IInv => OneTaskUnlessOvertaken
  BY DEF IInv, Weak
<1>. QED  BY <1>1, HostInvariant, PTL

\* An active phase is that of a goroutine at work, also when answers come in and
\* operations overlap; one at work has it unless an answer was written over it.
THEOREM PhasesAreTrue == Spec => []PhaseIsTrue
<1>1. IInv => PhaseIsTrue
  BY DEF IInv, Weak
<1>. QED  BY <1>1, HostInvariant, PTL

\* A database that is not that of the tag can be rolled back, wherever an operation
\* failed or the daemon stopped, as long as no operations have overlapped.
THEOREM LostDatabasesHaveBackups == Spec => []LostDatabaseHasItsBackup
<1>1. IInv => LostDatabaseHasItsBackup
  BY DEF IInv, Alone, BackupFits, LostDatabaseHasItsBackup
<1>. QED  BY <1>1, HostInvariant, PTL

\* A rollback reported as done has restored the backup, as long as no operations
\* have overlapped.
THEOREM RollbacksRestoreTheBackup == Spec => []RolledBackDatabaseIsTheBackup
<1>1. IInv => RolledBackDatabaseIsTheBackup
  BY DEF IInv, Alone, RolledBackDatabaseIsTheBackup
<1>. QED  BY <1>1, HostInvariant, PTL

\* The safety half of the promise to the administrator, for every step, those of
\* checks during an operation included: what an operation reports is what the
\* deployment serves, until one overlaps another.
THEOREM UpdatesKeepTheirPromise == Spec => Promise!PromiseSafety
<1>1. Init => Promise!PromiseInit
  BY InitStep
<1>2. IInv /\ [Next]_vars => [Promise!PromiseNext]_(Promise!promised)
  BY NextStep DEF PStep
<1>. QED  BY <1>1, <1>2, HostInvariant, PTL DEF Spec, Promise!PromiseSafety

=============================================================================
