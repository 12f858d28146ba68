---------------------------- MODULE MediaLibrary ----------------------------
(***************************************************************************)
(* The uploaded files of one user: the rows of `resources`, the files on   *)
(* disk behind them, the assets and the canvas that use them, and the      *)
(* quota (backend/internal/app/resource*.go, upload_quota.go,              *)
(* canvas/user_data.go, canvas_asset_guard.go).                            *)
(*                                                                         *)
(* One process.  Its storageMu makes reserving quota, saving an asset or   *)
(* the canvas, deleting an asset and cleaning up one step each.  An upload *)
(* holds it only for the quota: its row and its file are written without.  *)
(* Files are stored locally; object storage is not modelled.               *)
(***************************************************************************)
EXTENDS Naturals, FiniteSets, Functions

CONSTANTS
    Resource,     \* ids of resources; each is used for one row
    Legacy,       \* those of old rows that were there before: they may share a file
    Key,          \* upload keys: what the client calls the same upload
    KeyOf,        \* the key of a resource
    Object,       \* object keys: names of files
    ObjectOf,     \* the file of a resource
    SizeOf,       \* the size of what is uploaded under a key
    StoredLimit,  \* bytes the user's files stay below
    DailyLimit,   \* bytes the uploads of a day stay below
    Asset,
    Handler,      \* upload requests being handled
    CleanupLimit, \* rows the cleanup looks at in one go: 500
    Deletable,    \* bound: resources an administrator deletes
    MaxFaults     \* bound: failed statements and file operations, crashes

ASSUME LibraryAssumption ==
    /\ Legacy \subseteq Resource /\ Deletable \subseteq Resource
    /\ KeyOf \in [Resource -> Key] /\ ObjectOf \in [Resource -> Object]
    /\ SizeOf \in [Key -> Nat \ {0}] /\ Key # {} /\ Resource # {}
    /\ \A r, s \in Resource :  \* a file has one size
          r # s /\ ObjectOf[r] = ObjectOf[s] => {r, s} \subseteq Legacy /\ KeyOf[r] = KeyOf[s]
    /\ StoredLimit \in Nat /\ DailyLimit \in Nat /\ MaxFaults \in Nat
    /\ CleanupLimit \in Nat \ {0}

\* Sums of sizes are sums over finite sets.
ASSUME FiniteAssumption == IsFiniteSet(Resource) /\ IsFiniteSet(Handler)

VARIABLES
    row,      \* resources: status, whether the cleanup may look at it (an hour after its
              \* last change, when ready a day after its creation), how many there were
              \* when it was created
    objects,  \* the files that exist
    queued,   \* resource_deletion_jobs that wait to be claimed
    holds,    \* the resources an asset names; an asset that names none or is deleted: {}
    canvas,   \* the pairs of asset and resource on the user's canvas
    at,       \* the upload a handler works on
    list,     \* the candidates the cleanup has read
    drain,    \* the deletion job being worked on
    pending,  \* pendingStorage: bytes reserved in memory
    daily,    \* bytes counted against the day
    retried,  \* history: resources uploaded again after a failure
    disturbed,  \* history: resources deleted while an upload worked on them
    faults

files == <<row, objects, queued>>
documents == <<holds, canvas>>
quota == <<pending, daily>>
workers == <<list, drain>>
history == <<retried, disturbed>>
vars == <<files, documents, at, workers, quota, history, faults>>

-----------------------------------------------------------------------------

Status == {"unused", "pending", "failed", "ready", "gone"}
Row == [status : Status, aged : BOOLEAN, born : Nat]
Step == {"idle", "reserve", "create", "claim", "charge", "write", "save", "undo",
         "drop", "fail", "release", "commit"}
\* A handler: its step, whether it uploads a failed resource again, key and resource.
Upload == [step : Step, retry : BOOLEAN, key : Key, resource : Resource]
Idle == [step |-> "idle", retry |-> FALSE,
         key |-> CHOOSE k \in Key : TRUE, resource |-> CHOOSE r \in Resource : TRUE]

Rows == {r \in Resource : row[r].status \in {"pending", "failed", "ready"}}
RowsOf(key) == {r \in Rows : KeyOf[r] = key}
Ready == {r \in Rows : row[r].status = "ready"}
Created == {r \in Resource : row[r].status # "unused"}
Unused(key) == {r \in Resource : KeyOf[r] = key /\ row[r].status = "unused"}
\* What a client has been told of: what is or has been ready.
Known == {r \in Resource : row[r].status \in {"ready", "gone"}}
Named(object, resources) == \E r \in resources : ObjectOf[r] = object

\* The name of a file says nothing about its size, the key it is uploaded under does.
FileSize == [file \in Object \X Key |-> SizeOf[file[2]]]
FilesOf(resources) == {<<ObjectOf[r], KeyOf[r]>> : r \in resources}
SumSizes(resources) == SumFunctionOnSet(FileSize, FilesOf(resources))
\* UserStoredFileBytes: a file that several rows share counts once.
StoredBytes == SumSizes(Ready)

Init ==
    /\ \E birth \in Bijection(Legacy, 1 .. Cardinality(Legacy)) :
          row = [r \in Resource |->
                   IF r \in Legacy THEN [status |-> "ready", aged |-> TRUE, born |-> birth[r]]
                   ELSE [status |-> "unused", aged |-> FALSE, born |-> 0]]
    /\ objects = {ObjectOf[r] : r \in Legacy}
    /\ queued = {} /\ list = {} /\ drain = {}
    /\ holds = [a \in Asset |-> {}] /\ canvas = {}
    /\ at = [h \in Handler |-> Idle]
    /\ pending = 0 /\ daily = 0
    /\ retried = {} /\ disturbed = {} /\ faults = 0

Fault == faults < MaxFaults /\ faults' = faults + 1
Set(r, status) == [row[r] EXCEPT !.status = status, !.aged = FALSE]
SetRow(r, status) == row' = [row EXCEPT ![r] = Set(r, status)]
Insert(r) == row' = [row EXCEPT ![r] = [status |-> "pending", aged |-> FALSE,
                                        born |-> Cardinality(Created) + 1]]
Mine(h) == at[h].resource
Size(h) == SizeOf[at[h].key]
Goto(h, step) == at' = [at EXCEPT ![h].step = step]
Stop(h) == at' = [at EXCEPT ![h] = Idle]
\* From the insert or the claim of a row to its last write, a handler works on it.
WorksOn(h, r) ==
    /\ Mine(h) = r
    /\ \/ at[h].step \in {"charge", "write", "save", "undo", "drop", "fail"}
       \/ at[h].step = "release" /\ at[h].retry

-----------------------------------------------------------------------------
(* An upload                                                               *)

\* The start of uploadResource: an upload under a known key repeats it when it
\* failed; otherwise it is answered from the row and changes nothing.  Bound: a
\* handler that reserves quota finds an id for its row.
Lookup(h, key) ==
    /\ at[h].step = "idle"
    /\ \/ \E r \in RowsOf(key) :
            /\ row[r].status = "failed"
            /\ at' = [at EXCEPT ![h] = [step |-> "claim", retry |-> TRUE, key |-> key,
                                        resource |-> r]]
       \/ /\ RowsOf(key) = {}
          /\ Cardinality(Unused(key)) >
               Cardinality({g \in Handler : at[g].key = key /\ at[g].step \in {"reserve", "create"}})
          /\ at' = [at EXCEPT ![h].step = "reserve", ![h].key = key]
    /\ UNCHANGED <<files, documents, workers, quota, history, faults>>

\* Fault: what other uploads have reserved is forgotten.
RoomBesideStored(h) == StoredBytes + Size(h) < StoredLimit
RoomFor(h) == StoredBytes + pending + Size(h) < StoredLimit
DayHasRoom(h) == daily + Size(h) < DailyLimit

\* reserveUserStoredFileQuota, under the lock.
Reserve(h) ==
    /\ at[h].step = "reserve"
    /\ IF RoomFor(h) /\ DayHasRoom(h)
       THEN /\ pending' = pending + Size(h) /\ daily' = daily + Size(h)
            /\ Goto(h, "create")
       ELSE Stop(h) /\ UNCHANGED quota
    /\ UNCHANGED <<files, documents, workers, history, faults>>

\* storeResource up to CreateResource.  Key and user are unique, so that whoever
\* comes second is answered from the row of the first.
Create(h) ==
    /\ at[h].step = "create"
    /\ \/ /\ RowsOf(at[h].key) = {}
          /\ \E r \in Unused(at[h].key) :
               /\ Insert(r)
               /\ at' = [at EXCEPT ![h].step = "write", ![h].resource = r]
          /\ UNCHANGED faults
       \/ RowsOf(at[h].key) # {} /\ Goto(h, "release") /\ UNCHANGED <<row, faults>>
       \/ Fault /\ Goto(h, "release") /\ UNCHANGED row
    /\ UNCHANGED <<objects, queued, documents, workers, quota, history>>

\* ClaimFailedResourceUpload; who comes too late is answered from the row.
Claim(h) ==
    /\ at[h].step = "claim"
    /\ IF row[Mine(h)].status = "failed"
       THEN /\ SetRow(Mine(h), "pending")
            /\ retried' = retried \cup {Mine(h)}
            /\ Goto(h, "charge")
       ELSE Stop(h) /\ UNCHANGED <<row, retried>>
    /\ UNCHANGED <<objects, queued, documents, workers, quota, disturbed, faults>>

\* reserveRetryUploadQuota: only the day is looked at.
Charge(h) ==
    /\ at[h].step = "charge"
    /\ \/ DayHasRoom(h) /\ daily' = daily + Size(h) /\ Goto(h, "write") /\ UNCHANGED faults
       \/ /\ IF DayHasRoom(h) THEN Fault ELSE UNCHANGED faults
          /\ Goto(h, "fail") /\ UNCHANGED daily
    /\ UNCHANGED <<files, documents, workers, pending, history>>

\* storeResourceObject: a write that fails may leave a file behind.
Write(h) ==
    /\ at[h].step = "write"
    /\ \/ /\ objects' = objects \cup {ObjectOf[Mine(h)]}
          /\ Goto(h, "save") /\ UNCHANGED faults
       \/ /\ Fault
          /\ objects' \in {objects, objects \cup {ObjectOf[Mine(h)]}}
          /\ Goto(h, IF at[h].retry THEN "release" ELSE "fail")
    /\ UNCHANGED <<row, queued, documents, workers, quota, history>>

\* SaveResource writes all columns and inserts a row that is gone, unless another
\* upload has taken the key.
SaveFits(h) == Mine(h) \in Rows \/ RowsOf(at[h].key) = {}
SaveAs(h, status) ==
    /\ SaveFits(h)
    /\ SetRow(Mine(h), status)

Save(h) ==
    /\ at[h].step = "save"
    /\ \/ /\ SaveAs(h, "ready") /\ UNCHANGED faults
          /\ IF at[h].retry THEN Stop(h) ELSE Goto(h, "commit")
       \/ /\ IF SaveFits(h) THEN Fault ELSE UNCHANGED faults
          /\ Goto(h, IF at[h].retry THEN "release" ELSE "undo")
          /\ UNCHANGED row
    /\ UNCHANGED <<objects, queued, documents, workers, quota, history>>

\* Fault: the row goes and its file stays.
DropFirst(h) ==
    /\ at[h].step = "undo"
    /\ SetRow(Mine(h), "gone")
    /\ Goto(h, "release")
    /\ UNCHANGED <<objects, queued, documents, workers, quota, history, faults>>

\* An upload that could not be saved: its file is deleted, then its row.
Undo(h) ==
    /\ at[h].step = "undo"
    /\ \/ objects' = objects \ {ObjectOf[Mine(h)]} /\ Goto(h, "drop") /\ UNCHANGED faults
       \/ Fault /\ Goto(h, "fail") /\ UNCHANGED objects
    /\ UNCHANGED <<row, queued, documents, workers, quota, history>>

Drop(h) ==
    /\ at[h].step = "drop"
    /\ \/ SetRow(Mine(h), "gone") /\ UNCHANGED faults
       \/ Fault /\ UNCHANGED row
    /\ Goto(h, "release")
    /\ UNCHANGED <<objects, queued, documents, workers, quota, history>>

\* A retry gives its bytes back before it marks the row, a first upload after.
Fail(h) ==
    /\ at[h].step = "fail"
    /\ \/ SaveAs(h, "failed") /\ UNCHANGED faults
       \/ /\ IF SaveFits(h) THEN Fault ELSE UNCHANGED faults
          /\ UNCHANGED row
    /\ IF at[h].retry THEN Stop(h) ELSE Goto(h, "release")
    /\ UNCHANGED <<objects, queued, documents, workers, quota, history>>

\* Fault: a retry gives back room it has not reserved.
ReleaseAll(h) ==
    /\ at[h].step = "release"
    /\ daily' = daily - Size(h) /\ pending' = pending - Size(h)
    /\ IF at[h].retry THEN Goto(h, "fail") ELSE Stop(h)
    /\ UNCHANGED <<files, documents, workers, history, faults>>

LessOrZero(total, size) == IF total >= size THEN total - size ELSE 0

\* releaseUserUploadQuota and releaseRetryUploadQuota.
Release(h) ==
    /\ at[h].step = "release"
    /\ \/ daily' = LessOrZero(daily, Size(h)) /\ UNCHANGED faults
       \/ Fault /\ UNCHANGED daily
    /\ IF at[h].retry THEN Goto(h, "fail") /\ UNCHANGED pending
       ELSE pending' = LessOrZero(pending, Size(h)) /\ Stop(h)
    /\ UNCHANGED <<files, documents, workers, history>>

\* Fault: an upload that has succeeded gives back the bytes of the day as well.
CommitAndRelease(h) ==
    /\ at[h].step = "commit"
    /\ pending' = LessOrZero(pending, Size(h))
    /\ daily' = LessOrZero(daily, Size(h))
    /\ Stop(h)
    /\ UNCHANGED <<files, documents, workers, history, faults>>

\* commitUserUploadQuota.
Commit(h) ==
    /\ at[h].step = "commit"
    /\ pending' = LessOrZero(pending, Size(h))
    /\ Stop(h)
    /\ UNCHANGED <<files, documents, workers, daily, history, faults>>

-----------------------------------------------------------------------------
(* The documents                                                           *)

\* ValidateAssetCanvasReferences: what the canvas shows of an asset stays in it.
CanvasKeeps(newHolds) == \A p \in canvas : p[2] \in newHolds[p[1]]

\* UpsertUserAsset: only the canvas is asked, not whether the resources exist.
SaveAsset(a, resources) ==
    /\ holds' = [holds EXCEPT ![a] = resources]
    /\ \A p \in canvas : p[1] = a => p[2] \in resources
    /\ UNCHANGED <<files, canvas, at, workers, quota, history, faults>>

\* ReplaceUserAssets; the resources of an asset that is left out stay.
ReplaceAssets(newHolds) ==
    /\ CanvasKeeps(newHolds)
    /\ holds' = newHolds
    /\ UNCHANGED <<files, canvas, at, workers, quota, history, faults>>

\* ValidateCanvasMediaAssets.
CanvasMayShow(p) == p[2] \in Ready /\ p[2] \in holds[p[1]]

\* UpsertUserCanvasProject, ReplaceUserCanvasProjects and, with {}, its deletion.
SaveCanvas(pairs) ==
    /\ \A p \in pairs : CanvasMayShow(p)
    /\ canvas' = pairs
    /\ UNCHANGED <<files, holds, at, workers, quota, history, faults>>

Others(a) == UNION {holds[b] : b \in Asset \ {a}}
OnCanvas == {p[2] : p \in canvas}

\* Fault: a file goes with the first of its rows.
FilesOfAny(resources, deleted) == {ObjectOf[r] : r \in resources}
\* ResourceStorageReferenceCount: the files of resources that no row but the
\* deleted ones names.
FilesOfOnly(resources, deleted) ==
    {o \in {ObjectOf[r] : r \in resources} : ~Named(o, Rows \ deleted)}

Delete(deleted, resources) ==
    /\ queued' = queued \cup FilesOfOnly(resources, deleted)
    /\ row' = [r \in Resource |-> IF r \in deleted THEN Set(r, "gone") ELSE row[r]]
    /\ disturbed' = disturbed \cup {r \in deleted : \E h \in Handler : WorksOn(h, r)}

\* deleteUserAssetWithResources: refused while the canvas shows a resource of the
\* asset; resources of other assets stay.
DeleteAsset(a) ==
    LET owned == holds[a] \cap Rows
    IN /\ holds[a] # {}
       /\ owned \cap OnCanvas = {}
       /\ Delete(owned \ Others(a), owned)
       /\ holds' = [holds EXCEPT ![a] = {}]
       /\ UNCHANGED <<objects, canvas, at, workers, quota, retried, faults>>

InDocuments == OnCanvas \cup UNION {holds[a] : a \in Asset}

\* DeleteAdminResources: an administrator deletes what no document names, whatever
\* its status: also the row of an upload that is at work.
AdminDelete(deleted) ==
    /\ deleted # {} /\ deleted \subseteq Rows \ InDocuments
    /\ Delete(deleted, deleted)
    /\ UNCHANGED <<objects, documents, at, workers, quota, retried, faults>>

-----------------------------------------------------------------------------
(* Cleanup                                                                 *)

Aged == {r \in Rows : row[r].aged}
Before(r) == {s \in Aged : row[s].born < row[r].born}
Oldest(n) == {r \in Aged : Cardinality(Before(r)) < n}

\* Fault: only uploads that have failed are looked for.
ListFailed ==
    /\ list = {}
    /\ list' = {r \in Oldest(CleanupLimit) : row[r].status # "pending"}
    /\ UNCHANGED <<files, documents, at, drain, quota, history, faults>>

\* ResourceCleanupCandidates, read before the lock is taken: the oldest rows, also
\* those in use.
ListCandidates ==
    /\ list = {} /\ Aged # {}
    /\ list' = Oldest(CleanupLimit)
    /\ UNCHANGED <<files, documents, at, drain, quota, history, faults>>

\* cleanupDetachedUserResources and DeleteDetachedResources: nothing is deleted when
\* a candidate is gone by now or the transaction fails.  Whether a candidate has
\* been uploaded again since is not looked at.
Clean ==
    /\ list # {} /\ list' = {}
    /\ LET detached == list \ InDocuments
       IN \/ detached \subseteq Rows /\ Delete(detached, detached) /\ UNCHANGED faults
          \/ ~ (detached \subseteq Rows) /\ UNCHANGED <<row, queued, disturbed, faults>>
          \/ Fault /\ UNCHANGED <<row, queued, disturbed>>
    /\ UNCHANGED <<objects, documents, at, drain, quota, retried>>

\* ClaimNextResourceDeletionJob; jobs are independent, one is worked on at a time.
ClaimJob(o) ==
    /\ drain = {} /\ o \in queued
    /\ drain' = {o} /\ queued' = queued \ {o}
    /\ UNCHANGED <<row, objects, documents, at, list, quota, history, faults>>

\* Fault: a job is complete whether or not its file could be deleted.
RunJobOnce ==
    /\ drain # {} /\ drain' = {}
    /\ \/ objects' = objects \ drain /\ UNCHANGED faults
       \/ Fault /\ UNCHANGED objects
    /\ UNCHANGED <<row, queued, documents, at, list, quota, history>>

\* deleteStoredResourceObject, CompleteResourceDeletionJob or
\* RetryResourceDeletionJob; a file that is gone counts as deleted.
RunJob ==
    /\ drain # {} /\ drain' = {}
    /\ \/ objects' = objects \ drain /\ UNCHANGED <<queued, faults>>
       \/ /\ Fault
          /\ objects' \in {objects, objects \ drain}
          /\ queued' = queued \cup drain
    /\ UNCHANGED <<row, documents, at, list, quota, history>>

-----------------------------------------------------------------------------
(* Time and crashes                                                        *)

\* An upload takes less than an hour.
Age(r) ==
    /\ r \in Rows /\ ~row[r].aged
    /\ \A h \in Handler : ~WorksOn(h, r)
    /\ row' = [row EXCEPT ![r].aged = TRUE]
    /\ UNCHANGED <<objects, queued, documents, at, workers, quota, history, faults>>

\* What is in memory is lost; the lease of a job runs out.
Crash ==
    /\ Fault
    /\ at' = [h \in Handler |-> Idle]
    /\ pending' = 0 /\ list' = {} /\ drain' = {}
    /\ queued' = queued \cup drain
    /\ UNCHANGED <<row, objects, documents, daily, history>>

GoOn(h) ==
    \/ Reserve(h) \/ Create(h) \/ Claim(h) \/ Charge(h) \/ Write(h) \/ Save(h)
    \/ Undo(h) \/ Drop(h) \/ Fail(h) \/ Release(h) \/ Commit(h)

SaveDocuments ==
    \/ \E a \in Asset, r \in Known :
         SaveAsset(a, holds[a] \cup {r}) \/ SaveAsset(a, holds[a] \ {r})
    \/ \E A \in SUBSET Asset :
         ReplaceAssets([a \in Asset |-> IF a \in A THEN holds[a] ELSE {}])
    \/ \E p \in Asset \X Known : SaveCanvas(canvas \cup {p}) \/ SaveCanvas(canvas \ {p})

Next ==
    \/ \E h \in Handler : GoOn(h) \/ \E key \in Key : Lookup(h, key)
    \/ SaveDocuments
    \/ \E a \in Asset : DeleteAsset(a)
    \/ \E deleted \in SUBSET Deletable : AdminDelete(deleted)
    \/ ListCandidates \/ Clean \/ RunJob \/ \E o \in Object : ClaimJob(o)
    \/ \E r \in Resource : Age(r)
    \/ Crash

\* An upload that has begun goes on, time passes, and the cleanup and the deletion
\* jobs are run by a loop, the oldest job first; nobody has to upload or save
\* anything.
Fairness ==
    /\ \A h \in Handler : WF_vars(GoOn(h))
    /\ WF_vars(ListCandidates) /\ WF_vars(Clean) /\ WF_vars(RunJob)
    /\ \A o \in Object : SF_vars(ClaimJob(o))
    /\ \A r \in Resource : WF_vars(Age(r))

Spec == Init /\ [][Next]_vars /\ Fairness

-----------------------------------------------------------------------------
(* Properties                                                              *)

\* The types of rows, documents and what the process remembers (type invariant).
TypeOK ==
    /\ row \in [Resource -> Row] /\ objects \subseteq Object /\ queued \subseteq Object
    /\ holds \in [Asset -> SUBSET Resource] /\ canvas \subseteq Asset \X Resource
    /\ retried \subseteq Resource /\ disturbed \subseteq Resource
    /\ at \in [Handler -> Upload]
    /\ list \subseteq Resource /\ drain \subseteq Object
    /\ pending \in Nat /\ daily \in Nat /\ faults \in 0 .. MaxFaults

\* "A persisted canvas may only point at an uploaded Resource through an Asset"
\* (canvas_asset_guard.go:17): the asset holds it, it is ready, its file exists and
\* nothing is about to delete it.  The file of a resource that was deleted
\* while it was uploaded may be missing, see Clean and AdminDelete.
CanvasMediaIsThere ==
    \A p \in canvas :
        /\ p[2] \in holds[p[1]] /\ p[2] \in Ready
        /\ p[2] \notin disturbed => ObjectOf[p[2]] \in objects \ (queued \cup drain)

\* No file is forgotten: whatever fails, a file that exists is named by a row or by
\* a deletion job.  The upload of a resource that was deleted meanwhile may write
\* its file afterwards.
FilesAreOwned ==
    \A o \in objects :
        \/ Named(o, Rows) \/ o \in queued \cup drain \/ Named(o, disturbed)

\* Uploads side by side do not pass the limit together, each of them having found
\* room.  Files of repeated uploads are left out: Charge does not look for room.
StoredStaysBelowLimit == SumSizes(Ready \ retried) < StoredLimit

SizeAt == [h \in Handler |-> Size(h)]
\* The handlers whose bytes are reserved and not yet a ready row.
Reserving ==
    {h \in Handler : \/ at[h].step \in {"create", "write", "save", "undo", "drop", "release"}
                     \/ at[h].step = "fail" /\ ~at[h].retry}

\* What was uploaded and what is being uploaded counts against the day: no failure
\* gives bytes back twice, or gives back those of an upload that succeeded.
UploadsCountAgainstTheDay ==
    SumSizes(Ready \ Legacy) + SumFunctionOnSet(SizeAt, Reserving) <= daily

\* Nothing is left behind: a file that no row names is deleted, whatever failed or
\* crashed before.
UnnamedFilesGo ==
    \A o \in Object :
        (o \in objects /\ ~Named(o, Rows \cup disturbed)) ~> (o \notin objects)

\* As many older rows as the cleanup looks at are in use: it never gets to this one.
Crowded(r) == Cardinality(Before(r) \cap InDocuments) >= CleanupLimit

\* An upload that died is cleaned up: its row does not stay pending for ever and
\* with it refuse every upload under its key.  That is so while the older rows in use
\* leave the cleanup a place for it, and unless a document names it.
AbandonedUploadsGo ==
    \A r \in Resource :
        (row[r].status = "pending" /\ \A h \in Handler : ~WorksOn(h, r))
            ~> (row[r].status # "pending" \/ r \in InDocuments \/ Crowded(r))

=============================================================================
