------------------------- MODULE MediaLibraryProofs -------------------------
(***************************************************************************)
(* Proofs about MediaLibrary, for any resources, files, assets, handlers   *)
(* and limits and any number of failures and crashes.                      *)
(***************************************************************************)
EXTENDS MediaLibrary, SetSums, TLAPS

-----------------------------------------------------------------------------
(* Types                                                                   *)

LEMMA IdleIsAnUpload == Idle \in Upload /\ Idle.step = "idle"
BY LibraryAssumption DEF Idle, Upload, Step

LEMMA InitTypes == Init => TypeOK
<1> SUFFICES ASSUME Init PROVE TypeOK
  OBVIOUS
<1>1. PICK birth \in Bijection(Legacy, 1 .. Cardinality(Legacy)) :
          row = [r \in Resource |->
                   IF r \in Legacy THEN [status |-> "ready", aged |-> TRUE, born |-> birth[r]]
                   ELSE [status |-> "unused", aged |-> FALSE, born |-> 0]]
  BY DEF Init
<1>2. \A r \in Legacy : birth[r] \in 1 .. Cardinality(Legacy)
  BY DEF Bijection, Injection
<1>3. Cardinality(Legacy) \in Nat
  BY LibraryAssumption, FiniteAssumption, FS_Subset, FS_CardinalityType
<1>4. \A r \in Legacy : birth[r] \in Nat
  BY <1>2, <1>3
<1>5. row \in [Resource -> Row]
  BY <1>1, <1>4 DEF Row, Status
<1>. QED  BY <1>5, LibraryAssumption, IdleIsAnUpload DEF Init, TypeOK

\* A handler that goes to another step is still a handler's record.
LEMMA GotoType ==
    ASSUME at \in [Handler -> Upload], NEW h \in Handler, NEW step \in Step, Goto(h, step)
    PROVE  at' \in [Handler -> Upload]
BY DEF Goto, Upload

LEMMA StopType ==
    ASSUME at \in [Handler -> Upload], NEW h \in Handler, Stop(h)
    PROVE  at' \in [Handler -> Upload]
BY IdleIsAnUpload DEF Stop

LEMMA SetRowType ==
    ASSUME row \in [Resource -> Row], NEW r \in Resource, NEW status \in Status,
           SetRow(r, status)
    PROVE  row' \in [Resource -> Row]
BY DEF SetRow, Set, Row

LEMMA InsertType ==
    ASSUME row \in [Resource -> Row], NEW r \in Resource, Insert(r)
    PROVE  row' \in [Resource -> Row]
<1>1. Cardinality(Created) \in Nat
  BY FiniteAssumption, FS_Subset, FS_CardinalityType DEF Created
<1>. QED  BY <1>1 DEF Insert, Row, Status

\* What SetRow and Insert do to the status of the rows.
Writes(r, status) ==
    row'[r].status = status /\ \A s \in Resource \ {r} : row'[s] = row[s]

LEMMA SetRowWrites ==
    ASSUME row \in [Resource -> Row], NEW r \in Resource, NEW status, SetRow(r, status)
    PROVE  Writes(r, status)
BY DEF Writes, SetRow, Set, Row

LEMMA InsertWrites ==
    ASSUME row \in [Resource -> Row], NEW r \in Resource, Insert(r)
    PROVE  Writes(r, "pending")
BY DEF Writes, Insert

LEMMA LessOrZeroType ==
    ASSUME NEW total \in Nat, NEW size \in Nat
    PROVE  LessOrZero(total, size) \in Nat
BY DEF LessOrZero

LEMMA MineType ==
    ASSUME at \in [Handler -> Upload], NEW h \in Handler
    PROVE  Mine(h) \in Resource /\ at[h].key \in Key /\ Size(h) \in Nat /\ ObjectOf[Mine(h)] \in Object
BY LibraryAssumption DEF Mine, Size, Upload

LEMMA FaultType == ASSUME faults \in 0 .. MaxFaults, Fault PROVE faults' \in 0 .. MaxFaults
BY LibraryAssumption DEF Fault

LEMMA DeleteTypes ==
    ASSUME TypeOK, NEW deleted, deleted \subseteq Resource,
           NEW resources, resources \subseteq Resource, Delete(deleted, resources)
    PROVE  /\ row' \in [Resource -> Row] /\ queued' \subseteq Object
           /\ disturbed' \subseteq Resource
<1>1. row' \in [Resource -> Row]
  BY DEF Delete, Set, TypeOK, Row, Status
<1>2. queued' \subseteq Object
  BY LibraryAssumption DEF Delete, FilesOfOnly, TypeOK
<1>. QED  BY <1>1, <1>2 DEF Delete, TypeOK

LEMMA HandlerTypes ==
    ASSUME TypeOK, NEW h \in Handler, GoOn(h)
    PROVE  TypeOK'
<1>m. Mine(h) \in Resource /\ Size(h) \in Nat /\ ObjectOf[Mine(h)] \in Object
  BY MineType DEF TypeOK
<1>a. /\ \A step \in Step : Goto(h, step) => at' \in [Handler -> Upload]
      /\ Stop(h) => at' \in [Handler -> Upload]
  BY GotoType, StopType DEF TypeOK
<1>r. \A status \in Status : SetRow(Mine(h), status) => row' \in [Resource -> Row]
  BY <1>m, SetRowType DEF TypeOK
<1>f. Fault => faults' \in 0 .. MaxFaults
  BY FaultType DEF TypeOK
<1>z. LessOrZero(daily, Size(h)) \in Nat /\ LessOrZero(pending, Size(h)) \in Nat
  BY <1>m, LessOrZeroType DEF TypeOK
<1> USE <1>m, <1>a, <1>r, <1>f, <1>z
<1> USE DEF TypeOK, files, documents, quota, workers, history
<1>1. CASE Reserve(h)
  <2>1. CASE pending' = pending + Size(h) /\ daily' = daily + Size(h) /\ Goto(h, "create")
    <3>1. at' \in [Handler -> Upload]
      BY <2>1 DEF Step
    <3>. QED  BY <1>1, <2>1, <3>1 DEF Reserve
  <2>2. CASE Stop(h) /\ UNCHANGED quota
    <3>1. at' \in [Handler -> Upload]
      BY <2>2
    <3>. QED  BY <1>1, <2>2, <3>1 DEF Reserve
  <2>. QED  BY <1>1, <2>1, <2>2 DEF Reserve
<1>2. CASE Create(h)
  <2>1. ASSUME NEW r \in Resource,
               at' = [at EXCEPT ![h].step = "write", ![h].resource = r]
        PROVE  at' \in [Handler -> Upload]
    BY <2>1, ZenonT(60) DEF Upload, Step
  <2>2. ASSUME NEW r \in Unused(at[h].key), Insert(r)
        PROVE  row' \in [Resource -> Row]
    BY <2>2, InsertType DEF Unused
  <2>3. at' \in [Handler -> Upload]
    BY <1>2, <2>1 DEF Create, Step, Unused
  <2>4. row' \in [Resource -> Row] /\ faults' \in 0 .. MaxFaults
    BY <1>2, <2>2 DEF Create
  <2>. QED  BY <1>2, <2>3, <2>4 DEF Create
<1>3. CASE Claim(h)
  <2>1. Mine(h) \in Resource
    OBVIOUS
  <2>2. at' \in [Handler -> Upload] /\ row' \in [Resource -> Row]
    BY <1>3, <2>1 DEF Claim, Step, Status
  <2>3. retried' \subseteq Resource
    BY <1>3, <2>1 DEF Claim
  <2>. QED  BY <1>3, <2>2, <2>3 DEF Claim
<1>4. CASE Charge(h)
  BY <1>4 DEF Charge, Step
<1>5. CASE Write(h)
  BY <1>5 DEF Write, Step
<1>6. CASE Save(h)
  BY <1>6 DEF Save, SaveAs, Step, Status
<1>7. CASE Undo(h)
  BY <1>7 DEF Undo, Step
<1>8. CASE Drop(h)
  BY <1>8 DEF Drop, Step, Status
<1>9. CASE Fail(h)
  BY <1>9 DEF Fail, SaveAs, Step, Status
<1>10. CASE Release(h)
  BY <1>10 DEF Release, Step
<1>11. CASE Commit(h)
  BY <1>11 DEF Commit
<1>. QED
  BY <1>1, <1>2, <1>3, <1>4, <1>5, <1>6, <1>7, <1>8, <1>9, <1>10, <1>11 DEF GoOn

LEMMA DocumentTypes ==
    ASSUME TypeOK
    PROVE  /\ SaveDocuments => TypeOK'
           /\ \A a \in Asset : DeleteAsset(a) => TypeOK'
           /\ \A deleted \in SUBSET Deletable : AdminDelete(deleted) => TypeOK'
<1> USE DEF files, documents, quota, workers, history
<1>1. ASSUME NEW a \in Asset, NEW r \in Resource, NEW resources \in SUBSET Resource,
             SaveAsset(a, resources)
      PROVE  TypeOK'
  BY <1>1 DEF SaveAsset, TypeOK
<1>2. ASSUME NEW A \in SUBSET Asset,
             ReplaceAssets([a \in Asset |-> IF a \in A THEN holds[a] ELSE {}])
      PROVE  TypeOK'
  BY <1>2 DEF ReplaceAssets, TypeOK
<1>3. ASSUME NEW pairs \in SUBSET (Asset \X Resource), SaveCanvas(pairs)
      PROVE  TypeOK'
  BY <1>3 DEF SaveCanvas, TypeOK
<1>4. SaveDocuments => TypeOK'
  <2>1. ASSUME NEW a \in Asset, NEW r \in Known
        PROVE  r \in Resource /\ holds[a] \cup {r} \in SUBSET Resource
               /\ holds[a] \ {r} \in SUBSET Resource
    BY DEF TypeOK, Known
  <2>2. ASSUME NEW p \in Asset \X Known
        PROVE  canvas \cup {p} \in SUBSET (Asset \X Resource)
               /\ canvas \ {p} \in SUBSET (Asset \X Resource)
    BY DEF TypeOK, Known
  <2>. QED  BY <1>1, <1>2, <1>3, <2>1, <2>2 DEF SaveDocuments
<1>5. ASSUME NEW a \in Asset, DeleteAsset(a) PROVE TypeOK'
  <2> DEFINE owned == holds[a] \cap Rows
  <2>1. owned \subseteq Resource /\ owned \ Others(a) \subseteq Resource
    BY DEF Rows
  <2>2. Delete(owned \ Others(a), owned)
    BY <1>5 DEF DeleteAsset
  <2>3. row' \in [Resource -> Row] /\ queued' \subseteq Object /\ disturbed' \subseteq Resource
    BY <2>1, <2>2, DeleteTypes
  <2>. QED  BY <1>5, <2>3 DEF DeleteAsset, TypeOK
<1>6. ASSUME NEW deleted \in SUBSET Deletable, AdminDelete(deleted) PROVE TypeOK'
  <2>1. deleted \subseteq Resource
    BY LibraryAssumption
  <2>2. row' \in [Resource -> Row] /\ queued' \subseteq Object /\ disturbed' \subseteq Resource
    BY <1>6, <2>1, DeleteTypes DEF AdminDelete
  <2>. QED  BY <1>6, <2>2 DEF AdminDelete, TypeOK
<1>. QED  BY <1>4, <1>5, <1>6

LEMMA CleanupTypes ==
    ASSUME TypeOK, ListCandidates \/ Clean \/ RunJob \/ (\E o \in Object : ClaimJob(o))
                   \/ (\E r \in Resource : Age(r)) \/ Crash
    PROVE  TypeOK'
<1> USE FaultType
<1> USE DEF files, documents, quota, workers, history
<1>1. CASE ListCandidates
  BY <1>1 DEF ListCandidates, Oldest, Aged, TypeOK, Rows
<1>2. CASE Clean
  <2> DEFINE detached == list \ InDocuments
  <2>1. CASE Delete(detached, detached) /\ UNCHANGED faults
    <3>1. row' \in [Resource -> Row] /\ queued' \subseteq Object /\ disturbed' \subseteq Resource
      BY <2>1, DeleteTypes, ZenonT(60) DEF TypeOK
    <3>. QED  BY <1>2, <2>1, <3>1 DEF Clean, TypeOK
  <2>2. CASE UNCHANGED <<row, queued, disturbed>> /\ (Fault \/ UNCHANGED faults)
    BY <1>2, <2>2 DEF Clean, TypeOK
  <2>. QED  BY <1>2, <2>1, <2>2 DEF Clean
<1>3. CASE RunJob
  BY <1>3 DEF RunJob, TypeOK
<1>4. CASE \E o \in Object : ClaimJob(o)
  BY <1>4 DEF ClaimJob, TypeOK
<1>5. CASE \E r \in Resource : Age(r)
  BY <1>5 DEF Age, TypeOK, Row
<1>6. CASE Crash
  BY <1>6, IdleIsAnUpload DEF Crash, TypeOK
<1>. QED  BY <1>1, <1>2, <1>3, <1>4, <1>5, <1>6

LEMMA LookupTypes ==
    ASSUME TypeOK, NEW h \in Handler, NEW key \in Key, Lookup(h, key)
    PROVE  TypeOK'
<1>1. ASSUME NEW r \in RowsOf(key),
             at' = [at EXCEPT ![h] = [step |-> "claim", retry |-> TRUE, key |-> key, resource |-> r]]
      PROVE  at' \in [Handler -> Upload]
  BY <1>1 DEF TypeOK, Upload, Step, RowsOf, Rows
<1>2. ASSUME at' = [at EXCEPT ![h].step = "reserve", ![h].key = key]
      PROVE  at' \in [Handler -> Upload]
  BY <1>2 DEF TypeOK, Upload, Step
<1>3. at' \in [Handler -> Upload]
  BY <1>1, <1>2 DEF Lookup
<1>. QED
  BY <1>3 DEF Lookup, TypeOK, files, documents, quota, workers, history

LEMMA NextTypes == TypeOK /\ [Next]_vars => TypeOK'
<1> SUFFICES ASSUME TypeOK, [Next]_vars PROVE TypeOK'
  OBVIOUS
<1>1. CASE UNCHANGED vars
  BY <1>1 DEF vars, TypeOK, files, documents, quota, workers, history
<1>2. CASE Next
  BY <1>2, HandlerTypes, LookupTypes, DocumentTypes, CleanupTypes DEF Next
<1>. QED  BY <1>1, <1>2

\* Rows, documents and what the process remembers have their types, for any values of
\* the constants: what is reserved never becomes negative.
THEOREM TypeCorrect == Spec => []TypeOK
BY InitTypes, NextTypes, PTL DEF Spec

-----------------------------------------------------------------------------
(* The invariant                                                           *)

\* Old rows are never uploaded again, so that whoever shares a file does not write.
LegacyIsOld == \A r \in Legacy : row[r].status \in {"ready", "gone"}

\* A row that an upload works on is pending, or was deleted under the upload; no
\* other upload works on it.
UploadsArePending ==
    \A h \in Handler, r \in Resource : WorksOn(h, r) =>
        /\ r \notin Legacy /\ row[r].status \in {"pending", "gone"}
        /\ r \notin disturbed => row[r].status = "pending"
        /\ \A g \in Handler : WorksOn(g, r) => g = h

\* What is about to become ready has its file, and what is dropped has none.
UploadsHaveFiles ==
    \A h \in Handler, r \in Resource : WorksOn(h, r) /\ r \notin disturbed =>
        /\ at[h].step = "save" => ObjectOf[r] \in objects
        /\ at[h].step = "drop" => ObjectOf[r] \notin objects

\* No deletion job names the file of a row, nor of one that is yet to come.
JobsNameNoRow ==
    \A r \in Resource \ disturbed :
        row[r].status # "gone" => ObjectOf[r] \notin queued \cup drain

ReadyIsStored == \A r \in Ready \ disturbed : ObjectOf[r] \in objects

CanvasIsReady == \A p \in canvas : p[2] \in holds[p[1]] /\ p[2] \in Ready

\* Everything but the documents.
FileInv ==
    /\ LegacyIsOld /\ UploadsArePending /\ UploadsHaveFiles
    /\ JobsNameNoRow /\ ReadyIsStored /\ FilesAreOwned

IInv == TypeOK /\ FileInv /\ CanvasIsReady

\* Who has not begun, inserts a row or takes it back does not repeat an upload.
OnlyNew == {"idle", "reserve", "create", "undo", "drop"}
RetriesKeepTheirRow == \A h \in Handler : at[h].step \in OnlyNew => ~at[h].retry

\* No other resource has the file of an upload.
LEMMA OwnFile ==
    ASSUME UploadsArePending, NEW h \in Handler, NEW r \in Resource, WorksOn(h, r)
    PROVE  r = Mine(h) /\ \A s \in Resource : ObjectOf[s] = ObjectOf[r] => s = r
BY LibraryAssumption DEF UploadsArePending, WorksOn, Mine

\* Steps that leave statuses, files and jobs alone, and begin no work.
LEMMA FilesStay ==
    ASSUME TypeOK, TypeOK', FileInv, CanvasIsReady,
           \A r \in Resource : row'[r].status = row[r].status,
           objects' = objects, disturbed' = disturbed,
           queued' \cup drain' = queued \cup drain,
           \A h \in Handler, r \in Resource : WorksOn(h, r)' =>
                /\ WorksOn(h, r)
                /\ at'[h].step \in {"save", "drop"} => at'[h].step = at[h].step
    PROVE  FileInv' /\ Ready' = Ready /\ (documents' = documents => CanvasIsReady')
<1>1. Rows' = Rows /\ Ready' = Ready
  BY DEF Rows, Ready
<1>2. LegacyIsOld'
  BY LibraryAssumption DEF FileInv, LegacyIsOld
<1>3. UploadsArePending'
  BY DEF FileInv, UploadsArePending
<1>4. UploadsHaveFiles'
  BY DEF FileInv, UploadsHaveFiles
<1>5. JobsNameNoRow'
  BY DEF FileInv, JobsNameNoRow
<1>6. ReadyIsStored'
  BY <1>1 DEF FileInv, ReadyIsStored
<1>7. FilesAreOwned'
  BY <1>1 DEF FileInv, FilesAreOwned, Named
<1>8. documents' = documents => CanvasIsReady'
  BY <1>1 DEF documents, CanvasIsReady
<1>. QED  BY <1>1, <1>2, <1>3, <1>4, <1>5, <1>6, <1>7, <1>8 DEF FileInv

\* Steps that write the row of an upload.
LEMMA RowMoves ==
    ASSUME TypeOK, TypeOK', FileInv, CanvasIsReady,
           NEW m \in Resource \ Legacy, NEW status \in Status \ {"unused"}, Writes(m, status),
           UNCHANGED <<objects, queued, drain, disturbed, documents>>,
           row[m].status # "ready",
           m \notin disturbed => row[m].status # "gone",
           m \notin disturbed /\ status = "ready" => ObjectOf[m] \in objects,
           m \notin disturbed /\ status = "gone" => ObjectOf[m] \notin objects,
           \A h \in Handler, r \in Resource : WorksOn(h, r)' =>
                \/ /\ r = m /\ status = "pending" /\ at'[h].step \notin {"save", "drop"}
                   /\ \A g \in Handler : WorksOn(g, m)' => g = h
                \/ /\ r # m /\ WorksOn(h, r)
                   /\ at'[h].step \in {"save", "drop"} => at'[h].step = at[h].step
                   /\ \A g \in Handler : WorksOn(g, r)' => WorksOn(g, r)
    PROVE  FileInv' /\ CanvasIsReady'
<1>1. row'[m].status = status /\ \A r \in Resource \ {m} : row'[r] = row[r]
  BY DEF Writes
<1>2. LegacyIsOld'
  BY <1>1, LibraryAssumption DEF FileInv, LegacyIsOld
<1>3. UploadsArePending'
  BY <1>1 DEF FileInv, UploadsArePending
<1>4. UploadsHaveFiles'
  BY DEF FileInv, UploadsHaveFiles
<1>5. JobsNameNoRow'
  BY <1>1 DEF FileInv, JobsNameNoRow
<1>6. \A r \in Ready' : r = m \/ r \in Ready
  BY <1>1 DEF Ready, Rows
<1>7. ReadyIsStored'
  BY <1>1, <1>6 DEF FileInv, ReadyIsStored, Ready
<1>8. \A r \in Rows : r # m => r \in Rows'
  BY <1>1 DEF Rows
<1>9. status # "gone" => m \in Rows'
  BY <1>1 DEF Rows, Status
<1>10. FilesAreOwned'
  BY <1>8, <1>9 DEF FileInv, FilesAreOwned, Named
<1>11. CanvasIsReady'
  <2>1. \A r \in Ready : r # m /\ r \in Ready'
    BY <1>1 DEF Ready, Rows
  <2>. QED  BY <2>1 DEF CanvasIsReady, documents
<1>. QED  BY <1>2, <1>3, <1>4, <1>5, <1>7, <1>10, <1>11 DEF FileInv

\* Deletions: by an administrator, of an asset, by the cleanup.
LEMMA RowsDeleted ==
    ASSUME TypeOK, TypeOK', FileInv, NEW resources, NEW deleted,
           deleted \subseteq resources, resources \subseteq Rows,
           Delete(deleted, resources), UNCHANGED <<objects, at, drain>>
    PROVE  FileInv' /\ Ready' = Ready \ deleted
<1>1. \A r \in Resource : IF r \in deleted THEN row'[r].status = "gone" ELSE row'[r] = row[r]
  BY DEF Delete, Set, TypeOK, Row, Rows
<1>2. Rows' = Rows \ deleted /\ Ready' = Ready \ deleted
  BY <1>1 DEF Rows, Ready
<1>3. \A h \in Handler, r \in Resource : WorksOn(h, r)' <=> WorksOn(h, r)
  BY DEF WorksOn, Mine
<1>4. \A h \in Handler, r \in deleted : WorksOn(h, r) => r \in disturbed'
  BY DEF Delete
<1>5. disturbed \subseteq disturbed' /\ deleted \subseteq Resource
  BY DEF Delete, Rows
<1>6. LegacyIsOld'
  BY <1>1, LibraryAssumption DEF FileInv, LegacyIsOld
<1>7. UploadsArePending'
  BY <1>1, <1>3, <1>4, <1>5 DEF FileInv, UploadsArePending
<1>8. UploadsHaveFiles'
  BY <1>3, <1>5 DEF FileInv, UploadsHaveFiles
<1>9. JobsNameNoRow'
  <2> SUFFICES ASSUME NEW r \in Resource \ disturbed', row'[r].status # "gone"
               PROVE  ObjectOf[r] \notin queued' \cup drain'
    BY DEF JobsNameNoRow
  <2>1. r \notin deleted /\ row[r].status # "gone" /\ ObjectOf[r] \notin queued \cup drain
    BY <1>1, <1>5 DEF FileInv, JobsNameNoRow
  <2>2. CASE r \in Rows
    BY <2>1, <2>2 DEF Delete, FilesOfOnly, Named
  <2>3. CASE r \notin Rows
    <3>1. row[r].status = "unused"
      BY <2>1, <2>3 DEF Rows, TypeOK, Row, Status
    <3>2. \A s \in resources : ObjectOf[s] # ObjectOf[r]
      BY <3>1, <2>3, LibraryAssumption DEF FileInv, LegacyIsOld, Rows
    <3>. QED  BY <2>1, <3>2 DEF Delete, FilesOfOnly
  <2>. QED  BY <2>2, <2>3
<1>10. ReadyIsStored'
  BY <1>2, <1>5 DEF FileInv, ReadyIsStored
<1>11. FilesAreOwned'
  <2> SUFFICES ASSUME NEW o \in objects
               PROVE  Named(o, Rows') \/ o \in queued' \cup drain' \/ Named(o, disturbed')
    BY DEF FilesAreOwned, Named
  <2>1. CASE Named(o, Rows)
    BY <1>2, <2>1 DEF Delete, FilesOfOnly, Named
  <2>2. CASE o \in queued \cup drain
    BY <2>2 DEF Delete
  <2>3. CASE Named(o, disturbed)
    BY <1>5, <2>3 DEF Named
  <2>. QED  BY <2>1, <2>2, <2>3 DEF FileInv, FilesAreOwned
<1>. QED  BY <1>2, <1>6, <1>7, <1>8, <1>9, <1>10, <1>11 DEF FileInv

-----------------------------------------------------------------------------
(* Steps of an upload                                                      *)

Work == {"charge", "write", "save", "undo", "drop", "fail"}

\* What the handlers work on after one of them has gone on, or has stopped.
LEMMA AfterGoto ==
    ASSUME TypeOK, NEW h \in Handler, NEW step, Goto(h, step)
    PROVE  /\ \A g \in Handler, r \in Resource : g # h => (WorksOn(g, r)' <=> WorksOn(g, r))
           /\ \A g \in Handler : g # h => at'[g] = at[g]
           /\ at'[h].step = step /\ at'[h].retry = at[h].retry /\ Mine(h)' = Mine(h)
BY DEF TypeOK, Upload, Goto, WorksOn, Mine

LEMMA AfterStop ==
    ASSUME TypeOK, NEW h \in Handler, Stop(h)
    PROVE  /\ \A g \in Handler, r \in Resource : g # h => (WorksOn(g, r)' <=> WorksOn(g, r))
           /\ \A g \in Handler : g # h => at'[g] = at[g]
           /\ \A r \in Resource : ~WorksOn(h, r)'
BY IdleIsAnUpload DEF TypeOK, Stop, WorksOn, Mine

\* Statements of an upload that write neither its row nor its file.
LEMMA UploadGoesOn ==
    ASSUME IInv, TypeOK', NEW h \in Handler,
           UNCHANGED <<row, objects, queued, drain, disturbed, documents>>,
           \/ Stop(h)
           \/ \E step \in Step \ {"save", "drop"} :
                 /\ Goto(h, step)
                 /\ step \in Work \/ (step = "release" /\ at[h].retry) => WorksOn(h, Mine(h))
    PROVE  IInv'
<1>1. \A g \in Handler, r \in Resource : WorksOn(g, r)' =>
        /\ WorksOn(g, r)
        /\ at'[g].step \in {"save", "drop"} => at'[g].step = at[g].step
  <2>1. CASE Stop(h)
    BY <2>1, AfterStop DEF IInv
  <2>2. ASSUME NEW step \in Step \ {"save", "drop"}, Goto(h, step),
               step \in Work \/ (step = "release" /\ at[h].retry) => WorksOn(h, Mine(h))
        PROVE  \A g \in Handler, r \in Resource : WorksOn(g, r)' =>
                 /\ WorksOn(g, r)
                 /\ at'[g].step \in {"save", "drop"} => at'[g].step = at[g].step
    <3>1. \A r \in Resource : WorksOn(h, r)' => WorksOn(h, r)
      BY <2>2, AfterGoto DEF IInv, WorksOn, Work, Mine
    <3>. QED  BY <2>2, <3>1, AfterGoto DEF IInv
  <2>. QED  BY <2>1, <2>2
<1>2. FileInv' /\ CanvasIsReady'
  BY <1>1, FilesStay DEF IInv
<1>. QED  BY <1>2 DEF IInv

LEMMA LookupStep ==
    ASSUME IInv, TypeOK', NEW h \in Handler, NEW key \in Key, Lookup(h, key)
    PROVE  IInv'
<1>1. \A g \in Handler, r \in Resource : WorksOn(g, r)' =>
        /\ WorksOn(g, r)
        /\ at'[g].step \in {"save", "drop"} => at'[g].step = at[g].step
  BY DEF IInv, Lookup, WorksOn, Mine, TypeOK, Upload
<1>2. FileInv' /\ CanvasIsReady'
  BY <1>1, FilesStay DEF IInv, Lookup, files, workers, history
<1>. QED  BY <1>2 DEF IInv

LEMMA QuotaSteps ==
    ASSUME IInv, TypeOK', NEW h \in Handler, Reserve(h) \/ Charge(h) \/ Release(h) \/ Commit(h)
    PROVE  IInv'
<1> USE DEF files, workers, history, documents
<1>1. CASE Reserve(h)
  BY <1>1, UploadGoesOn DEF Reserve, Step, Work
<1>2. CASE Charge(h)
  BY <1>2, UploadGoesOn DEF Charge, Step, Work, WorksOn
<1>3. CASE Release(h)
  BY <1>3, UploadGoesOn DEF Release, Step, Work, WorksOn
<1>4. CASE Commit(h)
  BY <1>4, UploadGoesOn DEF Commit
<1>. QED  BY <1>1, <1>2, <1>3, <1>4

\* A retry starts at the claim of its row and never takes it back.
LEMMA StartsStay == TypeOK /\ RetriesKeepTheirRow /\ [Next]_vars => RetriesKeepTheirRow'
<1> SUFFICES ASSUME TypeOK, RetriesKeepTheirRow, [Next]_vars PROVE RetriesKeepTheirRow'
  OBVIOUS
<1>i. Idle.step = "idle" /\ ~Idle.retry
  BY DEF Idle
<1>1. ASSUME UNCHANGED at PROVE RetriesKeepTheirRow'
  BY <1>1 DEF RetriesKeepTheirRow
<1>2. ASSUME NEW h \in Handler, GoOn(h) PROVE RetriesKeepTheirRow'
  <2>1. \/ Stop(h)
        \/ \E step \in Step : Goto(h, step) /\ (step \notin OnlyNew \/ ~at[h].retry)
        \/ \E r \in Resource : at' = [at EXCEPT ![h].step = "write", ![h].resource = r]
    <3>1. CASE Create(h)
      BY <3>1 DEF Create, Step, Unused, OnlyNew
    <3>2. CASE Reserve(h)
      BY <3>2 DEF Reserve, Step, OnlyNew, RetriesKeepTheirRow
    <3>3. CASE Save(h)
      BY <3>3 DEF Save, Step, OnlyNew
    <3>4. CASE Undo(h)
      BY <3>4 DEF Undo, Step, OnlyNew, RetriesKeepTheirRow
    <3>5. CASE Claim(h) \/ Charge(h) \/ Write(h)
      BY <3>5 DEF Claim, Charge, Write, Step, OnlyNew
    <3>6. CASE Drop(h) \/ Fail(h) \/ Release(h) \/ Commit(h)
      BY <3>6 DEF Drop, Fail, Release, Commit, Step, OnlyNew
    <3>. QED  BY <1>2, <3>1, <3>2, <3>3, <3>4, <3>5, <3>6 DEF GoOn
  <2>2. CASE Stop(h)
    BY <1>i, <2>2 DEF Stop, RetriesKeepTheirRow, TypeOK
  <2>3. ASSUME NEW step, Goto(h, step),
               step \notin OnlyNew \/ ~at[h].retry
        PROVE  RetriesKeepTheirRow'
    BY <2>3 DEF Goto, RetriesKeepTheirRow, TypeOK, Upload
  <2>4. ASSUME NEW r \in Resource, at' = [at EXCEPT ![h].step = "write", ![h].resource = r]
        PROVE  RetriesKeepTheirRow'
    BY <2>4 DEF RetriesKeepTheirRow, TypeOK, Upload, OnlyNew
  <2>. QED  BY <2>1, <2>2, <2>3, <2>4
<1>3. ASSUME NEW h \in Handler, NEW key \in Key, Lookup(h, key) PROVE RetriesKeepTheirRow'
  BY <1>3 DEF Lookup, RetriesKeepTheirRow, TypeOK, Upload, OnlyNew
<1>4. CASE Crash
  BY <1>i, <1>4 DEF Crash, RetriesKeepTheirRow
<1>5. CASE Next /\ ~Crash
  BY <1>1, <1>2, <1>3, <1>5 DEF Next, SaveDocuments, SaveAsset, ReplaceAssets, SaveCanvas,
     DeleteAsset, AdminDelete, ListCandidates, Clean, RunJob, ClaimJob, Age
<1>6. CASE UNCHANGED vars
  BY <1>1, <1>6 DEF vars
<1>. QED  BY <1>4, <1>5, <1>6

LEMMA CreateStep ==
    ASSUME IInv, TypeOK', RetriesKeepTheirRow, NEW h \in Handler, Create(h)
    PROVE  IInv'
<1> USE DEF files, workers, history, documents
<1>1. CASE Goto(h, "release") /\ UNCHANGED row
  <2>1. ~at[h].retry
    BY DEF Create, RetriesKeepTheirRow, OnlyNew
  <2>. QED  BY <1>1, <2>1, UploadGoesOn DEF Create, Step, Work
<1>2. ASSUME NEW r \in Unused(at[h].key), Insert(r),
             at' = [at EXCEPT ![h].step = "write", ![h].resource = r]
      PROVE  IInv'
  <2>1. r \in Resource \ Legacy /\ row[r].status = "unused"
    BY DEF Unused, IInv, FileInv, LegacyIsOld
  <2>2. \A g \in Handler : ~WorksOn(g, r)
    BY <2>1 DEF IInv, FileInv, UploadsArePending
  <2>3. \A g \in Handler, s \in Resource : WorksOn(g, s)' =>
           \/ g = h /\ s = r /\ at'[g].step = "write"
           \/ g # h /\ s # r /\ WorksOn(g, s) /\ at'[g] = at[g]
    BY <1>2, <2>2 DEF IInv, TypeOK, Upload, WorksOn, Mine
  <2>4. \A g \in Handler, s \in Resource : WorksOn(g, s)' =>
           \/ /\ s = r /\ "pending" = "pending" /\ at'[g].step \notin {"save", "drop"}
              /\ \A k \in Handler : WorksOn(k, r)' => k = g
           \/ /\ s # r /\ WorksOn(g, s)
              /\ at'[g].step \in {"save", "drop"} => at'[g].step = at[g].step
              /\ \A k \in Handler : WorksOn(k, s)' => WorksOn(k, s)
    BY <2>3
  <2>5. UNCHANGED <<objects, queued, drain, disturbed, documents>>
    BY DEF Create
  <2>6. FileInv' /\ CanvasIsReady'
    <3>1. Writes(r, "pending")
      BY <1>2, <2>1, InsertWrites DEF IInv, TypeOK
    <3>. QED  BY <3>1, <2>1, <2>4, <2>5, RowMoves DEF IInv, Status
  <2>. QED  BY <2>6 DEF IInv
<1>. QED  BY <1>1, <1>2 DEF Create


LEMMA ClaimStep ==
    ASSUME IInv, TypeOK', NEW h \in Handler, Claim(h)
    PROVE  IInv'
<1> USE DEF files, workers, documents
<1>m. PICK m \in Resource : m = Mine(h)
  BY MineType DEF IInv, TypeOK
<1>1. CASE row[m].status # "failed"
  BY <1>1, <1>m, UploadGoesOn DEF Claim
<1>2. CASE row[m].status = "failed"
  <2>1. SetRow(m, "pending") /\ Goto(h, "charge")
    BY <1>2, <1>m DEF Claim
  <2>2. m \notin Legacy /\ \A g \in Handler : ~WorksOn(g, m)
    BY <1>2, <1>m DEF IInv, FileInv, LegacyIsOld, UploadsArePending
  <2>3. \A g \in Handler, s \in Resource : WorksOn(g, s)' =>
           \/ g = h /\ s = m /\ at'[g].step = "charge"
           \/ g # h /\ s # m /\ WorksOn(g, s) /\ at'[g] = at[g]
    BY <1>m, <2>1, <2>2, AfterGoto DEF IInv, WorksOn, Mine
  <2>4. \A g \in Handler, s \in Resource : WorksOn(g, s)' =>
           \/ /\ s = m /\ "pending" = "pending" /\ at'[g].step \notin {"save", "drop"}
              /\ \A k \in Handler : WorksOn(k, m)' => k = g
           \/ /\ s # m /\ WorksOn(g, s)
              /\ at'[g].step \in {"save", "drop"} => at'[g].step = at[g].step
              /\ \A k \in Handler : WorksOn(k, s)' => WorksOn(k, s)
    BY <2>3
  <2>5. UNCHANGED <<objects, queued, drain, disturbed, documents>>
    BY DEF Claim
  <2>6. m \in Resource \ Legacy /\ "pending" \in Status \ {"unused"}
    BY <1>m, <2>2 DEF Status
  <2>7. row[m].status \notin {"ready", "gone"}
    BY <1>2
  <2>8. FileInv' /\ CanvasIsReady'
    BY <2>1, <2>4, <2>5, <2>6, <2>7, SetRowWrites, RowMoves DEF IInv, TypeOK
  <2>. QED  BY <2>8 DEF IInv
<1>. QED  BY <1>1, <1>2

\* The last write of a row by its upload: ready, gone or failed.
LEMMA RowIsWritten ==
    ASSUME IInv, TypeOK', NEW h \in Handler, WorksOn(h, Mine(h)),
           NEW status \in {"ready", "gone", "failed"}, SetRow(Mine(h), status),
           UNCHANGED <<objects, queued, drain, disturbed, documents>>,
           status = "ready" => at[h].step = "save",
           status = "gone" => at[h].step = "drop",
           \/ Stop(h)
           \/ Goto(h, "commit")
           \/ Goto(h, "release") /\ ~at[h].retry
    PROVE  IInv'
<1> DEFINE m == Mine(h)
<1>m. m \in Resource
  BY MineType DEF IInv, TypeOK
<1>1. /\ m \notin Legacy /\ row[m].status # "ready"
      /\ m \notin disturbed => row[m].status # "gone"
      /\ \A g \in Handler : WorksOn(g, m) => g = h
  BY <1>m DEF IInv, FileInv, UploadsArePending
<1>2. /\ m \notin disturbed /\ status = "ready" => ObjectOf[m] \in objects
      /\ m \notin disturbed /\ status = "gone" => ObjectOf[m] \notin objects
  BY <1>m DEF IInv, FileInv, UploadsHaveFiles
<1>3. /\ \A r \in Resource : ~WorksOn(h, r)'
      /\ \A g \in Handler, r \in Resource : g # h => (WorksOn(g, r)' <=> WorksOn(g, r))
      /\ \A g \in Handler : g # h => at'[g] = at[g]
  <2>1. CASE Stop(h)
    BY <2>1, AfterStop DEF IInv
  <2>2. ASSUME NEW step, Goto(h, step), step = "commit" \/ (step = "release" /\ ~at[h].retry)
        PROVE  <1>3!:
    BY <2>2, AfterGoto DEF IInv, WorksOn
  <2>. QED  BY <2>1, <2>2
<1>4. \A g \in Handler, s \in Resource : WorksOn(g, s)' =>
         /\ s # m /\ WorksOn(g, s) /\ at'[g] = at[g]
         /\ \A k \in Handler : WorksOn(k, s)' => WorksOn(k, s)
  BY <1>1, <1>3
<1>5. \A g \in Handler, s \in Resource : WorksOn(g, s)' =>
         \/ /\ s = m /\ status = "pending" /\ at'[g].step \notin {"save", "drop"}
            /\ \A k \in Handler : WorksOn(k, m)' => k = g
         \/ /\ s # m /\ WorksOn(g, s)
            /\ at'[g].step \in {"save", "drop"} => at'[g].step = at[g].step
            /\ \A k \in Handler : WorksOn(k, s)' => WorksOn(k, s)
  BY <1>4
<1>6. Writes(m, status)
  BY <1>m, SetRowWrites DEF IInv, TypeOK
<1>7. FileInv' /\ CanvasIsReady'
  BY <1>m, <1>1, <1>2, <1>5, <1>6, RowMoves DEF IInv, Status
<1>. QED  BY <1>7 DEF IInv

LEMMA SaveStep ==
    ASSUME IInv, TypeOK', NEW h \in Handler, Save(h)
    PROVE  IInv'
<1> USE DEF files, workers, history, documents
<1>1. WorksOn(h, Mine(h))
  BY DEF Save, WorksOn
<1>2. CASE SaveAs(h, "ready") /\ (Stop(h) \/ Goto(h, "commit"))
  BY <1>1, <1>2, RowIsWritten DEF Save, SaveAs
<1>3. CASE UNCHANGED row
  BY <1>1, <1>3, UploadGoesOn DEF Save, Step
<1>. QED  BY <1>2, <1>3 DEF Save

LEMMA DropStep ==
    ASSUME IInv, TypeOK', RetriesKeepTheirRow, NEW h \in Handler, Drop(h)
    PROVE  IInv'
<1> USE DEF files, workers, history, documents
<1>1. WorksOn(h, Mine(h)) /\ ~at[h].retry /\ Goto(h, "release")
  BY DEF Drop, WorksOn, RetriesKeepTheirRow, OnlyNew
<1>2. CASE SetRow(Mine(h), "gone")
  BY <1>1, <1>2, RowIsWritten DEF Drop
<1>3. CASE UNCHANGED row
  BY <1>1, <1>3, UploadGoesOn DEF Drop, Step
<1>. QED  BY <1>2, <1>3 DEF Drop

LEMMA FailStep ==
    ASSUME IInv, TypeOK', NEW h \in Handler, Fail(h)
    PROVE  IInv'
<1> USE DEF files, workers, history, documents
<1>1. WorksOn(h, Mine(h)) /\ (Stop(h) \/ (Goto(h, "release") /\ ~at[h].retry))
  BY DEF Fail, WorksOn
<1>2. CASE SaveAs(h, "failed")
  BY <1>1, <1>2, RowIsWritten DEF Fail, SaveAs
<1>3. CASE UNCHANGED row
  BY <1>1, <1>3, UploadGoesOn DEF Fail, Step, Work
<1>. QED  BY <1>2, <1>3 DEF Fail

\* An upload writes its file or deletes it; no other row has that file.
LEMMA FileMoves ==
    ASSUME IInv, TypeOK', NEW h \in Handler, NEW m \in Resource, WorksOn(h, m),
           NEW step, Goto(h, step),
           UNCHANGED <<row, queued, drain, disturbed, documents>>,
           objects' \in {objects, objects \cup {ObjectOf[m]}, objects \ {ObjectOf[m]}},
           step = "save" => objects' = objects \cup {ObjectOf[m]},
           step = "drop" => objects' = objects \ {ObjectOf[m]}
    PROVE  IInv'
<1>1. /\ m = Mine(h) /\ \A r \in Resource : ObjectOf[r] = ObjectOf[m] => r = m
      /\ m \notin Legacy /\ row[m].status \in {"pending", "gone"}
      /\ m \notin disturbed => row[m].status = "pending"
      /\ \A g \in Handler : WorksOn(g, m) => g = h
  BY OwnFile DEF IInv, FileInv, UploadsArePending
<1>2. /\ \A g \in Handler, r \in Resource : WorksOn(g, r)' => WorksOn(g, r)
      /\ \A g \in Handler : g # h => at'[g] = at[g]
      /\ at'[h].step = step /\ \A r \in Resource : WorksOn(h, r)' => r = m
  BY <1>1, AfterGoto DEF IInv, WorksOn, Mine
<1>3. \A r \in Resource : r # m => (ObjectOf[r] \in objects' <=> ObjectOf[r] \in objects)
  BY <1>1
<1>4. Rows' = Rows /\ Ready' = Ready /\ m \notin Ready
  BY <1>1 DEF Rows, Ready
<1>5. LegacyIsOld' /\ JobsNameNoRow' /\ CanvasIsReady'
  BY <1>4 DEF IInv, FileInv, LegacyIsOld, JobsNameNoRow, CanvasIsReady, documents
<1>6. UploadsArePending'
  BY <1>2 DEF IInv, FileInv, UploadsArePending
<1>7. UploadsHaveFiles'
  <2> SUFFICES ASSUME NEW g \in Handler, NEW r \in Resource, WorksOn(g, r)', r \notin disturbed
               PROVE  /\ at'[g].step = "save" => ObjectOf[r] \in objects'
                      /\ at'[g].step = "drop" => ObjectOf[r] \notin objects'
    BY DEF UploadsHaveFiles
  <2>1. CASE g = h
    BY <1>2, <2>1
  <2>2. CASE g # h
    <3>1. r # m /\ WorksOn(g, r) /\ at'[g] = at[g]
      BY <1>1, <1>2, <2>2
    <3>. QED  BY <1>3, <3>1 DEF IInv, FileInv, UploadsHaveFiles
  <2>. QED  BY <2>1, <2>2
<1>8. ReadyIsStored'
  BY <1>3, <1>4 DEF IInv, FileInv, ReadyIsStored, Ready, Rows
<1>9. FilesAreOwned'
  <2>1. m \in Rows \cup disturbed
    BY <1>1 DEF Rows
  <2>2. \A o \in objects' : o \in objects \/ o = ObjectOf[m]
    OBVIOUS
  <2>. QED  BY <1>4, <2>1, <2>2 DEF IInv, FileInv, FilesAreOwned, Named
<1>. QED  BY <1>5, <1>6, <1>7, <1>8, <1>9 DEF IInv, FileInv

LEMMA FileSteps ==
    ASSUME IInv, TypeOK', NEW h \in Handler, Write(h) \/ Undo(h)
    PROVE  IInv'
<1> USE DEF files, workers, history, documents
<1>m. PICK m \in Resource : m = Mine(h)
  BY MineType DEF IInv, TypeOK
<1>1. CASE Write(h)
  <2>1. WorksOn(h, m)
    BY <1>1, <1>m DEF Write, WorksOn
  <2>. QED  BY <1>1, <1>m, <2>1, FileMoves DEF Write
<1>2. CASE Undo(h)
  <2>1. WorksOn(h, m)
    BY <1>2, <1>m DEF Undo, WorksOn
  <2>. QED  BY <1>2, <1>m, <2>1, FileMoves DEF Undo
<1>. QED  BY <1>1, <1>2

-----------------------------------------------------------------------------
(* Documents, cleanup and time                                             *)

\* Steps that change the documents only.
LEMMA DocumentStep ==
    ASSUME IInv, TypeOK', UNCHANGED <<row, objects, queued, drain, disturbed, at>>,
           \A p \in canvas' : p[2] \in holds'[p[1]] /\ p[2] \in Ready
    PROVE  IInv'
<1>1. FileInv' /\ Ready' = Ready
  BY FilesStay DEF IInv, WorksOn, Mine
<1>. QED  BY <1>1 DEF IInv, CanvasIsReady

LEMMA SaveDocumentsStep ==
    ASSUME IInv, TypeOK', SaveDocuments
    PROVE  IInv'
<1> USE DEF files, workers, history
<1>c. \A p \in canvas : p[1] \in Asset /\ p[2] \in holds[p[1]] /\ p[2] \in Ready
  BY DEF IInv, CanvasIsReady, TypeOK
<1>h. holds \in [Asset -> SUBSET Resource]
  BY DEF IInv, TypeOK
<1>1. ASSUME NEW a \in Asset, NEW resources, SaveAsset(a, resources) PROVE IInv'
  BY <1>1, <1>c, <1>h, DocumentStep DEF SaveAsset
<1>2. ASSUME NEW newHolds, ReplaceAssets(newHolds) PROVE IInv'
  BY <1>2, <1>c, DocumentStep DEF ReplaceAssets, CanvasKeeps
<1>3. ASSUME NEW pairs, SaveCanvas(pairs) PROVE IInv'
  BY <1>3, DocumentStep DEF SaveCanvas, CanvasMayShow
<1>. QED  BY <1>1, <1>2, <1>3 DEF SaveDocuments

\* A deletion of resources that the canvas does not show.
LEMMA DeletionStep ==
    ASSUME IInv, TypeOK', NEW resources, NEW deleted,
           deleted \subseteq resources, resources \subseteq Rows,
           deleted \cap OnCanvas = {},
           Delete(deleted, resources), UNCHANGED <<objects, at, drain, canvas>>,
           \A p \in canvas : p[2] \in holds'[p[1]]
    PROVE  IInv'
<1>1. FileInv' /\ Ready' = Ready \ deleted
  BY RowsDeleted DEF IInv
<1>. QED  BY <1>1 DEF IInv, CanvasIsReady, OnCanvas

LEMMA DeleteSteps ==
    ASSUME IInv, TypeOK',
           \/ \E a \in Asset : DeleteAsset(a)
           \/ \E deleted \in SUBSET Deletable : AdminDelete(deleted)
           \/ Clean
    PROVE  IInv'
<1> USE DEF documents, workers, history
<1>c. \A p \in canvas : p[1] \in Asset /\ p[2] \in holds[p[1]] /\ p[2] \in Rows
  BY DEF IInv, CanvasIsReady, TypeOK, Ready
<1>h. holds \in [Asset -> SUBSET Resource]
  BY DEF IInv, TypeOK
<1>1. ASSUME NEW a \in Asset, DeleteAsset(a) PROVE IInv'
  <2> DEFINE owned == holds[a] \cap Rows
  <2>1. owned \cap OnCanvas = {} /\ holds' = [holds EXCEPT ![a] = {}]
        /\ Delete(owned \ Others(a), owned) /\ UNCHANGED <<objects, at, drain, canvas>>
    BY <1>1 DEF DeleteAsset
  <2>2. \A p \in canvas : p[1] # a
    BY <1>c, <2>1 DEF OnCanvas
  <2>3. \A p \in canvas : p[2] \in holds'[p[1]]
    BY <1>c, <1>h, <2>1, <2>2
  <2>. QED  BY <2>1, <2>3, DeletionStep
<1>2. ASSUME NEW deleted \in SUBSET Deletable, AdminDelete(deleted) PROVE IInv'
  BY <1>2, <1>c, DeletionStep DEF AdminDelete, InDocuments
<1>3. CASE Clean
  <2> DEFINE detached == list \ InDocuments
  <2>1. CASE detached \subseteq Rows /\ Delete(detached, detached)
    BY <1>3, <1>c, <2>1, DeletionStep DEF Clean, InDocuments
  <2>2. CASE UNCHANGED <<row, queued, disturbed>>
    BY <1>3, <1>c, <2>2, DocumentStep DEF Clean, IInv, CanvasIsReady
  <2>. QED  BY <1>3, <2>1, <2>2 DEF Clean
<1>. QED  BY <1>1, <1>2, <1>3

LEMMA JobSteps ==
    ASSUME IInv, TypeOK',
           ListCandidates \/ (\E o \in Object : ClaimJob(o)) \/ RunJob
    PROVE  IInv'
<1> USE DEF files, documents, workers, history
<1>w. UNCHANGED at => \A h \in Handler, r \in Resource : WorksOn(h, r)' <=> WorksOn(h, r)
  BY DEF WorksOn, Mine
<1>1. CASE ListCandidates \/ \E o \in Object : ClaimJob(o)
  <2>1. queued' \cup drain' = queued \cup drain
    BY <1>1 DEF ListCandidates, ClaimJob
  <2>2. FileInv' /\ CanvasIsReady'
    BY <1>1, <1>w, <2>1, FilesStay DEF IInv, ListCandidates, ClaimJob
  <2>. QED  BY <2>2 DEF IInv
<1>2. CASE RunJob
  <2>1. /\ UNCHANGED <<row, disturbed, holds, canvas, at>>
        /\ queued' \cup drain' \subseteq queued \cup drain
        /\ objects' \subseteq objects
        /\ \A o \in objects : o \in objects' \/ o \in drain
        /\ \A o \in objects' : o \in queued \cup drain => o \in queued' \cup drain'
    BY <1>2 DEF RunJob
  <2>2. Rows' = Rows /\ Ready' = Ready
    BY <2>1 DEF Rows, Ready
  <2>3. LegacyIsOld' /\ UploadsArePending' /\ JobsNameNoRow' /\ CanvasIsReady'
    BY <1>w, <2>1, <2>2 DEF IInv, FileInv, LegacyIsOld, UploadsArePending, JobsNameNoRow,
                            CanvasIsReady
  <2>4. \A r \in Resource \ disturbed :
           row[r].status # "gone" => (ObjectOf[r] \in objects' <=> ObjectOf[r] \in objects)
    BY <2>1 DEF IInv, FileInv, JobsNameNoRow
  <2>5. UploadsHaveFiles'
    BY <1>w, <2>1, <2>4 DEF IInv, FileInv, UploadsHaveFiles, UploadsArePending
  <2>6. ReadyIsStored'
    BY <2>1, <2>2, <2>4 DEF IInv, FileInv, ReadyIsStored, Ready, Rows
  <2>7. FilesAreOwned'
    BY <2>1, <2>2 DEF IInv, FileInv, FilesAreOwned, Named
  <2>. QED  BY <2>3, <2>5, <2>6, <2>7 DEF IInv, FileInv
<1>. QED  BY <1>1, <1>2

LEMMA TimeSteps ==
    ASSUME IInv, TypeOK', Crash \/ \E r \in Resource : Age(r)
    PROVE  IInv'
<1> USE DEF files, documents, workers, history
<1>1. CASE Crash
  <2>1. \A h \in Handler, r \in Resource : ~WorksOn(h, r)'
    BY <1>1, IdleIsAnUpload DEF Crash, WorksOn, Mine
  <2>2. FileInv' /\ CanvasIsReady'
    BY <1>1, <2>1, FilesStay DEF IInv, Crash
  <2>. QED  BY <2>2 DEF IInv
<1>2. ASSUME NEW r \in Resource, Age(r) PROVE IInv'
  <2>1. \A s \in Resource : row'[s].status = row[s].status
    BY <1>2 DEF Age, IInv, TypeOK, Row
  <2>2. FileInv' /\ CanvasIsReady'
    BY <1>2, <2>1, FilesStay DEF IInv, Age, WorksOn, Mine
  <2>. QED  BY <2>2 DEF IInv
<1>. QED  BY <1>1, <1>2

-----------------------------------------------------------------------------
(* The theorems                                                            *)

LEMMA InitInv == Init => IInv /\ RetriesKeepTheirRow
<1> SUFFICES ASSUME Init PROVE IInv /\ RetriesKeepTheirRow
  OBVIOUS
<1>1. TypeOK
  BY InitTypes
<1>2. \A h \in Handler : at[h] = Idle /\ at[h].step = "idle" /\ ~at[h].retry
  BY DEF Init, Idle
<1>3. \A r \in Resource : row[r].status = IF r \in Legacy THEN "ready" ELSE "unused"
  BY DEF Init
<1>4. Ready = Legacy /\ Rows = Legacy
  BY <1>3, LibraryAssumption DEF Ready, Rows
<1>5. LegacyIsOld /\ UploadsArePending /\ UploadsHaveFiles
  BY <1>2, <1>3, LibraryAssumption DEF LegacyIsOld, UploadsArePending, UploadsHaveFiles, WorksOn
<1>6. JobsNameNoRow /\ ReadyIsStored /\ FilesAreOwned /\ CanvasIsReady
  BY <1>4 DEF Init, JobsNameNoRow, ReadyIsStored, FilesAreOwned, CanvasIsReady, Named
<1>. QED  BY <1>1, <1>2, <1>5, <1>6 DEF IInv, FileInv, RetriesKeepTheirRow

LEMMA NextInv == IInv /\ RetriesKeepTheirRow /\ [Next]_vars => IInv' /\ RetriesKeepTheirRow'
<1> SUFFICES ASSUME IInv, RetriesKeepTheirRow, [Next]_vars PROVE IInv' /\ RetriesKeepTheirRow'
  OBVIOUS
<1>1. TypeOK' /\ RetriesKeepTheirRow'
  BY NextTypes, StartsStay DEF IInv
<1>2. CASE UNCHANGED vars
  BY <1>1, <1>2, DocumentStep DEF vars, files, documents, workers, history, IInv, CanvasIsReady
<1>3. CASE \E h \in Handler : GoOn(h)
  BY <1>1, <1>3, QuotaSteps, CreateStep, ClaimStep, FileSteps, SaveStep, DropStep, FailStep
  DEF GoOn
<1>4. CASE \E h \in Handler, key \in Key : Lookup(h, key)
  BY <1>1, <1>4, LookupStep
<1>. QED
  BY <1>1, <1>2, <1>3, <1>4, SaveDocumentsStep, DeleteSteps, JobSteps, TimeSteps DEF Next

\* The invariant the two theorems below rest on.
THEOREM Invariant == Spec => [](IInv /\ RetriesKeepTheirRow)
BY InitInv, NextInv, PTL DEF Spec

\* What the canvas shows is there (ValidateCanvasMediaAssets and the two guards of
\* deletion), however many handlers upload and whatever fails: the asset holds the
\* resource, its row is ready, its file exists and no deletion job names it.
THEOREM CanvasMediaHolds == Spec => []CanvasMediaIsThere
<1>1. IInv => CanvasMediaIsThere
  BY DEF IInv, FileInv, CanvasIsReady, CanvasMediaIsThere, ReadyIsStored, JobsNameNoRow, Ready, Rows
<1>. QED  BY <1>1, Invariant, PTL

\* No failure of an upload and no deletion (resource_cleanup.go:81-96) forgets a
\* file: each is named by a row or by a deletion job.
THEOREM FilesOwned == Spec => []FilesAreOwned
<1>1. IInv => FilesAreOwned
  BY DEF IInv, FileInv
<1>. QED  BY <1>1, Invariant, PTL

-----------------------------------------------------------------------------
(* The quota                                                               *)

\* The handlers whose bytes are in pendingStorage, and those of them whose row is
\* not ready yet.
Holding == {h \in Handler : at[h].step \notin {"idle", "reserve"} /\ ~at[h].retry}
Uploading == {h \in Holding : at[h].step # "commit"}
Bytes(handlers) == SumFunctionOnSet(SizeAt, handlers)

\* Between claim or insert and the end, a handler has a row of its key; whose upload
\* is a repetition, its row is known to be one.
HandlersKnowTheirRow ==
    \A h \in Handler :
        /\ at[h].step \in {"claim", "charge"} => at[h].retry
        /\ at[h].step = "commit" => ~at[h].retry
        /\ \/ at[h].step \in {"claim", "charge", "write", "save", "undo", "drop", "fail"}
           \/ at[h].step = "release" /\ at[h].retry
           => KeyOf[Mine(h)] = at[h].key
        /\ at[h].retry /\ at[h].step # "claim" => Mine(h) \in retried

\* pendingStorage holds the bytes of all who have reserved and not come to an end.
PendingIsHeld == Bytes(Holding) <= pending

\* What is stored and what is being uploaded stays below the limit together.
StoredIsBounded == SumSizes(Ready \ retried) + Bytes(Uploading) < StoredLimit

DayInv ==
    TypeOK /\ RetriesKeepTheirRow /\ HandlersKnowTheirRow /\ UploadsCountAgainstTheDay
StoredInv == PendingIsHeld /\ StoredIsBounded

\* There are finitely many handlers, so their sizes have a sum.
LEMMA SumOfHandlers ==
    ASSUME NEW f \in [Handler -> Nat], NEW A \in SUBSET Handler
    PROVE  SumFunctionOnSet(f, A) \in Nat
<1>1. IsFiniteSet(A)
  BY FiniteAssumption, FS_Subset
<1>. QED  BY <1>1, SumType

\* When one handler moves, the sums over sets of handlers change by its size.
LEMMA OneMoves ==
    ASSUME NEW f \in [Handler -> Nat], NEW g \in [Handler -> Nat], NEW h \in Handler,
           \A k \in Handler \ {h} : f[k] = g[k],
           NEW A \in SUBSET Handler, NEW B \in SUBSET Handler, A \ {h} = B \ {h}
    PROVE  \E rest \in Nat :
              /\ SumFunctionOnSet(f, A) = rest + (IF h \in A THEN f[h] ELSE 0)
              /\ SumFunctionOnSet(g, B) = rest + (IF h \in B THEN g[h] ELSE 0)
<1> DEFINE rest == SumFunctionOnSet(f, A \ {h})
<1>1. IsFiniteSet(A) /\ IsFiniteSet(B) /\ IsFiniteSet(A \ {h})
  BY FiniteAssumption, FS_Subset
<1>2. rest \in Nat
  BY SumOfHandlers
<1>3. rest = SumFunctionOnSet(g, B \ {h})
  BY <1>1, SumSame
<1>4. SumFunctionOnSet(f, A) = rest + (IF h \in A THEN f[h] ELSE 0)
  <2>1. CASE h \in A
    BY <1>1, <1>2, <2>1, SumRemove
  <2>2. CASE h \notin A
    <3>1. A \ {h} = A
      BY <2>2
    <3>. QED  BY <1>2, <2>2, <3>1
  <2>. QED  BY <2>1, <2>2
<1>5. SumFunctionOnSet(g, B) = rest + (IF h \in B THEN g[h] ELSE 0)
  <2>1. CASE h \in B
    BY <1>1, <1>2, <1>3, <2>1, SumRemove
  <2>2. CASE h \notin B
    <3>1. B \ {h} = B
      BY <2>2
    <3>. QED  BY <1>2, <1>3, <2>2, <3>1
  <2>. QED  BY <2>1, <2>2
<1> HIDE DEF rest
<1>. QED  BY <1>2, <1>4, <1>5

\* The rows that are ready name finitely many files, each with a size.
LEMMA FilesAreFinite ==
    ASSUME NEW R \in SUBSET Resource
    PROVE  IsFiniteSet(FilesOf(R)) /\ \A file \in FilesOf(R) : FileSize[file] \in Nat
<1> DEFINE f == [r \in R |-> <<ObjectOf[r], KeyOf[r]>>]
<1>1. IsFiniteSet(R)
  BY FiniteAssumption, FS_Subset
<1>2. f \in Surjection(R, FilesOf(R))
  BY DEF Surjection, FilesOf
<1>3. IsFiniteSet(FilesOf(R))
  BY <1>1, <1>2, FS_Surjection
<1>4. \A file \in FilesOf(R) : FileSize[file] \in Nat
  BY LibraryAssumption DEF FilesOf, FileSize
<1>. QED  BY <1>3, <1>4

\* Fewer rows are no more bytes.
LEMMA FewerBytes ==
    ASSUME NEW S \in SUBSET Resource, NEW R \in SUBSET S
    PROVE  SumSizes(S) \in Nat /\ SumSizes(R) \in Nat /\ SumSizes(R) <= SumSizes(S)
<1>1. FilesOf(R) \in SUBSET FilesOf(S)
  BY DEF FilesOf
<1>. QED  BY <1>1, FilesAreFinite, SumType, SumGrows DEF SumSizes

\* A row more is at most its size more.
LEMMA OneRowMore ==
    ASSUME NEW R \in SUBSET Resource, NEW r \in Resource
    PROVE  SumSizes(R \cup {r}) <= SumSizes(R) + SizeOf[KeyOf[r]]
<1> DEFINE file == <<ObjectOf[r], KeyOf[r]>>
<1>1. FilesOf(R \cup {r}) = FilesOf(R) \cup {file}
  BY DEF FilesOf
<1>2. FileSize[file] = SizeOf[KeyOf[r]] /\ FileSize[file] \in Nat
  BY LibraryAssumption DEF FileSize
<1>3. CASE file \in FilesOf(R)
  <2>1. FilesOf(R \cup {r}) = FilesOf(R)
    BY <1>1, <1>3
  <2>. QED  BY <1>2, <2>1, FewerBytes DEF SumSizes
<1>4. CASE file \notin FilesOf(R)
  <2>1. SumSizes(R \cup {r}) = FileSize[file] + SumSizes(R)
    BY <1>1, <1>2, <1>4, FilesAreFinite, SumAdd DEF SumSizes
  <2>. QED  BY <1>2, <2>1, FewerBytes
<1>. QED  BY <1>3, <1>4

\* The functions and sets the sums are made of.
LEMMA SizesAreTyped ==
    ASSUME TypeOK
    PROVE  /\ SizeAt \in [Handler -> Nat] /\ \A h \in Handler : SizeAt[h] = Size(h)
           /\ Holding \in SUBSET Handler /\ Uploading \in SUBSET Handler
           /\ Reserving \in SUBSET Handler
           /\ Ready \in SUBSET Resource
BY MineType DEF SizeAt, Holding, Uploading, Reserving, TypeOK, Ready, Rows

\* What one handler adds to a sum over a set of handlers.
Share(h, handlers) == IF h \in handlers THEN SizeAt[h] ELSE 0

\* When one handler moves, each of the three sums loses its share before the step and
\* gains its share after it.
LEMMA Shares ==
    ASSUME TypeOK, TypeOK', NEW h \in Handler,
           \A g \in Handler \ {h} : at'[g] = at[g]
    PROVE  \E x, y, z \in Nat :
              /\ Bytes(Holding) = x + Share(h, Holding)
              /\ Bytes(Holding)' = x + Share(h, Holding)'
              /\ Bytes(Uploading) = y + Share(h, Uploading)
              /\ Bytes(Uploading)' = y + Share(h, Uploading)'
              /\ SumFunctionOnSet(SizeAt, Reserving) = z + Share(h, Reserving)
              /\ SumFunctionOnSet(SizeAt, Reserving)' = z + Share(h, Reserving)'
<1>1. /\ SizeAt \in [Handler -> Nat] /\ Holding \in SUBSET Handler
      /\ Uploading \in SUBSET Handler /\ Reserving \in SUBSET Handler
  BY SizesAreTyped
<1>2. /\ SizeAt' \in [Handler -> Nat] /\ Holding' \in SUBSET Handler
      /\ Uploading' \in SUBSET Handler /\ Reserving' \in SUBSET Handler
  BY LibraryAssumption DEF TypeOK, Upload, SizeAt, Size, Holding, Uploading, Reserving
<1>3. \A k \in Handler \ {h} : SizeAt[k] = SizeAt'[k]
  BY DEF SizeAt, Size
<1>4. /\ Holding \ {h} = Holding' \ {h} /\ Uploading \ {h} = Uploading' \ {h}
      /\ Reserving \ {h} = Reserving' \ {h}
  BY DEF Holding, Uploading, Reserving
<1>5. PICK x \in Nat :
         /\ SumFunctionOnSet(SizeAt, Holding) = x + (IF h \in Holding THEN SizeAt[h] ELSE 0)
         /\ SumFunctionOnSet(SizeAt', Holding') = x + (IF h \in Holding' THEN SizeAt'[h] ELSE 0)
  BY <1>1, <1>2, <1>3, <1>4, OneMoves
<1>6. PICK y \in Nat :
         /\ SumFunctionOnSet(SizeAt, Uploading) = y + (IF h \in Uploading THEN SizeAt[h] ELSE 0)
         /\ SumFunctionOnSet(SizeAt', Uploading') = y + (IF h \in Uploading' THEN SizeAt'[h] ELSE 0)
  BY <1>1, <1>2, <1>3, <1>4, OneMoves
<1>7. PICK z \in Nat :
         /\ SumFunctionOnSet(SizeAt, Reserving) = z + (IF h \in Reserving THEN SizeAt[h] ELSE 0)
         /\ SumFunctionOnSet(SizeAt', Reserving') = z + (IF h \in Reserving' THEN SizeAt'[h] ELSE 0)
  BY <1>1, <1>2, <1>3, <1>4, OneMoves
<1>. QED  BY <1>5, <1>6, <1>7 DEF Bytes, Share

\* Steps after which no row is ready that was not before.
LEMMA NoMoreStored ==
    ASSUME TypeOK, Ready' \subseteq Ready, retried \subseteq retried'
    PROVE  /\ SumSizes(Ready \ Legacy) \in Nat /\ SumSizes(Ready \ Legacy)' \in Nat
           /\ SumSizes(Ready \ Legacy)' <= SumSizes(Ready \ Legacy)
           /\ SumSizes(Ready \ retried) \in Nat /\ SumSizes(Ready \ retried)' \in Nat
           /\ SumSizes(Ready \ retried)' <= SumSizes(Ready \ retried)
<1>1. /\ Ready \ Legacy \in SUBSET Resource /\ Ready' \ Legacy \in SUBSET (Ready \ Legacy)
      /\ Ready \ retried \in SUBSET Resource /\ Ready' \ retried' \in SUBSET (Ready \ retried)
  BY SizesAreTyped
<1>2. /\ SumSizes(Ready \ Legacy) \in Nat /\ SumSizes(Ready' \ Legacy) \in Nat
      /\ SumSizes(Ready' \ Legacy) <= SumSizes(Ready \ Legacy)
  BY <1>1, FewerBytes
<1>3. /\ SumSizes(Ready \ retried) \in Nat /\ SumSizes(Ready' \ retried') \in Nat
      /\ SumSizes(Ready' \ retried') <= SumSizes(Ready \ retried)
  BY <1>1, FewerBytes
<1>. QED  BY <1>2, <1>3 DEF SumSizes, FilesOf

\* Steps of one handler after which no row is ready that was not before, told by how
\* its own share changes.
LEMMA DayMoves ==
    ASSUME TypeOK, TypeOK', NEW h \in Handler, \A g \in Handler \ {h} : at'[g] = at[g],
           Ready' \subseteq Ready, retried \subseteq retried',
           UploadsCountAgainstTheDay,
           daily + Share(h, Reserving)' <= daily' + Share(h, Reserving)
    PROVE  UploadsCountAgainstTheDay'
<1>1. PICK z \in Nat : /\ SumFunctionOnSet(SizeAt, Reserving) = z + Share(h, Reserving)
                       /\ SumFunctionOnSet(SizeAt, Reserving)' = z + Share(h, Reserving)'
  BY Shares
<1>2. Share(h, Reserving) \in Nat /\ Share(h, Reserving)' \in Nat
  BY LibraryAssumption DEF Share, TypeOK, Upload, SizeAt, Size
<1>3. daily \in Nat /\ daily' \in Nat
  BY DEF TypeOK
<1>. QED  BY <1>1, <1>2, <1>3, NoMoreStored DEF UploadsCountAgainstTheDay

\* The same for the bytes stored: pendingStorage does not fall by more than the share
\* the handler gives up.
LEMMA StoredMoves ==
    ASSUME TypeOK, TypeOK', NEW h \in Handler, \A g \in Handler \ {h} : at'[g] = at[g],
           Ready' \subseteq Ready, retried \subseteq retried',
           StoredInv,
           pending + Share(h, Holding)' <= pending' + Share(h, Holding),
           Share(h, Uploading)' <= Share(h, Uploading)
    PROVE  StoredInv'
<1>1. PICK x \in Nat, y \in Nat :
          /\ Bytes(Holding) = x + Share(h, Holding)
          /\ Bytes(Holding)' = x + Share(h, Holding)'
          /\ Bytes(Uploading) = y + Share(h, Uploading)
          /\ Bytes(Uploading)' = y + Share(h, Uploading)'
  BY Shares
<1>2. /\ Share(h, Holding) \in Nat /\ Share(h, Holding)' \in Nat
      /\ Share(h, Uploading) \in Nat /\ Share(h, Uploading)' \in Nat
  BY LibraryAssumption DEF Share, TypeOK, Upload, SizeAt, Size
<1>3. pending \in Nat /\ pending' \in Nat /\ StoredLimit \in Nat
  BY LibraryAssumption DEF TypeOK
<1>4. PendingIsHeld'
  BY <1>1, <1>2, <1>3 DEF StoredInv, PendingIsHeld
<1>5. StoredIsBounded'
  BY <1>1, <1>2, <1>3, NoMoreStored DEF StoredInv, StoredIsBounded
<1>. QED  BY <1>4, <1>5 DEF StoredInv

\* A handler that goes to another step keeps its key, its row and its size.
LEMMA GotoShares ==
    ASSUME TypeOK, NEW h \in Handler, NEW step, Goto(h, step)
    PROVE  /\ \A g \in Handler \ {h} : at'[g] = at[g]
           /\ at'[h].step = step /\ at'[h].retry = at[h].retry
           /\ at'[h].key = at[h].key /\ at'[h].resource = at[h].resource
           /\ SizeAt'[h] = SizeAt[h] /\ SizeAt[h] = Size(h) /\ Size(h) \in Nat
BY MineType DEF Goto, TypeOK, Upload, SizeAt, Size

\* A handler that stops has no share left.
LEMMA StopShares ==
    ASSUME TypeOK, NEW h \in Handler, Stop(h)
    PROVE  /\ \A g \in Handler \ {h} : at'[g] = at[g]
           /\ at'[h].step = "idle"
           /\ Share(h, Holding)' = 0 /\ Share(h, Uploading)' = 0 /\ Share(h, Reserving)' = 0
           /\ SizeAt[h] = Size(h) /\ Size(h) \in Nat
<1>1. at'[h] = Idle /\ \A g \in Handler \ {h} : at'[g] = at[g]
  BY DEF Stop, TypeOK
<1>2. at'[h].step = "idle"
  BY <1>1, IdleIsAnUpload
<1>3. h \notin Holding' /\ h \notin Uploading' /\ h \notin Reserving'
  BY <1>2 DEF Holding, Uploading, Reserving
<1>. QED  BY <1>1, <1>2, <1>3, MineType DEF Share, SizeAt, TypeOK

\* A row that is written, but not as ready, makes no row ready.
LEMMA NotReadyByWrite ==
    ASSUME TypeOK, NEW r, NEW status, status # "ready", SetRow(r, status)
    PROVE  Ready' \subseteq Ready
BY DEF SetRow, Set, TypeOK, Row, Ready, Rows

\* Statements that leave the rows alone or write one that is not ready.
LEMMA PlainSteps ==
    ASSUME TypeOK, TypeOK', RetriesKeepTheirRow, HandlersKnowTheirRow,
           NEW h \in Handler,
           Create(h) \/ Claim(h) \/ Charge(h) \/ Write(h) \/ Undo(h) \/ Drop(h) \/ Fail(h)
             \/ Release(h) \/ Commit(h)
    PROVE  /\ Ready' \subseteq Ready /\ retried \subseteq retried'
           /\ \A g \in Handler \ {h} : at'[g] = at[g]
           /\ daily + Share(h, Reserving)' <= daily' + Share(h, Reserving)
           /\ pending + Share(h, Holding)' <= pending' + Share(h, Holding)
           /\ Share(h, Uploading)' <= Share(h, Uploading)
<1> DEFINE Plain == /\ Ready' \subseteq Ready /\ retried \subseteq retried'
                    /\ \A g \in Handler \ {h} : at'[g] = at[g]
                    /\ daily + Share(h, Reserving)' <= daily' + Share(h, Reserving)
                    /\ pending + Share(h, Holding)' <= pending' + Share(h, Holding)
                    /\ Share(h, Uploading)' <= Share(h, Uploading)
<1> USE DEF files, documents, workers, quota, history
<1>t. /\ daily \in Nat /\ daily' \in Nat /\ pending \in Nat /\ pending' \in Nat
      /\ Size(h) \in Nat /\ SizeAt[h] = Size(h)
  BY MineType DEF TypeOK, SizeAt
<1>k. /\ at[h].step \in {"claim", "charge"} => at[h].retry
      /\ at[h].step = "commit" => ~at[h].retry
      /\ at[h].step \in OnlyNew => ~at[h].retry
  BY DEF HandlersKnowTheirRow, RetriesKeepTheirRow
<1>s. UNCHANGED row => Ready' = Ready
  BY DEF Ready, Rows
<1>1. CASE Create(h)
  <2>1. ASSUME NEW r \in Resource, Insert(r), UNCHANGED retried,
               at' = [at EXCEPT ![h].step = "write", ![h].resource = r], at[h].step = "create",
               UNCHANGED <<daily, pending>>
        PROVE  Plain
    <3>1. Ready' \subseteq Ready
      BY <2>1, InsertWrites DEF Writes, TypeOK, Ready, Rows
    <3>2. /\ \A g \in Handler \ {h} : at'[g] = at[g]
          /\ at'[h].step = "write" /\ at'[h].retry = at[h].retry /\ at'[h].key = at[h].key
      BY <2>1 DEF TypeOK, Upload
    <3>3. SizeAt'[h] = SizeAt[h]
      BY <3>2 DEF SizeAt, Size
    <3>4. /\ h \in Holding /\ h \in Holding' /\ h \in Uploading /\ h \in Uploading'
          /\ h \in Reserving /\ h \in Reserving'
      BY <1>k, <2>1, <3>2 DEF Holding, Uploading, Reserving, OnlyNew
    <3>5. daily' = daily /\ pending' = pending /\ retried' = retried
      BY <2>1
    <3>6. /\ Share(h, Holding) = Size(h) /\ Share(h, Holding)' = Size(h)
          /\ Share(h, Uploading) = Size(h) /\ Share(h, Uploading)' = Size(h)
          /\ Share(h, Reserving) = Size(h) /\ Share(h, Reserving)' = Size(h)
      BY <1>t, <3>3, <3>4 DEF Share
    <3>. QED  BY <1>t, <3>1, <3>2, <3>5, <3>6
  <2>2. CASE Goto(h, "release") /\ UNCHANGED row
    BY <1>1, <1>t, <1>k, <1>s, <2>2, GotoShares DEF Create, Share, Holding, Uploading, Reserving, OnlyNew
  <2>. QED  BY <1>1, <2>1, <2>2 DEF Create, Unused
<1>2. CASE Claim(h)
  <2>1. CASE Goto(h, "charge") /\ SetRow(Mine(h), "pending")
    <3>1. Ready' \subseteq Ready
      BY <2>1, NotReadyByWrite
    <3>. QED  BY <1>2, <1>t, <1>k, <2>1, <3>1, GotoShares DEF Claim, Share, Holding, Uploading, Reserving
  <2>2. CASE Stop(h) /\ UNCHANGED <<row, retried>>
    BY <1>2, <1>t, <1>k, <1>s, <2>2, StopShares DEF Claim, Share
  <2>. QED  BY <1>2, <2>1, <2>2 DEF Claim
<1>3. CASE Charge(h)
  BY <1>3, <1>t, <1>k, <1>s, GotoShares DEF Charge, Share, Holding, Uploading, Reserving
<1>4. CASE Write(h)
  BY <1>4, <1>t, <1>k, <1>s, GotoShares DEF Write, Share, Holding, Uploading, Reserving
<1>5. CASE Undo(h)
  BY <1>5, <1>t, <1>k, <1>s, GotoShares DEF Undo, Share, Holding, Uploading, Reserving, OnlyNew
<1>6. CASE Drop(h)
  <2>1. Ready' \subseteq Ready
    BY <1>6, <1>s, NotReadyByWrite DEF Drop
  <2>. QED  BY <1>6, <1>t, <1>k, <2>1, GotoShares DEF Drop, Share, Holding, Uploading, Reserving, OnlyNew
<1>7. CASE Fail(h)
  <2>1. Ready' \subseteq Ready
    BY <1>7, <1>s, NotReadyByWrite DEF Fail, SaveAs
  <2>2. CASE at[h].retry /\ Stop(h)
    BY <1>7, <1>t, <2>1, <2>2, StopShares DEF Fail, Share
  <2>3. CASE ~at[h].retry /\ Goto(h, "release")
    BY <1>7, <1>t, <2>1, <2>3, GotoShares DEF Fail, Share, Holding, Uploading, Reserving
  <2>. QED  BY <1>7, <2>2, <2>3 DEF Fail
<1>8. CASE Release(h)
  <2>1. CASE at[h].retry /\ Goto(h, "fail") /\ UNCHANGED pending
    BY <1>8, <1>t, <1>s, <2>1, GotoShares DEF Release, LessOrZero, Share, Holding, Uploading, Reserving
  <2>2. CASE ~at[h].retry /\ Stop(h)
    <3>1. Share(h, Holding) = Size(h) /\ Share(h, Reserving) = Size(h)
      BY <1>8, <1>t, <2>2 DEF Release, Share, Holding, Reserving
    <3>2. Share(h, Uploading) \in Nat
      BY <1>t DEF Share
    <3>. QED  BY <1>8, <1>t, <1>s, <2>2, <3>1, <3>2, StopShares DEF Release, LessOrZero
  <2>. QED  BY <1>8, <2>1, <2>2 DEF Release
<1>9. CASE Commit(h)
  <2>1. Share(h, Holding) = Size(h) /\ Share(h, Reserving) = 0 /\ Share(h, Uploading) = 0
    BY <1>9, <1>t, <1>k DEF Commit, Share, Holding, Reserving, Uploading
  <2>. QED  BY <1>9, <1>t, <1>s, <2>1, StopShares DEF Commit, LessOrZero
<1>. QED  BY <1>1, <1>2, <1>3, <1>4, <1>5, <1>6, <1>7, <1>8, <1>9

\* Reserving: the one step that takes room, having found it.
LEMMA ReserveQuota ==
    ASSUME TypeOK, TypeOK', RetriesKeepTheirRow, NEW h \in Handler, Reserve(h)
    PROVE  /\ UploadsCountAgainstTheDay => UploadsCountAgainstTheDay'
           /\ StoredInv => StoredInv'
<1> USE DEF files, documents, workers, quota, history
<1>t. /\ daily \in Nat /\ daily' \in Nat /\ pending \in Nat /\ pending' \in Nat
      /\ Size(h) \in Nat /\ SizeAt[h] = Size(h) /\ StoredLimit \in Nat
  BY MineType, LibraryAssumption DEF TypeOK, SizeAt
<1>r. Ready' = Ready /\ retried' = retried
  BY DEF Reserve, Ready, Rows
<1>b. Share(h, Holding) = 0 /\ Share(h, Uploading) = 0 /\ Share(h, Reserving) = 0
  BY DEF Reserve, Share, Holding, Uploading, Reserving
<1>1. CASE Stop(h) /\ UNCHANGED quota
  BY <1>t, <1>r, <1>b, <1>1, StopShares, DayMoves, StoredMoves
<1>2. CASE /\ RoomFor(h) /\ Goto(h, "create")
           /\ pending' = pending + Size(h) /\ daily' = daily + Size(h)
  <2>1. /\ Share(h, Holding)' = Size(h) /\ Share(h, Uploading)' = Size(h)
        /\ Share(h, Reserving)' = Size(h)
        /\ \A g \in Handler \ {h} : at'[g] = at[g]
    <3>1. ~at[h].retry
      BY DEF Reserve, RetriesKeepTheirRow, OnlyNew
    <3>2. h \in Holding' /\ h \in Uploading' /\ h \in Reserving'
      BY <1>2, <3>1, GotoShares DEF Holding, Uploading, Reserving
    <3>. QED  BY <1>2, <3>2, GotoShares DEF Share
  <2>2. UploadsCountAgainstTheDay => UploadsCountAgainstTheDay'
    BY <1>t, <1>r, <1>b, <1>2, <2>1, DayMoves
  <2>3. PICK x \in Nat, y \in Nat :
          /\ Bytes(Holding) = x /\ Bytes(Holding)' = x + Size(h)
          /\ Bytes(Uploading) = y /\ Bytes(Uploading)' = y + Size(h)
    BY <1>t, <1>b, <2>1, Shares
  <2>4. Bytes(Uploading) <= Bytes(Holding)
    <3>1. Holding \in SUBSET Handler /\ Uploading \in SUBSET Holding /\ SizeAt \in [Handler -> Nat]
      BY SizesAreTyped DEF Uploading
    <3>2. IsFiniteSet(Holding) /\ \A g \in Holding : SizeAt[g] \in Nat
      BY <3>1, FiniteAssumption, FS_Subset
    <3>. QED  BY <3>1, <3>2, SumGrows DEF Bytes
  <2>5. /\ SumSizes(Ready) \in Nat /\ SumSizes(Ready \ retried) \in Nat
        /\ SumSizes(Ready \ retried) <= SumSizes(Ready)
    <3>1. Ready \in SUBSET Resource /\ Ready \ retried \in SUBSET Ready
      BY SizesAreTyped
    <3>. QED  BY <3>1, FewerBytes
  <2>6. SumSizes(Ready \ retried)' = SumSizes(Ready \ retried)
    BY <1>r DEF SumSizes, FilesOf
  <2>7. SumSizes(Ready) + pending + Size(h) < StoredLimit
    BY <1>2 DEF RoomFor, StoredBytes
  <2>8. PendingIsHeld => PendingIsHeld'
    BY <1>t, <1>2, <2>3 DEF PendingIsHeld
  <2>9. PendingIsHeld => StoredIsBounded'
    BY <1>t, <2>3, <2>4, <2>5, <2>6, <2>7 DEF PendingIsHeld, StoredIsBounded
  <2>. QED  BY <2>2, <2>8, <2>9 DEF StoredInv
<1>. QED  BY <1>1, <1>2 DEF Reserve

\* The row becomes ready: its bytes are stored instead of reserved.
LEMMA SaveQuota ==
    ASSUME TypeOK, TypeOK', HandlersKnowTheirRow, NEW h \in Handler, Save(h)
    PROVE  /\ UploadsCountAgainstTheDay => UploadsCountAgainstTheDay'
           /\ StoredInv => StoredInv'
<1> USE DEF files, documents, workers, quota, history
<1>m. PICK m \in Resource : m = Mine(h)
  BY MineType DEF TypeOK
<1>t. /\ daily \in Nat /\ daily' = daily /\ pending \in Nat /\ pending' = pending
      /\ Size(h) \in Nat /\ SizeAt[h] = Size(h) /\ StoredLimit \in Nat
      /\ retried' = retried /\ SizeOf[KeyOf[m]] = Size(h)
  BY <1>m, MineType, LibraryAssumption DEF TypeOK, SizeAt, Size, Save, HandlersKnowTheirRow
<1>b. /\ Share(h, Reserving) = Size(h)
      /\ Share(h, Holding) = (IF at[h].retry THEN 0 ELSE Size(h))
      /\ Share(h, Uploading) = (IF at[h].retry THEN 0 ELSE Size(h))
  BY <1>t DEF Save, Share, Holding, Uploading, Reserving
<1>1. CASE UNCHANGED row /\ Goto(h, IF at[h].retry THEN "release" ELSE "undo")
  <2>1. Ready' = Ready
    BY <1>1 DEF Ready, Rows
  <2>2. /\ Share(h, Reserving)' = Share(h, Reserving)
        /\ Share(h, Holding)' = Share(h, Holding)
        /\ Share(h, Uploading)' = Share(h, Uploading)
        /\ \A g \in Handler \ {h} : at'[g] = at[g]
    BY <1>1, <1>t, GotoShares DEF Save, Share, Holding, Uploading, Reserving
  <2>. QED  BY <1>t, <1>b, <2>1, <2>2, DayMoves, StoredMoves
<1>2. CASE SetRow(m, "ready") /\ (IF at[h].retry THEN Stop(h) ELSE Goto(h, "commit"))
  <2>1. Ready' = Ready \cup {m}
    BY <1>2 DEF SetRow, Set, TypeOK, Row, Ready, Rows
  <2>2. /\ Share(h, Reserving)' = 0 /\ Share(h, Uploading)' = 0
        /\ Share(h, Holding)' = Share(h, Holding)
        /\ \A g \in Handler \ {h} : at'[g] = at[g]
    <3>1. CASE at[h].retry /\ Stop(h)
      BY <1>b, <3>1, StopShares
    <3>2. CASE ~at[h].retry /\ Goto(h, "commit")
      BY <1>b, <1>t, <3>2, GotoShares DEF Share, Holding, Uploading, Reserving
    <3>. QED  BY <1>2, <3>1, <3>2
  <2>3. PICK x \in Nat, y \in Nat, z \in Nat :
          /\ Bytes(Holding) = x + Share(h, Holding) /\ Bytes(Holding)' = x + Share(h, Holding)
          /\ Bytes(Uploading) = y + Share(h, Uploading) /\ Bytes(Uploading)' = y
          /\ SumFunctionOnSet(SizeAt, Reserving) = z + Size(h)
          /\ SumFunctionOnSet(SizeAt, Reserving)' = z
    BY <1>b, <1>t, <2>2, Shares
  <2>4. Ready \in SUBSET Resource
    BY SizesAreTyped
  <2>5. UploadsCountAgainstTheDay => UploadsCountAgainstTheDay'
    <3>1. (Ready \ Legacy)' \in SUBSET ((Ready \ Legacy) \cup {m})
      BY <2>1
    <3>2. /\ SumSizes((Ready \ Legacy)') \in Nat /\ SumSizes(Ready \ Legacy) \in Nat
          /\ SumSizes((Ready \ Legacy)') <= SumSizes((Ready \ Legacy) \cup {m})
          /\ SumSizes((Ready \ Legacy) \cup {m}) \in Nat
      BY <2>4, <3>1, FewerBytes
    <3>3. SumSizes((Ready \ Legacy) \cup {m}) <= SumSizes(Ready \ Legacy) + Size(h)
      BY <1>t, <2>4, OneRowMore
    <3>4. SumSizes(Ready \ Legacy)' = SumSizes((Ready \ Legacy)')
      BY DEF SumSizes, FilesOf
    <3>. QED  BY <1>t, <2>3, <3>2, <3>3, <3>4 DEF UploadsCountAgainstTheDay
  <2>6. PendingIsHeld => PendingIsHeld'
    BY <1>t, <2>3 DEF PendingIsHeld
  <2>7. StoredIsBounded => StoredIsBounded'
    <3>0. SumSizes(Ready \ retried)' = SumSizes((Ready \ retried)')
      BY DEF SumSizes, FilesOf
    <3>1. CASE at[h].retry
      <4>1. (Ready \ retried)' = Ready \ retried
        BY <1>m, <1>t, <2>1, <3>1 DEF Save, HandlersKnowTheirRow
      <4>2. Bytes(Uploading)' = Bytes(Uploading)
        BY <1>b, <2>3, <3>1
      <4>. QED  BY <3>0, <4>1, <4>2 DEF StoredIsBounded
    <3>2. CASE ~at[h].retry
      <4>1. (Ready \ retried)' \in SUBSET ((Ready \ retried) \cup {m})
        BY <1>t, <2>1
      <4>2. /\ SumSizes((Ready \ retried)') \in Nat /\ SumSizes(Ready \ retried) \in Nat
            /\ SumSizes((Ready \ retried)') <= SumSizes((Ready \ retried) \cup {m})
            /\ SumSizes((Ready \ retried) \cup {m}) \in Nat
        BY <2>4, <4>1, FewerBytes
      <4>3. SumSizes((Ready \ retried) \cup {m}) <= SumSizes(Ready \ retried) + Size(h)
        BY <1>t, <2>4, OneRowMore
      <4>4. Bytes(Uploading) = y + Size(h) /\ Bytes(Uploading)' = y
        BY <1>b, <2>3, <3>2
      <4>. QED  BY <1>t, <3>0, <4>2, <4>3, <4>4 DEF StoredIsBounded
    <3>. QED  BY <3>1, <3>2
  <2>. QED  BY <2>5, <2>6, <2>7 DEF StoredInv
<1>. QED  BY <1>m, <1>1, <1>2 DEF Save, SaveAs

\* What a handler knows of its row, by the statements of the two ways through the
\* upload (storeResource, resource.go:493-568, and retryStoredResource, :628-691).
LEMMA KnowStep ==
    ASSUME TypeOK, RetriesKeepTheirRow, HandlersKnowTheirRow, [Next]_vars
    PROVE  HandlersKnowTheirRow'
<1> DEFINE Knows(h) ==
        /\ at[h].step \in {"claim", "charge"} => at[h].retry
        /\ at[h].step = "commit" => ~at[h].retry
        /\ \/ at[h].step \in {"claim", "charge", "write", "save", "undo", "drop", "fail"}
           \/ at[h].step = "release" /\ at[h].retry
           => KeyOf[at[h].resource] = at[h].key
        /\ at[h].retry /\ at[h].step # "claim" => at[h].resource \in retried
<1> USE DEF files, documents, workers, quota, history
<1>k. \A h \in Handler : Knows(h)
  BY DEF HandlersKnowTheirRow, Mine
<1>k2. (\A h \in Handler : Knows(h)') => HandlersKnowTheirRow'
  BY DEF HandlersKnowTheirRow, Mine
<1>i. Idle.step = "idle" /\ ~Idle.retry
  BY DEF Idle
<1>a. ASSUME NEW h \in Handler, retried \subseteq retried',
             \A g \in Handler \ {h} : at'[g] = at[g], Knows(h)'
      PROVE  HandlersKnowTheirRow'
  BY <1>a, <1>k, <1>k2
<1>s. ASSUME NEW h \in Handler, Stop(h) PROVE Knows(h)' /\ \A g \in Handler \ {h} : at'[g] = at[g]
  <2>1. at'[h] = Idle
    BY <1>s DEF Stop, TypeOK
  <2>. QED  BY <1>i, <1>s, <2>1, StopShares
<1>1. ASSUME UNCHANGED <<at, retried>> PROVE HandlersKnowTheirRow'
  BY <1>1 DEF HandlersKnowTheirRow, Mine
<1>2. ASSUME NEW h \in Handler, GoOn(h) PROVE HandlersKnowTheirRow'
  <2>h. /\ Knows(h)
        /\ at[h].step \in OnlyNew => ~at[h].retry
    BY <1>k DEF RetriesKeepTheirRow
  <2>1. CASE Create(h)
    <3>1. ASSUME NEW r \in Unused(at[h].key),
                 at' = [at EXCEPT ![h].step = "write", ![h].resource = r]
          PROVE  HandlersKnowTheirRow'
      <4>1. /\ at'[h].step = "write" /\ at'[h].resource = r /\ KeyOf[r] = at'[h].key
            /\ at'[h].retry = at[h].retry /\ \A g \in Handler \ {h} : at'[g] = at[g]
        BY <3>1 DEF TypeOK, Upload, Unused
      <4>. QED  BY <1>a, <2>1, <2>h, <4>1 DEF Create, OnlyNew
    <3>2. CASE Goto(h, "release")
      BY <1>a, <2>1, <2>h, <3>2, GotoShares DEF Create, OnlyNew
    <3>. QED  BY <2>1, <3>1, <3>2 DEF Create
  <2>2. CASE Claim(h)
    <3>1. CASE Goto(h, "charge") /\ retried' = retried \cup {at[h].resource}
      BY <1>a, <2>2, <2>h, <3>1, GotoShares DEF Claim
    <3>2. CASE Stop(h) /\ UNCHANGED retried
      BY <1>a, <1>s, <3>2
    <3>. QED  BY <2>2, <3>1, <3>2 DEF Claim, Mine
  <2>3. CASE Reserve(h)
    <3>1. CASE Stop(h)
      BY <1>a, <1>s, <2>3, <3>1 DEF Reserve
    <3>2. CASE Goto(h, "create")
      BY <1>a, <2>3, <2>h, <3>2, GotoShares DEF Reserve, OnlyNew
    <3>. QED  BY <2>3, <3>1, <3>2 DEF Reserve
  <2>4. CASE Charge(h) \/ Write(h)
    BY <1>a, <2>4, <2>h, GotoShares DEF Charge, Write
  <2>5. CASE Save(h)
    <3>1. CASE Stop(h)
      BY <1>a, <1>s, <2>5, <3>1 DEF Save
    <3>2. CASE Goto(h, "commit") /\ ~at[h].retry
      BY <1>a, <2>5, <2>h, <3>2, GotoShares DEF Save
    <3>3. CASE Goto(h, IF at[h].retry THEN "release" ELSE "undo")
      BY <1>a, <2>5, <2>h, <3>3, GotoShares DEF Save
    <3>. QED  BY <2>5, <3>1, <3>2, <3>3 DEF Save
  <2>6. CASE Undo(h) \/ Drop(h)
    BY <1>a, <2>6, <2>h, GotoShares DEF Undo, Drop, OnlyNew
  <2>7. CASE Fail(h) \/ Release(h) \/ Commit(h)
    <3>1. CASE Stop(h)
      BY <1>a, <1>s, <2>7, <3>1 DEF Fail, Release, Commit
    <3>2. CASE Fail(h) /\ ~at[h].retry /\ Goto(h, "release")
      BY <1>a, <2>h, <3>2, GotoShares DEF Fail
    <3>3. CASE Release(h) /\ at[h].retry /\ Goto(h, "fail")
      BY <1>a, <2>h, <3>3, GotoShares DEF Release
    <3>. QED  BY <2>7, <3>1, <3>2, <3>3 DEF Fail, Release, Commit
  <2>. QED  BY <1>2, <2>1, <2>2, <2>3, <2>4, <2>5, <2>6, <2>7 DEF GoOn
<1>3. ASSUME NEW h \in Handler, NEW key \in Key, Lookup(h, key) PROVE HandlersKnowTheirRow'
  <2>1. ASSUME NEW r \in RowsOf(key),
               at' = [at EXCEPT ![h] = [step |-> "claim", retry |-> TRUE, key |-> key,
                                        resource |-> r]]
        PROVE  HandlersKnowTheirRow'
    <3>1. /\ at'[h] = [step |-> "claim", retry |-> TRUE, key |-> key, resource |-> r]
          /\ \A g \in Handler \ {h} : at'[g] = at[g]
      BY <2>1 DEF TypeOK
    <3>. QED  BY <1>3, <1>a, <3>1 DEF Lookup, RowsOf
  <2>2. CASE at' = [at EXCEPT ![h].step = "reserve", ![h].key = key] /\ at[h].step = "idle"
    <3>1. /\ at'[h].step = "reserve" /\ at'[h].retry = at[h].retry
          /\ \A g \in Handler \ {h} : at'[g] = at[g]
      BY <2>2 DEF TypeOK, Upload
    <3>2. ~at[h].retry
      BY <2>2 DEF RetriesKeepTheirRow, OnlyNew
    <3>. QED  BY <1>3, <1>a, <3>1, <3>2 DEF Lookup
  <2>. QED  BY <1>3, <2>1, <2>2 DEF Lookup
<1>4. CASE Crash
  BY <1>i, <1>4, <1>k2 DEF Crash
<1>5. CASE Next /\ ~Crash
  BY <1>1, <1>2, <1>3, <1>5 DEF Next, SaveDocuments, SaveAsset, ReplaceAssets, SaveCanvas,
     DeleteAsset, AdminDelete, ListCandidates, Clean, RunJob, ClaimJob, Age
<1>6. CASE UNCHANGED vars
  BY <1>1, <1>6 DEF vars
<1>. QED  BY <1>4, <1>5, <1>6

\* Steps of others: no handler moves, or all of them stop.
LEMMA OtherQuota ==
    ASSUME TypeOK, Ready' \subseteq Ready, retried' = retried, daily' = daily,
           \/ UNCHANGED <<at, pending>>
           \/ Crash
    PROVE  /\ UploadsCountAgainstTheDay => UploadsCountAgainstTheDay'
           /\ StoredInv => StoredInv'
<1>t. daily \in Nat /\ pending \in Nat /\ StoredLimit \in Nat
  BY LibraryAssumption DEF TypeOK
<1>n. /\ Bytes(Holding) \in Nat /\ Bytes(Uploading) \in Nat
      /\ SumFunctionOnSet(SizeAt, Reserving) \in Nat
  BY SizesAreTyped, SumOfHandlers DEF Bytes
<1>1. CASE UNCHANGED <<at, pending>>
  <2>1. /\ Bytes(Holding)' = Bytes(Holding) /\ Bytes(Uploading)' = Bytes(Uploading)
        /\ SumFunctionOnSet(SizeAt, Reserving)' = SumFunctionOnSet(SizeAt, Reserving)
    BY <1>1 DEF Bytes, SizeAt, Size, Holding, Uploading, Reserving
  <2>. QED  BY <1>t, <1>n, <1>1, <2>1, NoMoreStored
            DEF UploadsCountAgainstTheDay, StoredInv, PendingIsHeld, StoredIsBounded
<1>2. CASE Crash
  <2>1. Holding' = {} /\ Uploading' = {} /\ Reserving' = {}
    BY <1>2, IdleIsAnUpload DEF Crash, Holding, Uploading, Reserving
  <2>2. /\ Bytes(Holding)' = 0 /\ Bytes(Uploading)' = 0
        /\ SumFunctionOnSet(SizeAt, Reserving)' = 0 /\ pending' = 0
    BY <1>2, <2>1, SumEmpty DEF Bytes, Crash
  <2>. QED  BY <1>t, <1>n, <2>2, NoMoreStored
            DEF UploadsCountAgainstTheDay, StoredInv, PendingIsHeld, StoredIsBounded
<1>. QED  BY <1>1, <1>2

LEMMA DeletedAreNotReady ==
    ASSUME TypeOK, NEW deleted, NEW resources, Delete(deleted, resources)
    PROVE  Ready' \subseteq Ready
BY DEF Delete, Set, TypeOK, Row, Ready, Rows

\* Every step keeps the account of the day, and with it the bound on what is stored.
LEMMA NextQuota ==
    ASSUME DayInv, [Next]_vars
    PROVE  DayInv' /\ (StoredInv => StoredInv')
<1> USE DEF files, documents, workers, quota, history
<1>t. TypeOK /\ TypeOK' /\ RetriesKeepTheirRow /\ RetriesKeepTheirRow'
      /\ HandlersKnowTheirRow /\ HandlersKnowTheirRow' /\ UploadsCountAgainstTheDay
  BY NextTypes, StartsStay, KnowStep DEF DayInv
<1> SUFFICES UploadsCountAgainstTheDay' /\ (StoredInv => StoredInv')
  BY <1>t DEF DayInv
<1>1. ASSUME NEW h \in Handler, GoOn(h) PROVE UploadsCountAgainstTheDay' /\ (StoredInv => StoredInv')
  <2>1. CASE Reserve(h)
    BY <1>t, <2>1, ReserveQuota
  <2>2. CASE Save(h)
    BY <1>t, <2>2, SaveQuota
  <2>3. CASE Create(h) \/ Claim(h) \/ Charge(h) \/ Write(h) \/ Undo(h) \/ Drop(h) \/ Fail(h)
               \/ Release(h) \/ Commit(h)
    BY <1>t, <2>3, PlainSteps, DayMoves, StoredMoves
  <2>. QED  BY <1>1, <2>1, <2>2, <2>3 DEF GoOn
<1>2. ASSUME NEW h \in Handler, NEW key \in Key, Lookup(h, key)
      PROVE  UploadsCountAgainstTheDay' /\ (StoredInv => StoredInv')
  <2>1. \A g \in Handler \ {h} : at'[g] = at[g]
    BY <1>2, <1>t DEF Lookup, TypeOK
  <2>2. at'[h].step \in {"claim", "reserve"} /\ at[h].step = "idle"
    BY <1>2, <1>t DEF Lookup, TypeOK, Upload
  <2>3. at'[h].step = "claim" => at'[h].retry
    BY <1>t DEF HandlersKnowTheirRow
  <2>4. /\ Share(h, Holding) = 0 /\ Share(h, Holding)' = 0
        /\ Share(h, Uploading) = 0 /\ Share(h, Uploading)' = 0
        /\ Share(h, Reserving) = 0 /\ Share(h, Reserving)' = 0
    BY <2>2, <2>3 DEF Share, Holding, Uploading, Reserving
  <2>5. Ready' = Ready /\ UNCHANGED <<retried, daily, pending>> /\ daily \in Nat /\ pending \in Nat
    BY <1>2, <1>t DEF Lookup, Ready, Rows, TypeOK
  <2>. QED  BY <1>t, <2>1, <2>4, <2>5, DayMoves, StoredMoves
<1>3. ASSUME Ready' \subseteq Ready, retried' = retried, daily' = daily,
             UNCHANGED <<at, pending>> \/ Crash
      PROVE  UploadsCountAgainstTheDay' /\ (StoredInv => StoredInv')
  BY <1>3, <1>t, OtherQuota
<1>4. CASE (\E a \in Asset : DeleteAsset(a)) \/ (\E deleted \in SUBSET Deletable : AdminDelete(deleted))
  <2>1. Ready' \subseteq Ready
    BY <1>4, <1>t, DeletedAreNotReady DEF DeleteAsset, AdminDelete
  <2>. QED  BY <1>3, <1>4, <2>1 DEF DeleteAsset, AdminDelete
<1>5. CASE Clean
  <2>1. Ready' \subseteq Ready
    BY <1>5, <1>t, DeletedAreNotReady DEF Clean, Ready, Rows
  <2>. QED  BY <1>3, <1>5, <2>1 DEF Clean
<1>6. CASE SaveDocuments \/ ListCandidates \/ RunJob \/ (\E o \in Object : ClaimJob(o)) \/ Crash
  <2>1. Ready' = Ready
    BY <1>6 DEF SaveDocuments, SaveAsset, ReplaceAssets, SaveCanvas, ListCandidates, RunJob,
                ClaimJob, Crash, Ready, Rows
  <2>. QED  BY <1>3, <1>6, <2>1 DEF SaveDocuments, SaveAsset, ReplaceAssets, SaveCanvas,
                ListCandidates, RunJob, ClaimJob, Crash
<1>7. CASE \E r \in Resource : Age(r)
  <2>1. Ready' \subseteq Ready
    BY <1>7, <1>t DEF Age, Ready, Rows, TypeOK, Row
  <2>. QED  BY <1>3, <1>7, <2>1 DEF Age
<1>8. CASE UNCHANGED vars
  <2>1. Ready' = Ready
    BY <1>8 DEF vars, Ready, Rows
  <2>. QED  BY <1>3, <1>8, <2>1 DEF vars
<1>. QED  BY <1>1, <1>2, <1>4, <1>5, <1>6, <1>7, <1>8 DEF Next

\* What was there before the first upload.
LegacyFits == SumSizes(Legacy) < StoredLimit

\* Before the first upload nothing is reserved and nothing was uploaded today.
LEMMA InitQuota == Init => DayInv /\ (LegacyFits => StoredInv)
<1> SUFFICES ASSUME Init PROVE DayInv /\ (LegacyFits => StoredInv)
  OBVIOUS
<1>1. TypeOK /\ RetriesKeepTheirRow
  BY InitInv DEF IInv
<1>2. \A h \in Handler : at[h] = Idle /\ at[h].step = "idle" /\ ~at[h].retry
  BY DEF Init, Idle
<1>3. HandlersKnowTheirRow
  BY <1>2 DEF HandlersKnowTheirRow
<1>4. Ready = Legacy /\ Ready \ Legacy = {} /\ Ready \ retried = Legacy
  BY LibraryAssumption DEF Init, Ready, Rows
<1>5. Holding = {} /\ Uploading = {} /\ Reserving = {} /\ FilesOf({}) = {}
  BY <1>2 DEF Holding, Uploading, Reserving, FilesOf
<1>6. /\ Bytes(Holding) = 0 /\ Bytes(Uploading) = 0 /\ SumFunctionOnSet(SizeAt, Reserving) = 0
      /\ SumSizes(Ready \ Legacy) = 0
  BY <1>4, <1>5, SumEmpty DEF Bytes, SumSizes
<1>7. DayInv
  BY <1>1, <1>3, <1>6 DEF Init, DayInv, UploadsCountAgainstTheDay
<1>8. SumSizes(Legacy) \in Nat
  BY LibraryAssumption, FewerBytes
<1>9. LegacyFits => StoredInv
  BY <1>4, <1>6, <1>8 DEF Init, LegacyFits, StoredInv, PendingIsHeld, StoredIsBounded
<1>. QED  BY <1>7, <1>9

\* What was uploaded today and what is being uploaded is counted in the user's daily
\* bytes, whatever fails in between: releases (quota.go) never give back what stays.
THEOREM DayIsCounted == Spec => []UploadsCountAgainstTheDay
<1>1. DayInv => UploadsCountAgainstTheDay
  BY DEF DayInv
<1>2. DayInv /\ [Next]_vars => DayInv'
  BY NextQuota
<1>. QED  BY <1>1, <1>2, InitQuota, PTL DEF Spec

\* If the files of before fit, uploads side by side never fill the storage beyond the
\* limit: the check of reserveUserStoredFileQuota counts the bytes of all uploads
\* that are still on their way.
THEOREM LimitHolds == Spec /\ LegacyFits => []StoredStaysBelowLimit
<1>1. DayInv /\ StoredInv /\ [Next]_vars => DayInv' /\ StoredInv'
  BY NextQuota
<1>2. DayInv /\ StoredInv => StoredStaysBelowLimit
  <2> SUFFICES ASSUME DayInv, StoredInv PROVE StoredStaysBelowLimit
    OBVIOUS
  <2>1. /\ SizeAt \in [Handler -> Nat] /\ Uploading \in SUBSET Handler
        /\ Ready \ retried \in SUBSET Resource
    BY SizesAreTyped DEF DayInv
  <2>2. Bytes(Uploading) \in Nat /\ SumSizes(Ready \ retried) \in Nat /\ StoredLimit \in Nat
    BY <2>1, SumOfHandlers, FewerBytes, LibraryAssumption DEF Bytes
  <2>. QED  BY <2>2 DEF StoredInv, StoredIsBounded, StoredStaysBelowLimit
<1>. QED  BY <1>1, <1>2, InitQuota, PTL DEF Spec

=============================================================================
