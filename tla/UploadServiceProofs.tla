-------------------------- MODULE UploadServiceProofs --------------------------
(* The safety of UploadService for any number of uploads and restarts.     *)
EXTENDS UploadService, TLAPS

-------------------------------------------------------------------------------
(* Lemmas about lists of uploads.                                          *)

LEMMA EntriesFact ==
  \A e : e \in Entries <=> DOMAIN e \subseteq CIDs /\ e \in [DOMAIN e -> Filenames]
  BY DEF Entries

LEMMA NoEntriesFact == NoEntries \in Entries /\ DOMAIN NoEntries = {}
  <1>1. DOMAIN NoEntries = {} /\ NoEntries \in [DOMAIN NoEntries -> Filenames]
    BY DEF NoEntries
  <1>2. QED
    BY <1>1, EntriesFact

\* Tracking a file keeps the list well typed and adds that file only.
LEMMA TrackedFact ==
  ASSUME uploads \in Entries, NEW u \in Upload
  PROVE  Tracked(u) \in Entries /\ DOMAIN Tracked(u) = DOMAIN uploads \cup {u.cid}
  <1>1. DOMAIN uploads \subseteq CIDs /\ uploads \in [DOMAIN uploads -> Filenames]
    BY EntriesFact
  <1>2. DOMAIN Tracked(u) = DOMAIN uploads \cup {u.cid}
    BY DEF Tracked
  <1>3. Tracked(u) \in [DOMAIN Tracked(u) -> Filenames]
    BY <1>1 DEF Tracked, Upload
  <1>4. DOMAIN Tracked(u) \subseteq CIDs
    BY <1>1, <1>2 DEF Upload
  <1>5. QED
    BY <1>2, <1>3, <1>4, EntriesFact

\* A list that was written is loaded as it is; anything else loads as no list.
LEMMA LoadFact ==
  /\ \A e \in Entries : LoadMetadata(e) = e
  /\ LoadMetadata(NoFile) = NoEntries /\ LoadMetadata(Torn) = NoEntries
  /\ \A f \in Entries \cup {NoFile, Torn} : LoadMetadata(f) \in Entries
  BY UploadAssumption, NoEntriesFact DEF LoadMetadata

-------------------------------------------------------------------------------
(* The inductive invariant.                                                *)

LEMMA InitUploadInv == Init => UploadInv
  <1> SUFFICES ASSUME Init PROVE UploadInv
    OBVIOUS
  <1>1. TypeOK
    BY NoEntriesFact DEF Init, TypeOK
  <1>2. SaversInv
    BY UploadAssumption DEF Init, SaversInv
  <1>3. ListedFilesStored
    BY NoEntriesFact, LoadFact DEF Init, ListedFilesStored
  <1>4. QED
    BY <1>1, <1>2, <1>3 DEF Init, UploadInv

\* Steps that leave the list, the file and the lock alone, and move one upload
\* before it is tracked, or end it there.
LEMMA EarlyStep ==
  ASSUME UploadInv, NEW h \in Handlers,
         HandleUpload(h) \/ StoreFile(h) \/ RefuseFile(h)
  PROVE  UploadInv'
  <1>1. /\ UNCHANGED <<lock, uploads, file, answered, restarts>>
        /\ pc[h] \in {"idle", "storing"}
        /\ blobs \subseteq blobs'
    BY DEF HandleUpload, StoreFile, RefuseFile
  <1>2. TypeOK'
    <2>1. CASE HandleUpload(h)
      BY <2>1 DEF UploadInv, TypeOK, HandleUpload, Goto, lock
    <2>2. CASE StoreFile(h)
      BY <2>2 DEF UploadInv, TypeOK, StoreFile, Goto, lock, Upload
    <2>3. CASE RefuseFile(h)
      BY <2>3, NoEntriesFact DEF UploadInv, TypeOK, RefuseFile, Return, Goto, lock
    <2>4. QED
      BY <2>1, <2>2, <2>3
  <1>3. /\ pc'[h] \in {"idle", "storing", "tracking"}
        /\ pc'[h] = "tracking" => req'[h].cid \in blobs'
        /\ pc'[h] # "idle" => req'[h] \in Upload
        /\ \A g \in Handlers \ {h} : pc'[g] = pc[g] /\ req'[g] = req[g] /\ data'[g] = data[g]
    BY DEF HandleUpload, StoreFile, RefuseFile, Return, Goto, UploadInv, TypeOK
  <1>4. SaversInv'
    BY <1>1, <1>3 DEF UploadInv, SaversInv, lock
  <1>5. ListedFilesStored'
    BY <1>1 DEF UploadInv, ListedFilesStored
  <1>6. QED
    BY <1>1, <1>2, <1>3, <1>4, <1>5 DEF UploadInv

LEMMA LockStep ==
  ASSUME UploadInv, NEW h \in Handlers, Lock(h) PROVE UploadInv'
  <1>1. TypeOK'
    BY DEF UploadInv, TypeOK, Lock, Goto
  <1>2. /\ pc[h] = "tracking" /\ pc'[h] = "locking"
        /\ \A g \in Handlers \ {h} : pc'[g] = pc[g]
        /\ UNCHANGED <<req, readers, uploads, data, blobs, file, answered>>
        /\ writer = NoHandler /\ writer' = h
    BY DEF UploadInv, TypeOK, Lock, Goto
  <1>3. SaversInv'
    BY <1>2, UploadAssumption DEF UploadInv, SaversInv
  <1>4. QED
    BY <1>1, <1>2, <1>3 DEF UploadInv, ListedFilesStored

\* No saver holds a list while the writer changes it.
LEMMA TrackFileStep ==
  ASSUME UploadInv, NEW h \in Handlers, TrackFile(h) PROVE UploadInv'
  <1>1. /\ pc[h] = "locking" /\ pc'[h] = "saving"
        /\ \A g \in Handlers \ {h} : pc'[g] = pc[g]
        /\ UNCHANGED <<req, readers, data, blobs, file, answered, restarts>>
        /\ writer = h /\ writer' = NoHandler /\ readers = {}
        /\ uploads' = Tracked(req[h])
        /\ req[h] \in Upload /\ req[h].cid \in blobs
    BY DEF UploadInv, TypeOK, SaversInv, TrackFile, Goto
  <1>2. uploads' \in Entries /\ DOMAIN uploads' = DOMAIN uploads \cup {req[h].cid}
    BY <1>1, TrackedFact DEF UploadInv, TypeOK
  <1>3. TypeOK'
    BY <1>1, <1>2 DEF UploadInv, TypeOK, TrackFile, Goto
  <1>4. SaversInv'
    BY <1>1, UploadAssumption DEF UploadInv, SaversInv
  <1>5. ListedFilesStored'
    BY <1>1, <1>2 DEF UploadInv, ListedFilesStored
  <1>6. QED
    BY <1>1, <1>2, <1>3, <1>4, <1>5 DEF UploadInv

LEMMA BeginSaveStep ==
  ASSUME UploadInv, NEW h \in Handlers, BeginSave(h) PROVE UploadInv'
  <1>1. /\ pc[h] = "saving" /\ pc'[h] = "writing"
        /\ \A g \in Handlers \ {h} : pc'[g] = pc[g] /\ data'[g] = data[g]
        /\ UNCHANGED <<req, writer, uploads, blobs, answered, restarts>>
        /\ readers' = readers \cup {h} /\ data'[h] = uploads /\ file' = Torn
    BY DEF UploadInv, TypeOK, BeginSave, Goto
  <1>2. TypeOK'
    BY <1>1 DEF UploadInv, TypeOK, BeginSave, Goto
  <1>3. SaversInv'
    BY <1>1 DEF UploadInv, SaversInv
  <1>4. ListedFilesStored'
    BY <1>1, LoadFact, NoEntriesFact DEF UploadInv, ListedFilesStored
  <1>5. QED
    BY <1>1, <1>2, <1>3, <1>4 DEF UploadInv

\* What is written is the list in memory, whose files are all stored.
LEMMA ReturnStep ==
  ASSUME UploadInv, NEW h \in Handlers, SkipSave(h) \/ EndSave(h) PROVE UploadInv'
  <1>1. /\ pc[h] \in {"saving", "writing"} /\ pc'[h] = "idle"
        /\ \A g \in Handlers \ {h} : pc'[g] = pc[g] /\ req'[g] = req[g] /\ data'[g] = data[g]
        /\ UNCHANGED <<writer, uploads, blobs, restarts>>
        /\ readers' = readers \ {h}
        /\ answered' = answered \cup {req[h].cid} /\ req[h].cid \in DOMAIN uploads
        /\ file' \in {file, uploads, Torn} /\ warned' \in BOOLEAN
    BY DEF UploadInv, TypeOK, SaversInv, SkipSave, EndSave, Return, Goto, lock
  <1>2. TypeOK'
    <2>1. req[h].cid \in CIDs
      BY <1>1 DEF UploadInv, Upload
    <2>2. /\ pc' = [pc EXCEPT ![h] = "idle"]
          /\ req' = [req EXCEPT ![h] = NoUpload]
          /\ data' = [data EXCEPT ![h] = NoEntries]
      BY DEF SkipSave, EndSave, Return, Goto
    <2>3. QED
      BY <1>1, <2>1, <2>2, NoEntriesFact DEF UploadInv, TypeOK
  <1>3. SaversInv'
    BY <1>1 DEF UploadInv, SaversInv
  <1>4. ListedFilesStored'
    <2>1. LoadMetadata(file') \in {LoadMetadata(file), uploads, NoEntries}
      BY <1>1, LoadFact DEF UploadInv, TypeOK
    <2>2. QED
      BY <1>1, <2>1, NoEntriesFact DEF UploadInv, ListedFilesStored
  <1>5. QED
    BY <1>1, <1>2, <1>3, <1>4 DEF UploadInv

LEMMA RestartStep ==
  ASSUME UploadInv, Restart PROVE UploadInv'
  <1>1. TypeOK'
    <2>1. restarts' \in Nat
      BY DEF UploadInv, TypeOK, Restart
    <2>2. warned' \in BOOLEAN
      BY DEF Restart
    <2>3. QED
      BY <2>1, <2>2, LoadFact, NoEntriesFact DEF UploadInv, TypeOK, Restart
  <1>2. SaversInv'
    BY UploadAssumption DEF Restart, SaversInv
  <1>3. ListedFilesStored'
    BY DEF UploadInv, Restart, ListedFilesStored
  <1>4. QED
    BY <1>1, <1>2, <1>3 DEF UploadInv, Restart

LEMMA NextUploadInv == UploadInv /\ [Next]_vars => UploadInv'
  <1>1. ASSUME UploadInv, UNCHANGED vars PROVE UploadInv'
    BY <1>1 DEF UploadInv, vars, lock, TypeOK, SaversInv, ListedFilesStored
  <1>2. QED
    BY <1>1, EarlyStep, LockStep, TrackFileStep, BeginSaveStep, ReturnStep, RestartStep
    DEF Next, UploadFile

THEOREM UploadInvariance == Spec => []UploadInv
  <1>1. QED
    BY InitUploadInv, NextUploadInv, PTL DEF Spec

\* The upload service's state is well typed.
THEOREM UploadTypeCorrect == Spec => []TypeOK
  <1>1. UploadInv => TypeOK
    BY DEF UploadInv
  <1>2. QED
    BY <1>1, UploadInvariance, PTL

\* No file is listed, in memory or in uploads.json, before its bytes are stored,
\* whatever fails and whenever the process dies.
THEOREM ListedStored == Spec => []ListedFilesStored
  <1>1. UploadInv => ListedFilesStored
    BY DEF UploadInv
  <1>2. QED
    BY <1>1, UploadInvariance, PTL

-------------------------------------------------------------------------------
(* What is saved, whether saves fail or not.                               *)

LEMMA FileCurrentStep ==
  ASSUME UploadInv, UploadInv', FileCurrent, [Next]_vars
  PROVE  FileCurrent'
  <1>1. ASSUME NEW h \in Handlers, EndSave(h) \/ SkipSave(h) PROVE FileCurrent'
    <2>1. warned' \/ (file' = uploads /\ uploads' = uploads /\ uploads \in Entries)
      BY <1>1 DEF EndSave, SkipSave, UploadInv, TypeOK, SaversInv
    <2>2. QED
      BY <2>1, LoadFact DEF FileCurrent
  <1>2. ASSUME NEW h \in Handlers, TrackFile(h) \/ BeginSave(h) PROVE FileCurrent'
    <2>1. pc'[h] \in {"saving", "writing"}
      BY <1>2 DEF TrackFile, BeginSave, Goto, UploadInv, TypeOK
    <2>2. QED
      BY <2>1 DEF FileCurrent
  <1>3. ASSUME NEW h \in Handlers,
               HandleUpload(h) \/ StoreFile(h) \/ RefuseFile(h) \/ Lock(h)
        PROVE  FileCurrent'
    <2>1. UNCHANGED <<uploads, file, warned>> /\ pc[h] \notin {"saving", "writing"}
          /\ \A g \in Handlers \ {h} : pc'[g] = pc[g]
      BY <1>3 DEF HandleUpload, StoreFile, RefuseFile, Lock, Return, Goto, UploadInv, TypeOK
    <2>2. QED
      BY <2>1 DEF FileCurrent
  <1>4. CASE Restart
    BY <1>4 DEF Restart, FileCurrent
  <1>5. CASE UNCHANGED vars
    BY <1>5 DEF vars, FileCurrent
  <1>6. QED
    BY <1>1, <1>2, <1>3, <1>4, <1>5 DEF Next, UploadFile

\* Once no upload is being saved, uploads.json holds the list in memory unless
\* the last save had failed: of savers that overlap, none writes an older list.
THEOREM FileIsCurrent ==
  Spec => []FileCurrent
  <1>1. Init => FileCurrent
    BY LoadFact DEF Init, FileCurrent
  <1>2. UploadInv /\ UploadInv' /\ FileCurrent /\ [Next]_vars => FileCurrent'
    BY FileCurrentStep
  <1>3. QED
    BY <1>1, <1>2, UploadInvariance, PTL DEF Spec

LEMMA AnsweredSavedStep ==
  ASSUME UploadInv, UploadInv', AnsweredSaved, [Next]_vars
  PROVE  AnsweredSaved'
  <1>1. ASSUME NEW h \in Handlers, EndSave(h) \/ SkipSave(h) PROVE AnsweredSaved'
    <2>1. warned' \/ (file' = uploads /\ uploads' = uploads /\ uploads \in Entries)
      BY <1>1 DEF EndSave, SkipSave, UploadInv, TypeOK, SaversInv
    <2>2. warned' \/ LoadMetadata(file') = uploads'
      BY <2>1, LoadFact
    <2>3. QED
      BY <2>2 DEF AnsweredSaved, UploadInv
  <1>2. ASSUME NEW h \in Handlers, BeginSave(h) PROVE AnsweredSaved'
    <2>1. pc'[h] = "writing" /\ data'[h] = uploads'
      BY <1>2 DEF BeginSave, Goto, UploadInv, TypeOK
    <2>2. QED
      BY <2>1 DEF AnsweredSaved, UploadInv
  <1>3. ASSUME NEW h \in Handlers,
               HandleUpload(h) \/ StoreFile(h) \/ RefuseFile(h) \/ Lock(h) \/ TrackFile(h)
        PROVE  AnsweredSaved'
    <2>1. UNCHANGED <<file, answered, warned>> /\ pc[h] # "writing"
          /\ \A g \in Handlers \ {h} : pc'[g] = pc[g] /\ data'[g] = data[g]
      BY <1>3 DEF HandleUpload, StoreFile, RefuseFile, Lock, TrackFile, Return, Goto, UploadInv,
                  TypeOK
    <2>2. QED
      BY <2>1 DEF AnsweredSaved
  <1>4. CASE Restart
    BY <1>4 DEF Restart, AnsweredSaved
  <1>5. CASE UNCHANGED vars
    BY <1>5 DEF vars, AnsweredSaved
  <1>6. QED
    BY <1>1, <1>2, <1>3, <1>4, <1>5 DEF Next, UploadFile

\* An answered file is in uploads.json or about to be written there again,
\* unless the last save to end had failed.
THEOREM AnsweredIsSaved ==
  Spec => []AnsweredSaved
  <1>1. Init => AnsweredSaved
    BY DEF Init, AnsweredSaved
  <1>2. UploadInv /\ UploadInv' /\ AnsweredSaved /\ [Next]_vars => AnsweredSaved'
    BY AnsweredSavedStep
  <1>3. QED
    BY <1>1, <1>2, UploadInvariance, PTL DEF Spec

-------------------------------------------------------------------------------
(* The upload service implements the list.                                 *)

LEMMA ListStep ==
  ASSUME UploadInv, [Next]_vars PROVE List!Next \/ UNCHANGED List!listVars
  <1> USE DEF List!listVars
  <1>1. ASSUME NEW h \in Handlers, HandleUpload(h) \/ RefuseFile(h) \/ Lock(h)
        PROVE  UNCHANGED List!listVars
    BY <1>1 DEF HandleUpload, RefuseFile, Lock
  <1>2. ASSUME NEW h \in Handlers, StoreFile(h) PROVE List!Next
    <2>1. req[h].cid \in CIDs /\ List!Put(req[h].cid)
      BY <1>2 DEF StoreFile, UploadInv, Upload, List!Put
    <2>2. QED
      BY <2>1 DEF List!Next
  <1>3. ASSUME NEW h \in Handlers, TrackFile(h) PROVE List!Next
    <2>1. /\ req[h].cid \in CIDs /\ req[h].filename \in Filenames
          /\ List!Track(req[h].cid, req[h].filename)
      BY <1>3 DEF TrackFile, Tracked, UploadInv, Upload, List!Track
    <2>2. QED
      BY <2>1 DEF List!Next
  <1>4. ASSUME NEW h \in Handlers, BeginSave(h) PROVE List!Next
    BY <1>4 DEF BeginSave, UploadInv, List!Tear, List!Next
  <1>5. ASSUME NEW h \in Handlers, SkipSave(h) \/ EndSave(h) PROVE List!Next
    <2>1. req[h].cid \in CIDs /\ List!Answer(req[h].cid)
      BY <1>5 DEF SkipSave, EndSave, UploadInv, Upload, List!Answer
    <2>2. file' \in {uploads, file, Torn}
      BY <1>5 DEF SkipSave, EndSave, UploadInv, SaversInv
    <2>3. List!SaveAndAnswer(req[h].cid) \/ List!WarnAndAnswer(req[h].cid)
      BY <2>1, <2>2 DEF List!SaveAndAnswer, List!WarnAndAnswer
    <2>4. QED
      BY <2>1, <2>3 DEF List!Next
  <1>6. CASE Restart
    BY <1>6 DEF Restart, LoadMetadata, NoEntries, List!Reload, List!Next
  <1>7. CASE UNCHANGED vars
    BY <1>7 DEF vars
  <1>8. QED
    BY <1>1, <1>2, <1>3, <1>4, <1>5, <1>6, <1>7 DEF Next, UploadFile

\* Every behaviour of the upload service is one of UploadList: readers that share
\* the lock write the same list, and it is the one in memory.
THEOREM ImplementsList == Spec => ListSpec
  <1>1. Init => List!Init
    BY DEF Init, NoEntries, List!Init
  <1>2. UploadInv /\ [Next]_vars => [List!Next]_(List!listVars)
    BY ListStep
  <1>3. QED
    BY <1>1, <1>2, UploadInvariance, PTL DEF Spec, ListSpec, List!Spec

\* Any number of uploads never wait for each other in a circle: who asked for the
\* write lock waits for savers, and they wait for nobody.
THEOREM NeverAllWait == Spec => []NeverStuck
  <1>1. ASSUME UploadInv PROVE NeverStuck
    <2>1. ASSUME NEW h \in Handlers, pc[h] = "locking" PROVE \E g \in Handlers : MayStep(g)
      <3>1. CASE readers = {}
        BY <2>1, <3>1 DEF MayStep
      <3>2. ASSUME NEW g \in readers PROVE \E k \in Handlers : MayStep(k)
        BY <1>1, <3>2 DEF UploadInv, TypeOK, SaversInv, MayStep
      <3>3. QED
        BY <3>1, <3>2
    <2>2. CASE writer = NoHandler
      BY <1>1, <2>1, <2>2 DEF UploadInv, TypeOK, NeverStuck, MayStep
    <2>3. CASE writer \in Handlers
      BY <1>1, <2>1, <2>3 DEF UploadInv, SaversInv, NeverStuck
    <2>4. QED
      BY <1>1, <2>2, <2>3 DEF UploadInv, TypeOK
  <1>2. UploadInv => NeverStuck
    BY <1>1
  <1>3. QED
    BY <1>2, UploadInvariance, PTL

===============================================================================
