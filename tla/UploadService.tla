---------------------------- MODULE UploadService ----------------------------
(***************************************************************************)
(* The upload service (pkg/upload/service.go) behind POST /upload and      *)
(* GET /files, with the blob store it is given and its metadata file,      *)
(* uploads.json.                                                           *)
(*                                                                         *)
(* An upload stores the bytes, tracks the file under the write lock, and   *)
(* then saves: under the read lock, shared with other savers, it marshals  *)
(* the map and overwrites the metadata file with os.WriteFile, which       *)
(* truncates first and writes then.  A restart loads what it can parse.    *)
(***************************************************************************)
EXTENDS Naturals, FiniteSets

CONSTANTS
  Handlers,       \* goroutines serving uploads
  CIDs,           \* multihashes of file contents
  Filenames,      \* what clients call a file; an upload replaces an entry
  Faults,         \* which of "blob" and "save" operations may fail
  MaxRestarts,    \* bound on the number of crashes and restarts
  NoHandler,
  NoFile, Torn    \* uploads.json does not exist, or does not parse

\* The list of uploads, by CID.
Entries == UNION {[S -> Filenames] : S \in SUBSET CIDs}

ASSUME UploadAssumption ==
  /\ Faults \subseteq {"blob", "save"}
  /\ MaxRestarts \in Nat
  /\ NoHandler \notin Handlers
  /\ NoFile \notin Entries /\ Torn \notin Entries

VARIABLES
  pc,             \* where each upload is
  req,            \* the file of each upload
  writer,         \* who has called UploadService.mutex.Lock, or NoHandler
  readers,        \* holders of the read lock across steps
  uploads,        \* UploadService.uploads
  data,           \* what each saver marshalled
  blobs,          \* contents the blob store has
  file,           \* uploads.json
  answered,       \* files answered 200 since the process started
  warned,         \* the save that ended last had failed, and was only warned about
  restarts        \* crashes so far

lock == <<writer, readers>>
vars == <<pc, req, lock, uploads, data, blobs, file, answered, warned, restarts>>

Upload == [cid: CIDs, filename: Filenames]

NoUpload == [cid |-> "none"]
NoEntries == << >>

TypeOK ==
  /\ pc \in [Handlers -> {"idle", "storing", "tracking", "locking", "saving", "writing"}]
  /\ req \in [Handlers -> Upload \cup {NoUpload}]
  /\ writer \in Handlers \cup {NoHandler}
  /\ readers \subseteq Handlers
  /\ uploads \in Entries
  /\ data \in [Handlers -> Entries]
  /\ blobs \subseteq CIDs
  /\ file \in Entries \cup {NoFile, Torn}
  /\ answered \subseteq CIDs
  /\ warned \in BOOLEAN
  /\ restarts \in Nat

Init ==
  /\ pc = [h \in Handlers |-> "idle"]
  /\ req = [h \in Handlers |-> NoUpload]
  /\ writer = NoHandler
  /\ readers = {}
  /\ uploads = NoEntries
  /\ data = [h \in Handlers |-> NoEntries]
  /\ blobs = {}
  /\ file = NoFile
  /\ answered = {}
  /\ warned = FALSE
  /\ restarts = 0

Goto(h, label) == pc' = [pc EXCEPT ![h] = label]

\* UploadFile returns, and the handler answers the client.
Return(h) ==
  /\ Goto(h, "idle")
  /\ req' = [req EXCEPT ![h] = NoUpload]
  /\ data' = [data EXCEPT ![h] = NoEntries]

HandleUpload(h) ==
  /\ pc[h] = "idle"
  /\ \E u \in Upload : req' = [req EXCEPT ![h] = u]
  /\ Goto(h, "storing")
  /\ UNCHANGED <<lock, uploads, data, blobs, file, answered, warned, restarts>>

\* Slip: the error of Put is not looked at.
StoreUnchecked(h) ==
  /\ pc[h] = "storing"
  /\ blobs' = blobs \cup {req[h].cid} \/ ("blob" \in Faults /\ UNCHANGED blobs)
  /\ Goto(h, "tracking")
  /\ UNCHANGED <<req, lock, uploads, data, file, answered, warned, restarts>>

\* The blob store has the content.
StoreFile(h) ==
  /\ pc[h] = "storing"
  /\ blobs' = blobs \cup {req[h].cid}
  /\ Goto(h, "tracking")
  /\ UNCHANGED <<req, lock, uploads, data, file, answered, warned, restarts>>

\* "failed to store file in blob store"
RefuseFile(h) ==
  /\ pc[h] = "storing"
  /\ "blob" \in Faults
  /\ Return(h)
  /\ UNCHANGED <<lock, uploads, blobs, file, answered, warned, restarts>>

\* mutex.Lock, when no other writer is in front: from here on no reader is let
\* in, and those that are in are waited for.
Lock(h) ==
  /\ pc[h] = "tracking"
  /\ writer = NoHandler
  /\ writer' = h
  /\ Goto(h, "locking")
  /\ UNCHANGED <<req, readers, uploads, data, blobs, file, answered, warned, restarts>>

\* s.uploads[u.cid] = u
Tracked(u) == [c \in DOMAIN uploads \cup {u.cid} |->
                 IF c = u.cid THEN u.filename ELSE uploads[c]]

\* Slip: the map has a lock of its own, which savers do not keep while writing.
TrackWhileSaving(h) ==
  /\ pc[h] = "locking"
  /\ uploads' = Tracked(req[h])
  /\ writer' = NoHandler
  /\ Goto(h, "saving")
  /\ UNCHANGED <<req, readers, data, blobs, file, answered, warned, restarts>>

\* Slip: the client is answered before the metadata is saved.
TrackAndAnswer(h) ==
  /\ pc[h] = "locking"
  /\ readers = {}
  /\ uploads' = Tracked(req[h])
  /\ answered' = answered \cup {req[h].cid}
  /\ writer' = NoHandler
  /\ Goto(h, "saving")
  /\ UNCHANGED <<req, readers, data, blobs, file, warned, restarts>>

\* The update of the map, and mutex.Unlock.
TrackFile(h) ==
  /\ pc[h] = "locking"
  /\ readers = {}
  /\ uploads' = Tracked(req[h])
  /\ writer' = NoHandler
  /\ Goto(h, "saving")
  /\ UNCHANGED <<req, readers, data, blobs, file, answered, warned, restarts>>

\* saveMetadata up to the truncation in os.WriteFile, under the read lock.
BeginSave(h) ==
  /\ pc[h] = "saving"
  /\ writer = NoHandler
  /\ readers' = readers \cup {h}
  /\ data' = [data EXCEPT ![h] = uploads]
  /\ file' = Torn
  /\ Goto(h, "writing")
  /\ UNCHANGED <<req, writer, uploads, blobs, answered, warned, restarts>>

\* The metadata file cannot be opened: UploadFile warns and answers all the same.
SkipSave(h) ==
  /\ pc[h] = "saving"
  /\ writer = NoHandler
  /\ "save" \in Faults
  /\ answered' = answered \cup {req[h].cid}
  /\ warned' = TRUE
  /\ Return(h)
  /\ UNCHANGED <<lock, uploads, blobs, file, restarts>>

\* Slip: the read lock is not released.
EndSaveLocked(h) ==
  /\ pc[h] = "writing"
  /\ file' = data[h]
  /\ answered' = answered \cup {req[h].cid}
  /\ warned' = FALSE
  /\ Return(h)
  /\ UNCHANGED <<lock, uploads, blobs, restarts>>

\* The write of os.WriteFile, whole or cut short, then the answer.  Savers that
\* overlap marshalled the same map, in an order of their own but to the same
\* number of bytes: a whole write leaves nothing of another saver's behind, a
\* short one may mix with it.
EndSave(h) ==
  /\ pc[h] = "writing"
  /\ \/ file' = data[h] /\ warned' = FALSE
     \/ "save" \in Faults /\ file' \in {file, Torn} /\ warned' = TRUE
  /\ readers' = readers \ {h}
  /\ answered' = answered \cup {req[h].cid}
  /\ Return(h)
  /\ UNCHANGED <<writer, uploads, blobs, restarts>>

\* loadMetadata; NewUploadService ignores its error.
LoadMetadata(f) == IF f \in {NoFile, Torn} THEN NoEntries ELSE f

\* The process dies at any point and is started again.
Restart ==
  /\ restarts < MaxRestarts
  /\ restarts' = restarts + 1
  /\ uploads' = LoadMetadata(file)
  /\ pc' = [h \in Handlers |-> "idle"]
  /\ req' = [h \in Handlers |-> NoUpload]
  /\ data' = [h \in Handlers |-> NoEntries]
  /\ writer' = NoHandler
  /\ readers' = {}
  /\ answered' = {}
  /\ warned' = FALSE
  /\ UNCHANGED <<blobs, file>>

UploadFile(h) ==
  \/ StoreFile(h)
  \/ RefuseFile(h)
  \/ Lock(h)
  \/ TrackFile(h)
  \/ BeginSave(h)
  \/ SkipSave(h)
  \/ EndSave(h)

Next ==
  \/ \E h \in Handlers : HandleUpload(h) \/ UploadFile(h)
  \/ Restart

Spec == Init /\ [][Next]_vars

\* An upload runs on by itself, except where it asks for the lock: there
\* sync.RWMutex passes over nobody for ever who finds it free again and again.
Fairness ==
  \A h \in Handlers :
    /\ WF_vars(StoreFile(h) \/ TrackFile(h) \/ EndSave(h))
    /\ SF_vars(Lock(h)) /\ SF_vars(BeginSave(h) \/ SkipSave(h))

FairSpec == Spec /\ Fairness

-------------------------------------------------------------------------------
(* Properties.                                                             *)

\* Every file that GET /files lists, now or after a restart, has its bytes in
\* the blob store: the entry is never ahead of the content.
ListedFilesStored ==
  DOMAIN uploads \cup DOMAIN LoadMetadata(file) \subseteq blobs

\* Whenever no upload is being saved, a restart would load exactly the map in
\* memory, unless the last save to end had failed: a slower saver never leaves
\* an older map behind, and one whole save makes good all the failed ones
\* before it, although each client was answered 200 with a mere warning.
FileCurrent ==
  (\A h \in Handlers : pc[h] \notin {"saving", "writing"}) =>
    warned \/ LoadMetadata(file) = uploads

\* An answered file is in uploads.json, or in what some saver is about to write
\* there, unless the last save to end had failed.
AnsweredSaved ==
  \A c \in answered :
    \/ c \in DOMAIN LoadMetadata(file)
    \/ \E h \in Handlers : pc[h] = "writing" /\ c \in DOMAIN data[h]
    \/ warned

\* UploadService implements UploadList: whatever uploads overlap, a write of
\* uploads.json that is not cut short writes the list as it is when it ends, and
\* only listed files are answered.
List == INSTANCE UploadList
          WITH listed <- uploads, saved <- file, stored <- blobs
ListSpec == List!Spec

\* Uploads never wait for each other in a circle: while any is under way, one of
\* them has all it needs for its next step, whatever holds the lock and whatever
\* asks for it.
MayStep(h) ==
  \/ pc[h] \in {"storing", "writing"}
  \/ pc[h] \in {"tracking", "saving"} /\ writer = NoHandler
  \/ pc[h] = "locking" /\ readers = {}

NeverStuck == (\E h \in Handlers : pc[h] # "idle") => \E h \in Handlers : MayStep(h)

\* Every upload is answered, or dies with the process: the read lock shared by
\* savers and the write lock never keep each other waiting.
UploadAnswered == \A h \in Handlers : pc[h] # "idle" ~> pc[h] = "idle"

-------------------------------------------------------------------------------
(* What a comment says, and the code does not do.                          *)

\* pkg/upload/service.go:155 "Track the uploaded file (with persistence)": a
\* file that was answered 200 is still known after the next step, a restart
\* included.
AnsweredFilesKept == [][answered \subseteq DOMAIN uploads']_vars

-------------------------------------------------------------------------------
(* Why the properties hold: what every step preserves.                     *)

SaversInv ==
  \A h \in Handlers :
    /\ pc[h] = "writing" <=> h \in readers
    /\ pc[h] = "writing" => data[h] = uploads
    /\ pc[h] = "locking" <=> writer = h

UploadInv ==
  /\ TypeOK
  /\ SaversInv
  /\ \A h \in Handlers : pc[h] # "idle" => req[h] \in Upload
  /\ \A h \in Handlers : pc[h] \in {"tracking", "locking", "saving", "writing"} =>
       req[h].cid \in blobs
  /\ \A h \in Handlers : pc[h] \in {"saving", "writing"} => req[h].cid \in DOMAIN uploads
  /\ answered \subseteq DOMAIN uploads
  /\ ListedFilesStored

===============================================================================
