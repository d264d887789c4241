----------------------------- MODULE PieceService -----------------------------
(***************************************************************************)
(* The piece service (pkg/piece/service.go) with the HTTP handlers that    *)
(* call it (pkg/api/server.go), the file blob store it writes to           *)
(* (pkg/blobstore) and the tables it uses in the server's own database.    *)
(*                                                                         *)
(* A request is a goroutine of the HTTP server.  PieceService.mutex is     *)
(* held for the whole of an operation, so an operation is split into       *)
(* steps only where something that outlives a crash changes: the blob is   *)
(* created (truncated) and then copied; the database transaction commits   *)
(* and then Piri is called.  The map of pieces lives in memory only.       *)
(***************************************************************************)
EXTENDS Naturals, Sequences, FiniteSets

CONSTANTS
  Handlers,       \* goroutines serving piece requests
  PieceIDs,       \* the pieceID of the URL, and the IDs PreparePiece derives
  Contents,       \* non-empty file contents
  CIDs,           \* piece CIDs (CommP of the padded content)
  ProofSetIDs,    \* proof set IDs named by clients
  TxHashes,       \* transaction hashes
  PieceCIDOf,     \* content -> its piece CID, NoCID when go-fil-commp refuses it
  PieceIDOf,      \* content -> first 8 bytes of its SHA-256, in hex
  PiriResults,    \* what ProofSetAddRoot may return to the service
  Faults,         \* which of "file", "put" and "db" operations may fail
  MaxRestarts,    \* bound on the number of crashes and restarts
  NoCID, NoHandler

NoTx == ""          \* Go's zero value of TransactionHash
NoProofSet == 0     \* Go's zero value of ProofSetID
NotAString == "not_a_string"  \* a result that fails the .(string) assertion
Failed == "failed"            \* a non-nil error

ASSUME ConstantsAssumption ==
  /\ NoCID \notin CIDs /\ NoHandler \notin Handlers
  /\ PieceCIDOf \in [Contents -> CIDs \cup {NoCID}]
  /\ PieceIDOf \in [Contents -> PieceIDs]
  /\ {NoTx, NotAString, Failed} \cap TxHashes = {}
  /\ PiriResults \subseteq TxHashes \cup {NotAString, Failed}
  /\ Faults \subseteq {"file", "put", "db"}
  /\ MaxRestarts \in Nat

VARIABLES
  pc,             \* where each request is
  req,            \* what each request asks for
  mutex,          \* holder of PieceService.mutex across steps, or NoHandler
  pieces,         \* PieceService.pieces: the tracked piece IDs (in memory)
  blobs,          \* the blob file of each piece CID
  parked,         \* CIDs with committed ParkedPiece, ParkedPieceRef, PDPPieceRef rows
  messageWaits,   \* MessageWaitsEth rows of the server's own database, by hash
  calls,          \* calls of ProofSetAddRoot made so far
  restarts        \* crashes so far

memory == <<pc, req, mutex, pieces>>
disk == <<blobs, parked, messageWaits>>
vars == <<memory, disk, calls, restarts>>

-------------------------------------------------------------------------------
(* Data.                                                                   *)

Status == {"prepared", "uploaded", "error", "pending_confirmation",
           "added_to_proofset", "transaction_failed"}

\* The statuses only a successful ProofSetAddRoot leads to.
Submitted == {"pending_confirmation", "added_to_proofset", "transaction_failed"}

PieceInfo == [status: Status, cid: CIDs \cup {NoCID},
              proofSet: ProofSetIDs \cup {NoProofSet}, tx: TxHashes \cup {NoTx}]

\* "succeeded" is TxStatus "confirmed" with *TxSuccess true, "reverted" is
\* "confirmed" with TxSuccess nil or false, "other" any further status.
TxState == {"pending", "succeeded", "reverted", "other"}

Request ==
       [op: {"prepare"}, content: Contents]
  \cup [op: {"upload"}, id: PieceIDs, content: Contents]
  \cup [op: {"add"}, id: PieceIDs, proofSet: ProofSetIDs]
  \cup [op: {"monitor", "get"}, id: PieceIDs]

NoRequest == [op |-> "none"]

AddRootCall == [cid: CIDs, proofSet: ProofSetIDs]

TypeOK ==
  /\ pc \in [Handlers -> {"idle", "waiting", "copying", "submitting"}]
  /\ req \in [Handlers -> Request \cup {NoRequest}]
  /\ mutex \in Handlers \cup {NoHandler}
  /\ DOMAIN pieces \subseteq PieceIDs
  /\ pieces \in [DOMAIN pieces -> PieceInfo]
  /\ blobs \in [CIDs -> {"absent", "partial", "cut", "complete"}]
  /\ parked \subseteq CIDs
  /\ DOMAIN messageWaits \subseteq TxHashes
  /\ messageWaits \in [DOMAIN messageWaits -> TxState]
  /\ calls \in Seq(AddRootCall)
  /\ restarts \in Nat

Init ==
  /\ pc = [h \in Handlers |-> "idle"]
  /\ req = [h \in Handlers |-> NoRequest]
  /\ mutex = NoHandler
  /\ pieces = << >>
  /\ blobs = [c \in CIDs |-> "absent"]
  /\ parked = {}
  /\ messageWaits = << >>
  /\ calls = << >>
  /\ restarts = 0

\* p.pieces[id] = info
Track(id, info) == [i \in DOMAIN pieces \cup {id} |-> IF i = id THEN info ELSE pieces[i]]

PreparedPiece == [status |-> "prepared", cid |-> NoCID, proofSet |-> NoProofSet, tx |-> NoTx]

UploadedPiece(c) == [status |-> "uploaded", cid |-> c, proofSet |-> NoProofSet, tx |-> NoTx]

\* Put: the blob of c created, or truncated if a former upload left one.
Created(c) == [blobs EXCEPT ![c] = "partial"]

\* Put: the copy into the blob of c fails, and what was there is gone.
Cut(c) == [blobs EXCEPT ![c] = "cut"]

\* Put: the content copied into the blob of c.
Copied(c) == [blobs EXCEPT ![c] = "complete"]

\* Slip: PieceCID has a plain index, or the rows are upserted.
RowsUpserted(c) == parked' = parked \cup {c}

\* Slip: the rows are left for after the call of Piri.
RowsLater(c) == c \notin parked /\ UNCHANGED parked

\* One transaction inserts the three rows, whose unique index on PieceCID turns
\* down a commitment that has them.
CreatePiriDatabaseEntries(c) == c \notin parked /\ parked' = parked \cup {c}

-------------------------------------------------------------------------------
(* The HTTP handlers: bind the parameters, then call the service.  A       *)
(* malformed request is answered 400 before it touches any state.          *)

Accept(h, r) ==
  /\ pc[h] = "idle"
  /\ pc' = [pc EXCEPT ![h] = "waiting"]
  /\ req' = [req EXCEPT ![h] = r]
  /\ UNCHANGED <<mutex, pieces, disk, calls, restarts>>

HandlePreparePiece(h) ==
  \E f \in Contents : Accept(h, [op |-> "prepare", content |-> f])

HandleUploadPiece(h) ==
  \E id \in PieceIDs, f \in Contents : Accept(h, [op |-> "upload", id |-> id, content |-> f])

HandleAddPieceToProofSet(h) ==
  \E id \in PieceIDs, s \in ProofSetIDs : Accept(h, [op |-> "add", id |-> id, proofSet |-> s])

HandleGetPiece(h) ==
  \E id \in PieceIDs : Accept(h, [op |-> "get", id |-> id])

HandleMonitorTransaction(h) ==
  \E id \in PieceIDs : Accept(h, [op |-> "monitor", id |-> id])

\* The request takes PieceService.mutex.
Enters(h, op) == pc[h] = "waiting" /\ req[h].op = op /\ mutex = NoHandler

\* Slip: the return after a durable effect does not unlock.
AnswerLocked(h) ==
  /\ pc' = [pc EXCEPT ![h] = "idle"]
  /\ req' = [req EXCEPT ![h] = NoRequest]
  /\ UNCHANGED mutex

\* The operation returns: the deferred unlock, then the HTTP response.
Answer(h) ==
  /\ pc' = [pc EXCEPT ![h] = "idle"]
  /\ req' = [req EXCEPT ![h] = NoRequest]
  /\ mutex' = NoHandler

\* Slip: the mutex protects the map only, not what is done in between.
GoOnUnlocked(h, label) ==
  /\ pc' = [pc EXCEPT ![h] = label]
  /\ UNCHANGED <<mutex, req>>

\* The operation goes on, holding the mutex, to its next durable effect.
HoldAt(h, label) ==
  /\ pc' = [pc EXCEPT ![h] = label]
  /\ mutex' = h
  /\ UNCHANGED req

-------------------------------------------------------------------------------
(* The service's operations.                                               *)

PreparePiece(h) ==
  /\ Enters(h, "prepare")
  /\ \/ pieces' = Track(PieceIDOf[req[h].content], PreparedPiece)
     \/ "file" \in Faults /\ UNCHANGED pieces
  /\ Answer(h)
  /\ UNCHANGED <<disk, calls, restarts>>

\* "piece already exists"
RejectTrackedUpload(h) ==
  /\ Enters(h, "upload")
  /\ req[h].id \in DOMAIN pieces
  /\ Answer(h)
  /\ UNCHANGED <<pieces, disk, calls, restarts>>

\* No CommP for the padded content, or the blob file cannot be created.
RefuseUpload(h) ==
  /\ Enters(h, "upload")
  /\ req[h].id \notin DOMAIN pieces
  /\ PieceCIDOf[req[h].content] = NoCID \/ "put" \in Faults
  /\ Answer(h)
  /\ UNCHANGED <<pieces, disk, calls, restarts>>

\* Up to the creation of the blob.
UploadPiece(h) ==
  /\ Enters(h, "upload")
  /\ req[h].id \notin DOMAIN pieces
  /\ PieceCIDOf[req[h].content] # NoCID
  /\ blobs' = Created(PieceCIDOf[req[h].content])
  /\ HoldAt(h, "copying")
  /\ UNCHANGED <<pieces, parked, messageWaits, calls, restarts>>

\* The copy into the blob, whole or cut short, and the rest of UploadPiece.
FinishUpload(h) ==
  /\ pc[h] = "copying"
  /\ LET c == PieceCIDOf[req[h].content] IN
       \/ /\ blobs' = Copied(c)
          /\ pieces' = Track(req[h].id, UploadedPiece(c))
       \/ /\ "put" \in Faults
          /\ blobs' = Cut(c)
          /\ UNCHANGED pieces
  /\ Answer(h)
  /\ UNCHANGED <<parked, messageWaits, calls, restarts>>

\* "piece not found", "piece is not uploaded", or no row was committed: the
\* unique index on PieceCID was violated, the database failed, or the request's
\* context was cancelled.
RefuseAdd(h) ==
  /\ Enters(h, "add")
  /\ req[h].id \in DOMAIN pieces /\ "db" \notin Faults =>
       \/ pieces[req[h].id].status # "uploaded"
       \/ pieces[req[h].id].cid \in parked
  /\ Answer(h)
  /\ UNCHANGED <<pieces, disk, calls, restarts>>

\* Up to the commit of the three rows of createPiriDatabaseEntries.
AddPieceToProofSet(h) ==
  /\ Enters(h, "add")
  /\ req[h].id \in DOMAIN pieces
  /\ pieces[req[h].id].status = "uploaded"
  /\ CreatePiriDatabaseEntries(pieces[req[h].id].cid)
  /\ HoldAt(h, "submitting")
  /\ UNCHANGED <<pieces, blobs, messageWaits, calls, restarts>>

\* Slip: the proof set is recorded only with a hash.
RecordedWithHash(piece, s, r) ==
  IF r = Failed
  THEN [piece EXCEPT !.status = "error"]
  ELSE [piece EXCEPT !.status = "pending_confirmation",
                     !.proofSet = IF r \in TxHashes THEN s ELSE @,
                     !.tx = IF r \in TxHashes THEN r ELSE @]

\* piece once ProofSetAddRoot has returned r
Recorded(piece, s, r) ==
  IF r = Failed
  THEN [piece EXCEPT !.status = "error"]
  ELSE [piece EXCEPT !.status = "pending_confirmation",
                     !.proofSet = s,
                     !.tx = IF r \in TxHashes THEN r ELSE @]

\* The call of ProofSetAddRoot, and the rest of AddPieceToProofSet.
SubmitRoot(h) ==
  /\ pc[h] = "submitting"
  /\ LET id == req[h].id
         s == req[h].proofSet
     IN /\ calls' = Append(calls, [cid |-> pieces[id].cid, proofSet |-> s])
        /\ \E r \in PiriResults : pieces' = [pieces EXCEPT ![id] = Recorded(@, s, r)]
  /\ Answer(h)
  /\ UNCHANGED <<disk, restarts>>

\* Slip: TxSuccess is not looked at.
StatusForConfirmed(piece, x) ==
  IF x \in {"succeeded", "reverted"} THEN "added_to_proofset" ELSE piece.status

\* piece's status once its MessageWaitsEth row reads x
StatusFor(piece, x) ==
  CASE x = "succeeded" -> "added_to_proofset"
    [] x = "reverted" -> "transaction_failed"
    [] OTHER -> piece.status

\* "piece not found", "not in pending confirmation status", "no transaction
\* hash found", or the query failed.
RefuseMonitor(h) ==
  /\ Enters(h, "monitor")
  /\ req[h].id \in DOMAIN pieces /\ "db" \notin Faults =>
       \/ pieces[req[h].id].status # "pending_confirmation"
       \/ pieces[req[h].id].tx = NoTx
  /\ Answer(h)
  /\ UNCHANGED <<pieces, disk, calls, restarts>>

\* The handler then fetches the piece it answers with, under a lock of its own.
MonitorTransactionStatus(h) ==
  /\ Enters(h, "monitor")
  /\ req[h].id \in DOMAIN pieces
  /\ LET piece == pieces[req[h].id] IN
       /\ piece.status = "pending_confirmation"
       /\ piece.tx # NoTx
       /\ pieces' = IF piece.tx \in DOMAIN messageWaits
                    THEN Track(req[h].id, [piece EXCEPT !.status =
                                             StatusFor(piece, messageWaits[piece.tx])])
                    ELSE pieces
  /\ req' = [req EXCEPT ![h] = [op |-> "get", id |-> req[h].id]]
  /\ UNCHANGED <<pc, mutex, disk, calls, restarts>>

GetPiece(h) ==
  /\ Enters(h, "get")
  /\ Answer(h)
  /\ UNCHANGED <<pieces, disk, calls, restarts>>

-------------------------------------------------------------------------------
(* What happens around the service.                                        *)

\* The row of hash t reads x, as PieceService.db shows it.
SetRow(t, x) ==
  /\ messageWaits' = [u \in DOMAIN messageWaits \cup {t} |->
                        IF u = t THEN x ELSE messageWaits[u]]
  /\ UNCHANGED <<memory, blobs, parked, calls, restarts>>

\* The transaction watcher starts to monitor a hash.
MonitorTransaction(t) == t \notin DOMAIN messageWaits /\ SetRow(t, "pending")

\* The watcher copies the status Piri's database has for a pending hash; it does
\* not look at the hash again.
UpdateTransaction(t, x) ==
  /\ t \in DOMAIN messageWaits /\ messageWaits[t] = "pending"
  /\ x # "pending"
  /\ SetRow(t, x)

\* The process dies at any point and is started again: NewPieceService makes an
\* empty map; files and committed rows are still there.
Restart ==
  /\ restarts < MaxRestarts
  /\ restarts' = restarts + 1
  /\ pc' = [h \in Handlers |-> "idle"]
  /\ req' = [h \in Handlers |-> NoRequest]
  /\ mutex' = NoHandler
  /\ pieces' = << >>
  /\ UNCHANGED <<disk, calls>>

Handle(h) ==
  \/ HandlePreparePiece(h)
  \/ HandleUploadPiece(h)
  \/ HandleAddPieceToProofSet(h)
  \/ HandleGetPiece(h)
  \/ HandleMonitorTransaction(h)

\* The steps of a request that wait for the mutex.
Enter(h) ==
  \/ PreparePiece(h)
  \/ RejectTrackedUpload(h)
  \/ RefuseUpload(h)
  \/ UploadPiece(h)
  \/ RefuseAdd(h)
  \/ AddPieceToProofSet(h)
  \/ RefuseMonitor(h)
  \/ MonitorTransactionStatus(h)
  \/ GetPiece(h)

Finish(h) == FinishUpload(h) \/ SubmitRoot(h)

Next ==
  \/ \E h \in Handlers : Handle(h) \/ Enter(h) \/ Finish(h)
  \/ \E t \in TxHashes : MonitorTransaction(t) \/ \E x \in TxState : UpdateTransaction(t, x)
  \/ Restart

Spec == Init /\ [][Next]_vars

-------------------------------------------------------------------------------
(* Properties.                                                             *)

CalledIn(log) == {log[i].cid : i \in DOMAIN log}

\* A piece commitment is handed to ProofSetAddRoot at most once, however many
\* piece IDs it was uploaded under, whatever the call returned, and although a
\* restart forgets every piece: the committed ParkedPiece row is what holds.
AtMostOnceSubmission ==
  \A i, j \in DOMAIN calls : calls[i].cid = calls[j].cid => i = j

\* A piece whose status says it was submitted was: the call that carried its
\* CID to its proof set has been made, and no other tracked piece, uploaded
\* from the same content, claims that submission too.
SubmittedPieceOwnsCall ==
  \A id \in DOMAIN pieces :
    pieces[id].status \in Submitted =>
      /\ \E i \in DOMAIN calls : calls[i] = [cid |-> pieces[id].cid,
                                             proofSet |-> pieces[id].proofSet]
      /\ \A other \in DOMAIN pieces \ {id} :
           pieces[other].cid = pieces[id].cid => pieces[other].status = "uploaded"

\* Whenever the mutex is free, the blob of every piece the service answers for
\* is whole, or its last Put failed in the copy: a re-upload that truncates the
\* blob shared by two piece IDs is never seen half way, a whole one mends what a
\* failed one cut, and a crash in the middle forgets both pieces.
PutEnded == {"complete", "cut"}

UnlockedBlobsComplete ==
  mutex = NoHandler =>
    \A id \in DOMAIN pieces : pieces[id].cid # NoCID => blobs[pieces[id].cid] \in PutEnded

Submitting(h, c) == pc[h] = "submitting" /\ pieces[req[h].id].cid = c

\* Rows that a crash left without a call, or that outlived a failed call, are
\* never taken up again: no later request gets past the commit for that CID.
OrphanedRowsStayOrphaned ==
  [][\A c \in parked :
       (\A h \in Handlers : ~Submitting(h, c)) => (\A h \in Handlers : ~Submitting(h, c)')]_vars

\* A piece is reported as in its proof set only if a call for its CID was made
\* and the transaction that call returned was mirrored as successful.
ConfirmedOnlyByRow ==
  \A id \in DOMAIN pieces :
    pieces[id].status = "added_to_proofset" =>
      /\ pieces[id].cid \in CalledIn(calls)
      /\ pieces[id].tx \in DOMAIN messageWaits
      /\ messageWaits[pieces[id].tx] = "succeeded"

\* Whatever a request waits for, somebody can bring about: it goes on itself, or
\* the mutex is held by another one that has what its last step needs and waits
\* for nobody.  However many requests there are, they never all wait.
MayStep(h) ==
  \/ pc[h] = "waiting" /\ mutex = NoHandler
  \/ pc[h] = "copying" /\ PieceCIDOf[req[h].content] \in CIDs
  \/ pc[h] = "submitting" /\ req[h].id \in DOMAIN pieces

NeverBlocked ==
  \A h \in Handlers : pc[h] # "idle" =>
    MayStep(h) \/ (mutex \in Handlers \ {h} /\ MayStep(mutex))

\* Every accepted request is answered (or dies with the process): no path
\* through the service, its error paths included, returns with the mutex held.
RequestsAnswered == \A h \in Handlers : pc[h] # "idle" ~> pc[h] = "idle"

\* Adding pieces to proof sets implements the ledger of SubmissionLedger, with
\* the ParkedPiece rows as the claims.
Ledger == INSTANCE SubmissionLedger WITH claimed <- parked, log <- calls
LedgerSpec == Ledger!Spec

-------------------------------------------------------------------------------
(* Why the safety properties hold: an invariant every step preserves.      *)

\* One request at a time is between two durable effects: the mutex's holder.
MutexInv ==
  \A h \in Handlers : pc[h] \in {"copying", "submitting"} <=> mutex = h

\* What UploadPiece checked and computed still holds while it copies.
CopyingInv ==
  \A h \in Handlers : pc[h] = "copying" =>
    /\ req[h] \in [op: {"upload"}, id: PieceIDs, content: Contents]
    /\ req[h].id \notin DOMAIN pieces
    /\ PieceCIDOf[req[h].content] # NoCID

\* What AddPieceToProofSet checked and committed still holds when it calls Piri.
SubmittingInv ==
  \A h \in Handlers : pc[h] = "submitting" =>
    /\ req[h] \in [op: {"add"}, id: PieceIDs, proofSet: ProofSetIDs]
    /\ req[h].id \in DOMAIN pieces
    /\ pieces[req[h].id].status = "uploaded"
    /\ pieces[req[h].id].cid \in parked \ CalledIn(calls)

WaitingInv == \A h \in Handlers : pc[h] = "waiting" => req[h] \in Request

\* The statuses a piece has once ProofSetAddRoot was called for it.
Settled == Submitted \cup {"error"}

PiecesInv ==
  \A id \in DOMAIN pieces :
    /\ pieces[id].status = "prepared" <=> pieces[id].cid = NoCID
    /\ pieces[id].status \in Settled =>
         /\ pieces[id].cid \in CalledIn(calls)
         /\ \A other \in DOMAIN pieces \ {id} :
              pieces[other].cid = pieces[id].cid => pieces[other].status = "uploaded"

IInv ==
  /\ TypeOK
  /\ MutexInv /\ CopyingInv /\ SubmittingInv /\ WaitingInv
  /\ CalledIn(calls) \subseteq parked
  /\ AtMostOnceSubmission
  /\ PiecesInv
  /\ SubmittedPieceOwnsCall

-------------------------------------------------------------------------------
(* What the documentation and the comments say, and the code does not do.  *)

\* docs/API.md:108 "Prepare a piece for upload": an upload under the ID that
\* POST /pieces/prepare answered is not turned down because that ID was prepared.
PreparedPieceAcceptsUpload ==
  [][\A h \in Handlers :
       RejectTrackedUpload(h) => pieces[req[h].id].status # "prepared"]_vars

\* docs/ARCHITECTURE.md:80-83 lists "Piece information and status" in the local
\* SQLite database: what the service knows of a piece outlives the process.
PieceInfoPersists ==
  [][\A id \in DOMAIN pieces : id \in DOMAIN pieces']_vars

===============================================================================
