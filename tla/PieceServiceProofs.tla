-------------------------- MODULE PieceServiceProofs --------------------------
(* The safety of PieceService, for any number of requests, piece IDs,      *)
(* contents, proof sets and restarts, whatever fails.                      *)
EXTENDS PieceService, TLAPS

-------------------------------------------------------------------------------
(* Lemmas about the operators.                                             *)

\* Tracking a piece keeps the map well typed, and changes one entry.
LEMMA TrackFact ==
  ASSUME NEW id \in PieceIDs, NEW info \in PieceInfo,
         DOMAIN pieces \subseteq PieceIDs, pieces \in [DOMAIN pieces -> PieceInfo]
  PROVE  /\ DOMAIN Track(id, info) = DOMAIN pieces \cup {id}
         /\ DOMAIN Track(id, info) \subseteq PieceIDs
         /\ Track(id, info) \in [DOMAIN Track(id, info) -> PieceInfo]
         /\ Track(id, info)[id] = info
         /\ \A i \in DOMAIN pieces \ {id} : Track(id, info)[i] = pieces[i]
  BY DEF Track

\* One more call adds its commitment, and keeps the calls made before.
LEMMA AppendFact ==
  ASSUME NEW log \in Seq(AddRootCall), NEW call \in AddRootCall
  PROVE  /\ Append(log, call) \in Seq(AddRootCall)
         /\ CalledIn(Append(log, call)) = CalledIn(log) \cup {call.cid}
         /\ \A i \in DOMAIN log : i \in DOMAIN Append(log, call) /\ Append(log, call)[i] = log[i]
         /\ \E i \in DOMAIN Append(log, call) : Append(log, call)[i] = call
         /\ call.cid \notin CalledIn(log) =>
              ((\A i, j \in DOMAIN log : log[i].cid = log[j].cid => i = j) =>
               (\A i, j \in DOMAIN Append(log, call) :
                   Append(log, call)[i].cid = Append(log, call)[j].cid => i = j))
  <1> DEFINE new == Append(log, call)
  <1>1. /\ new \in Seq(AddRootCall)
        /\ DOMAIN new = DOMAIN log \cup {Len(log) + 1}
        /\ Len(log) + 1 \notin DOMAIN log
        /\ \A i \in DOMAIN log : new[i] = log[i]
        /\ new[Len(log) + 1] = call
    OBVIOUS
  <1> HIDE DEF new
  <1>2. CalledIn(new) = CalledIn(log) \cup {call.cid}
    BY <1>1 DEF CalledIn
  <1>3. ASSUME call.cid \notin CalledIn(log),
               \A i, j \in DOMAIN log : log[i].cid = log[j].cid => i = j
        PROVE  \A i, j \in DOMAIN new : new[i].cid = new[j].cid => i = j
    BY <1>1, <1>3 DEF CalledIn
  <1>4. QED
    BY <1>1, <1>2, <1>3 DEF new

\* The pieces the service writes are pieces.
LEMMA PieceFact ==
  /\ PreparedPiece \in PieceInfo
  /\ \A c \in CIDs : UploadedPiece(c) \in PieceInfo
  /\ \A piece \in PieceInfo, s \in ProofSetIDs, r \in PiriResults :
       Recorded(piece, s, r) \in PieceInfo
  /\ \A piece \in PieceInfo, x \in TxState :
       [piece EXCEPT !.status = StatusFor(piece, x)] \in PieceInfo
  BY ConstantsAssumption
  DEF PreparedPiece, UploadedPiece, Recorded, StatusFor, PieceInfo, Status, TxState

-------------------------------------------------------------------------------
(* The inductive invariant: the initial state, then one lemma per action.  *)

LEMMA InitIInv == Init => IInv
  <1> SUFFICES ASSUME Init PROVE IInv
    OBVIOUS
  <1>1. CalledIn(calls) = {}
    BY DEF Init, CalledIn
  <1>2. TypeOK
    BY DEF Init, TypeOK
  <1>3. MutexInv /\ CopyingInv /\ SubmittingInv /\ WaitingInv
    BY ConstantsAssumption DEF Init, MutexInv, CopyingInv, SubmittingInv, WaitingInv
  <1>4. AtMostOnceSubmission /\ PiecesInv /\ SubmittedPieceOwnsCall
    BY DEF Init, AtMostOnceSubmission, PiecesInv, SubmittedPieceOwnsCall
  <1>5. QED
    BY <1>1, <1>2, <1>3, <1>4 DEF IInv

\* A request arrives, or one that waited is answered, or goes on waiting for
\* another operation: nothing but the request itself changes.
LEMMA QuietStep ==
  ASSUME IInv, NEW h \in Handlers, pc[h] \in {"idle", "waiting"},
         NEW p \in {"idle", "waiting"}, pc' = [pc EXCEPT ![h] = p],
         NEW r \in Request \cup {NoRequest}, req' = [req EXCEPT ![h] = r],
         p = "waiting" => r \in Request,
         mutex' = mutex, UNCHANGED <<pieces, disk, calls, restarts>>
  PROVE  IInv'
  <1>1. TypeOK'
    BY DEF IInv, TypeOK, disk
  <1>2. MutexInv' /\ CopyingInv' /\ SubmittingInv' /\ WaitingInv'
    BY DEF IInv, TypeOK, disk, MutexInv, CopyingInv, SubmittingInv, WaitingInv, CalledIn
  <1>3. (CalledIn(calls) \subseteq parked)' /\ AtMostOnceSubmission' /\ PiecesInv'
        /\ SubmittedPieceOwnsCall'
    BY DEF IInv, disk, CalledIn, AtMostOnceSubmission, PiecesInv, SubmittedPieceOwnsCall
  <1>4. QED
    BY <1>1, <1>2, <1>3 DEF IInv

LEMMA HandleStep ==
  ASSUME IInv, NEW h \in Handlers, Handle(h) PROVE IInv'
  <1>1. PICK r \in Request : Accept(h, r)
    BY DEF Handle, HandlePreparePiece, HandleUploadPiece, HandleAddPieceToProofSet,
           HandleGetPiece, HandleMonitorTransaction, Request
  <1>2. QED
    BY <1>1, QuietStep DEF Accept

LEMMA RefusalStep ==
  ASSUME IInv, NEW h \in Handlers,
         \/ RejectTrackedUpload(h) \/ RefuseUpload(h) \/ RefuseAdd(h)
         \/ RefuseMonitor(h) \/ GetPiece(h)
  PROVE  IInv'
  <1>1. /\ pc[h] = "waiting" /\ mutex = NoHandler /\ Answer(h)
        /\ UNCHANGED <<pieces, disk, calls, restarts>>
    BY DEF RejectTrackedUpload, RefuseUpload, RefuseAdd, RefuseMonitor, GetPiece, Enters
  <1>2. QED
    BY <1>1, QuietStep DEF Answer

\* Tracking a piece that was not handed to Piri, under the mutex, when nobody
\* else is between two effects.
LEMMA TrackStep ==
  ASSUME IInv, NEW h \in Handlers, Answer(h),
         (pc[h] = "waiting" /\ mutex = NoHandler) \/ mutex = h,
         NEW id \in PieceIDs, NEW info \in PieceInfo, pieces' = Track(id, info),
         \/ info = PreparedPiece
         \/ \E c \in CIDs : info = UploadedPiece(c),
         blobs' \in [CIDs -> {"absent", "partial", "cut", "complete"}],
         UNCHANGED <<parked, messageWaits, calls, restarts>>
  PROVE  IInv'
  <1>1. TypeOK'
    BY TrackFact DEF IInv, TypeOK, Answer
  <1>2. \A g \in Handlers : pc'[g] \notin {"copying", "submitting"}
    BY ConstantsAssumption DEF IInv, TypeOK, MutexInv, Answer
  <1>3. MutexInv' /\ CopyingInv' /\ SubmittingInv'
    BY <1>2, ConstantsAssumption DEF MutexInv, CopyingInv, SubmittingInv, Answer
  <1>4. WaitingInv'
    BY DEF IInv, TypeOK, WaitingInv, Answer
  <1>5. /\ DOMAIN pieces' = DOMAIN pieces \cup {id}
        /\ pieces'[id] = info
        /\ \A i \in DOMAIN pieces \ {id} : pieces'[i] = pieces[i]
    BY DEF Track
  <1>6. /\ info.status \notin Settled
        /\ info.status = "prepared" <=> info.cid = NoCID
        /\ info.cid # NoCID => info.status = "uploaded"
    BY ConstantsAssumption DEF PreparedPiece, UploadedPiece, Settled, Submitted
  <1>7. PiecesInv'
    <2>1. ASSUME NEW i \in DOMAIN pieces', pieces'[i].status \in Settled,
                 NEW other \in DOMAIN pieces' \ {i}, pieces'[other].cid = pieces'[i].cid
          PROVE  pieces'[other].status = "uploaded"
      BY <2>1, <1>5, <1>6 DEF IInv, PiecesInv, Settled, Submitted
    <2>2. QED
      BY <2>1, <1>5, <1>6 DEF IInv, PiecesInv, CalledIn
  <1>8. SubmittedPieceOwnsCall'
    <2>1. ASSUME NEW i \in DOMAIN pieces', pieces'[i].status \in Submitted
          PROVE  /\ i \in DOMAIN pieces /\ pieces'[i] = pieces[i]
                 /\ \A other \in DOMAIN pieces' \ {i} :
                      pieces'[other].cid = pieces'[i].cid => pieces'[other].status = "uploaded"
      BY <2>1, <1>5, <1>6, <1>7 DEF PiecesInv, Settled
    <2>2. QED
      BY <2>1 DEF IInv, SubmittedPieceOwnsCall
  <1>9. QED
    BY <1>1, <1>3, <1>4, <1>7, <1>8 DEF IInv, AtMostOnceSubmission, CalledIn

LEMMA PreparePieceStep ==
  ASSUME IInv, NEW h \in Handlers, PreparePiece(h) PROVE IInv'
  <1>1. /\ pc[h] = "waiting" /\ mutex = NoHandler /\ Answer(h)
        /\ req[h].op = "prepare" /\ req[h] \in Request
    BY DEF IInv, WaitingInv, PreparePiece, Enters
  <1>2. CASE UNCHANGED pieces
    BY <1>1, <1>2, QuietStep DEF PreparePiece, Answer
  <1>3. CASE pieces' = Track(PieceIDOf[req[h].content], PreparedPiece)
    <2>1. req[h].content \in Contents
      BY <1>1 DEF Request
    <2>2. PieceIDOf[req[h].content] \in PieceIDs
      BY <2>1, ConstantsAssumption
    <2>3. blobs' \in [CIDs -> {"absent", "partial", "cut", "complete"}]
      BY DEF IInv, TypeOK, PreparePiece, disk
    <2>4. UNCHANGED <<parked, messageWaits, calls, restarts>>
      BY DEF PreparePiece, disk
    <2>5. QED
      BY <1>1, <1>3, <2>2, <2>3, <2>4, PieceFact, TrackStep
  <1>4. QED
    BY <1>2, <1>3 DEF PreparePiece

LEMMA UploadPieceStep ==
  ASSUME IInv, NEW h \in Handlers, UploadPiece(h) PROVE IInv'
  <1> DEFINE c == PieceCIDOf[req[h].content]
  <1>1. /\ pc[h] = "waiting" /\ mutex = NoHandler
        /\ req[h] \in [op: {"upload"}, id: PieceIDs, content: Contents]
        /\ req[h].id \notin DOMAIN pieces
        /\ c \in CIDs /\ c # NoCID
    BY ConstantsAssumption DEF IInv, WaitingInv, UploadPiece, Enters, Request
  <1>2. /\ blobs' = [blobs EXCEPT ![c] = "partial"]
        /\ pc' = [pc EXCEPT ![h] = "copying"] /\ mutex' = h
        /\ UNCHANGED <<req, pieces, parked, messageWaits, calls, restarts>>
    BY DEF UploadPiece, HoldAt, Created
  <1> HIDE DEF c
  <1>3. TypeOK'
    BY <1>1, <1>2 DEF IInv, TypeOK
  <1>4. MutexInv' /\ SubmittingInv' /\ WaitingInv'
    BY <1>1, <1>2, ConstantsAssumption
    DEF IInv, TypeOK, MutexInv, SubmittingInv, WaitingInv
  <1>5. CopyingInv'
    BY <1>1, <1>2, ConstantsAssumption DEF IInv, TypeOK, MutexInv, CopyingInv, c
  <1>6. (CalledIn(calls) \subseteq parked)' /\ AtMostOnceSubmission' /\ PiecesInv'
        /\ SubmittedPieceOwnsCall'
    BY <1>2 DEF IInv, CalledIn, AtMostOnceSubmission, PiecesInv, SubmittedPieceOwnsCall
  <1>7. QED
    BY <1>3, <1>4, <1>5, <1>6 DEF IInv

LEMMA FinishUploadStep ==
  ASSUME IInv, NEW h \in Handlers, FinishUpload(h) PROVE IInv'
  <1> DEFINE c == PieceCIDOf[req[h].content]
  <1>1. /\ pc[h] = "copying" /\ mutex = h /\ Answer(h)
        /\ req[h].id \in PieceIDs /\ c \in CIDs
        /\ UNCHANGED <<parked, messageWaits, calls, restarts>>
    BY ConstantsAssumption DEF IInv, MutexInv, CopyingInv, FinishUpload
  <1>2. CASE /\ blobs' = Copied(c)
             /\ pieces' = Track(req[h].id, UploadedPiece(c))
    <2>1. blobs' \in [CIDs -> {"absent", "partial", "cut", "complete"}]
      BY <1>2 DEF IInv, TypeOK, Copied
    <2>2. QED
      BY <1>1, <1>2, <2>1, PieceFact, TrackStep
  <1>3. CASE blobs' = Cut(c) /\ UNCHANGED pieces
    <2>1. TypeOK'
      BY <1>1, <1>3 DEF IInv, TypeOK, Answer, Cut
    <2>2. MutexInv' /\ CopyingInv' /\ SubmittingInv' /\ WaitingInv'
      BY <1>1, <1>3, ConstantsAssumption
      DEF IInv, TypeOK, MutexInv, CopyingInv, SubmittingInv, WaitingInv, Answer
    <2>3. (CalledIn(calls) \subseteq parked)' /\ AtMostOnceSubmission' /\ PiecesInv'
          /\ SubmittedPieceOwnsCall'
      BY <1>1, <1>3 DEF IInv, CalledIn, AtMostOnceSubmission, PiecesInv, SubmittedPieceOwnsCall
    <2>4. QED
      BY <2>1, <2>2, <2>3 DEF IInv
  <1>4. QED
    BY <1>2, <1>3 DEF FinishUpload

LEMMA AddPieceStep ==
  ASSUME IInv, NEW h \in Handlers, AddPieceToProofSet(h) PROVE IInv'
  <1> DEFINE c == pieces[req[h].id].cid
  <1>1. /\ pc[h] = "waiting" /\ mutex = NoHandler
        /\ req[h] \in [op: {"add"}, id: PieceIDs, proofSet: ProofSetIDs]
        /\ req[h].id \in DOMAIN pieces /\ pieces[req[h].id].status = "uploaded"
        /\ c \notin parked
    BY DEF IInv, WaitingInv, AddPieceToProofSet, CreatePiriDatabaseEntries, Enters, Request
  <1>2. /\ parked' = parked \cup {c}
        /\ pc' = [pc EXCEPT ![h] = "submitting"] /\ mutex' = h
        /\ UNCHANGED <<req, pieces, blobs, messageWaits, calls, restarts>>
    BY DEF AddPieceToProofSet, HoldAt, CreatePiriDatabaseEntries
  <1>3. c \in CIDs
    BY <1>1 DEF IInv, TypeOK, PiecesInv, PieceInfo
  <1>4. c \notin CalledIn(calls)
    BY <1>1 DEF IInv
  <1> HIDE DEF c
  <1>5. TypeOK'
    BY <1>1, <1>2, <1>3 DEF IInv, TypeOK
  <1>6. MutexInv' /\ CopyingInv' /\ WaitingInv'
    BY <1>1, <1>2, ConstantsAssumption DEF IInv, TypeOK, MutexInv, CopyingInv, WaitingInv
  <1>7. SubmittingInv'
    BY <1>1, <1>2, <1>4, ConstantsAssumption
    DEF IInv, TypeOK, MutexInv, SubmittingInv, CalledIn, c
  <1>8. (CalledIn(calls) \subseteq parked)' /\ AtMostOnceSubmission' /\ PiecesInv'
        /\ SubmittedPieceOwnsCall'
    BY <1>2 DEF IInv, CalledIn, AtMostOnceSubmission, PiecesInv, SubmittedPieceOwnsCall
  <1>9. QED
    BY <1>5, <1>6, <1>7, <1>8 DEF IInv

\* The call is the first for its CID, and settles the one piece it was for.
LEMMA SubmitRootStep ==
  ASSUME IInv, NEW h \in Handlers, SubmitRoot(h) PROVE IInv'
  <1> DEFINE id == req[h].id
             s == req[h].proofSet
             call == [cid |-> pieces[id].cid, proofSet |-> s]
  <1>1. /\ pc[h] = "submitting" /\ mutex = h /\ Answer(h)
        /\ id \in DOMAIN pieces /\ id \in PieceIDs /\ s \in ProofSetIDs
        /\ pieces[id] \in PieceInfo /\ pieces[id].status = "uploaded"
        /\ pieces[id].cid \in parked /\ pieces[id].cid \notin CalledIn(calls)
        /\ pieces[id].cid \in CIDs
        /\ UNCHANGED <<blobs, parked, messageWaits, restarts>>
    BY DEF IInv, TypeOK, MutexInv, SubmittingInv, SubmitRoot, disk
  <1>2. PICK r \in PiriResults : pieces' = [pieces EXCEPT ![id] = Recorded(@, s, r)]
    BY DEF SubmitRoot
  <1>3. calls' = Append(calls, call) /\ call \in AddRootCall /\ calls \in Seq(AddRootCall)
    BY <1>1 DEF SubmitRoot, AddRootCall, IInv, TypeOK
  <1> DEFINE new == Recorded(pieces[id], s, r)
  <1>4. /\ DOMAIN pieces' = DOMAIN pieces /\ pieces'[id] = new
        /\ \A i \in DOMAIN pieces \ {id} : pieces'[i] = pieces[i]
    BY <1>1, <1>2
  <1>5. /\ new \in PieceInfo /\ new.cid = pieces[id].cid
        /\ new.status \in {"error", "pending_confirmation"}
        /\ new.status = "pending_confirmation" => new.proofSet = s
    <2>1. new \in PieceInfo
      BY <1>1, PieceFact
    <2>2. CASE r = Failed
      BY <1>1, <2>1, <2>2 DEF Recorded, PieceInfo
    <2>3. CASE r # Failed
      BY <1>1, <2>1, <2>3 DEF Recorded, PieceInfo
    <2>4. QED
      BY <2>1, <2>2, <2>3
  <1> HIDE DEF id, s, new
  <1>6. /\ CalledIn(calls') = CalledIn(calls) \cup {pieces[id].cid}
        /\ \A i \in DOMAIN calls : i \in DOMAIN calls' /\ calls'[i] = calls[i]
        /\ \E i \in DOMAIN calls' : calls'[i] = call
        /\ calls' \in Seq(AddRootCall)
        /\ AtMostOnceSubmission'
    BY <1>1, <1>3, AppendFact DEF IInv, AtMostOnceSubmission
  <1>7. TypeOK'
    <2>1. pieces' \in [DOMAIN pieces' -> PieceInfo]
      BY <1>1, <1>2, <1>5 DEF IInv, TypeOK, new
    <2>2. QED
      BY <2>1, <1>1, <1>4, <1>6 DEF IInv, TypeOK, Answer
  <1>8. MutexInv' /\ CopyingInv' /\ SubmittingInv' /\ WaitingInv'
    BY <1>1, ConstantsAssumption
    DEF IInv, TypeOK, MutexInv, CopyingInv, SubmittingInv, WaitingInv, Answer
  <1>9. \A other \in DOMAIN pieces \ {id} :
          pieces[other].cid = pieces[id].cid => pieces[other].status = "uploaded"
    <2>1. \A other \in DOMAIN pieces : pieces[other].status \in Settled \cup {"prepared", "uploaded"}
      BY DEF IInv, TypeOK, PieceInfo, Status, Settled, Submitted
    <2>2. QED
      BY <1>1, <2>1, ConstantsAssumption DEF IInv, PiecesInv
  <1>10. PiecesInv'
    <2>1. ASSUME NEW i \in DOMAIN pieces'
          PROVE  pieces'[i].status = "prepared" <=> pieces'[i].cid = NoCID
      BY <1>1, <1>4, <1>5, ConstantsAssumption DEF IInv, PiecesInv
    <2>2. ASSUME NEW i \in DOMAIN pieces', pieces'[i].status \in Settled
          PROVE  /\ pieces'[i].cid \in CalledIn(calls')
                 /\ \A other \in DOMAIN pieces' \ {i} :
                      pieces'[other].cid = pieces'[i].cid => pieces'[other].status = "uploaded"
      <3>1. CASE i = id
        BY <3>1, <1>4, <1>5, <1>6, <1>9
      <3>2. CASE i # id
        <4>1. pieces[i].cid \in CalledIn(calls) /\ pieces'[i] = pieces[i]
          BY <3>2, <2>2, <1>4 DEF IInv, PiecesInv
        <4>2. pieces[i].cid # pieces[id].cid
          BY <4>1, <1>1
        <4>3. QED
          BY <4>1, <4>2, <3>2, <2>2, <1>4, <1>5, <1>6 DEF IInv, PiecesInv
      <3>3. QED
        BY <3>1, <3>2
    <2>3. QED
      BY <2>1, <2>2 DEF PiecesInv
  <1>11. SubmittedPieceOwnsCall'
    <2>1. ASSUME NEW i \in DOMAIN pieces', pieces'[i].status \in Submitted
          PROVE  \E k \in DOMAIN calls' : calls'[k] = [cid |-> pieces'[i].cid,
                                                       proofSet |-> pieces'[i].proofSet]
      <3>1. CASE i = id
        BY <3>1, <2>1, <1>4, <1>5, <1>6 DEF Submitted
      <3>2. CASE i # id
        BY <3>2, <2>1, <1>4, <1>6 DEF IInv, SubmittedPieceOwnsCall
      <3>3. QED
        BY <3>1, <3>2
    <2>2. QED
      BY <2>1, <1>10 DEF SubmittedPieceOwnsCall, PiecesInv, Settled
  <1>12. QED
    BY <1>1, <1>6, <1>7, <1>8, <1>10, <1>11 DEF IInv

LEMMA MonitorStep ==
  ASSUME IInv, NEW h \in Handlers, MonitorTransactionStatus(h) PROVE IInv'
  <1> DEFINE id == req[h].id
             piece == pieces[id]
             new == [piece EXCEPT !.status = StatusFor(piece, messageWaits[piece.tx])]
             r == [op |-> "get", id |-> id]
  <1>1. /\ pc[h] = "waiting" /\ mutex = NoHandler
        /\ id \in DOMAIN pieces /\ id \in PieceIDs /\ piece \in PieceInfo
        /\ piece.status = "pending_confirmation"
        /\ req' = [req EXCEPT ![h] = r] /\ r \in Request
        /\ UNCHANGED <<pc, mutex, blobs, parked, messageWaits, calls, restarts>>
    BY DEF IInv, TypeOK, MonitorTransactionStatus, Enters, disk, Request
  <1> HIDE DEF id, r
  <1>2. CASE UNCHANGED pieces
    <2>1. pc' = [pc EXCEPT ![h] = "waiting"]
      BY <1>1 DEF IInv, TypeOK
    <2>2. QED
      BY <1>1, <1>2, <2>1, QuietStep DEF disk
  <1>3. CASE piece.tx \in DOMAIN messageWaits /\ pieces' = Track(id, new)
    <2>1. messageWaits[piece.tx] \in TxState
      BY <1>3 DEF IInv, TypeOK
    <2>2. /\ new \in PieceInfo /\ new.cid = piece.cid /\ new.proofSet = piece.proofSet
          /\ new.status \in Submitted
      BY <1>1, <2>1, PieceFact DEF PieceInfo, StatusFor, Submitted
    <2>3. /\ DOMAIN pieces' = DOMAIN pieces
          /\ pieces'[id] = new
          /\ \A i \in DOMAIN pieces \ {id} : pieces'[i] = pieces[i]
      BY <1>1, <1>3 DEF Track
    <2>4. TypeOK'
      BY <1>1, <1>3, <2>2, TrackFact DEF IInv, TypeOK
    <2> HIDE DEF new
    <2>5. MutexInv' /\ CopyingInv' /\ SubmittingInv' /\ WaitingInv'
      BY <1>1, <2>3, ConstantsAssumption
      DEF IInv, TypeOK, MutexInv, CopyingInv, SubmittingInv, WaitingInv
    <2>6. PiecesInv'
      BY <1>1, <2>2, <2>3 DEF IInv, PiecesInv, Settled, Submitted, CalledIn
    <2>7. SubmittedPieceOwnsCall'
      BY <1>1, <2>2, <2>3 DEF IInv, SubmittedPieceOwnsCall, Submitted
    <2>8. QED
      BY <1>1, <2>4, <2>5, <2>6, <2>7 DEF IInv, AtMostOnceSubmission, CalledIn
  <1>4. QED
    BY <1>2, <1>3 DEF MonitorTransactionStatus, id

LEMMA WatcherStep ==
  ASSUME IInv, NEW t \in TxHashes,
         MonitorTransaction(t) \/ \E x \in TxState : UpdateTransaction(t, x)
  PROVE  IInv'
  <1>1. PICK x \in TxState : SetRow(t, x)
    BY DEF MonitorTransaction, UpdateTransaction, TxState
  <1>2. TypeOK'
    BY <1>1 DEF IInv, TypeOK, SetRow, memory
  <1>3. UNCHANGED <<pc, req, mutex, pieces, parked, calls>>
    BY <1>1 DEF SetRow, memory
  <1>4. QED
    BY <1>2, <1>3 DEF IInv, MutexInv, CopyingInv, SubmittingInv, WaitingInv, CalledIn,
                      AtMostOnceSubmission, PiecesInv, SubmittedPieceOwnsCall

LEMMA RestartStep ==
  ASSUME IInv, Restart PROVE IInv'
  <1>1. TypeOK'
    BY DEF IInv, TypeOK, Restart, disk
  <1>2. MutexInv' /\ CopyingInv' /\ SubmittingInv' /\ WaitingInv'
    BY ConstantsAssumption
    DEF Restart, MutexInv, CopyingInv, SubmittingInv, WaitingInv
  <1>3. PiecesInv' /\ SubmittedPieceOwnsCall'
    BY DEF Restart, PiecesInv, SubmittedPieceOwnsCall
  <1>4. QED
    BY <1>1, <1>2, <1>3 DEF IInv, Restart, disk, CalledIn, AtMostOnceSubmission

-------------------------------------------------------------------------------
(* The theorems.                                                           *)

LEMMA NextIInv == IInv /\ [Next]_vars => IInv'
  <1> SUFFICES ASSUME IInv, [Next]_vars PROVE IInv'
    OBVIOUS
  <1>1. ASSUME NEW h \in Handlers, Enter(h) PROVE IInv'
    BY <1>1, PreparePieceStep, RefusalStep, UploadPieceStep, AddPieceStep, MonitorStep DEF Enter
  <1>2. ASSUME NEW h \in Handlers, Finish(h) PROVE IInv'
    BY <1>2, FinishUploadStep, SubmitRootStep DEF Finish
  <1>3. CASE UNCHANGED vars
    BY <1>3 DEF vars, memory, disk, IInv, TypeOK, MutexInv, CopyingInv, SubmittingInv, WaitingInv,
                CalledIn, AtMostOnceSubmission, PiecesInv, SubmittedPieceOwnsCall
  <1>4. QED
    BY <1>1, <1>2, <1>3, HandleStep, WatcherStep, RestartStep DEF Next

\* The inductive invariant holds in every reachable state of the service.
THEOREM Invariance == Spec => []IInv
  <1>1. QED
    BY InitIInv, NextIInv, PTL DEF Spec

\* Every reachable state of the piece service is well typed.
THEOREM TypeCorrect == Spec => []TypeOK
  <1>1. IInv => TypeOK
    BY DEF IInv
  <1>2. QED
    BY <1>1, Invariance, PTL

\* AddPieceToProofSet hands each piece commitment to Piri at most once, across
\* piece IDs, failed calls and restarts.
THEOREM AtMostOnce == Spec => []AtMostOnceSubmission
  <1>1. IInv => AtMostOnceSubmission
    BY DEF IInv
  <1>2. QED
    BY <1>1, Invariance, PTL

\* A status that claims a submission names a call that was made, for that piece
\* alone.
THEOREM SubmissionOwned == Spec => []SubmittedPieceOwnsCall
  <1>1. IInv => SubmittedPieceOwnsCall
    BY DEF IInv
  <1>2. QED
    BY <1>1, Invariance, PTL

\* No number of requests ever waits for each other: the mutex is held only by a
\* request whose copy or call is under way, with all that its last step uses.
THEOREM NeverAllBlocked == Spec => []NeverBlocked
  <1>1. ASSUME IInv, NEW h \in Handlers, mutex = h PROVE MayStep(h)
    <2>1. CASE pc[h] = "copying"
      BY <1>1, <2>1, ConstantsAssumption DEF IInv, CopyingInv, MayStep
    <2>2. CASE pc[h] = "submitting"
      BY <1>1, <2>2 DEF IInv, SubmittingInv, MayStep
    <2>3. QED
      BY <1>1, <2>1, <2>2 DEF IInv, MutexInv
  <1>2. ASSUME IInv, NEW h \in Handlers, pc[h] # "idle"
        PROVE  MayStep(h) \/ (mutex \in Handlers \ {h} /\ MayStep(mutex))
    <2>1. CASE mutex = NoHandler
      BY <1>2, <2>1, ConstantsAssumption DEF IInv, TypeOK, MutexInv, MayStep
    <2>2. CASE mutex \in Handlers
      BY <1>1, <1>2, <2>2
    <2>3. QED
      BY <1>2, <2>1, <2>2 DEF IInv, TypeOK
  <1>3. IInv => NeverBlocked
    BY <1>2 DEF NeverBlocked
  <1>4. QED
    BY <1>3, Invariance, PTL

\* A claim without a submission at hand is never submitted: the commit refuses
\* a second claim, and only its mutex holder submits.
THEOREM OrphanedRows == Spec => OrphanedRowsStayOrphaned
  <1> DEFINE Orphaned(c) == \A h \in Handlers : ~Submitting(h, c)
  <1>1. ASSUME IInv, [Next]_vars, NEW c \in parked, Orphaned(c), NEW g \in Handlers,
               Submitting(g, c)'
        PROVE  FALSE
    <2>1. pc'[g] = "submitting" /\ pieces'[req'[g].id].cid = c
      BY <1>1 DEF Submitting
    <2>2. pc[g] # "submitting" \/ pieces[req[g].id].cid # c
      BY <1>1 DEF Submitting
    <2>3. ASSUME NEW h \in Handlers, AddPieceToProofSet(h) PROVE FALSE
      BY <2>1, <2>2, <2>3, <1>1 DEF AddPieceToProofSet, CreatePiriDatabaseEntries, HoldAt, IInv,
                                            TypeOK
    <2>4. ASSUME NEW h \in Handlers,
                 Handle(h) \/ Finish(h) \/ PreparePiece(h) \/ RejectTrackedUpload(h)
                   \/ RefuseUpload(h) \/ UploadPiece(h) \/ RefuseAdd(h) \/ RefuseMonitor(h)
                   \/ MonitorTransactionStatus(h) \/ GetPiece(h)
          PROVE  FALSE
      <3>1. mutex # g => pc[g] # "submitting"
        BY <1>1 DEF IInv, MutexInv
      <3>2. CASE Handle(h)
        BY <2>1, <2>2, <2>4, <3>2, <1>1
        DEF Handle, HandlePreparePiece, HandleUploadPiece, HandleAddPieceToProofSet,
            HandleGetPiece, HandleMonitorTransaction, Accept, IInv, TypeOK
      <3>3. CASE Finish(h)
        <4>1. mutex = h /\ Answer(h)
          BY <1>1, <3>3 DEF Finish, FinishUpload, SubmitRoot, IInv, MutexInv
        <4>2. QED
          BY <4>1, <3>1, <2>1, <1>1, ConstantsAssumption DEF Answer, IInv, TypeOK
      <3>4. CASE \/ PreparePiece(h) \/ RejectTrackedUpload(h) \/ RefuseUpload(h)
                 \/ RefuseAdd(h) \/ RefuseMonitor(h) \/ GetPiece(h)
                 \/ MonitorTransactionStatus(h) \/ UploadPiece(h)
        <4>1. mutex = NoHandler /\ \/ Answer(h) \/ HoldAt(h, "copying") \/ UNCHANGED pc
          BY <3>4 DEF PreparePiece, RejectTrackedUpload, RefuseUpload, RefuseAdd, RefuseMonitor,
                      GetPiece, MonitorTransactionStatus, UploadPiece, Enters
        <4>2. QED
          BY <4>1, <3>1, <2>1, <1>1, ConstantsAssumption DEF Answer, HoldAt, IInv, TypeOK
      <3>5. QED
        BY <2>4, <3>2, <3>3, <3>4
    <2>5. ASSUME NEW t \in TxHashes,
                 MonitorTransaction(t) \/ \E x \in TxState : UpdateTransaction(t, x)
          PROVE  FALSE
      BY <2>1, <2>2, <2>5 DEF MonitorTransaction, UpdateTransaction, SetRow, memory
    <2>6. CASE Restart
      BY <2>1, <2>6 DEF Restart
    <2>7. CASE UNCHANGED vars
      BY <2>1, <2>2, <2>7 DEF vars, memory
    <2>8. QED
      BY <2>3, <2>4, <2>5, <2>6, <2>7, <1>1 DEF Next, Enter
  <1>2. IInv /\ [Next]_vars =>
          [\A c \in parked : (\A h \in Handlers : ~Submitting(h, c)) =>
                             (\A h \in Handlers : ~Submitting(h, c)')]_vars
    BY <1>1
  <1>3. QED
    BY <1>2, Invariance, PTL DEF Spec, OrphanedRowsStayOrphaned

\* Adding pieces to proof sets implements the abstract ledger: a commit of the
\* rows is a Claim, a call of ProofSetAddRoot a Submit, and the rest stutters.
THEOREM ImplementsLedger == Spec => LedgerSpec
  <1>1. Init => Ledger!Init
    BY DEF Init, Ledger!Init
  <1>2. IInv /\ [Next]_vars => [Ledger!Next]_(Ledger!ledgerVars)
    <2> SUFFICES ASSUME IInv, [Next]_vars PROVE Ledger!Next \/ UNCHANGED <<parked, calls>>
      BY DEF Ledger!ledgerVars
    <2>1. ASSUME NEW h \in Handlers, AddPieceToProofSet(h)
          PROVE  \E c \in CIDs : Ledger!Claim(c)
      <3>1. /\ req[h].id \in DOMAIN pieces /\ pieces[req[h].id].status = "uploaded"
            /\ pieces[req[h].id].cid \in CIDs
        BY <2>1 DEF AddPieceToProofSet, IInv, TypeOK, PiecesInv, PieceInfo
      <3>2. Ledger!Claim(pieces[req[h].id].cid)
        BY <2>1 DEF AddPieceToProofSet, CreatePiriDatabaseEntries, Ledger!Claim
      <3>3. QED
        BY <3>1, <3>2
    <2>2. ASSUME NEW h \in Handlers, SubmitRoot(h)
          PROVE  \E c \in CIDs, s \in ProofSetIDs : Ledger!Submit(c, s)
      <3>1. /\ req[h].proofSet \in ProofSetIDs
            /\ pieces[req[h].id].cid \in parked \ CalledIn(calls)
            /\ pieces[req[h].id].cid \in CIDs
        BY <2>2 DEF SubmitRoot, IInv, TypeOK, SubmittingInv
      <3>2. Ledger!Submit(pieces[req[h].id].cid, req[h].proofSet)
        BY <2>2, <3>1 DEF SubmitRoot, Ledger!Submit, Ledger!LoggedIn, CalledIn, disk
      <3>3. QED
        BY <3>1, <3>2
    <2>3. ASSUME NEW h \in Handlers,
                 Handle(h) \/ FinishUpload(h) \/ PreparePiece(h) \/ RejectTrackedUpload(h)
                   \/ RefuseUpload(h) \/ UploadPiece(h) \/ RefuseAdd(h) \/ RefuseMonitor(h)
                   \/ MonitorTransactionStatus(h) \/ GetPiece(h)
          PROVE  UNCHANGED <<parked, calls>>
      BY <2>3 DEF Handle, HandlePreparePiece, HandleUploadPiece, HandleAddPieceToProofSet,
                  HandleGetPiece, HandleMonitorTransaction, Accept, FinishUpload, PreparePiece,
                  RejectTrackedUpload, RefuseUpload, UploadPiece, RefuseAdd, RefuseMonitor,
                  MonitorTransactionStatus, GetPiece, disk
    <2>4. ASSUME NEW t \in TxHashes,
                 MonitorTransaction(t) \/ \E x \in TxState : UpdateTransaction(t, x)
          PROVE  UNCHANGED <<parked, calls>>
      BY <2>4 DEF MonitorTransaction, UpdateTransaction, SetRow
    <2>5. CASE Restart \/ UNCHANGED vars
      BY <2>5 DEF Restart, vars, disk
    <2>6. QED
      BY <2>1, <2>2, <2>3, <2>4, <2>5 DEF Next, Enter, Finish, Ledger!Next
  <1>3. QED
    BY <1>1, <1>2, Invariance, PTL DEF Spec, LedgerSpec, Ledger!Spec

-------------------------------------------------------------------------------
(* The blobs.                                                              *)

\* The last Put of a tracked piece's blob has ended, or the mutex's holder is at it.
BlobsInv ==
  \A id \in DOMAIN pieces : pieces[id].cid # NoCID =>
    \/ blobs[pieces[id].cid] \in PutEnded
    \/ \E h \in Handlers : pc[h] = "copying" /\ PieceCIDOf[req[h].content] = pieces[id].cid

LEMMA BlobsStep ==
  ASSUME IInv, IInv', BlobsInv, [Next]_vars PROVE BlobsInv'
  <1>1. ASSUME NEW id \in DOMAIN pieces, id \in DOMAIN pieces', pieces'[id].cid = pieces[id].cid,
               pieces[id].cid # NoCID, blobs' = blobs,
               \A h \in Handlers : pc[h] = "copying" => pc'[h] = "copying" /\ req'[h] = req[h]
        PROVE  \/ blobs'[pieces'[id].cid] \in PutEnded
               \/ \E h \in Handlers : pc'[h] = "copying"
                                       /\ PieceCIDOf[req'[h].content] = pieces'[id].cid
    BY <1>1 DEF BlobsInv
  <1>2. ASSUME blobs' = blobs,
               \A id \in DOMAIN pieces' : pieces'[id].cid # NoCID =>
                 id \in DOMAIN pieces /\ pieces'[id].cid = pieces[id].cid,
               \A h \in Handlers : pc[h] = "copying" => pc'[h] = "copying" /\ req'[h] = req[h]
        PROVE  BlobsInv'
    BY <1>1, <1>2 DEF BlobsInv
  <1>3. ASSUME NEW h \in Handlers,
               Handle(h) \/ AddPieceToProofSet(h)
                 \/ RejectTrackedUpload(h) \/ RefuseUpload(h) \/ RefuseAdd(h)
                 \/ RefuseMonitor(h) \/ GetPiece(h)
        PROVE  BlobsInv'
    <2>1. blobs' = blobs /\ pieces' = pieces /\ pc[h] \in {"idle", "waiting"}
          /\ \E p, r : pc' = [pc EXCEPT ![h] = p] /\ req' = [req EXCEPT ![h] = r]
      BY <1>3 DEF Handle, HandlePreparePiece, HandleUploadPiece, HandleAddPieceToProofSet,
                  HandleGetPiece, HandleMonitorTransaction, Accept, RejectTrackedUpload,
                  RefuseUpload, RefuseAdd, RefuseMonitor, GetPiece, AddPieceToProofSet, Enters,
                  Answer, HoldAt, disk, IInv, TypeOK
    <2>2. \A g \in Handlers : pc[g] = "copying" => pc'[g] = "copying" /\ req'[g] = req[g]
      BY <2>1 DEF IInv, TypeOK
    <2>3. QED
      BY <2>1, <2>2, <1>2
  <1>4. ASSUME NEW h \in Handlers, PreparePiece(h) PROVE BlobsInv'
    <2>1. blobs' = blobs /\ pc[h] = "waiting" /\ Answer(h)
          /\ \A id \in DOMAIN pieces' : pieces'[id].cid # NoCID =>
               id \in DOMAIN pieces /\ pieces'[id].cid = pieces[id].cid
      BY <1>4 DEF PreparePiece, Enters, disk, Track, PreparedPiece
    <2>2. \A g \in Handlers : pc[g] = "copying" => pc'[g] = "copying" /\ req'[g] = req[g]
      BY <2>1 DEF IInv, TypeOK, Answer
    <2>3. QED
      BY <2>1, <2>2, <1>2
  <1>5. ASSUME NEW h \in Handlers, MonitorTransactionStatus(h) PROVE BlobsInv'
    <2>1. blobs' = blobs /\ pc' = pc /\ pc[h] = "waiting"
          /\ \E r : req' = [req EXCEPT ![h] = r]
      BY <1>5 DEF MonitorTransactionStatus, Enters, disk
    <2>2. \A id \in DOMAIN pieces' : id \in DOMAIN pieces /\ pieces'[id].cid = pieces[id].cid
      BY <1>5 DEF MonitorTransactionStatus, Track, IInv, TypeOK, PieceInfo
    <2>3. QED
      BY <2>1, <2>2, <1>2 DEF IInv, TypeOK
  <1>6. ASSUME NEW h \in Handlers, SubmitRoot(h) PROVE BlobsInv'
    <2>1. blobs' = blobs /\ pc[h] = "submitting" /\ Answer(h)
      BY <1>6 DEF SubmitRoot, disk
    <2>2. \A id \in DOMAIN pieces' : id \in DOMAIN pieces /\ pieces'[id].cid = pieces[id].cid
      <3>1. PICK r \in PiriResults : pieces' = [pieces EXCEPT ![req[h].id] =
                                                  Recorded(@, req[h].proofSet, r)]
        BY <1>6 DEF SubmitRoot
      <3>2. \A piece \in PieceInfo : Recorded(piece, req[h].proofSet, r).cid = piece.cid
        <4>1. CASE r = Failed
          BY <4>1 DEF Recorded, PieceInfo
        <4>2. CASE r # Failed
          BY <4>2 DEF Recorded, PieceInfo
        <4>3. QED
          BY <4>1, <4>2
      <3>3. QED
        BY <3>1, <3>2 DEF IInv, TypeOK
    <2>3. \A g \in Handlers : pc[g] = "copying" => pc'[g] = "copying" /\ req'[g] = req[g]
      BY <2>1 DEF IInv, TypeOK, Answer
    <2>4. QED
      BY <2>1, <2>2, <2>3, <1>2
  <1>7. ASSUME NEW h \in Handlers, UploadPiece(h) PROVE BlobsInv'
    <2> DEFINE c == PieceCIDOf[req[h].content]
    <2>1. /\ pieces' = pieces /\ blobs' = [blobs EXCEPT ![c] = "partial"] /\ req' = req
          /\ pc'[h] = "copying" /\ \A g \in Handlers \ {h} : pc'[g] = pc[g]
          /\ pc[h] = "waiting"
      BY <1>7 DEF UploadPiece, Created, Enters, HoldAt, IInv, TypeOK
    <2>2. ASSUME NEW id \in DOMAIN pieces, pieces[id].cid # NoCID
          PROVE  pieces[id].cid \in CIDs
      BY <2>2 DEF IInv, TypeOK, PieceInfo
    <2>3. QED
      BY <2>1, <2>2 DEF BlobsInv, IInv, TypeOK
  <1>8. ASSUME NEW h \in Handlers, FinishUpload(h) PROVE BlobsInv'
    <2> DEFINE c == PieceCIDOf[req[h].content]
    <2>1. /\ pieces' = Track(req[h].id, UploadedPiece(c)) \/ pieces' = pieces
          /\ blobs' = [blobs EXCEPT ![c] = "complete"] \/ blobs' = [blobs EXCEPT ![c] = "cut"]
          /\ c \in CIDs /\ mutex = h
      BY <1>8, ConstantsAssumption DEF FinishUpload, Copied, Cut, IInv, CopyingInv, MutexInv
    <2>2. \A g \in Handlers : pc[g] = "copying" => g = h
      BY <2>1 DEF IInv, MutexInv
    <2>3. blobs'[c] \in PutEnded /\ \A d \in CIDs \ {c} : blobs'[d] = blobs[d]
      BY <2>1 DEF IInv, TypeOK, PutEnded
    <2> HIDE DEF c
    <2>4. ASSUME NEW id \in DOMAIN pieces', pieces'[id].cid # NoCID
          PROVE  blobs'[pieces'[id].cid] \in PutEnded
      <3>1. CASE pieces'[id].cid = c
        BY <3>1, <2>3
      <3>2. CASE pieces'[id].cid # c
        <4>1. id \in DOMAIN pieces /\ pieces'[id] = pieces[id]
          BY <3>2, <2>1 DEF Track, UploadedPiece
        <4>2. pieces[id].cid \in CIDs \ {c}
          BY <4>1, <3>2, <2>4 DEF IInv, TypeOK, PieceInfo
        <4>3. blobs[pieces[id].cid] \in PutEnded
          BY <4>1, <4>2, <2>2, <2>4 DEF BlobsInv, c
        <4>4. QED
          BY <4>1, <4>2, <4>3, <2>3
      <3>3. QED
        BY <3>1, <3>2
    <2>5. QED
      BY <2>4 DEF BlobsInv
  <1>9. ASSUME NEW t \in TxHashes,
               MonitorTransaction(t) \/ \E x \in TxState : UpdateTransaction(t, x)
        PROVE  BlobsInv'
    BY <1>9 DEF MonitorTransaction, UpdateTransaction, SetRow, memory, BlobsInv
  <1>10. CASE Restart
    BY <1>10 DEF Restart, BlobsInv
  <1>11. CASE UNCHANGED vars
    BY <1>11 DEF vars, memory, disk, BlobsInv
  <1>12. QED
    BY <1>3, <1>4, <1>5, <1>6, <1>7, <1>8, <1>9, <1>10, <1>11 DEF Next, Enter, Finish

\* Every piece the service answers for has its whole content in the blob store
\* whenever the mutex is free, unless the last Put of it failed in the copy, in
\* spite of crashes and of re-uploads that truncate a shared blob.
THEOREM BlobsComplete == Spec => []UnlockedBlobsComplete
  <1>1. Init => BlobsInv
    BY DEF Init, BlobsInv
  <1>2. IInv /\ IInv' /\ BlobsInv /\ [Next]_vars => BlobsInv'
    BY BlobsStep
  <1>3. IInv /\ BlobsInv => UnlockedBlobsComplete
    BY ConstantsAssumption DEF IInv, MutexInv, BlobsInv, UnlockedBlobsComplete
  <1>4. QED
    BY <1>1, <1>2, <1>3, Invariance, PTL DEF Spec

-------------------------------------------------------------------------------
(* Confirmations.                                                          *)

LEMMA ConfirmedStep ==
  ASSUME IInv, IInv', ConfirmedOnlyByRow, [Next]_vars PROVE ConfirmedOnlyByRow'
  <1>1. ASSUME \A id \in DOMAIN pieces' : pieces'[id].status = "added_to_proofset" =>
                 id \in DOMAIN pieces /\ pieces'[id] = pieces[id],
               CalledIn(calls) \subseteq CalledIn(calls'),
               \A t \in DOMAIN messageWaits :
                 messageWaits[t] = "succeeded" =>
                   t \in DOMAIN messageWaits' /\ messageWaits'[t] = "succeeded"
        PROVE  ConfirmedOnlyByRow'
    BY <1>1 DEF ConfirmedOnlyByRow
  <1>2. ASSUME NEW h \in Handlers, MonitorTransactionStatus(h) PROVE ConfirmedOnlyByRow'
    <2> DEFINE id == req[h].id
               piece == pieces[id]
    <2>1. /\ id \in DOMAIN pieces /\ piece.status = "pending_confirmation"
          /\ piece \in PieceInfo /\ piece.cid \in CalledIn(calls)
          /\ UNCHANGED <<calls, messageWaits>>
      BY <1>2 DEF MonitorTransactionStatus, IInv, TypeOK, PiecesInv, Settled, Submitted, disk
    <2>2. CASE UNCHANGED pieces
      BY <2>1, <2>2 DEF ConfirmedOnlyByRow, CalledIn
    <2>3. CASE /\ piece.tx \in DOMAIN messageWaits
               /\ pieces' = Track(id, [piece EXCEPT !.status =
                                         StatusFor(piece, messageWaits[piece.tx])])
      <3>1. /\ DOMAIN pieces' = DOMAIN pieces
            /\ \A i \in DOMAIN pieces \ {id} : pieces'[i] = pieces[i]
            /\ pieces'[id].cid = piece.cid /\ pieces'[id].tx = piece.tx
            /\ pieces'[id].status = StatusFor(piece, messageWaits[piece.tx])
        BY <2>1, <2>3 DEF Track, PieceInfo
      <3>2. StatusFor(piece, messageWaits[piece.tx]) = "added_to_proofset" =>
              messageWaits[piece.tx] = "succeeded"
        BY <2>1 DEF StatusFor
      <3>3. QED
        BY <2>1, <2>3, <3>1, <3>2 DEF ConfirmedOnlyByRow, CalledIn
    <2>4. QED
      BY <1>2, <2>2, <2>3 DEF MonitorTransactionStatus
  <1>3. ASSUME NEW h \in Handlers, SubmitRoot(h) PROVE ConfirmedOnlyByRow'
    <2>1. PICK r \in PiriResults : pieces' = [pieces EXCEPT ![req[h].id] =
                                                Recorded(@, req[h].proofSet, r)]
      BY <1>3 DEF SubmitRoot
    <2>2. Recorded(pieces[req[h].id], req[h].proofSet, r).status # "added_to_proofset"
      <3>1. pieces[req[h].id] \in PieceInfo
        BY <1>3 DEF SubmitRoot, IInv, TypeOK, SubmittingInv
      <3>2. CASE r = Failed
        BY <3>1, <3>2 DEF Recorded, PieceInfo
      <3>3. CASE r # Failed
        BY <3>1, <3>3 DEF Recorded, PieceInfo
      <3>4. QED
        BY <3>2, <3>3
    <2>3. CalledIn(calls) \subseteq CalledIn(calls')
      <3>1. calls' = Append(calls, [cid |-> pieces[req[h].id].cid, proofSet |-> req[h].proofSet])
            /\ [cid |-> pieces[req[h].id].cid, proofSet |-> req[h].proofSet] \in AddRootCall
            /\ calls \in Seq(AddRootCall)
        BY <1>3 DEF SubmitRoot, IInv, TypeOK, SubmittingInv, AddRootCall
      <3>2. QED
        BY <3>1, AppendFact
    <2>4. messageWaits' = messageWaits
      BY <1>3 DEF SubmitRoot, disk
    <2>5. QED
      BY <2>1, <2>2, <2>3, <2>4, <1>1
  <1>4. ASSUME NEW h \in Handlers, FinishUpload(h) \/ PreparePiece(h) PROVE ConfirmedOnlyByRow'
    BY <1>4, <1>1 DEF FinishUpload, PreparePiece, Track, UploadedPiece, PreparedPiece, disk
  <1>5. ASSUME NEW h \in Handlers,
               Handle(h) \/ AddPieceToProofSet(h) \/ RejectTrackedUpload(h) \/ RefuseUpload(h)
                 \/ UploadPiece(h) \/ RefuseAdd(h) \/ RefuseMonitor(h) \/ GetPiece(h)
        PROVE  ConfirmedOnlyByRow'
    <2>1. UNCHANGED <<pieces, calls, messageWaits>>
      BY <1>5 DEF Handle, HandlePreparePiece, HandleUploadPiece, HandleAddPieceToProofSet,
                  HandleGetPiece, HandleMonitorTransaction, Accept, AddPieceToProofSet,
                  RejectTrackedUpload, RefuseUpload, UploadPiece, RefuseAdd, RefuseMonitor,
                  GetPiece, disk
    <2>2. QED
      BY <2>1 DEF ConfirmedOnlyByRow, CalledIn
  <1>6. ASSUME NEW t \in TxHashes,
               MonitorTransaction(t) \/ \E x \in TxState : UpdateTransaction(t, x)
        PROVE  ConfirmedOnlyByRow'
    BY <1>6, <1>1 DEF MonitorTransaction, UpdateTransaction, SetRow, memory
  <1>7. CASE Restart
    BY <1>7 DEF Restart, ConfirmedOnlyByRow
  <1>8. CASE UNCHANGED vars
    BY <1>8 DEF vars, memory, disk, ConfirmedOnlyByRow, CalledIn
  <1>9. QED
    BY <1>2, <1>3, <1>4, <1>5, <1>6, <1>7, <1>8 DEF Next, Enter, Finish

\* "added_to_proofset" is never reported for a piece without a call, or before
\* its transaction's row says it succeeded.
THEOREM ConfirmedByRow == Spec => []ConfirmedOnlyByRow
  <1>1. Init => ConfirmedOnlyByRow
    BY DEF Init, ConfirmedOnlyByRow
  <1>2. IInv /\ IInv' /\ ConfirmedOnlyByRow /\ [Next]_vars => ConfirmedOnlyByRow'
    BY ConfirmedStep
  <1>3. QED
    BY <1>1, <1>2, Invariance, PTL DEF Spec

===============================================================================
