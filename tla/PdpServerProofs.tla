---------------------------- MODULE PdpServerProofs ----------------------------
(* The server is a piece service, and its confirmations are Piri's, for any *)
(* number of requests, pieces, transactions and restarts.                   *)
EXTENDS PdpServer, PieceServiceProofs

-------------------------------------------------------------------------------
(* The rows.                                                               *)

LEMMA TxStateFact == Rows!TxState = TxState /\ Rows!Decided \subseteq TxState
  BY DEF Rows!TxState, Rows!Decided, TxState

\* A request changes no row.
LEMMA ServeKeepsRows ==
  ASSUME NEW h \in Handlers, Serve(h)
  PROVE  UNCHANGED <<messageWaits, piriRows>>
  BY DEF Serve, Handle, Enter, Finish, HandlePreparePiece, HandleUploadPiece,
         HandleAddPieceToProofSet, HandleGetPiece, HandleMonitorTransaction, Accept, PreparePiece,
         RejectTrackedUpload, RefuseUpload, UploadPiece, RefuseAdd, AddPieceToProofSet,
         RefuseMonitor, MonitorTransactionStatus, GetPiece, FinishUpload, SubmitRoot, disk

LEMMA InitRowsInv == ServerInit => RowsInv
  BY DEF ServerInit, Init, RowsInv, Rows!ResolvedAsPiri

LEMMA NextRowsInv == RowsInv /\ [ServerNext]_serverVars => RowsInv'
  <1> USE DEF RowsInv, Rows!ResolvedAsPiri
  <1>1. ASSUME RowsInv, NEW t \in TxHashes, Watch(t) PROVE RowsInv'
    <2> DEFINE written == Rows!WithRow(messageWaits, t, "pending")
    <2>1. messageWaits' = written /\ piriRows' = piriRows
      BY <1>1 DEF Watch, Rows!Watch
    <2>2. /\ DOMAIN written = DOMAIN messageWaits \cup {t}
          /\ written[t] = "pending"
          /\ \A u \in DOMAIN messageWaits \ {t} : written[u] = messageWaits[u]
      BY DEF Rows!WithRow
    <2> HIDE DEF written
    <2>3. QED
      BY <1>1, <2>1, <2>2
  <1>2. ASSUME RowsInv, NEW t \in TxHashes, Mirror(t) PROVE RowsInv'
    <2> DEFINE written == Rows!WithRow(messageWaits, t, piriRows[t])
    <2>1. messageWaits' = written /\ piriRows' = piriRows /\ t \in DOMAIN piriRows
      BY <1>2 DEF Mirror, Rows!Mirror
    <2>2. /\ DOMAIN written = DOMAIN messageWaits \cup {t}
          /\ written[t] = piriRows[t]
          /\ \A u \in DOMAIN messageWaits \ {t} : written[u] = messageWaits[u]
      BY DEF Rows!WithRow
    <2> HIDE DEF written
    <2>3. QED
      BY <1>2, <2>1, <2>2
  <1>3. ASSUME RowsInv, NEW t \in TxHashes, Piri(t) PROVE RowsInv'
    <2>1. messageWaits' = messageWaits
      BY <1>3 DEF Piri, Rows!Piri, Rows!PiriSends, Rows!PiriDecides
    <2>2. PICK x \in TxState : /\ piriRows' = Rows!WithRow(piriRows, t, x)
                               /\ t \in DOMAIN piriRows => piriRows[t] = "pending"
      BY <1>3, TxStateFact DEF Piri, Rows!Piri, Rows!PiriSends, Rows!PiriDecides, TxState
    <2> DEFINE written == Rows!WithRow(piriRows, t, x)
    <2>3. /\ DOMAIN written = DOMAIN piriRows \cup {t}
          /\ written[t] = x
          /\ \A u \in DOMAIN piriRows \ {t} : written[u] = piriRows[u]
      BY DEF Rows!WithRow
    <2>4. piriRows' = written
      BY <2>2
    <2> HIDE DEF written
    <2>5. QED
      BY <1>3, <2>1, <2>2, <2>3, <2>4
  <1>4. ASSUME RowsInv, UNCHANGED <<messageWaits, piriRows>> PROVE RowsInv'
    BY <1>4
  <1>5. ASSUME RowsInv, Start \/ Crash \/ UNCHANGED serverVars PROVE RowsInv'
    BY <1>4, <1>5 DEF Start, Crash, Restart, serverVars, vars, disk
  <1>6. QED
    BY <1>1, <1>2, <1>3, <1>4, <1>5, ServeKeepsRows, WatchedAssumption DEF ServerNext

LEMMA RowsInvariance == ServerSpec => []RowsInv
  <1>1. QED
    BY InitRowsInv, NextRowsInv, PTL DEF ServerSpec

-------------------------------------------------------------------------------
(* The server implements the piece service.                                *)

LEMMA PieceStep ==
  ASSUME RowsInv, [ServerNext]_serverVars PROVE [Next]_vars
  <1>1. ASSUME NEW h \in Handlers, Serve(h) PROVE Next
    BY <1>1 DEF Serve, Next
  <1>2. ASSUME NEW t \in TxHashes, Watch(t) PROVE Next
    <2>1. MonitorTransaction(t)
      BY <1>2 DEF Watch, Rows!Watch, Rows!WithRow, MonitorTransaction, SetRow, pieceVars
    <2>2. QED
      BY <2>1 DEF Next
  <1>3. ASSUME NEW t \in TxHashes, Mirror(t) PROVE Next
    <2>1. UpdateTransaction(t, piriRows[t]) /\ piriRows[t] \in TxState
      BY <1>3 DEF Mirror, Rows!Mirror, Rows!WithRow, UpdateTransaction, SetRow, pieceVars, RowsInv
    <2>2. QED
      BY <2>1 DEF Next
  <1>4. ASSUME NEW t \in TxHashes, Piri(t) PROVE UNCHANGED vars
    BY <1>4 DEF Piri, Rows!Piri, Rows!PiriSends, Rows!PiriDecides, pieceVars, vars, disk
  <1>5. QED
    BY <1>1, <1>2, <1>3, <1>4, WatchedAssumption DEF ServerNext, Start, Crash, Next, serverVars

\* Every behaviour of the server is one of PieceService: whatever is proved of
\* the piece service holds in the server.
THEOREM ServesPieces == ServerSpec => PieceSpec
  <1>1. ServerInit => Init
    BY DEF ServerInit
  <1>2. RowsInv /\ [ServerNext]_serverVars => [Next]_vars
    BY PieceStep
  <1>3. QED
    BY <1>1, <1>2, RowsInvariance, PTL DEF ServerSpec, PieceSpec, Spec

\* A commitment is submitted at most once by the server as a whole.
THEOREM ServerSubmitsOnce == ServerSpec => []AtMostOnceSubmission
  <1>1. QED
    BY ServesPieces, AtMostOnce, PTL DEF PieceSpec

\* A piece that is reported as in its proof set is so by Piri's own database.
THEOREM ConfirmedByPiri == ServerSpec => []ConfirmedAsPiri
  <1>1. RowsInv /\ ConfirmedOnlyByRow => ConfirmedAsPiri
    BY DEF RowsInv, Rows!ResolvedAsPiri, ConfirmedOnlyByRow, ConfirmedAsPiri
  <1>2. QED
    BY <1>1, RowsInvariance, ServesPieces, ConfirmedByRow, PTL DEF PieceSpec

\* The row Piri writes leaves its table a table of statuses.
LEMMA TablesStep ==
  ASSUME piriRows \in Rows!Tables, [ServerNext]_serverVars
  PROVE  piriRows' \in Rows!Tables
  <1>1. ASSUME NEW t \in TxHashes, Piri(t) PROVE piriRows' \in Rows!Tables
    <2>1. PICK x \in Rows!TxState : piriRows' = Rows!WithRow(piriRows, t, x)
      BY <1>1 DEF Piri, Rows!Piri, Rows!PiriSends, Rows!PiriDecides, Rows!TxState
    <2>2. PICK S \in SUBSET TxHashes : piriRows \in [S -> Rows!TxState]
      BY DEF Rows!Tables
    <2>3. piriRows' \in [S \cup {t} -> Rows!TxState]
      BY <2>1, <2>2 DEF Rows!WithRow
    <2>4. S \cup {t} \in SUBSET TxHashes
      BY <2>2
    <2>5. QED
      BY <2>3, <2>4 DEF Rows!Tables
  <1>2. ASSUME NEW t \in TxHashes, Watch(t) \/ Mirror(t) PROVE UNCHANGED piriRows
    BY <1>2 DEF Watch, Rows!Watch, Mirror, Rows!Mirror
  <1>3. ASSUME Start \/ Crash \/ UNCHANGED serverVars PROVE UNCHANGED piriRows
    BY <1>3 DEF Start, Crash, serverVars
  <1>4. QED
    BY <1>1, <1>2, <1>3, ServeKeepsRows, WatchedAssumption DEF ServerNext

LEMMA StartedStep ==
  ASSUME started \in BOOLEAN, [ServerNext]_serverVars
  PROVE  started' \in BOOLEAN
  BY Zenon DEF ServerNext, Start, Serve, Watch, Rows!Watch, Mirror, Rows!Mirror, Piri, Rows!Piri,
               Rows!PiriSends, Rows!PiriDecides, Crash, serverVars

\* Every reachable state of the server is well typed, Piri's table included.
THEOREM ServerTypeCorrect == ServerSpec => []ServerTypeOK
  <1>1. ServerInit => piriRows \in Rows!Tables /\ started \in BOOLEAN
    <2>1. << >> \in [{} -> Rows!TxState]
      OBVIOUS
    <2>2. QED
      BY <2>1 DEF ServerInit, Rows!Tables
  <1>2. piriRows \in Rows!Tables /\ started \in BOOLEAN /\ [ServerNext]_serverVars
          => (piriRows \in Rows!Tables /\ started \in BOOLEAN)'
    BY TablesStep, StartedStep
  <1>3. ServerTypeOK <=> TypeOK /\ piriRows \in Rows!Tables /\ started \in BOOLEAN
    BY DEF ServerTypeOK
  <1>4. QED
    BY <1>1, <1>2, <1>3, ServesPieces, TypeCorrect, PTL DEF ServerSpec, PieceSpec

===============================================================================
