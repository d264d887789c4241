---------------------------- MODULE PdpSystemProofs ----------------------------
(* The process with the watcher in it is the server PdpServer describes and *)
(* runs the watcher TransactionWatcher describes, for any number of         *)
(* requests, callers, pieces, transactions and restarts: what is proved of  *)
(* the parts holds in the whole.                                            *)
EXTENDS PdpSystem, PdpServerProofs

Theory == INSTANCE TransactionWatcherProofs WITH rows <- messageWaits

\* What the watcher's theorems assume of its constants is assumed here.
LEMMA WatcherConstants ==
  Readable \subseteq TxHashes /\ MaxRestarts \in Nat /\ NoHash \notin TxHashes
  BY SystemAssumption, ConstantsAssumption

\* The watcher of the theorems is the watcher of the system.
LEMMA SameWatcher ==
  /\ Watcher!Init <=> Theory!Init
  /\ Watcher!Next <=> Theory!Next
  /\ Watcher!vars = Theory!vars
  <1> USE DEF Watcher!tables, Theory!tables, Watcher!goroutine, Theory!goroutine
  <1>1. Watcher!Init <=> Theory!Init
    BY DEF Watcher!Init, Theory!Init
  <1>2. Watcher!Loop <=> Theory!Loop
    BY DEF Watcher!Loop, Theory!Loop, Watcher!TakeTick, Theory!TakeTick, Watcher!TakeStop,
           Theory!TakeStop, Watcher!ReadPending, Theory!ReadPending,
           Watcher!FailToReadPending, Theory!FailToReadPending, Watcher!NextTx,
           Theory!NextTx, Watcher!QueryPiri, Theory!QueryPiri, Watcher!FailToQueryPiri,
           Theory!FailToQueryPiri, Watcher!UpdateRow, Theory!UpdateRow,
           Watcher!FailToUpdateRow, Theory!FailToUpdateRow, Watcher!EndRound,
           Theory!EndRound, Watcher!Goto, Theory!Goto, Watcher!Continue, Theory!Continue,
           Watcher!PendingTxs, Theory!PendingTxs, Watcher!Mirror!WithRow,
           Theory!Mirror!WithRow
  <1>3. \A c \in Callers : Watcher!Ask(c) <=> Theory!Ask(c)
    BY DEF Watcher!Ask, Theory!Ask, Watcher!MonitorTransaction, Theory!MonitorTransaction,
           Watcher!FailToMonitor, Theory!FailToMonitor, Watcher!Mirror!WithRow,
           Theory!Mirror!WithRow
  <1>4. \A t \in TxHashes : Watcher!Piri(t) <=> Theory!Piri(t)
    BY DEF Watcher!Piri, Theory!Piri, Watcher!Mirror!Piri, Theory!Mirror!Piri,
           Watcher!Mirror!PiriSends, Theory!Mirror!PiriSends, Watcher!Mirror!PiriDecides,
           Theory!Mirror!PiriDecides, Watcher!Mirror!Decided, Theory!Mirror!Decided,
           Watcher!Mirror!WithRow, Theory!Mirror!WithRow
  <1>5. Watcher!Next <=> Theory!Next
    BY <1>2, <1>3, <1>4 DEF Watcher!Next, Theory!Next, Watcher!Start, Theory!Start,
                            Watcher!Tick, Theory!Tick, Watcher!CloseStopChan,
                            Theory!CloseStopChan, Watcher!ReturnFromStop,
                            Theory!ReturnFromStop, Watcher!CallMonitor, Theory!CallMonitor,
                            Watcher!Restart, Theory!Restart, Watcher!Goto, Theory!Goto
  <1>6. Watcher!vars = Theory!vars
    BY DEF Watcher!vars, Theory!vars
  <1>7. QED
    BY <1>1, <1>5, <1>6

-------------------------------------------------------------------------------
(* The system's own invariant.                                             *)

\* The goroutine's steps neither end it nor touch Stop and the callers.
LEMMA RunStep ==
  ASSUME RunWatcher, started, SystemInv
  PROVE  UNCHANGED <<started, stop, asks>> /\ loop' \notin {"off", "done"}
  BY DEF RunWatcher, Aside, SystemInv, Watcher!Tick, Watcher!Loop, Watcher!TakeTick,
         Watcher!TakeStop, Watcher!ReadPending, Watcher!FailToReadPending, Watcher!NextTx,
         Watcher!QueryPiri, Watcher!FailToQueryPiri, Watcher!UpdateRow,
         Watcher!FailToUpdateRow, Watcher!EndRound, Watcher!Continue, Watcher!Goto

LEMMA NextSystemInv == Watcher!TypeOK /\ SystemInv /\ [SystemNext]_systemVars => SystemInv'
  <1> SUFFICES ASSUME Watcher!TypeOK, SystemInv, [SystemNext]_systemVars PROVE SystemInv'
    OBVIOUS
  <1>1. CASE StartAll
    BY <1>1 DEF StartAll, Start, Watcher!Start, Watcher!Goto, SystemInv
  <1>2. ASSUME NEW h \in Handlers, ServePieces(h) PROVE SystemInv'
    BY <1>2 DEF ServePieces, Serve, watcherVars, SystemInv
  <1>3. CASE RunWatcher
    <2>1. started
      BY <1>3 DEF RunWatcher, SystemInv, Watcher!Tick, Watcher!Loop, Watcher!TakeTick,
                  Watcher!TakeStop, Watcher!ReadPending, Watcher!FailToReadPending,
                  Watcher!NextTx, Watcher!QueryPiri, Watcher!FailToQueryPiri,
                  Watcher!UpdateRow, Watcher!FailToUpdateRow, Watcher!EndRound
    <2>2. QED
      BY <1>3, <2>1, RunStep DEF SystemInv
  <1>4. ASSUME NEW c \in Callers, AskToWatch(c) PROVE SystemInv'
    <2>1. UNCHANGED <<started, loop, stop>>
      BY <1>4 DEF AskToWatch, Aside, Watcher!Ask, Watcher!MonitorTransaction,
                  Watcher!FailToMonitor, Watcher!CallMonitor, Watcher!goroutine
    <2>2. PICK t \in Watched \cup {NoHash} : asks' = [asks EXCEPT ![c] = t]
      BY <1>4 DEF AskToWatch, Watcher!Ask, Watcher!MonitorTransaction,
                  Watcher!FailToMonitor, Watcher!CallMonitor
    <2>3. QED
      BY <2>1, <2>2 DEF SystemInv, Watcher!TypeOK
  <1>5. ASSUME NEW t \in TxHashes, RunPiri(t) PROVE SystemInv'
    BY <1>5 DEF RunPiri, Aside, Watcher!Piri, Watcher!goroutine, SystemInv
  <1>6. CASE CrashAll
    BY <1>6 DEF CrashAll, Crash, Watcher!Restart, SystemInv
  <1>7. CASE UNCHANGED systemVars
    BY <1>7 DEF systemVars, serverVars, watcherVars, SystemInv
  <1>8. QED
    BY <1>1, <1>2, <1>3, <1>4, <1>5, <1>6, <1>7 DEF SystemNext

-------------------------------------------------------------------------------
(* The watcher in the system is the watcher by itself.                     *)

LEMMA WatchesStep ==
  ASSUME [SystemNext]_systemVars PROVE Watcher!Next \/ UNCHANGED Watcher!vars
  <1>1. ASSUME NEW h \in Handlers, ServePieces(h) PROVE UNCHANGED Watcher!vars
    <2>1. UNCHANGED restarts
      BY <1>1 DEF ServePieces, Serve, Handle, Enter, Finish, HandlePreparePiece,
           HandleUploadPiece, HandleAddPieceToProofSet, HandleGetPiece,
           HandleMonitorTransaction, Accept, PreparePiece, RejectTrackedUpload, RefuseUpload,
           UploadPiece, RefuseAdd, AddPieceToProofSet, RefuseMonitor,
           MonitorTransactionStatus, GetPiece, FinishUpload, SubmitRoot
    <2>2. UNCHANGED <<messageWaits, piriRows>> /\ UNCHANGED watcherVars
      BY <1>1, ServeKeepsRows DEF ServePieces
    <2>3. QED
      BY <2>1, <2>2 DEF watcherVars, Watcher!vars, Watcher!tables, Watcher!goroutine
  <1>2. ASSUME NEW c \in Callers, AskToWatch(c) PROVE Watcher!Next
    BY <1>2, WatchedAssumption DEF AskToWatch, Watcher!Next
  <1>3. ASSUME NEW t \in TxHashes, RunPiri(t) PROVE Watcher!Next
    BY <1>3 DEF RunPiri, Watcher!Next
  <1>4. CASE StartAll \/ RunWatcher \/ CrashAll
    BY <1>4 DEF StartAll, RunWatcher, CrashAll, Watcher!Next
  <1>5. CASE UNCHANGED systemVars
    BY <1>5 DEF systemVars, serverVars, vars, disk, watcherVars, Watcher!vars,
                Watcher!tables, Watcher!goroutine
  <1>6. QED
    BY <1>1, <1>2, <1>3, <1>4, <1>5 DEF SystemNext

\* With requests, Piri and crashes around it, the watcher does nothing that
\* TransactionWatcher does not allow.
THEOREM RunsWatcher == SystemSpec => Watcher!Spec
  <1>1. SystemInit => Watcher!Init
    BY DEF SystemInit
  <1>2. [SystemNext]_systemVars => [Watcher!Next]_(Watcher!vars)
    BY WatchesStep
  <1>3. QED
    BY <1>1, <1>2, PTL DEF SystemSpec, Watcher!Spec

LEMMA SystemWatcherInv == SystemSpec => []Theory!WatcherInv
  <1>1. Theory!Spec => []Theory!WatcherInv
    BY Theory!WatcherInvariance, WatcherConstants
  <1>2. Watcher!Init => Theory!Init
    BY SameWatcher
  <1>3. [Watcher!Next]_(Watcher!vars) => [Theory!Next]_(Theory!vars)
    <2>1. UNCHANGED Watcher!vars => UNCHANGED Theory!vars
      BY DEF Watcher!vars, Watcher!tables, Watcher!goroutine, Theory!vars, Theory!tables,
             Theory!goroutine
    <2>2. QED
      BY <2>1, SameWatcher
  <1>4. QED
    BY <1>1, <1>2, <1>3, RunsWatcher, PTL DEF Watcher!Spec, Theory!Spec

LEMMA SystemInvariance == SystemSpec => []SystemInv
  <1>1. SystemInit => SystemInv
    BY DEF SystemInit, ServerInit, Watcher!Init, SystemInv
  <1>2. Theory!WatcherInv => Watcher!TypeOK
    BY DEF Theory!WatcherInv, Theory!TypeOK, Watcher!TypeOK, Theory!Mirror!Tables,
           Watcher!Mirror!Tables, Theory!Mirror!TxState, Watcher!Mirror!TxState,
           Theory!Mirror!Decided, Watcher!Mirror!Decided
  <1>3. QED
    BY <1>1, <1>2, NextSystemInv, SystemWatcherInv, PTL DEF SystemSpec

-------------------------------------------------------------------------------
(* The system is the server.                                               *)

\* A step of the goroutine mirrors a row or changes none.
LEMMA MirrorsStep ==
  ASSUME Theory!WatcherInv, SystemInv, RunWatcher
  PROVE  (\E t \in TxHashes : Mirror(t)) \/ UNCHANGED serverVars
  <1>1. CASE Watcher!UpdateRow
    <2>1. /\ loop = "updating" /\ messageWaits' = Watcher!Mirror!WithRow(messageWaits, tx, seen)
          /\ UNCHANGED piriRows
      BY <1>1 DEF Watcher!UpdateRow
    <2>2. /\ tx \in DOMAIN messageWaits /\ messageWaits[tx] = "pending"
          /\ tx \in DOMAIN piriRows \cap TxHashes /\ piriRows[tx] = seen /\ seen # "pending"
      BY <2>1, SystemAssumption DEF Theory!WatcherInv, Theory!CheckedInv
    <2>3. started
      BY <2>1 DEF SystemInv
    <2>4. Rows!Mirror(tx)
      BY <1>1, <2>1, <2>2, <2>3
      DEF Rows!Mirror, Rows!WithRow, Watcher!Mirror!WithRow, RunWatcher, Aside
    <2>5. Mirror(tx)
      BY <2>4 DEF Mirror, RunWatcher, Aside
    <2>6. QED
      BY <2>2, <2>5
  <1>2. CASE UNCHANGED <<messageWaits, piriRows>>
    BY <1>2 DEF RunWatcher, Aside, pieceVars, serverVars, vars, disk
  <1>3. QED
    BY <1>1, <1>2
    DEF RunWatcher, Watcher!Tick, Watcher!Loop, Watcher!TakeTick, Watcher!TakeStop,
        Watcher!ReadPending, Watcher!FailToReadPending, Watcher!NextTx, Watcher!QueryPiri,
        Watcher!FailToQueryPiri, Watcher!FailToUpdateRow, Watcher!EndRound, Watcher!tables

\* A caller inserts the row of a watched hash or changes none.
LEMMA WatchesHash ==
  ASSUME SystemInv, NEW c \in Callers, AskToWatch(c)
  PROVE  (\E t \in Watched : Watch(t)) \/ UNCHANGED serverVars
  <1>1. CASE Watcher!MonitorTransaction(c) /\ asks[c] \notin DOMAIN messageWaits
    <2>1. asks[c] \in Watched
      BY <1>1 DEF SystemInv, Watcher!MonitorTransaction
    <2>2. Rows!Watch(asks[c])
      BY <1>1 DEF Watcher!MonitorTransaction, Watcher!Mirror!WithRow, Rows!WithRow, Rows!Watch,
                  AskToWatch, Aside
    <2>3. Watch(asks[c])
      BY <2>2 DEF Watch, AskToWatch, Aside
    <2>4. QED
      BY <2>1, <2>3
  <1>2. CASE UNCHANGED <<messageWaits, piriRows>>
    BY <1>2 DEF AskToWatch, Aside, pieceVars, serverVars, vars, disk
  <1>3. QED
    BY <1>1, <1>2 DEF AskToWatch, Watcher!Ask, Watcher!MonitorTransaction,
                      Watcher!FailToMonitor, Watcher!CallMonitor, Watcher!tables

LEMMA ServerStep ==
  ASSUME Theory!WatcherInv, SystemInv, [SystemNext]_systemVars
  PROVE  ServerNext \/ UNCHANGED serverVars
  <1>1. ASSUME NEW h \in Handlers, ServePieces(h) PROVE ServerNext
    BY <1>1 DEF ServePieces, ServerNext
  <1>2. ASSUME NEW c \in Callers, AskToWatch(c) PROVE ServerNext \/ UNCHANGED serverVars
    BY <1>2, WatchesHash DEF ServerNext
  <1>3. ASSUME NEW t \in TxHashes, RunPiri(t) PROVE ServerNext
    <2>1. Rows!Piri(t)
      BY <1>3 DEF RunPiri, Aside, Watcher!Piri, Watcher!Mirror!Piri, Watcher!Mirror!PiriSends,
                  Watcher!Mirror!PiriDecides, Watcher!Mirror!Decided, Watcher!Mirror!WithRow,
                  Rows!Piri, Rows!PiriSends, Rows!PiriDecides, Rows!Decided, Rows!WithRow
    <2>2. Piri(t)
      BY <1>3, <2>1 DEF Piri, RunPiri, Aside
    <2>3. QED
      BY <2>2 DEF ServerNext
  <1>4. CASE RunWatcher
    BY <1>4, MirrorsStep DEF ServerNext
  <1>5. CASE StartAll \/ CrashAll \/ UNCHANGED systemVars
    BY <1>5 DEF StartAll, CrashAll, systemVars, ServerNext
  <1>6. QED
    BY <1>1, <1>2, <1>3, <1>4, <1>5 DEF SystemNext

\* The watcher stands in for the mirror: whatever is proved of the server with
\* the mirror holds of the process with the watcher's goroutine in it.
THEOREM ImplementsServer == SystemSpec => ServerSteps
  <1>1. SystemInit => ServerInit
    BY DEF SystemInit
  <1>2. Theory!WatcherInv /\ SystemInv /\ [SystemNext]_systemVars => [ServerNext]_serverVars
    BY ServerStep
  <1>3. QED
    BY <1>1, <1>2, SystemWatcherInv, SystemInvariance, PTL
    DEF SystemSpec, ServerSteps, ServerSpec

-------------------------------------------------------------------------------
(* What the whole process keeps.                                           *)

\* No commitment is submitted twice, whatever the watcher does meanwhile.
THEOREM SystemSubmitsOnce == SystemSpec => []AtMostOnceSubmission
  <1>1. QED
    BY ImplementsServer, ServerSubmitsOnce, PTL DEF ServerSteps

\* In the whole process, too, the requests for pieces never all wait: the
\* goroutine has a mutex of its own, and takes theirs never.
THEOREM SystemNeverBlocks == SystemSpec => []NeverBlocked
  <1>1. QED
    BY ImplementsServer, ServesPieces, NeverAllBlocked, PTL DEF ServerSteps, PieceSpec

\* The way of a status from Piri's database to the client, end to end: Piri's
\* row, the query of a round, its update of the server's row, a client's
\* question and the piece.  A piece is reported as in its proof set only if
\* Piri's row says so, whatever fails, waits or crashes in between.
THEOREM SystemConfirmsAsPiri == SystemSpec => []ConfirmedAsPiri
  <1>1. QED
    BY ImplementsServer, ConfirmedByPiri, PTL DEF ServerSteps

===============================================================================
