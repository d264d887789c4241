----------------------- MODULE TransactionWatcherProofs -----------------------
(* The safety of TransactionWatcher for any number of callers, transactions *)
(* and restarts, and that its rows are a mirror of Piri's.                  *)
EXTENDS TransactionWatcher, TLAPS

-------------------------------------------------------------------------------
(* Lemmas about tables of rows.                                            *)

LEMMA TablesFact ==
  \A e : e \in Mirror!Tables <=> DOMAIN e \subseteq TxHashes /\ e \in [DOMAIN e -> Mirror!TxState]
  BY DEF Mirror!Tables

LEMMA NoRowsFact == << >> \in Mirror!Tables /\ DOMAIN << >> = {}
  <1>1. DOMAIN << >> = {} /\ << >> \in [DOMAIN << >> -> Mirror!TxState]
    OBVIOUS
  <1>2. QED
    BY <1>1, TablesFact

\* Setting a row keeps the table well typed, and the other rows as they are.
LEMMA WithRowFact ==
  ASSUME NEW e \in Mirror!Tables, NEW t \in TxHashes, NEW x \in Mirror!TxState
  PROVE  /\ Mirror!WithRow(e, t, x) \in Mirror!Tables
         /\ DOMAIN Mirror!WithRow(e, t, x) = DOMAIN e \cup {t}
         /\ Mirror!WithRow(e, t, x)[t] = x
         /\ \A u \in DOMAIN e \ {t} : Mirror!WithRow(e, t, x)[u] = e[u]
  <1> DEFINE f == Mirror!WithRow(e, t, x)
  <1>1. DOMAIN e \subseteq TxHashes /\ e \in [DOMAIN e -> Mirror!TxState]
    BY TablesFact
  <1>2. DOMAIN f = DOMAIN e \cup {t} /\ f[t] = x /\ \A u \in DOMAIN e \ {t} : f[u] = e[u]
    BY DEF Mirror!WithRow
  <1>3. f \in [DOMAIN f -> Mirror!TxState]
    BY <1>1 DEF Mirror!WithRow
  <1>4. QED
    BY <1>1, <1>2, <1>3, TablesFact

-------------------------------------------------------------------------------
(* The inductive invariant.                                                *)

LEMMA InitWatcherInv == Init => WatcherInv
  <1> SUFFICES ASSUME Init PROVE WatcherInv
    OBVIOUS
  <1>1. TypeOK
    BY NoRowsFact DEF Init, TypeOK, Mirror!TxState
  <1>2. RoundInv /\ CheckedInv /\ ResolvedAsPiri
    BY NoRowsFact DEF Init, RoundInv, CheckedInv, Round, ResolvedAsPiri, Mirror!ResolvedAsPiri
  <1>3. QED
    BY <1>1, <1>2 DEF WatcherInv, Init

\* Steps of the goroutine, of Stop and of callers that touch no table.
LEMMA TablesKept ==
  ASSUME WatcherInv, UNCHANGED <<tables, restarts>>, TypeOK', RoundInv', CheckedInv',
         (stop = "returned" => loop = "done")'
  PROVE  WatcherInv'
  BY DEF WatcherInv, tables, ResolvedAsPiri, Mirror!ResolvedAsPiri

LEMMA LoopStep ==
  ASSUME WatcherInv,
         Start \/ Tick \/ TakeTick \/ TakeStop \/ ReadPending \/ FailToReadPending \/ EndRound
  PROVE  WatcherInv'
  <1> USE DEF tables
  <1>1. UNCHANGED <<tables, tx, seen, stop, asks, restarts>> /\ loop # "done"
    BY DEF Start, Tick, TakeTick, TakeStop, ReadPending, FailToReadPending, EndRound
  <1>2. /\ loop' \in {"waiting", "locking", "ranging", "querying", "updating", "done"}
        /\ tick' \in BOOLEAN /\ locked' \in BOOLEAN
        /\ todo' \subseteq TxHashes
    BY TablesFact DEF WatcherInv, TypeOK, Start, Tick, TakeTick, TakeStop, ReadPending,
                      FailToReadPending, EndRound, Goto, PendingTxs
  <1>3. TypeOK'
    BY <1>1, <1>2 DEF WatcherInv, TypeOK
  <1>4. RoundInv' /\ CheckedInv'
    <2>1. CASE Tick
      BY <2>1 DEF WatcherInv, RoundInv, CheckedInv, Round, Tick
    <2>2. CASE Start \/ TakeTick \/ TakeStop \/ FailToReadPending \/ EndRound
      BY <2>2 DEF WatcherInv, RoundInv, CheckedInv, Round, Start, TakeTick, TakeStop,
                  FailToReadPending, EndRound, Goto
    <2>3. CASE ReadPending
      BY <2>3 DEF RoundInv, CheckedInv, Round, ReadPending, Goto, PendingTxs
    <2>4. QED
      BY <2>1, <2>2, <2>3
  <1>5. (stop = "returned" => loop = "done")'
    BY <1>1 DEF WatcherInv
  <1>6. QED
    BY <1>1, <1>3, <1>4, <1>5, TablesKept

LEMMA RowStep ==
  ASSUME WatcherInv,
         (\E t \in TxHashes : NextTx(t)) \/ QueryPiri \/ FailToQueryPiri \/ FailToUpdateRow
  PROVE  WatcherInv'
  <1>1. /\ UNCHANGED <<tables, tick, locked, stop, asks, restarts>>
        /\ loop \in Round /\ loop' \in Round
    BY DEF NextTx, QueryPiri, FailToQueryPiri, FailToUpdateRow, Continue, Goto, Round
  <1>2. TypeOK' /\ CheckedInv'
    <2>1. ASSUME NEW t \in TxHashes, NextTx(t) PROVE TypeOK' /\ CheckedInv'
      BY <2>1 DEF WatcherInv, TypeOK, CheckedInv, Round, NextTx, Goto, tables
    <2>2. CASE FailToQueryPiri \/ FailToUpdateRow
      BY <2>2 DEF WatcherInv, TypeOK, CheckedInv, Round, FailToQueryPiri, FailToUpdateRow,
                  Continue, Goto, tables, Mirror!TxState
    <2>3. CASE QueryPiri /\ ~(tx \in DOMAIN piriRows /\ piriRows[tx] # "pending")
      BY <2>3 DEF WatcherInv, TypeOK, CheckedInv, Round, QueryPiri,
                  Continue, Goto, tables, Mirror!TxState
    <2>4. CASE QueryPiri /\ tx \in DOMAIN piriRows /\ piriRows[tx] # "pending"
      <3>1. piriRows[tx] \in Mirror!TxState
        BY <2>4, TablesFact DEF WatcherInv, TypeOK
      <3>2. QED
        BY <2>4, <3>1 DEF WatcherInv, TypeOK, CheckedInv, Round, QueryPiri, Goto, tables
    <2>5. QED
      BY <2>1, <2>2, <2>3, <2>4
  <1>3. RoundInv'
    BY <1>1 DEF WatcherInv, RoundInv
  <1>4. (stop = "returned" => loop = "done")'
    BY <1>1 DEF WatcherInv, Round
  <1>5. QED
    BY <1>1, <1>2, <1>3, <1>4, TablesKept

\* What is written is what Piri's row said, and still says.
LEMMA UpdateRowStep ==
  ASSUME WatcherInv, UpdateRow PROVE WatcherInv'
  <1>1. /\ loop = "updating" /\ loop' = "ranging"
        /\ rows' = Mirror!WithRow(rows, tx, seen) /\ tx' = NoHash /\ seen' = "pending"
        /\ UNCHANGED <<piriRows, tick, locked, todo, stop, asks, restarts>>
    BY DEF UpdateRow, Continue, Goto
  <1>2. /\ tx \in DOMAIN rows \ todo /\ tx \in DOMAIN piriRows /\ piriRows[tx] = seen
        /\ rows \in Mirror!Tables /\ tx \in TxHashes /\ seen \in Mirror!TxState
    BY <1>1, TablesFact DEF WatcherInv, TypeOK, CheckedInv
  <1>3. /\ rows' \in Mirror!Tables /\ DOMAIN rows' = DOMAIN rows /\ rows'[tx] = seen
        /\ \A u \in DOMAIN rows \ {tx} : rows'[u] = rows[u]
    <2> DEFINE f == Mirror!WithRow(rows, tx, seen)
    <2>1. /\ f \in Mirror!Tables /\ DOMAIN f = DOMAIN rows \cup {tx} /\ f[tx] = seen
          /\ \A u \in DOMAIN rows \ {tx} : f[u] = rows[u]
      BY <1>2, WithRowFact
    <2>2. rows' = f
      BY <1>1
    <2> HIDE DEF f
    <2>3. QED
      BY <1>2, <2>1, <2>2
  <1>4. TypeOK'
    BY <1>1, <1>3 DEF WatcherInv, TypeOK, Mirror!TxState
  <1>5. RoundInv' /\ CheckedInv'
    BY <1>1, <1>2, <1>3 DEF WatcherInv, RoundInv, CheckedInv, Round
  <1>6. ResolvedAsPiri'
    BY <1>1, <1>2, <1>3 DEF WatcherInv, ResolvedAsPiri, Mirror!ResolvedAsPiri
  <1>7. QED
    BY <1>1, <1>4, <1>5, <1>6 DEF WatcherInv

LEMMA StopStep ==
  ASSUME WatcherInv, CloseStopChan \/ ReturnFromStop PROVE WatcherInv'
  <1>1. UNCHANGED <<tables, goroutine, asks, restarts>>
        /\ stop' \in {"closed", "returned"} /\ (stop' = "returned" => loop = "done")
    BY DEF CloseStopChan, ReturnFromStop
  <1>2. TypeOK' /\ RoundInv' /\ CheckedInv'
    BY <1>1 DEF WatcherInv, TypeOK, RoundInv, CheckedInv, Round, tables, goroutine
  <1>3. QED
    BY <1>1, <1>2, TablesKept DEF goroutine

\* A round is not disturbed by a new row: it is held off by the mutex, and what
\* a new row adds is pending.
LEMMA CallerStep ==
  ASSUME WatcherInv, NEW c \in Callers,
         Ask(c) \/ \E t \in TxHashes : CallMonitor(c, t)
  PROVE  WatcherInv'
  <1>1. /\ UNCHANGED <<piriRows, goroutine, stop, restarts>>
        /\ asks' \in [Callers -> TxHashes \cup {NoHash}]
    BY DEF Ask, CallMonitor, MonitorTransaction, FailToMonitor, tables, WatcherInv, TypeOK
  <1>2. CASE rows' = rows
    <2>1. TypeOK' /\ RoundInv' /\ CheckedInv'
      BY <1>1, <1>2 DEF WatcherInv, TypeOK, RoundInv, CheckedInv, Round, goroutine
    <2>2. QED
      BY <1>1, <1>2, <2>1, TablesKept DEF WatcherInv, goroutine, tables
  <1>3. CASE MonitorTransaction(c) /\ asks[c] \notin DOMAIN rows
    <2>1. /\ rows' = Mirror!WithRow(rows, asks[c], "pending")
          /\ asks[c] \in TxHashes \ DOMAIN rows /\ rows \in Mirror!Tables
          /\ "pending" \in Mirror!TxState
      BY <1>3 DEF MonitorTransaction, WatcherInv, TypeOK, Mirror!TxState
    <2>2. /\ rows' \in Mirror!Tables /\ DOMAIN rows' = DOMAIN rows \cup {asks[c]}
          /\ rows'[asks[c]] = "pending" /\ \A u \in DOMAIN rows : rows'[u] = rows[u]
      BY <2>1, WithRowFact
    <2>3. TypeOK'
      BY <1>1, <2>2 DEF WatcherInv, TypeOK, goroutine
    <2>4. RoundInv' /\ CheckedInv'
      BY <1>1, <2>2 DEF WatcherInv, RoundInv, CheckedInv, Round, goroutine
    <2>5. ResolvedAsPiri'
      BY <1>1, <2>2 DEF WatcherInv, ResolvedAsPiri, Mirror!ResolvedAsPiri
    <2>6. QED
      BY <1>1, <2>3, <2>4, <2>5 DEF WatcherInv, goroutine
  <1>4. QED
    BY <1>2, <1>3 DEF Ask, CallMonitor, MonitorTransaction, FailToMonitor, tables

LEMMA PiriStep ==
  ASSUME WatcherInv, NEW t \in TxHashes, Piri(t) PROVE WatcherInv'
  <1>1. UNCHANGED <<rows, goroutine, stop, asks, restarts>>
    BY DEF Piri, Mirror!Piri, Mirror!PiriSends, Mirror!PiriDecides
  <1>2. PICK x \in Mirror!TxState :
          /\ piriRows' = Mirror!WithRow(piriRows, t, x)
          /\ t \in DOMAIN piriRows => piriRows[t] = "pending"
    BY DEF Piri, Mirror!Piri, Mirror!PiriSends, Mirror!PiriDecides, Mirror!TxState
  <1>3. /\ piriRows' \in Mirror!Tables /\ DOMAIN piriRows' = DOMAIN piriRows \cup {t}
        /\ \A u \in DOMAIN piriRows : piriRows[u] # "pending" => piriRows'[u] = piriRows[u]
    <2> DEFINE f == Mirror!WithRow(piriRows, t, x)
    <2>1. piriRows \in Mirror!Tables
      BY DEF WatcherInv, TypeOK
    <2>2. /\ f \in Mirror!Tables /\ DOMAIN f = DOMAIN piriRows \cup {t}
          /\ \A u \in DOMAIN piriRows \ {t} : f[u] = piriRows[u]
      BY <2>1, WithRowFact
    <2>3. piriRows' = f
      BY <1>2
    <2> HIDE DEF f
    <2>4. QED
      BY <1>2, <2>2, <2>3
  <1>4. TypeOK'
    BY <1>1, <1>3 DEF WatcherInv, TypeOK, goroutine
  <1>5. RoundInv' /\ CheckedInv'
    BY <1>1, <1>3 DEF WatcherInv, RoundInv, CheckedInv, Round, goroutine
  <1>6. ResolvedAsPiri'
    BY <1>1, <1>3 DEF WatcherInv, ResolvedAsPiri, Mirror!ResolvedAsPiri
  <1>7. QED
    BY <1>1, <1>4, <1>5, <1>6 DEF WatcherInv, goroutine

LEMMA RestartStep ==
  ASSUME WatcherInv, Restart PROVE WatcherInv'
  <1>1. restarts' \in Nat
    BY DEF WatcherInv, TypeOK, Restart
  <1>2. tick' \in BOOLEAN /\ locked' \in BOOLEAN
    BY DEF Restart
  <1>3. TypeOK'
    BY <1>1, <1>2 DEF WatcherInv, TypeOK, Restart, tables, Mirror!TxState
  <1>4. RoundInv' /\ CheckedInv' /\ ResolvedAsPiri'
    BY DEF WatcherInv, RoundInv, CheckedInv, Round, Restart, tables, ResolvedAsPiri,
           Mirror!ResolvedAsPiri
  <1>5. QED
    BY <1>3, <1>4 DEF WatcherInv, Restart

LEMMA NextWatcherInv == WatcherInv /\ [Next]_vars => WatcherInv'
  <1>1. ASSUME WatcherInv, UNCHANGED vars PROVE WatcherInv'
    BY <1>1 DEF WatcherInv, vars, tables, goroutine, TypeOK, RoundInv, CheckedInv, Round,
                ResolvedAsPiri, Mirror!ResolvedAsPiri
  <1>2. QED
    BY <1>1, LoopStep, RowStep, UpdateRowStep, StopStep, CallerStep, PiriStep, RestartStep
    DEF Next, Loop

THEOREM WatcherInvariance == Spec => []WatcherInv
  <1>1. QED
    BY InitWatcherInv, NextWatcherInv, PTL DEF Spec

\* The watcher's state is well typed.
THEOREM WatcherTypeCorrect == Spec => []TypeOK
  <1>1. WatcherInv => TypeOK
    BY DEF WatcherInv
  <1>2. QED
    BY <1>1, WatcherInvariance, PTL

\* A row that is no longer pending equals Piri's row, whatever failed or changed
\* between the queries of the round that resolved it.
THEOREM ResolvedRows == Spec => []ResolvedAsPiri
  <1>1. WatcherInv => ResolvedAsPiri
    BY DEF WatcherInv
  <1>2. QED
    BY <1>1, WatcherInvariance, PTL

-------------------------------------------------------------------------------
(* What a step may do to the rows.                                         *)

LEMMA RowsStep ==
  ASSUME WatcherInv, Next, UpdateRow => FALSE
  PROVE  \A t \in DOMAIN rows : t \in DOMAIN rows' /\ rows'[t] = rows[t]
  <1>1. ASSUME NEW c \in Callers, MonitorTransaction(c)
        PROVE  \A t \in DOMAIN rows : t \in DOMAIN rows' /\ rows'[t] = rows[t]
    <2>1. CASE asks[c] \in DOMAIN rows
      BY <1>1, <2>1 DEF MonitorTransaction
    <2>2. CASE asks[c] \notin DOMAIN rows
      BY <1>1, <2>2 DEF MonitorTransaction, Mirror!WithRow
    <2>3. QED
      BY <2>1, <2>2
  <1>2. CASE UNCHANGED rows
    BY <1>2
  <1>3. QED
    BY <1>1, <1>2
    DEF Next, Loop, Start, Tick, TakeTick, TakeStop, ReadPending, FailToReadPending, NextTx,
        QueryPiri, FailToQueryPiri, FailToUpdateRow, EndRound, CloseStopChan, ReturnFromStop,
        Ask, FailToMonitor, CallMonitor, Piri, Mirror!Piri, Mirror!PiriSends,
        Mirror!PiriDecides, Restart, tables

\* Once Stop has returned the watcher changes no row.
THEOREM QuietOnceStopped == Spec => QuietAfterStop
  <1>1. ASSUME WatcherInv, [Next]_vars, stop = "returned", restarts' = restarts
        PROVE  \A t \in DOMAIN rows : t \in DOMAIN rows' /\ rows'[t] = rows[t]
    <2>1. UpdateRow => FALSE
      BY <1>1 DEF WatcherInv, UpdateRow
    <2>2. QED
      BY <1>1, <2>1, RowsStep DEF vars, tables
  <1>2. WatcherInv /\ [Next]_vars =>
          [stop = "returned" /\ restarts' = restarts =>
             \A t \in DOMAIN rows : t \in DOMAIN rows' /\ rows'[t] = rows[t]]_vars
    BY <1>1
  <1>3. QED
    BY <1>2, WatcherInvariance, PTL DEF Spec, QuietAfterStop

-------------------------------------------------------------------------------
(* The watcher implements the mirror.                                      *)

LEMMA MirrorStep ==
  ASSUME WatcherInv, WatcherInv', [Next]_vars PROVE [Mirror!Next]_(Mirror!mirrorVars)
  <1> USE DEF Mirror!mirrorVars
  <1>1. CASE UpdateRow
    <2>1. Mirror!Mirror(tx)
      BY <1>1 DEF WatcherInv, CheckedInv, UpdateRow, Continue, Goto, Mirror!Mirror
    <2>2. tx \in TxHashes
      BY <1>1, TablesFact DEF WatcherInv, TypeOK, CheckedInv, UpdateRow
    <2>3. QED
      BY <2>1, <2>2 DEF Mirror!Next
  <1>2. ASSUME NEW c \in Callers, MonitorTransaction(c), asks[c] \notin DOMAIN rows
        PROVE  [Mirror!Next]_(Mirror!mirrorVars)
    <2>1. asks[c] \in TxHashes /\ Mirror!Watch(asks[c])
      BY <1>2 DEF WatcherInv, TypeOK, MonitorTransaction, Mirror!Watch, goroutine
    <2>2. QED
      BY <2>1 DEF Mirror!Next
  <1>3. ASSUME NEW t \in TxHashes, Piri(t) PROVE [Mirror!Next]_(Mirror!mirrorVars)
    BY <1>3 DEF Piri, Mirror!Next
  <1>4. CASE UNCHANGED tables
    BY <1>4 DEF tables, Mirror!Next, Mirror!Toggle
  <1>5. QED
    BY <1>1, <1>2, <1>3, <1>4
    DEF Next, Loop, Start, Tick, TakeTick, TakeStop, ReadPending, FailToReadPending, NextTx,
        QueryPiri, FailToQueryPiri, FailToUpdateRow, EndRound, CloseStopChan, ReturnFromStop,
        Ask, MonitorTransaction, FailToMonitor, CallMonitor, Restart, vars, tables

\* Every behaviour of the watcher is one of RowMirror: rows appear as pending
\* and take over the status of Piri's row, once and only while it runs.
THEOREM ImplementsMirror == Spec => Mirror!Spec
  <1>1. Init => Mirror!Init
    BY DEF Init, Mirror!Init
  <1>2. WatcherInv /\ WatcherInv' /\ [Next]_vars => [Mirror!Next]_(Mirror!mirrorVars)
    BY MirrorStep
  <1>3. QED
    BY <1>1, <1>2, WatcherInvariance, PTL DEF Spec, Mirror!Spec

===============================================================================
