-------------------------- MODULE TransactionWatcher --------------------------
(***************************************************************************)
(* The transaction watcher (pkg/watcher/transaction_watcher.go): one       *)
(* goroutine that every ten seconds goes through the pending rows of the   *)
(* server's own database and copies what Piri's database says of them,     *)
(* callers that have transactions watched, and Stop.                       *)
(*                                                                         *)
(* A round holds TransactionWatcher.mutex throughout.  It reads the        *)
(* pending rows once and then, row by row, queries Piri's database and     *)
(* updates its own: Piri goes on in between, and each query may fail by    *)
(* itself.                                                                 *)
(***************************************************************************)
EXTENDS Naturals, FiniteSets

CONSTANTS
  Callers,        \* goroutines that call MonitorTransaction
  TxHashes,       \* hashes of signed transactions
  Readable,       \* those whose row can be read from Piri's database
  MaxRestarts,    \* bound on the number of crashes and restarts
  NoHash

ASSUME WatcherAssumption ==
  /\ Readable \subseteq TxHashes
  /\ MaxRestarts \in Nat
  /\ NoHash \notin TxHashes

VARIABLES
  rows,           \* MessageWaitsEth rows of the server's own database
  piriRows,       \* MessageWaitsEth rows of Piri's database
  loop,           \* where the watcher's goroutine is
  tick,           \* the ticker's channel holds a tick
  locked,         \* TransactionWatcher.mutex is held by the goroutine
  todo,           \* pendingTxs still to be checked
  tx, seen,       \* the row being checked, and what Piri's database said of it
  stop,           \* where the call of Stop is
  asks,           \* what each caller of MonitorTransaction asks, or NoHash
  restarts        \* crashes so far

tables == <<rows, piriRows>>
goroutine == <<loop, tick, locked, todo, tx, seen>>
vars == <<tables, goroutine, stop, asks, restarts>>

Mirror == INSTANCE RowMirror WITH running <- loop \notin {"off", "done"}

TypeOK ==
  /\ rows \in Mirror!Tables /\ piriRows \in Mirror!Tables
  /\ loop \in {"off", "waiting", "locking", "ranging", "querying", "updating", "done"}
  /\ tick \in BOOLEAN /\ locked \in BOOLEAN
  /\ todo \subseteq TxHashes
  /\ tx \in TxHashes \cup {NoHash}
  /\ seen \in Mirror!TxState
  /\ stop \in {"none", "closed", "returned"}
  /\ asks \in [Callers -> TxHashes \cup {NoHash}]
  /\ restarts \in Nat

Init ==
  /\ rows = << >> /\ piriRows = << >>
  /\ loop = "off" /\ tick = FALSE /\ locked = FALSE
  /\ todo = {} /\ tx = NoHash /\ seen = "pending"
  /\ stop = "none"
  /\ asks = [c \in Callers |-> NoHash]
  /\ restarts = 0

Goto(label) == loop' = label

-------------------------------------------------------------------------------
(* The goroutine.                                                          *)

Start ==
  /\ loop = "off"
  /\ Goto("waiting")
  /\ UNCHANGED <<tables, tick, locked, todo, tx, seen, stop, asks, restarts>>

\* The ticker sends; a tick that finds the channel full is dropped.
Tick ==
  /\ loop \notin {"off", "done"}
  /\ tick' = TRUE
  /\ UNCHANGED <<tables, loop, locked, todo, tx, seen, stop, asks, restarts>>

\* select takes the tick, although the channel of Stop may be closed as well.
TakeTick ==
  /\ loop = "waiting" /\ tick
  /\ tick' = FALSE
  /\ Goto("locking")
  /\ UNCHANGED <<tables, locked, todo, tx, seen, stop, asks, restarts>>

\* select takes the closed channel: the goroutine returns.
TakeStop ==
  /\ loop = "waiting" /\ stop # "none"
  /\ Goto("done")
  /\ UNCHANGED <<tables, tick, locked, todo, tx, seen, stop, asks, restarts>>

PendingTxs == {t \in DOMAIN rows : rows[t] = "pending"}

\* mutex.Lock, and the query for the pending rows.
ReadPending ==
  /\ loop = "locking" /\ ~locked
  /\ locked' = TRUE
  /\ todo' = PendingTxs
  /\ Goto("ranging")
  /\ UNCHANGED <<tables, tick, tx, seen, stop, asks, restarts>>

\* "failed to get pending transactions"
FailToReadPending ==
  /\ loop = "locking" /\ ~locked
  /\ Goto("waiting")
  /\ UNCHANGED <<tables, tick, locked, todo, tx, seen, stop, asks, restarts>>

\* The loop over pendingTxs comes to t.
NextTx(t) ==
  /\ loop = "ranging" /\ t \in todo
  /\ tx' = t
  /\ todo' = todo \ {t}
  /\ Goto("querying")
  /\ UNCHANGED <<tables, tick, locked, seen, stop, asks, restarts>>

\* Back to the loop over pendingTxs.
Continue == Goto("ranging") /\ tx' = NoHash /\ seen' = "pending"

\* Piri's row of tx: the update follows if there is one with another status.
QueryPiri ==
  /\ loop = "querying"
  /\ tx \in Readable
  /\ IF tx \in DOMAIN piriRows /\ piriRows[tx] # "pending"
     THEN seen' = piriRows[tx] /\ Goto("updating") /\ UNCHANGED tx
     ELSE Continue
  /\ UNCHANGED <<tables, tick, locked, todo, stop, asks, restarts>>

\* Slip: the error of one row ends the round.
GiveUpRound ==
  /\ loop = "querying"
  /\ todo' = {}
  /\ Continue
  /\ UNCHANGED <<tables, tick, locked, stop, asks, restarts>>

\* "failed to query Piri's database": the round goes on with the next row.
FailToQueryPiri ==
  /\ loop = "querying"
  /\ Continue
  /\ UNCHANGED <<tables, tick, locked, todo, stop, asks, restarts>>

\* Slip: only tx_status is copied, tx_success stays nil.
UpdateStatusOnly ==
  /\ loop = "updating"
  /\ rows' = Mirror!WithRow(rows, tx, IF seen = "succeeded" THEN "reverted" ELSE seen)
  /\ Continue
  /\ UNCHANGED <<piriRows, tick, locked, todo, stop, asks, restarts>>

\* The update of all columns of the own row, in one statement.
UpdateRow ==
  /\ loop = "updating"
  /\ rows' = Mirror!WithRow(rows, tx, seen)
  /\ Continue
  /\ UNCHANGED <<piriRows, tick, locked, todo, stop, asks, restarts>>

\* "failed to update transaction status"
FailToUpdateRow ==
  /\ loop = "updating"
  /\ Continue
  /\ UNCHANGED <<tables, tick, locked, todo, stop, asks, restarts>>

\* Slip: no deferred unlock.
EndRoundLocked ==
  /\ loop = "ranging" /\ todo = {}
  /\ Goto("waiting")
  /\ UNCHANGED <<tables, tick, locked, todo, tx, seen, stop, asks, restarts>>

\* processPendingTransactions returns, and unlocks.
EndRound ==
  /\ loop = "ranging" /\ todo = {}
  /\ locked' = FALSE
  /\ Goto("waiting")
  /\ UNCHANGED <<tables, tick, todo, tx, seen, stop, asks, restarts>>

-------------------------------------------------------------------------------
(* Stop, and the callers of MonitorTransaction.                            *)

\* Stop up to close(stopChan).
CloseStopChan ==
  /\ loop # "off" /\ stop = "none"
  /\ stop' = "closed"
  /\ UNCHANGED <<tables, goroutine, asks, restarts>>

\* Slip: Stop does not wait.
ReturnAtOnce ==
  /\ stop = "closed"
  /\ stop' = "returned"
  /\ UNCHANGED <<tables, goroutine, asks, restarts>>

\* wg.Wait, and Stop returns.
ReturnFromStop ==
  /\ stop = "closed" /\ loop = "done"
  /\ stop' = "returned"
  /\ UNCHANGED <<tables, goroutine, asks, restarts>>

CallMonitor(c, t) ==
  /\ asks[c] = NoHash
  /\ asks' = [asks EXCEPT ![c] = t]
  /\ UNCHANGED <<tables, goroutine, stop, restarts>>

\* Slip: the row is saved whether or not there is one.
MonitorUpserted(c) ==
  /\ asks[c] # NoHash /\ ~locked
  /\ rows' = Mirror!WithRow(rows, asks[c], "pending")
  /\ asks' = [asks EXCEPT ![c] = NoHash]
  /\ UNCHANGED <<piriRows, goroutine, stop, restarts>>

\* MonitorTransaction under the mutex: a new row, or nothing when there is one.
MonitorTransaction(c) ==
  /\ asks[c] # NoHash /\ ~locked
  /\ rows' = IF asks[c] \in DOMAIN rows THEN rows ELSE Mirror!WithRow(rows, asks[c], "pending")
  /\ asks' = [asks EXCEPT ![c] = NoHash]
  /\ UNCHANGED <<piriRows, goroutine, stop, restarts>>

\* The check or the insertion fails, and so does MonitorTransaction.
FailToMonitor(c) ==
  /\ asks[c] # NoHash /\ ~locked
  /\ asks' = [asks EXCEPT ![c] = NoHash]
  /\ UNCHANGED <<tables, goroutine, stop, restarts>>

-------------------------------------------------------------------------------

Piri(t) ==
  /\ UNCHANGED <<goroutine, stop, asks, restarts>>
  /\ Mirror!Piri(t)

\* The process dies at any point; rows of both databases stay.
Restart ==
  /\ restarts < MaxRestarts
  /\ restarts' = restarts + 1
  /\ loop' = "off" /\ tick' = FALSE /\ locked' = FALSE
  /\ todo' = {} /\ tx' = NoHash /\ seen' = "pending"
  /\ stop' = "none"
  /\ asks' = [c \in Callers |-> NoHash]
  /\ UNCHANGED tables

Loop ==
  \/ TakeTick \/ TakeStop
  \/ ReadPending \/ FailToReadPending
  \/ \E t \in TxHashes : NextTx(t)
  \/ QueryPiri \/ FailToQueryPiri
  \/ UpdateRow \/ FailToUpdateRow
  \/ EndRound

Ask(c) == MonitorTransaction(c) \/ FailToMonitor(c)

Next ==
  \/ Start \/ Tick \/ Loop
  \/ CloseStopChan \/ ReturnFromStop
  \/ \E c \in Callers : Ask(c) \/ \E t \in TxHashes : CallMonitor(c, t)
  \/ \E t \in TxHashes : Piri(t)
  \/ Restart

Spec == Init /\ [][Next]_vars

\* The goroutine runs on and the ticker ticks.  select chooses at random, so a
\* closed channel is taken in the end; the mutex passes over nobody for ever; a
\* query that is tried again and again succeeds in the end, if it can at all.
Fairness ==
  /\ WF_vars(Start) /\ WF_vars(Loop) /\ WF_vars(ReturnFromStop)
  /\ WF_vars(Tick)
  /\ SF_vars(TakeStop) /\ SF_vars(ReadPending)
  /\ \A t \in TxHashes : SF_vars(QueryPiri /\ tx = t) /\ SF_vars(UpdateRow /\ tx = t)
  /\ \A c \in Callers : SF_vars(Ask(c))

FairSpec == Spec /\ Fairness

-------------------------------------------------------------------------------
(* Properties.                                                             *)

\* The rows implement the mirror, its liveness included: a pending row whose
\* transaction Piri's database shows as decided takes that status once, unless
\* the watcher is stopped, however many queries fail meanwhile and whatever
\* becomes of the other rows of the same round.
MirrorSpec == Mirror!FairSpec

\* What a row says once it left "pending" is what Piri's database says, although
\* a round works on rows it read before.
ResolvedAsPiri == Mirror!ResolvedAsPiri

\* Once Stop has returned no round is under way and none begins: a row changes
\* no more, those that MonitorTransaction goes on adding included.
QuietAfterStop ==
  [][stop = "returned" /\ restarts' = restarts =>
       \A t \in DOMAIN rows : t \in DOMAIN rows' /\ rows'[t] = rows[t]]_vars

\* Stop returns although a round may be under way, and ticks go on arriving.
StopReturns == stop = "closed" ~> stop # "closed"

\* MonitorTransaction returns although rounds take the mutex again and again.
MonitorReturns == \A c \in Callers : asks[c] # NoHash ~> asks[c] = NoHash

-------------------------------------------------------------------------------
(* Why the safety properties hold: what every step preserves.              *)

\* The mutex is held exactly during a round.
Round == {"ranging", "querying", "updating"}

RoundInv == locked <=> loop \in Round

\* What the round read still holds: its rows are pending, and what it saw of one
\* is what Piri's row says.
CheckedInv ==
  /\ \A t \in todo : t \in DOMAIN rows /\ rows[t] = "pending"
  /\ loop \notin Round => todo = {}
  /\ loop \in {"querying", "updating"} =>
       tx \in DOMAIN rows \ todo /\ rows[tx] = "pending"
  /\ loop = "updating" =>
       tx \in DOMAIN piriRows \cap Readable /\ piriRows[tx] = seen /\ seen # "pending"

WatcherInv ==
  /\ TypeOK
  /\ RoundInv /\ CheckedInv
  /\ stop = "returned" => loop = "done"
  /\ ResolvedAsPiri

===============================================================================
