------------------------------ MODULE PdpSystem ------------------------------
(***************************************************************************)
(* The whole of what decides the status of a piece, in one process:        *)
(* PieceService, the watcher's goroutine of TransactionWatcher with its    *)
(* rounds and failing queries, and Piri's database.  PdpServer has         *)
(* RowMirror where this module has the watcher itself.                     *)
(*                                                                         *)
(* The wiring is that of main (cmd/server/main.go): one database, which    *)
(* both work on; requests after PDPServer.Start has returned; and no call  *)
(* of Stop, neither of the server's nor of the watcher's.                  *)
(***************************************************************************)
EXTENDS PdpServer

CONSTANTS
  Callers,        \* goroutines that call MonitorTransaction
  Readable,       \* hashes whose row can be read from Piri's database
  NoHash

ASSUME SystemAssumption ==
  /\ Readable \subseteq TxHashes
  /\ NoHash \notin TxHashes

VARIABLES
  loop, tick, locked, todo, tx, seen,   \* the watcher's goroutine
  stop,                                 \* the call of its Stop
  asks                                  \* the callers of MonitorTransaction

Watcher == INSTANCE TransactionWatcher WITH rows <- messageWaits

watcherVars == <<loop, tick, locked, todo, tx, seen, stop, asks>>
systemVars == <<serverVars, watcherVars>>

SystemInit == ServerInit /\ Watcher!Init

\* PDPServer.Start returns once it has launched the goroutine.
StartAll == Start /\ Watcher!Start

ServePieces(h) == Serve(h) /\ UNCHANGED watcherVars

\* The rest of the process and its memory, while the watcher works.
Aside == UNCHANGED <<pieceVars, started>>

\* The goroutine goes on, or its ticker ticks.
RunWatcher == Aside /\ (Watcher!Tick \/ Watcher!Loop)

\* Somebody has a hash monitored.
AskToWatch(c) ==
  /\ started
  /\ Aside
  /\ Watcher!Ask(c) \/ \E t \in Watched : Watcher!CallMonitor(c, t)

RunPiri(t) == Aside /\ Watcher!Piri(t)

CrashAll == Crash /\ Watcher!Restart

SystemNext ==
  \/ StartAll
  \/ \E h \in Handlers : ServePieces(h)
  \/ RunWatcher
  \/ \E c \in Callers : AskToWatch(c)
  \/ \E t \in TxHashes : RunPiri(t)
  \/ CrashAll

SystemSpec == SystemInit /\ [][SystemNext]_systemVars

\* sync.RWMutex starves nobody: a request that finds the mutex free again and
\* again gets it.  A request that holds it is never blocked for ever: file
\* copies, commits and the adapter's call return.  The goroutine and its queries
\* are as fair as in TransactionWatcher.
SystemFairness ==
  /\ WF_systemVars(StartAll)
  /\ \A h \in Handlers : /\ SF_systemVars(ServePieces(h) /\ Enter(h))
                         /\ WF_systemVars(ServePieces(h) /\ Finish(h))
  /\ WF_systemVars(Aside /\ Watcher!Tick) /\ WF_systemVars(Aside /\ Watcher!Loop)
  /\ SF_systemVars(Aside /\ Watcher!ReadPending)
  /\ \A t \in TxHashes : /\ SF_systemVars(Aside /\ Watcher!QueryPiri /\ tx = t)
                         /\ SF_systemVars(Aside /\ Watcher!UpdateRow /\ tx = t)

FairSystemSpec == SystemSpec /\ SystemFairness

-------------------------------------------------------------------------------
(* Properties.                                                             *)

\* Put in place of the mirror, the watcher leaves the server what PdpServer says
\* it is: a round that works on rows it read before, with requests, crashes and
\* Piri in between, never does to the piece service's rows what the mirror would
\* not.
ServerSteps == ServerSpec

\* Clients go on asking for the status of every piece, and their questions get to
\* the rows.  Nothing in the server makes them: it is an assumption of the next
\* property, and of no other.
ClientsAsk ==
  \A id \in PieceIDs :
    /\ SF_systemVars(\E h \in Handlers : ServePieces(h) /\ Poll(h, id))
    /\ SF_systemVars(\E h \in Handlers : ServePieces(h) /\ Look(h, id))

\* What MonitorTransaction is for: once a hash has a row in the server's own
\* table, and Piri has decided it, a piece pending on that hash stops being
\* pending if clients ask, through failing rounds and a restart.  Only
\* MonitorTransaction makes such rows and nothing in the repository calls it; what
\* that means for the server as it is, is DatabasesInSync.
MonitoredIsResolved ==
  ClientsAsk =>
    \A id \in PieceIDs, t \in TxHashes :
      (/\ PendingOn(id, t)
       /\ t \in DOMAIN messageWaits
       /\ t \in DOMAIN piriRows /\ piriRows[t] \in {"succeeded", "reverted"})
        ~> ~PendingOn(id, t)

-------------------------------------------------------------------------------
(* Why: what every step preserves.                                         *)

SystemInv ==
  /\ started <=> loop # "off"
  /\ stop = "none" /\ loop # "done"
  /\ \A c \in Callers : asks[c] \in Watched \cup {NoHash}

===============================================================================
