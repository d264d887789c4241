------------------------------ MODULE PdpServer ------------------------------
(***************************************************************************)
(* The piece service and the mirror of transactions in one process, as     *)
(* main wires them (cmd/server/main.go): the rows the piece service reads  *)
(* are those the watcher keeps, and the watcher follows Piri.              *)
(*                                                                         *)
(* PieceService lets its rows change as the watcher's interface allows;    *)
(* here they change only as RowMirror says.  Watched is what the present   *)
(* code leaves open: the hashes somebody gives to MonitorTransaction.      *)
(***************************************************************************)
EXTENDS PieceService

CONSTANT Watched        \* hashes that somebody has monitored

ASSUME WatchedAssumption == Watched \subseteq TxHashes

VARIABLES
  piriRows,       \* MessageWaitsEth rows of Piri's database
  started         \* PDPServer.Start has returned in this process

serverVars == <<vars, piriRows, started>>

Rows == INSTANCE RowMirror WITH rows <- messageWaits, running <- started, Readable <- TxHashes

ServerTypeOK ==
  /\ TypeOK
  /\ piriRows \in Rows!Tables
  /\ started \in BOOLEAN

ServerInit == Init /\ piriRows = << >> /\ started = FALSE

\* Start starts Piri and the watcher, before main listens for requests.
Start ==
  /\ ~started
  /\ started' = TRUE
  /\ UNCHANGED <<vars, piriRows>>

\* Whatever happens in the piece service.
pieceVars == <<memory, blobs, parked, calls, restarts>>

Serve(h) ==
  /\ started
  /\ Handle(h) \/ Enter(h) \/ Finish(h)
  /\ UNCHANGED <<piriRows, started>>

\* A caller of MonitorTransaction.
Watch(t) == started /\ UNCHANGED pieceVars /\ Rows!Watch(t)

\* The watcher.
Mirror(t) == UNCHANGED pieceVars /\ Rows!Mirror(t)

Piri(t) == UNCHANGED pieceVars /\ Rows!Piri(t)

Crash == Restart /\ started' = FALSE /\ UNCHANGED piriRows

ServerNext ==
  \/ Start
  \/ \E h \in Handlers : Serve(h)
  \/ \E t \in Watched : Watch(t)
  \/ \E t \in TxHashes : Mirror(t) \/ Piri(t)
  \/ Crash

ServerSpec == ServerInit /\ [][ServerNext]_serverVars

Quiet == UNCHANGED <<piriRows, started>>

\* A client asks for the status of a piece.
Poll(h, id) == started /\ Accept(h, [op |-> "monitor", id |-> id]) /\ Quiet

\* That question is looked into, by a query that succeeds.
Look(h, id) ==
  started /\ Enters(h, "monitor") /\ req[h].id = id /\ MonitorTransactionStatus(h) /\ Quiet

-------------------------------------------------------------------------------
(* Properties.                                                             *)

\* In the server the piece service is what PieceService says it is: its rows
\* only change as they may, so whatever holds of it holds here.
PieceSpec == Spec

\* A piece is reported as in its proof set only if Piri's own database says so:
\* the status passed through two tables, a watcher's round and a client's
\* question, and none of them came too early.
ConfirmedAsPiri ==
  \A id \in DOMAIN pieces :
    pieces[id].status = "added_to_proofset" =>
      pieces[id].tx \in DOMAIN piriRows /\ piriRows[pieces[id].tx] = "succeeded"

-------------------------------------------------------------------------------
(* What the documentation says, and the code does not do.                  *)

PendingOn(id, t) ==
  /\ id \in DOMAIN pieces
  /\ pieces[id].status = "pending_confirmation" /\ pieces[id].tx = t

\* docs/ARCHITECTURE.md:117 "State Synchronization: Transaction watcher keeps
\* databases in sync": what Piri's database says of the transaction of a pending
\* piece gets into the server's own database.
DatabasesInSync ==
  \A id \in PieceIDs, t \in TxHashes :
    (PendingOn(id, t) /\ t \in DOMAIN piriRows /\ piriRows[t] # "pending")
      ~> (~PendingOn(id, t) \/ (t \in DOMAIN messageWaits /\ messageWaits[t] = piriRows[t]))

-------------------------------------------------------------------------------
(* Why the safety properties hold: what every step preserves.              *)

\* Piri's rows have a status, and rows that left "pending" agree with them.
RowsInv ==
  /\ \A t \in DOMAIN piriRows : piriRows[t] \in TxState
  /\ Rows!ResolvedAsPiri

===============================================================================
