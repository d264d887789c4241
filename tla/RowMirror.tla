------------------------------ MODULE RowMirror ------------------------------
(***************************************************************************)
(* What watching transactions promises: the server's own rows of           *)
(* transactions follow the rows that Piri keeps in its database.           *)
(*                                                                         *)
(* A watched transaction starts as pending.  While the mirror runs, a      *)
(* pending row takes the status Piri's row has reached, whole and once;    *)
(* it never shows a status that Piri's row does not have.  Piri's row      *)
(* leaves "pending" once, when the chain has decided.                      *)
(***************************************************************************)
EXTENDS Naturals

CONSTANTS TxHashes,     \* hashes of signed transactions
          Readable      \* those whose row can be read from Piri's database

VARIABLES rows,         \* MessageWaitsEth in the server's own database: hash -> status
          piriRows,     \* Piri's table of the same rows
          running       \* whether anybody mirrors

mirrorVars == <<rows, piriRows, running>>

\* "succeeded" is TxStatus "confirmed" with *TxSuccess true, "reverted" is
\* "confirmed" with TxSuccess nil or false, "other" any further status.
Decided == {"succeeded", "reverted", "other"}
TxState == {"pending"} \cup Decided

Tables == UNION {[S -> TxState] : S \in SUBSET TxHashes}

MirrorTypeOK ==
  /\ rows \in Tables /\ piriRows \in Tables
  /\ running \in BOOLEAN

Init ==
  /\ rows = << >>
  /\ piriRows = << >>
  /\ running = FALSE

\* table with the row of t set to x
WithRow(table, t, x) == [u \in DOMAIN table \cup {t} |-> IF u = t THEN x ELSE table[u]]

\* Piri signs and sends a transaction.
PiriSends(t) ==
  /\ t \notin DOMAIN piriRows
  /\ piriRows' = WithRow(piriRows, t, "pending")
  /\ UNCHANGED <<rows, running>>

\* Piri learns what became of it.
PiriDecides(t, x) ==
  /\ t \in DOMAIN piriRows /\ piriRows[t] = "pending"
  /\ x \in Decided
  /\ piriRows' = WithRow(piriRows, t, x)
  /\ UNCHANGED <<rows, running>>

Watch(t) ==
  /\ t \notin DOMAIN rows
  /\ rows' = WithRow(rows, t, "pending")
  /\ UNCHANGED <<piriRows, running>>

Mirror(t) ==
  /\ running
  /\ t \in DOMAIN rows \cap DOMAIN piriRows \cap Readable
  /\ rows[t] = "pending" /\ piriRows[t] # "pending"
  /\ rows' = WithRow(rows, t, piriRows[t])
  /\ UNCHANGED <<piriRows, running>>

\* The mirror starts, or stops.
Toggle ==
  /\ running' = ~running
  /\ UNCHANGED <<rows, piriRows>>

Piri(t) == PiriSends(t) \/ \E x \in Decided : PiriDecides(t, x)

Next ==
  \/ \E t \in TxHashes : Piri(t) \/ Watch(t) \/ Mirror(t)
  \/ Toggle

Spec == Init /\ [][Next]_mirrorVars

\* A mirror that goes on running gets to every row.
FairSpec == Spec /\ \A t \in TxHashes : WF_mirrorVars(Mirror(t))

-------------------------------------------------------------------------------

\* A row that left "pending" tells what became of the transaction: it equals
\* Piri's row, which will not change any more.
ResolvedAsPiri ==
  \A t \in DOMAIN rows :
    rows[t] # "pending" => t \in DOMAIN piriRows /\ piriRows[t] = rows[t]

===============================================================================
