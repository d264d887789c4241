------------------------ MODULE MCTransactionWatcher ------------------------
(* A small instance of TransactionWatcher for TLC.                         *)
EXTENDS TransactionWatcher

CONSTANTS t1, t2

\* One row that can be read from Piri's database and one that cannot.
MCTxHashes == {t1, t2}
MCReadable == {t1}

=============================================================================
