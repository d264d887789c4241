---------------------------- MODULE MCProofSets ----------------------------
(* Small instances of ProofSets for TLC.                                   *)
EXTENDS ProofSets, TLC

CONSTANTS h1, h2, t1, t2

TwoHandlers == {h1, h2}
TwoHashes == {t1, t2}

Symmetries == Permutations(TwoHandlers) \cup Permutations(TwoHashes)

=============================================================================
