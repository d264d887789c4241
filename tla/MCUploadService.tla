---------------------------- MODULE MCUploadService ----------------------------
(* Small instances of UploadService for TLC.                               *)
EXTENDS UploadService, TLC

Symmetry == Permutations(Handlers) \cup Permutations(CIDs) \cup Permutations(Filenames)

===============================================================================
