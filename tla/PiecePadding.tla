----------------------------- MODULE PiecePadding -----------------------------
(***************************************************************************)
(* The sizes a piece goes through: the file of a request is padded by      *)
(* padToPowerOfTwo, go-fil-commp-hashhash accepts or refuses the padded    *)
(* content, PieceInfo.Size records its length, AddPieceToProofSet takes    *)
(* that for a Filecoin padded piece size, and createPiriDatabaseEntries    *)
(* stores it twice (pkg/piece/service.go).                                 *)
(***************************************************************************)
EXTENDS Naturals

CONSTANTS
  MaxFileSize,    \* bound on the size of a file
  Powers,         \* the powers of two, as far as they are needed
  MinPayload,     \* fewest bytes go-fil-commp-hashhash digests
  MinPieceSize    \* smallest abi.PaddedPieceSize that validates

\* What the proofs use of the powers of two: they start at 1, each is twice the
\* one before, and none is missing.
ASSUME PowersAssumption ==
  /\ MaxFileSize \in Nat
  /\ Powers \subseteq Nat \ {0}
  /\ 1 \in Powers
  /\ \A p \in Powers : p < MaxFileSize => 2 * p \in Powers
  /\ \A p, q \in Powers : p < q => 2 * p <= q

\* Every padded length the digest accepts is a size that validates.
ASSUME DigestAssumption ==
  /\ MinPayload \in Nat /\ MinPieceSize \in Nat
  /\ \A p \in Powers : p >= MinPayload => p >= MinPieceSize

VARIABLES
  phase,          \* how far the piece has come
  fileSize,       \* len(fileContent) of the request
  nextPowerOfTwo, \* the local variable of padToPowerOfTwo
  size,           \* len(paddedContent), which becomes PieceInfo.Size
  row             \* the sizes of the ParkedPiece row

vars == <<phase, fileSize, nextPowerOfTwo, size, row>>

NoRow == [padded |-> 0, raw |-> 0]

TypeOK ==
  /\ phase \in {"none", "padding", "padded", "refused", "uploaded", "parked"}
  /\ fileSize \in 0..MaxFileSize
  /\ nextPowerOfTwo \in Nat
  /\ size \in Nat
  /\ row \in [padded: Nat, raw: Nat]

Init ==
  /\ phase = "none"
  /\ fileSize = 0
  /\ nextPowerOfTwo = 0
  /\ size = 0
  /\ row = NoRow

\* handleUploadPiece answers 400 to an empty file, so UploadPiece never sees one.
UploadPiece ==
  /\ phase = "none"
  /\ fileSize' \in 1..MaxFileSize
  /\ phase' = "padding"
  /\ nextPowerOfTwo' = 1
  /\ UNCHANGED <<size, row>>

\* Slip: <= for <.
DoubleOnceMore ==
  /\ phase = "padding"
  /\ nextPowerOfTwo <= fileSize
  /\ nextPowerOfTwo' = 2 * nextPowerOfTwo
  /\ UNCHANGED <<phase, fileSize, size, row>>

\* Slip: the loop's body forgets the shift.
DoubleStuck ==
  /\ phase = "padding"
  /\ nextPowerOfTwo < fileSize
  /\ UNCHANGED vars

\* for nextPowerOfTwo < size
Double ==
  /\ phase = "padding"
  /\ nextPowerOfTwo < fileSize
  /\ nextPowerOfTwo' = 2 * nextPowerOfTwo
  /\ UNCHANGED <<phase, fileSize, size, row>>

\* The data itself when it has that length already, or a longer buffer.
Pad ==
  /\ phase = "padding"
  /\ nextPowerOfTwo >= fileSize
  /\ size' = nextPowerOfTwo
  /\ phase' = "padded"
  /\ UNCHANGED <<fileSize, nextPowerOfTwo, row>>

\* "failed to get commp digest"
Refuse ==
  /\ phase = "padded"
  /\ size < MinPayload
  /\ phase' = "refused"
  /\ UNCHANGED <<fileSize, nextPowerOfTwo, size, row>>

\* Slip: the digest's error is ignored.
DigestUnchecked ==
  /\ phase = "padded"
  /\ phase' = "uploaded"
  /\ UNCHANGED <<fileSize, nextPowerOfTwo, size, row>>

Digest ==
  /\ phase = "padded"
  /\ size >= MinPayload
  /\ phase' = "uploaded"
  /\ UNCHANGED <<fileSize, nextPowerOfTwo, size, row>>

\* Slip: raw is made the number of zeros, subtracted the wrong way.
RowOfZeros ==
  /\ phase = "uploaded"
  /\ row' = [padded |-> size, raw |-> fileSize - size]
  /\ phase' = "parked"
  /\ UNCHANGED <<fileSize, nextPowerOfTwo, size>>

\* A second AddPieceToProofSet is turned down before it stores anything.
CreatePiriDatabaseEntries ==
  /\ phase = "uploaded"
  /\ row' = [padded |-> size, raw |-> size]
  /\ phase' = "parked"
  /\ UNCHANGED <<fileSize, nextPowerOfTwo, size>>

Next == UploadPiece \/ Double \/ Pad \/ Refuse \/ Digest \/ CreatePiriDatabaseEntries

Spec == Init /\ [][Next]_vars

\* UploadPiece is one goroutine running straight through.
FairSpec == Spec /\ WF_vars(Double \/ Pad \/ Refuse \/ Digest)

-------------------------------------------------------------------------------
(* Properties.                                                             *)

\* padToPowerOfTwo returns the least power of two that holds the file.
LeastPower ==
  phase \notin {"none", "padding"} =>
    /\ size \in Powers
    /\ fileSize <= size
    /\ \A p \in Powers : fileSize <= p => size <= p

\* The Size of a piece that was digested passes for an abi.PaddedPieceSize, so
\* GenerateUnsealedCID does not turn down a piece UploadPiece accepted.
SizeIsPieceSize ==
  phase \in {"uploaded", "parked"} => size \in Powers /\ size >= MinPieceSize

\* The loop ends: every upload is accepted or refused.
UploadDecided == phase = "padding" ~> phase \in {"refused", "uploaded"}

-------------------------------------------------------------------------------
(* Why LeastPower holds: what the loop keeps true.                         *)

LoopInv ==
  phase # "none" =>
    /\ fileSize > 0
    /\ nextPowerOfTwo \in Powers
    /\ nextPowerOfTwo < 2 * fileSize
    /\ phase # "padding" => size = nextPowerOfTwo /\ fileSize <= size
    /\ phase \in {"uploaded", "parked"} => size >= MinPayload
    /\ phase = "parked" => row = [padded |-> size, raw |-> size]

PaddingInv == TypeOK /\ LoopInv

===============================================================================
