-------------------------- MODULE PiecePaddingProofs --------------------------
(* The sizes of a piece, for files of any size.                            *)
EXTENDS PiecePadding, TLAPS

\* The sizes a piece goes through are well typed.
THEOREM Typing == Spec => []TypeOK
  <1>1. Init => TypeOK
    BY PowersAssumption DEF Init, TypeOK, NoRow
  <1>2. TypeOK /\ [Next]_vars => TypeOK'
    BY PowersAssumption DEF TypeOK, Next, vars, UploadPiece, Double, Pad, Refuse, Digest,
                            CreatePiriDatabaseEntries
  <1>3. QED
    BY <1>1, <1>2, PTL DEF Spec

\* Stated for a number: the provers do not do arithmetic on a primed variable.
LEMMA TwiceFact == \A n \in Nat : n > 0 => 1 < 2 * n
  OBVIOUS

\* One round of the loop leaves a power of two below twice the file's size.
LEMMA LoopStep ==
  ASSUME TypeOK, LoopInv, [Next]_vars PROVE LoopInv'
  <1>1. CASE UploadPiece
    <2>1. /\ fileSize' \in Nat /\ fileSize' > 0
          /\ nextPowerOfTwo' = 1 /\ phase' = "padding"
      BY <1>1, PowersAssumption DEF UploadPiece
    <2>2. nextPowerOfTwo' < 2 * fileSize'
      BY <2>1, TwiceFact
    <2>3. nextPowerOfTwo' \in Powers
      BY <2>1, PowersAssumption
    <2>4. QED
      BY <2>1, <2>2, <2>3 DEF LoopInv
  <1>2. CASE Double
    BY <1>2, PowersAssumption DEF Double, LoopInv, TypeOK
  <1>3. CASE Pad
    BY <1>3 DEF Pad, LoopInv, TypeOK
  <1>4. CASE Refuse \/ Digest
    BY <1>4 DEF Refuse, Digest, LoopInv
  <1>5. CASE CreatePiriDatabaseEntries
    BY <1>5 DEF CreatePiriDatabaseEntries, LoopInv
  <1>6. CASE UNCHANGED vars
    BY <1>6 DEF vars, LoopInv
  <1>7. QED
    BY <1>1, <1>2, <1>3, <1>4, <1>5, <1>6 DEF Next

\* The loop variable of padToPowerOfTwo is a power of two less than twice the
\* size of the file, before and after every doubling.
THEOREM Loop == Spec => []PaddingInv
  <1>1. Init => LoopInv
    BY DEF Init, LoopInv
  <1>2. TypeOK /\ LoopInv /\ [Next]_vars => LoopInv'
    BY LoopStep
  <1>3. TypeOK /\ LoopInv => PaddingInv
    BY DEF PaddingInv
  <1>4. QED
    BY <1>1, <1>2, <1>3, Typing, PTL DEF Spec

\* padToPowerOfTwo returns the least power of two that holds the file: a smaller
\* one that did would be at most half of it, and so less than the file.
THEOREM PadsToLeastPower == Spec => []LeastPower
  <1>1. ASSUME TypeOK, LoopInv, phase \notin {"none", "padding"}
        PROVE  size \in Powers /\ fileSize <= size
    BY <1>1 DEF LoopInv, TypeOK
  <1>2. ASSUME TypeOK, LoopInv, phase \notin {"none", "padding"},
               NEW p \in Powers, fileSize <= p, ~(size <= p)
        PROVE  FALSE
    <2>1. p \in Nat /\ size \in Nat /\ fileSize \in Nat /\ p < size
      BY <1>2, PowersAssumption DEF TypeOK
    <2>2. 2 * p <= size
      BY <1>2, <1>1, <2>1, PowersAssumption
    <2>3. size < 2 * fileSize
      BY <1>2 DEF LoopInv
    <2>4. QED
      BY <2>1, <2>2, <2>3, <1>2
  <1>3. PaddingInv => LeastPower
    BY <1>1, <1>2 DEF PaddingInv, LeastPower
  <1>4. QED
    BY <1>3, Loop, PTL

\* Whatever UploadPiece accepts, AddPieceToProofSet can take for a padded piece
\* size.
THEOREM AcceptedSizes == Spec => []SizeIsPieceSize
  <1>1. PaddingInv => SizeIsPieceSize
    BY DigestAssumption DEF PaddingInv, TypeOK, LoopInv, SizeIsPieceSize
  <1>2. QED
    BY <1>1, Loop, PTL

===============================================================================
