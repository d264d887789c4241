SPECIFICATION Spec
CONSTANTS
  c1 = c1
  c2 = c2
  p1 = p1
  p2 = p2
  t1 = t1
  Handlers = {h1, h2}
  PieceIDs = {p1, p2}
  CIDs = {c1, c2}
  TxHashes = {t1}
  Contents <- MCContents
  PieceCIDOf <- MCPieceCIDOf
  PieceIDOf <- MCPieceIDOf
  ProofSetIDs <- OneProofSet
  PiriResults <- AnyResult
  Faults = {"file", "put", "db"}
  MaxRestarts = 2
  NoCID = NoCID
  NoHandler = NoHandler
SYMMETRY HandlerSymmetry
INVARIANTS
  IInv
  AtMostOnceSubmission
  SubmittedPieceOwnsCall
  ConfirmedOnlyByRow
  UnlockedBlobsComplete
  NeverBlocked
PROPERTIES
  OrphanedRowsStayOrphaned
  LedgerSpec
