SPECIFICATION FairSystemSpec
CONSTANTS
  c1 = c1
  p1 = p1
  t1 = t1
  Handlers = {h1}
  PieceIDs = {p1}
  CIDs = {c1}
  TxHashes = {t1}
  Contents <- OneContent
  PieceCIDOf <- OneCIDOf
  PieceIDOf <- OneIDOf
  ProofSetIDs <- OneProofSet
  PiriResults <- AnyResult
  Faults = {"db"}
  MaxRestarts = 1
  Watched = {t1}
  Callers = {k1}
  Readable = {t1}
  NoHash = NoHash
  NoCID = NoCID
  NoHandler = NoHandler
INVARIANTS
  ConfirmedAsPiri
PROPERTIES
  PieceSpec
  ServerSteps
  RequestsAnswered
  MonitoredIsResolved
