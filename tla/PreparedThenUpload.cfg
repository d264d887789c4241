SPECIFICATION Spec
CONSTANTS
  c1 = c1
  c2 = c2
  p1 = p1
  p2 = p2
  t1 = t1
  Handlers = {h1, h2}
  PieceIDs = {p1, p2}
  CIDs = {c1}
  TxHashes = {t1}
  Contents <- OneContent
  PieceCIDOf <- OneCIDOf
  PieceIDOf <- OneIDOf
  ProofSetIDs <- OneProofSet
  PiriResults <- AdapterResult
  Faults = {}
  MaxRestarts = 0
  NoCID = NoCID
  NoHandler = NoHandler
PROPERTIES
  PreparedPieceAcceptsUpload
