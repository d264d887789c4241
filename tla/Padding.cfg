SPECIFICATION FairSpec
CONSTANTS
  MaxFileSize = 1200
  Powers <- MCPowers
  MinPayload = 65
  MinPieceSize = 128
INVARIANTS
  PaddingInv
  LeastPower
  SizeIsPieceSize
PROPERTIES
  UploadDecided
CHECK_DEADLOCK FALSE
