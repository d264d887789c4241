SPECIFICATION Spec
CONSTANTS
  h1 = h1
  h2 = h2
  t1 = t1
  t2 = t2
  Handlers <- TwoHandlers
  Hashes <- TwoHashes
  Names = {n1}
  MaxSets = 2
  Databases = {"own", "piri"}
  Faults = {"db", "piri"}
SYMMETRY Symmetries
INVARIANTS
  ProofSetsInv
  CreatedHasID
  AnswersNeverGoBack
  AnswersArePiris
