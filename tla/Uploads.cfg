SPECIFICATION FairSpec
CONSTANTS
  Handlers = {h1, h2, h3}
  CIDs = {a, b}
  Filenames = {m}
  Faults = {"blob", "save"}
  MaxRestarts = 1
  NoHandler = NoHandler
  NoFile = NoFile
  Torn = Torn
INVARIANTS
  UploadInv
  ListedFilesStored
  FileCurrent
  AnsweredSaved
  NeverStuck
PROPERTIES
  ListSpec
  UploadAnswered
