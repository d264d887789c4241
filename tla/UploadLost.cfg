SPECIFICATION Spec
CONSTANTS
  Handlers = {h1, h2}
  CIDs = {a, b}
  Filenames = {m}
  Faults = {}
  MaxRestarts = 1
  NoHandler = NoHandler
  NoFile = NoFile
  Torn = Torn
PROPERTIES
  AnsweredFilesKept
