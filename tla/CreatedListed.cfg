SPECIFICATION Spec
CONSTANTS
  h1 = h1
  h2 = h2
  t1 = t1
  t2 = t2
  Handlers = {h1}
  Hashes = {t1}
  Names = {n1}
  MaxSets = 1
  Databases = {"own"}
  Faults = {}
PROPERTIES
  ListShowsCreated
