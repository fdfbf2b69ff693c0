CONSTANTS
  b1 = b1
  b2 = b2
  u1 = u1
  u2 = u2
  v1 = v1
  v2 = v2
  g1 = g1
  g2 = g2
  a1 = a1
  c1 = c1
  c2 = c2
  NoOne = NoOne
  NoImport = NoImport
  Imports <- TwoImports
  Uploads <- TwoUploads
  Validations <- OneValidation
  Generations <- OneGeneration
  Archives <- OneArchive
  Saves <- OneSave
SPECIFICATION FairSpec
PROPERTIES ArchivedIsFrozen EveryRequestAnswered
CHECK_DEADLOCK FALSE
