CONSTANTS
  b1 = b1
  b2 = b2
  u1 = u1
  u2 = u2
  v1 = v1
  v2 = v2
  g1 = g1
  g2 = g2
  a1 = a1
  c1 = c1
  c2 = c2
  NoOne = NoOne
  NoImport = NoImport
  Imports <- OneImport
  Uploads <- OneUpload
  Validations <- TwoValidations
  Generations <- TwoGenerations
  Archives = {}
  Saves <- TwoSaves
SPECIFICATION Spec
SYMMETRY Symmetry
INVARIANTS AttemptsAgree FindingsOfLastCheck OutputLineage CatalogKeepsEveryChange
PROPERTIES StaleWorkerChangesNothing ImplementsPromise
CHECK_DEADLOCK FALSE
