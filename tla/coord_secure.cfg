CONSTANTS
  s1 = s1
  s2 = s2
  d1 = d1
  d2 = d2
  l1 = l1
  NoOwner = NoOwner
  NoRun = NoRun
  Syncs <- TwoSyncs
  Retries <- OneRetry
  Demands <- OneDemand
  LiveRuns = {}
  MaxBatches = 2
  MaxUnlocks = 0
  SourceMayLag = TRUE
  LeaseOutlivesWork = TRUE
  SecondaryFailures = TRUE
SPECIFICATION Spec
INVARIANTS Exclusive AppliedInOrder OneSnapshot
PROPERTIES ImplementsSnapshot
