CONSTANTS
  s1 = s1
  s2 = s2
  d1 = d1
  d2 = d2
  l1 = l1
  NoOwner = NoOwner
  NoRun = NoRun
  Syncs <- OneSync
  Retries = {}
  Demands <- TwoDemands
  LiveRuns = {}
  MaxBatches = 1
  MaxUnlocks = 0
  SourceMayLag = FALSE
  LeaseOutlivesWork = FALSE
  SecondaryFailures = FALSE
SPECIFICATION Spec
SYMMETRY DemandSymmetry
INVARIANTS FinishedHoldsNothing
PROPERTIES ClaimReleasedByOwner DemandLockReleasedByOwner
