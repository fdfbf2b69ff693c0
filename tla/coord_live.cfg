CONSTANTS
  s1 = s1
  s2 = s2
  d1 = d1
  d2 = d2
  l1 = l1
  NoOwner = NoOwner
  NoRun = NoRun
  Syncs <- OneSync
  Retries = {}
  Demands <- OneDemand
  LiveRuns <- OneLiveRun
  MaxBatches = 1
  MaxUnlocks = 1
  SourceMayLag = TRUE
  LeaseOutlivesWork = FALSE
  SecondaryFailures = FALSE
SPECIFICATION FairSpec
INVARIANTS OwnerHasCurrentFence
PROPERTIES ClaimHandedBack
