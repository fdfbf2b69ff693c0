SPECIFICATION Spec
CONSTANTS
  old = old
  new = new
  r1 = r1
  Lots <- BothLots
  Legacy <- OldOnly
  Polished <- BothLots
  Refreshers = {r1}
  Feed <- FeedRows
  MaxStamp = 2
  MaxBatches = 2
  MaxItems = 3
  MaxDemands = 1
INVARIANTS HistoryFollowsMaster ClassFollowsStatus MirrorAgrees
PROPERTIES CompletedCountsStock
CHECK_DEADLOCK FALSE
