SPECIFICATION FairSpec
CONSTANTS
  Nodes <- KiteNodes
  Coordinator = 1
  Links <- KiteLinks
  Hops <- KiteHops
  MaxHopCount = 3
  MaxNeighbors = 2
  MaxTroubles = 1
INVARIANTS TypeOK NeverTooClose GoesUphill
PROPERTIES FindsDistance NearHasWay GoneHasNoWay
