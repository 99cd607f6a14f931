SPECIFICATION FairSpec
CONSTANTS
  Operations = {o1, o2}
  Accepted = {o1}
  Workers = {w1, w2}
  TTL = 2
  MaxFaults = 1
  None = None
INVARIANTS
  SummaryOfSuccess
  LatestOutlives
PROPERTIES
  StatusGoesForward
  WarmEnds
