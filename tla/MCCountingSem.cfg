CONSTANTS
  max_child = 4
  Quitter = 2
  N = 2
  MaxNews = 2
SPECIFICATION FairSpec
CHECK_DEADLOCK FALSE
INVARIANTS TokenConservation EmptyCallsAreNews CleanEnd
PROPERTIES EndsUnlessMerged
