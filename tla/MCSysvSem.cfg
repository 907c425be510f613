CONSTANTS
  Programs = {p1, p2}
  ZwaitPrograms = {p2}
  NChild = 3
  Aborter = 2
SPECIFICATION FairSpec
CHECK_DEADLOCK FALSE
INVARIANTS UnitConservation RemovedByOthers
PROPERTIES ZeroMeansFull EveryProgramEnds
