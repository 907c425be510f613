CONSTANTS
  NUM_THREADS = 4
  Procs = {p1, p2}
  PROC_THREADS = 2
SPECIFICATION FairSpec
CHECK_DEADLOCK FALSE
INVARIANTS HeldByRunning PredecessorStays
PROPERTIES RunsToEnd
