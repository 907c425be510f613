CONSTANTS
  Pids = {p1, p2, p3, p4, p5, p6}
  MAX_POOL = 3
SPECIFICATION LoopsSpec
SYMMETRY PidSymmetry
CHECK_DEADLOCK FALSE
INVARIANTS NothingLeft PoolExact StatusSet
