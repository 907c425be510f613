CONSTANTS
  Kids = {k1, k2}
  Conns = {c1, c2, c3}
  NoConn = noconn
  MaxFds = 1
SPECIFICATION FairSpec
CHECK_DEADLOCK FALSE
INVARIANTS PoolLoss
PROPERTIES EndedFreesChild
