CONSTANTS
  Conns = {c1, c2}
  NoConn = noconn
  NFds = 4
  max_ep_events = 4
  AllocStep = 1
SPECIFICATION FairSpec
CHECK_DEADLOCK FALSE
INVARIANTS TableMatchesFds SafeUntilShortage
PROPERTIES TimeoutJustified SilentSessionsClosed
