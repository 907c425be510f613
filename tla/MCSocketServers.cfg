CONSTANTS
  Conns = {c1, c2, c3}
  NoConn = noconn
  NFds = 3
  MaxData = 1
  MAX_FD_SOCKET = 3
  max_ep_events = 2
  SigMax = 3
  FewConns = {c1, c2}
  RtsData = 2
SPECIFICATION FairSpec
CHECK_DEADLOCK FALSE
INVARIANTS TableMatchesSockets ReportsCurrent SignalsCover BacklogLag
PROPERTIES ImplementsSessions EndedSessionsClosed
