CONSTANTS
  s1 = s1
  s2 = s2
  r1 = r1
  r2 = r2
  Senders = {s1, s2}
  Receivers = {r1, r2}
  RegexProgs = {s2, r2}
  File <- MCFile
  MsgType <- MCMsgType
  QueueSize = 2
SPECIFICATION FairSpec
CHECK_DEADLOCK FALSE
PROPERTIES QueueRemoved
