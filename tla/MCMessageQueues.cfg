CONSTANTS
  s1 = s1
  s2 = s2
  r1 = r1
  r2 = r2
  PosixSenders = {s1}
  PosixReceivers = {r1, r2, r3}
  SigevReceivers = {r1, r2}
  Unlinkers = {u1}
  NLines = 2
  mq_maxmsg = 1
  SysvSenders = {s1, s2}
  SysvReceivers = {r1, r2}
  RegexProgs = {s2, r2}
  File <- MCFile
  MsgType <- MCMsgType
  QueueSize = 2
SPECIFICATION MqFairSpec
CHECK_DEADLOCK FALSE
INVARIANTS SplitOnlyByUnlink PrefixSent
PROPERTIES EveryMessageReceived
