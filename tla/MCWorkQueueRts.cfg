CONSTANTS
  Producer = A
  Consumers = {b1, b2}
  NoThread = none
  SigThread = S
  MAX_ITEMS = 2
  StreamLen = 4
  SigPending = 2
SPECIFICATION RtsFairSpec
INVARIANTS NotifiedOnce TidKnown
PROPERTIES EveryJobReported
