CONSTANTS
  Producer = A
  Consumers = {b1, b2}
  NoThread = none
  MAX_ITEMS = 4
  StreamLen = 7
SPECIFICATION FairSpec
INVARIANTS TypeOK PushSlotInv NoLostWakeup
PROPERTIES ImplementsFifo EveryByteProcessed
