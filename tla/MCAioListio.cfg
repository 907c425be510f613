CONSTANTS
  NUM_AIOCB_ARRAY = 3
  MaxLen = 5
SPECIFICATION Spec
CHECK_DEADLOCK FALSE
INVARIANTS BuffersStable CopyExact
