SPECIFICATION FairSpec
CONSTANTS
  p1 = p1
  p2 = p2
  Procs = {p1, p2}
  Maker = p1
  Bytes = {0, 1}
  NoByte = NoByte
  PIPESIZE = 2
  UINT = 4
  MaxN = 2
INVARIANTS NoLostWakeup NoUseAfterFree
PROPERTIES PipeIsFifo CloseReleases
CHECK_DEADLOCK FALSE
