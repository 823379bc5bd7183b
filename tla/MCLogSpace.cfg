SPECIFICATION FairSpec
CONSTANTS
  p1 = p1
  p2 = p2
  p3 = p3
  Procs = {p1, p2, p3}
  InitProc = p1
  b1 = b1
  b2 = b2
  b3 = b3
  Blocks = {b1, b2, b3}
  Data = {0}
  Torn = Torn
  NotCached = NotCached
  MAXOPBLOCKS = 2
  LOGSIZE = 4
  nlog = 4
  OpBlocks = 1
INVARIANTS NoPanic LogInv
PROPERTIES SleeperWoken
