SPECIFICATION Spec
CONSTANTS
  p1 = p1
  p2 = p2
  Procs = {p1, p2}
  InitProc = p1
  b1 = b1
  b2 = b2
  b3 = b3
  Blocks = {b1, b2, b3}
  Data = {0, 1}
  Torn = Torn
  NotCached = NotCached
  MAXOPBLOCKS = 1
  LOGSIZE = 3
  nlog = 3
  OpBlocks = 1
SYMMETRY Symmetry
INVARIANTS PinsBalanced
PROPERTIES WriteAhead CrashAtomic
