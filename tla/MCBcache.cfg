SPECIFICATION FairSpec
CONSTANTS
  p1 = p1
  p2 = p2
  Procs = {p1, p2}
  Blocks = {1, 2, 3}
  Data = {0, 1}
  NBUF = 2
  MaxHeld = 2
  MaxPins = 1
INVARIANTS OneBuffer
PROPERTIES ChangedByHolder CallsReturn
CHECK_DEADLOCK FALSE
