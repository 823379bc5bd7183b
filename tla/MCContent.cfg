SPECIFICATION Spec
CONSTANTS
  p1 = p1
  p2 = p2
  Procs = {p1, p2}
  f1 = f1
  f2 = f2
  Files = {f1, f2}
  NInodes = 2
  NBlocks = 4
  BPB = 1
  BSIZE = 2
  NDIRECT = 1
  MAXOPBLOCKS = 6
  UINT = 16
  Opens <- MCOpens
  Reads <- MCReads
  Writes <- MCWrites
  None = None
INVARIANTS BlocksExact VisibleIsOwn TxnFits
