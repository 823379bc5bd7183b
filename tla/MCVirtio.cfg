SPECIFICATION FairSpec
CONSTANTS
  p1 = p1
  p2 = p2
  p3 = p3
  Procs = {p1, p2, p3}
  Bufs = {p1, p2, p3}
  Requests <- MCRequests
  NUM = 6
  U16 = 6
  None = None
  Stale = Stale
INVARIANTS ChainsDisjoint
PROPERTIES DoneAgrees CallsReturn
