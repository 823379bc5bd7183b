SPECIFICATION Spec
CONSTANTS
  Procs = {1, 2, 3}
  NPages = 14
  PGSIZE = 2
  UPAGES = 4
  NODE = 2
  UINT = 32
  Sbrks <- MCSbrks
  Ends <- MCEnds
  MAXARG = 2
VIEW View
INVARIANTS PagesExact SizeIsMapped
