SPECIFICATION FairSpec
CONSTANTS
  c1 = c1
  c2 = c2
  CPUs = {c1, c2}
  NPROC = 3
  MaxPid = 4
  KillPids = {2}
INVARIANTS OneCPU FreedIsOffCPU NoLostExit NoOrphan
PROPERTIES InitReaps ExitEnds
