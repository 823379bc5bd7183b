SPECIFICATION Spec
CONSTANTS
  p1 = p1
  p2 = p2
  Procs = {p1, p2}
  Names = {"a", "b"}
  Calls <- MCCalls
  NINODES = 4
  NINODE = {2, 3}
  None = None
INVARIANTS RefExact HeldIsAllocated NoDangling NoLockCycle
PROPERTIES NoSubtreeLost
