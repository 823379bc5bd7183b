SPECIFICATION Spec
CONSTANTS
  NCPU = 2
  NPROC = 2
  UINT = 4
  Calls <- MCCalls
VIEW View
INVARIANTS NoPanic InterruptsExact
