SPECIFICATION Spec
CONSTANTS
  MAXARGS = 3
  NPROC = 6
  NFILE = 5
  NOFILE = {3, 4, 5}
  PIPESIZE = 1
  MaxLines = 1
  Input = 1
  Typed <- MCTyped
INVARIANTS ParseExact FilesExact
PROPERTY LineEnds
CHECK_DEADLOCK FALSE
