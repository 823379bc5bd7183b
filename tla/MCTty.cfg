SPECIFICATION Spec
CONSTANTS
  p1 = p1
  p2 = p2
  Readers = {p1}
  Writers = {p2}
  INPUT_BUF = 2
  TX_BUF = 2
  UINT = 4
  UINT64 = 4
  MaxCount = 2
  None = None
INVARIANTS FullIsReadable OutputMoves
PROPERTIES NotOverwritten
