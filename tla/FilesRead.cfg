\* A program that opens for reading.
SPECIFICATION Spec
CONSTANTS
  BufLen = 18
  BufBase = 0
  Names = {a, b}
  PathLen <- MCPathLen
  Modes = {"r", "w"}
  Counts = {1, 2}
  Offsets <- MCOffsets
  MaxSize = 2
  Closed = Closed
  NoIno = NoIno
INVARIANT ReadKeeps
CHECK_DEADLOCK FALSE
