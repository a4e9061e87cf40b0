\* Two names; room for fopen, rename and fopen, or for other calls with names.
SPECIFICATION Spec
CONSTANTS
  BufLen = 18
  BufBase = 0
  Names = {a, b}
  PathLen <- MCPathLen
  Modes = {"w"}
  Counts = {1, 2}
  Offsets <- MCOffsets
  MaxSize = 2
  Closed = Closed
  NoIno = NoIno
SYMMETRY NameSymmetry
INVARIANTS TypeOK WritesInOrder
PROPERTIES FailureHarmless NamesFreeze
CHECK_DEADLOCK FALSE
