\* Every format of at most five characters.
SPECIFICATION FairSpec
CONSTANTS
  Letters = {d}
  Others = {z}
  Percent = Percent
  End = End
  MaxLen = 5
CHECK_DEADLOCK FALSE
INVARIANTS ReadsInside PiecesComplete
PROPERTY ScanEnds
