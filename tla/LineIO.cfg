\* A thread of each kind on one stream, with failing system calls.
SPECIFICATION FairSpec
CONSTANTS
  NL = NL
  NUL = NUL
  x = x
  Liners = {l}
  Charers = {c}
  Blockers = {b}
  Input <- CutLine
  UndefBytes = {x, NL, NUL}
  Sizes = {0, 1, 3, 4}
  BlockSize = 2
  Failures = TRUE
CHECK_DEADLOCK FALSE
INVARIANTS TypeOK FgetsFits BytesOnceInOrder
PROPERTIES FgetsReturns BlocksEnd
