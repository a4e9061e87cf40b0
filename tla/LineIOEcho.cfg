\* The copy loop of example.c.
SPECIFICATION FairSpec
CONSTANTS
  NL = NL
  NUL = NUL
  x = x
  Liners = {l}
  Charers = {}
  Blockers = {}
  Input <- Short
  UndefBytes = {x}
  Sizes = {3}
  BlockSize = 2
  Failures = FALSE
PROPERTY EchoEnds
