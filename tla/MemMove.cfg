\* Every call on a memory of five one-bit bytes.
SPECIFICATION FairSpec
CONSTANTS
  UMax = 4
  ByteMax = 1
  NoRequest = NoRequest
  Chars <- CharsHere
CHECK_DEADLOCK FALSE
INVARIANTS TypeOK PanicsAtTheTop
PROPERTIES ActsAtOnce LoopsEnd
