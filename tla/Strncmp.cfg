\* strncmp on strings of different lengths.
SPECIFICATION Spec
CONSTANTS
  UMod = 65536
  IntBits = 5
  LongBits = 7
  Chars = {97, 98}
  MaxLen = 2
  MaxCount = 3
  Digits10 = {43, 45, 48, 49, 53, 54, 120}
  MaxDigits = 1
  Bases = {0, 2, 8, 10}
  Error = Error
  Overflow = Overflow
  NoCall = NoCall
INVARIANT StrncmpAgrees
