\* Every call of a bounded set of arguments.
SPECIFICATION Spec
CONSTANTS
  UMod = 65536
  IntBits = 5
  LongBits = 7
  Chars = {97, 98}
  MaxLen = 4
  MaxCount = 5
  Digits10 = {43, 45, 48, 49, 53, 54, 120}
  MaxDigits = 4
  Bases = {0, 2, 8, 10}
  Error = Error
  Overflow = Overflow
  NoCall = NoCall
INVARIANTS ComparesAgree SearchesAgree CopiesAgree RangesExact CasesExact ParsesExact IntegersExact
