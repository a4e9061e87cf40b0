------------------------------ MODULE Numbers ------------------------------
(***************************************************************************)
(* The integer functions of src/stdlib.zig: the strings-to-integer family  *)
(* and abs, div and their kin, on machine integers of given widths.        *)
(*                                                                         *)
(* parseInt, parseUnsigned, @divTrunc and @rem are Zig's; they are         *)
(* modelled from their use: an error of a parse becomes 0, and in the      *)
(* Debug build arithmetic that does not fit panics, as does @rem by a      *)
(* number that is not positive.  A string is a sequence of characters.     *)
(***************************************************************************)
EXTENDS Integers, Sequences

CONSTANTS
  IntBits,    \* width of c_int (32 in the code)
  LongBits,   \* width of c_long and c_longlong (64)
  Error,      \* the error of a parse
  Overflow    \* a panic

ASSUME NumbersAssumption ==
  /\ IntBits \in Nat \ {0} /\ LongBits \in Nat /\ IntBits <= LongBits
  /\ Error \notin Int /\ Overflow \notin Int

SignedMax(bits) == 2^(bits - 1) - 1
Signed(bits) == -(2^(bits - 1)) .. SignedMax(bits)
UnsignedMax(bits) == 2^bits - 1

-----------------------------------------------------------------------------
(* The value of a character as a digit of base 10 or less. *)
Digit(ch, radix) == IF ch - 48 \in 0..(radix - 1) THEN ch - 48 ELSE Error

(* x * radix + digit per character, each sum and product checked against max. *)
parseUnsigned(max, str, radix) ==
  LET step(x, ch) ==
        IF x = Error \/ Digit(ch, radix) = Error THEN Error
        ELSE IF x * radix + Digit(ch, radix) > max THEN Error
        ELSE x * radix + Digit(ch, radix)
      loop[i \in 0..Len(str)] == IF i = 0 THEN 0 ELSE step(loop[i - 1], str[i])
  IN  loop[Len(str)]

Plus  == 43
Minus == 45

(* A sign, then the magnitude, which must fit by itself: the least number of the
   type does not parse. *)
parseInt(bits, str, radix) ==
  LET rest == parseUnsigned(SignedMax(bits), Tail(str), radix)
  IN  IF str = <<>> THEN 0
      ELSE IF str[1] = Minus THEN IF rest = Error THEN Error ELSE -rest
      ELSE IF str[1] = Plus THEN rest
      ELSE parseUnsigned(SignedMax(bits), str, radix)

OrZero(value) == IF value = Error THEN 0 ELSE value

(* The low bits of a number, as a signed one. *)
Low(bits, v) ==
  LET low == v % (2^bits) IN IF low > SignedMax(bits) THEN low - 2^bits ELSE low

(* MUTANT: parsed as a c_long and cut. *)
atoiCut(str) == Low(IntBits, OrZero(parseInt(LongBits, str, 10)))

atoi(str) == OrZero(parseInt(IntBits, str, 10))
atol(str) == OrZero(parseInt(LongBits, str, 10))
atoll(str) == OrZero(parseInt(LongBits, str, 10))

(* @intCast(u8, base) *)
Radix(base) == base \in 0..255

(* str_end and errno are left alone by the code. *)
strtol(str, base) == IF ~Radix(base) THEN Overflow ELSE OrZero(parseInt(LongBits, str, base))
strtoll(str, base) == strtol(str, base)

strtoul(str, base) ==
  IF ~Radix(base) THEN Overflow ELSE OrZero(parseUnsigned(UnsignedMax(LongBits), str, base))
strtoull(str, base) == strtoul(str, base)

-----------------------------------------------------------------------------
Checked(bits, v) == IF v \in Signed(bits) THEN v ELSE Overflow

abs(n) == IF n < 0 THEN Checked(IntBits, -n) ELSE n

(* The header declares a long argument, the function takes a c_int: it sees the
   low bits, and negates in a c_int before it widens. *)
labs(n) == abs(Low(IntBits, n))
llabs(n) == abs(Low(IntBits, n))

(* Quotient rounded towards zero and remainder with the sign of x, for y > 0. *)
divTrunc(x, y) == IF x >= 0 THEN x \div y ELSE -((-x) \div y)
rem(x, y)      == IF x >= 0 THEN x % y ELSE -((-x) % y)

(* MUTANT: the quotient is rounded down. *)
divFloor(x, y) ==
  IF y <= 0 THEN Overflow ELSE [quot |-> x \div y, rem |-> rem(x, y)]

(* div, ldiv and lldiv differ only in their type. *)
div(x, y) ==
  IF y <= 0 THEN Overflow ELSE [quot |-> divTrunc(x, y), rem |-> rem(x, y)]
=============================================================================
