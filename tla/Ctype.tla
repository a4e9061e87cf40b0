------------------------------- MODULE Ctype -------------------------------
(***************************************************************************)
(* The character functions of src/ctype.zig on every argument <ctype.h>    *)
(* allows: the unsigned bytes and EOF.                                     *)
(*                                                                         *)
(* The code tests ranges with one wrapping subtraction and one unsigned    *)
(* comparison, after @intCast(c_uint, c), which panics in the Debug build  *)
(* when c is negative.  A class function is a Boolean here and ToInt turns *)
(* it into the c_int of the code.                                          *)
(***************************************************************************)
EXTENDS Integers

CONSTANT UMod   \* one more than the largest c_uint (2^32 in the code)

ASSUME CtypeAssumption == UMod \in Nat /\ UMod > 512

EOF == -1
Panicked == -2

(* MUTANT: the subtraction does not wrap. *)
InRangeSigned(x, first, length) == x - first < length

(* x -% first < length, on c_uint. *)
InRange(x, first, length) == (x - first) % UMod < length

(* c | 32 *)
WithCaseBit(c) == IF (c \div 32) % 2 = 1 THEN c ELSE c + 32

(* c & 0x5f: of the low seven bits all but the case bit. *)
WithoutCaseBit(c) == (c % 128) - 32 * ((c \div 32) % 2)

(* u.toInt *)
ToInt(expr) == IF expr THEN 1 ELSE 0

isalpha(c)  == InRange(WithCaseBit(c), 97, 26)
isdigit(c)  == InRange(c, 48, 10)
isalnum(c)  == isalpha(c) /\ isdigit(c)
isblank(c)  == c = 32 \/ c = 9
iscntrl(c)  == c < 32 \/ c = 127
isgraph(c)  == InRange(c, 33, 94)
islower(c)  == InRange(c, 97, 26)
isprint(c)  == InRange(c, 32, 95)
ispunct(c)  == isgraph(c) /\ ~isalnum(c)
isspace(c)  == c = 32 \/ InRange(c, 9, 5)
isupper(c)  == InRange(c, 65, 26)
isxdigit(c) == isdigit(c) \/ InRange(WithCaseBit(c), 97, 6)

Class(c) ==
  [isalpha |-> isalpha(c), isdigit |-> isdigit(c), isalnum |-> isalnum(c), isblank |-> isblank(c),
   iscntrl |-> iscntrl(c), isgraph |-> isgraph(c), islower |-> islower(c), isprint |-> isprint(c),
   ispunct |-> ispunct(c), isspace |-> isspace(c), isupper |-> isupper(c), isxdigit |-> isxdigit(c)]

tolower(c) == IF isupper(c) THEN WithCaseBit(c) ELSE c

(* MUTANT: the case bit is cleared whatever the character. *)
toupperAlways(c) == WithoutCaseBit(c)

toupper(c) == IF islower(c) THEN WithoutCaseBit(c) ELSE c

-----------------------------------------------------------------------------
(* What class function f returns; isblank is the one without the cast. *)
Classify(f, c) ==
  IF c >= 0 THEN ToInt(Class(c)[f])
  ELSE IF f = "isblank" THEN ToInt(isblank(c)) ELSE Panicked

Tolower(c) == IF c < 0 THEN Panicked ELSE tolower(c)
Toupper(c) == IF c < 0 THEN Panicked ELSE toupper(c)
=============================================================================
