-------------------------- MODULE StatelessProofs --------------------------
(***************************************************************************)
(* The functions that keep no state, for arguments of any size: every      *)
(* string, every width of the integers, every modulus of c_uint.           *)
(*                                                                         *)
(* The loops of CString are recursive functions; what one returns is found *)
(* with the least index at which it stops (LeastElement, LoopReturns).     *)
(***************************************************************************)
EXTENDS Stateless, TLAPS, WellFoundedInduction

(* A character of a string is not 0. *)
Character == Nat \ {0}

(* The arguments of a call are what the caller may pass. *)
CallInv ==
  \/ call = NoCall
  \/ \E s, r \in Seq(Character), n \in Nat :
       /\ Len(s) <= MaxLen /\ Len(r) <= MaxLen /\ n <= MaxCount
       /\ call = [of |-> "string", s |-> s, r |-> r, n |-> n]
  \/ \E c \in Int : c <= 255 /\ call = [of |-> "char", c |-> c]
  \/ \E s \in Seq(Character), base \in Int : call = [of |-> "numeral", s |-> s, base |-> base]
  \/ \E x, y \in Signed(LongBits) : call = [of |-> "integer", x |-> x, y |-> y]

LEMMA StringsAre ==
  ASSUME NEW chars, chars \subseteq Character, NEW max \in Nat, NEW s \in Strings(chars, max)
  PROVE  s \in Seq(Character) /\ Len(s) <= max
<1>1. PICK k \in 0..max : s \in [1..k -> chars]
  BY DEF Strings
<1>2. k \in Nat /\ k <= max /\ s \in [1..k -> Character]
  BY <1>1
<1>3. s \in Seq(Character) /\ Len(s) = k
  BY <1>2
<1> QED
  BY <1>2, <1>3

LEMMA CallAlways == Spec => []CallInv
<1>1. Init => CallInv
  BY DEF Init, CallInv
<1>2. CallInv /\ [Next]_call => CallInv'
  <2> SUFFICES ASSUME CallInv, [Next]_call PROVE CallInv'
    OBVIOUS
  <2>1. CASE UNCHANGED call
    BY <2>1 DEF CallInv
  <2>2. ASSUME NEW s \in Strings(Chars, MaxLen), NEW r \in Strings(Chars, MaxLen),
               NEW n \in 0..MaxCount, CallString(s, r, n)
        PROVE  CallInv'
    <3>1. /\ s \in Seq(Character) /\ r \in Seq(Character) /\ n \in Nat
          /\ Len(s) <= MaxLen /\ Len(r) <= MaxLen /\ n <= MaxCount
      <4>1. Chars \subseteq Character /\ MaxLen \in Nat /\ MaxCount \in Nat
        BY StatelessAssumption DEF Character
      <4> QED
        BY <2>2, <4>1, StringsAre
    <3> QED
      BY <2>2, <3>1 DEF CallString, CallInv
  <2>3. ASSUME NEW c \in EOF..255, CallChar(c) PROVE CallInv'
    <3>1. c \in Int /\ c <= 255
      BY DEF EOF
    <3> QED
      BY <2>3, <3>1 DEF CallChar, CallInv
  <2>4. ASSUME NEW s \in Strings(Digits10, MaxDigits), NEW base \in Bases, CallNumeral(s, base)
        PROVE  CallInv'
    <3>1. s \in Seq(Character) /\ base \in Int
      <4>1. Digits10 \subseteq Character /\ MaxDigits \in Nat /\ Bases \subseteq Int
        BY StatelessAssumption DEF Character
      <4> QED
        BY <2>4, <4>1, StringsAre
    <3> QED
      BY <2>4, <3>1 DEF CallNumeral, CallInv
  <2>5. ASSUME NEW x \in Signed(LongBits), NEW y \in Signed(LongBits), CallInteger(x, y)
        PROVE  CallInv'
    BY <2>5 DEF CallInteger, CallInv
  <2>6. CASE Return
    BY <2>6 DEF Return, CallInv
  <2> QED
    BY <2>1, <2>2, <2>3, <2>4, <2>5, <2>6 DEF Next
<1> QED
  BY <1>1, <1>2, PTL DEF Spec

LEMMA StringCall ==
  ASSUME CallInv, Calls("string")
  PROVE  /\ call.s \in Seq(Character) /\ call.r \in Seq(Character) /\ call.n \in Nat
         /\ Len(call.s) <= MaxLen /\ Len(call.r) <= MaxLen /\ call.n <= MaxCount
BY DEF CallInv, Calls

LEMMA CharCall ==
  ASSUME CallInv, Calls("char"), call.c >= 0
  PROVE  call.c \in Nat /\ call.c <= 255
BY DEF CallInv, Calls

LEMMA IntegerCall ==
  ASSUME CallInv, Calls("integer")
  PROVE  call.x \in Signed(LongBits) /\ call.y \in Signed(LongBits)
BY DEF CallInv, Calls

-----------------------------------------------------------------------------
(* The range test with a wrapping subtraction is a range test. *)
LEMMA InRangeIs ==
  ASSUME NEW x \in Nat, x <= 287, NEW first \in Nat, NEW length \in Nat, first + length <= 256
  PROVE  InRange(x, first, length) <=> first <= x /\ x < first + length
<1>1. UMod \in Nat /\ UMod > 512
  BY CtypeAssumption
<1>2. CASE x >= first
  <2>1. (x - first) % UMod = x - first
    BY <1>1, <1>2
  <2> QED
    BY <1>2, <2>1 DEF InRange
<1>3. CASE x < first
  <2>1. (x - first) % UMod = x - first + UMod
    BY <1>1, <1>3
  <2> QED
    BY <1>1, <1>3, <2>1 DEF InRange
<1> QED
  BY <1>2, <1>3

(* Setting and clearing the case bit of a byte. *)
LEMMA CaseBits ==
  ASSUME NEW c \in Nat, c <= 255
  PROVE  /\ WithCaseBit(c) \in Nat /\ WithCaseBit(c) <= 287
         /\ 97 <= WithCaseBit(c) /\ WithCaseBit(c) < 123
              <=> (65 <= c /\ c < 91) \/ (97 <= c /\ c < 123)
         /\ 97 <= WithCaseBit(c) /\ WithCaseBit(c) < 103
              <=> (65 <= c /\ c < 71) \/ (97 <= c /\ c < 103)
         /\ 65 <= c /\ c < 91 => WithCaseBit(c) = c + 32
         /\ 97 <= c /\ c < 123 => WithoutCaseBit(c) = c - 32
<1>1. (c \div 32) % 2 = 1 <=> \/ 32 <= c /\ c < 64
                              \/ 96 <= c /\ c < 128
                              \/ 160 <= c /\ c < 192
                              \/ 224 <= c
  OBVIOUS
<1>2. 97 <= c /\ c < 123 => c % 128 = c /\ (c \div 32) % 2 = 1
  OBVIOUS
<1> QED
  BY <1>1, <1>2 DEF WithCaseBit, WithoutCaseBit

LEMMA LettersAre ==
  ASSUME NEW c \in Nat
  PROVE  /\ c \in Upper <=> 65 <= c /\ c < 91
         /\ c \in Lower <=> 97 <= c /\ c < 123
BY DEF Upper, Lower

(* Each class function that tests ranges accepts exactly its class on every byte,
   whatever the width of c_uint. *)
THEOREM StatelessRangesExact == Spec => []RangesExact
<1>1. CallInv => RangesExact
  <2> SUFFICES ASSUME CallInv, Calls("char"), call.c >= 0, NEW f \in DOMAIN Members \ Built
               PROVE  Classify(f, call.c) = ToInt(call.c \in Members[f])
    BY DEF RangesExact
  <2>1. PICK c \in Nat : c = call.c /\ c <= 255
    BY CharCall
  <2>2. c <= 287 /\ WithCaseBit(c) \in Nat /\ WithCaseBit(c) <= 287
    BY <2>1, CaseBits
  <2>3. /\ isalpha(c) <=> c \in Members.isalpha
        /\ isdigit(c) <=> c \in Members.isdigit
        /\ isxdigit(c) <=> c \in Members.isxdigit
    <3>1. isdigit(c) <=> 48 <= c /\ c < 58
      BY <2>1, <2>2, InRangeIs DEF isdigit
    <3>2. isalpha(c) <=> 97 <= WithCaseBit(c) /\ WithCaseBit(c) < 123
      BY <2>1, <2>2, InRangeIs DEF isalpha
    <3>3. InRange(WithCaseBit(c), 97, 6) <=> 97 <= WithCaseBit(c) /\ WithCaseBit(c) < 103
      BY <2>1, <2>2, InRangeIs
    <3>4. isalpha(c) <=> c \in Upper \cup Lower
      BY <2>1, <3>2, CaseBits, LettersAre
    <3>5. isxdigit(c) <=> c \in Digits \cup 65..70 \cup 97..102
      BY <2>1, <2>2, <3>1, <3>3, CaseBits DEF isxdigit, Digits
    <3> QED
      BY <2>1, <3>1, <3>4, <3>5 DEF Members, Digits
  <2>4. /\ isblank(c) <=> c \in Members.isblank
        /\ iscntrl(c) <=> c \in Members.iscntrl
    BY <2>1 DEF isblank, iscntrl, Members, Printed
  <2>5. /\ isgraph(c) <=> c \in Members.isgraph
        /\ isprint(c) <=> c \in Members.isprint
    <3>1. isgraph(c) <=> 33 <= c /\ c < 127
      BY <2>1, <2>2, InRangeIs DEF isgraph
    <3>2. isprint(c) <=> 32 <= c /\ c < 127
      BY <2>1, <2>2, InRangeIs DEF isprint
    <3> QED
      BY <2>1, <3>1, <3>2 DEF Members, Printed
  <2>6. /\ islower(c) <=> c \in Members.islower
        /\ isupper(c) <=> c \in Members.isupper
        /\ isspace(c) <=> c \in Members.isspace
    <3>1. islower(c) <=> 97 <= c /\ c < 123
      BY <2>1, <2>2, InRangeIs DEF islower
    <3>2. isupper(c) <=> 65 <= c /\ c < 91
      BY <2>1, <2>2, InRangeIs DEF isupper
    <3>3. isspace(c) <=> c = 32 \/ (9 <= c /\ c < 14)
      BY <2>1, <2>2, InRangeIs DEF isspace
    <3> QED
      BY <2>1, <3>1, <3>2, <3>3 DEF Members, Upper, Lower
  <2>7. f \in {"isalpha", "isdigit", "isxdigit", "isblank", "iscntrl", "isgraph", "isprint",
               "islower", "isupper", "isspace"}
    BY DEF Members, Built
  <2>8. Class(c)[f] <=> c \in Members[f]
    BY <2>3, <2>4, <2>5, <2>6, <2>7 DEF Class
  <2> QED
    BY <2>1, <2>8 DEF Classify, ToInt
<1> QED
  BY <1>1, CallAlways, PTL

(* tolower and toupper are exact on every byte, whatever the width of c_uint. *)
THEOREM StatelessCasesExact == Spec => []CasesExact
<1>1. CallInv => CasesExact
  <2> SUFFICES ASSUME CallInv, Calls("char"), call.c >= 0
               PROVE  /\ Tolower(call.c) = IF call.c \in Upper THEN call.c + 32 ELSE call.c
                      /\ Toupper(call.c) = IF call.c \in Lower THEN call.c - 32 ELSE call.c
    BY DEF CasesExact
  <2>1. PICK c \in Nat : c = call.c /\ c <= 255
    BY CharCall
  <2>2. isupper(c) <=> 65 <= c /\ c < 91
    BY <2>1, InRangeIs DEF isupper
  <2>3. islower(c) <=> 97 <= c /\ c < 123
    BY <2>1, InRangeIs DEF islower
  <2>4. Tolower(c) = IF c \in Upper THEN c + 32 ELSE c
    BY <2>1, <2>2, CaseBits, LettersAre DEF Tolower, tolower
  <2>5. Toupper(c) = IF c \in Lower THEN c - 32 ELSE c
    BY <2>1, <2>3, CaseBits, LettersAre DEF Toupper, toupper
  <2> QED
    BY <2>1, <2>4, <2>5
<1> QED
  BY <1>1, CallAlways, PTL

-----------------------------------------------------------------------------
(* Division of a number that is not negative. *)
LEMMA DivMod ==
  ASSUME NEW x \in Nat, NEW y \in Nat, y > 0
  PROVE  /\ x \div y \in Nat /\ x % y \in Nat
         /\ (x \div y) * y + (x % y) = x /\ x % y < y
OBVIOUS

(* abs and div are exact for every width of the integers. *)
THEOREM StatelessIntegersExact == Spec => []IntegersExact
<1>1. CallInv => IntegersExact
  <2> SUFFICES ASSUME CallInv, Calls("integer") PROVE IntegersExact
    BY DEF IntegersExact
  <2>1. PICK low \in Int, high \in Int : Signed(LongBits) = low..high
    BY NumbersAssumption DEF Signed, SignedMax
  <2>2. PICK x \in Int, y \in Int : x = call.x /\ y = call.y
    BY <2>1, IntegerCall
  <2>3. ASSUME x \in Signed(IntBits)
        PROVE  abs(x) = IF -x > SignedMax(IntBits) THEN Overflow ELSE IF x < 0 THEN -x ELSE x
    <3>1. PICK p \in Int : p = 2^(IntBits - 1)
      BY NumbersAssumption
    <3> QED
      BY <2>3, <3>1 DEF abs, Checked, Signed, SignedMax
  <2>4. y <= 0 => div(x, y) = Overflow
    BY DEF div
  <2>5. ASSUME y > 0
        PROVE  LET d == div(x, y)
               IN  /\ d.quot * y + d.rem = x
                   /\ -y < d.rem /\ d.rem < y
                   /\ d.rem * x >= 0
    <3>1. div(x, y).quot = divTrunc(x, y) /\ div(x, y).rem = rem(x, y)
      BY <2>5 DEF div
    <3>2. CASE x >= 0
      <4>1. PICK q \in Nat, m \in Nat : q = x \div y /\ m = x % y /\ q * y + m = x /\ m < y
        BY <2>5, <3>2, DivMod
      <4>2. m * x >= 0
        BY <3>2, <4>1
      <4> QED
        BY <2>5, <3>1, <3>2, <4>1, <4>2 DEF divTrunc, rem
    <3>3. CASE x < 0
      <4>1. PICK q \in Nat, m \in Nat :
              q = (-x) \div y /\ m = (-x) % y /\ q * y + m = -x /\ m < y
        BY <2>5, <3>3, DivMod
      <4>2. (-q) * y + (-m) = x
        BY <4>1
      <4>3. (-m) * x >= 0
        <5>1. m * (-x) >= 0 /\ (-m) * x = m * (-x)
          BY <3>3
        <5> QED
          BY <5>1
      <4>4. -y < -m /\ -m < y
        BY <2>5, <4>1
      <4>5. divTrunc(x, y) = -q /\ rem(x, y) = -m
        BY <3>3, <4>1 DEF divTrunc, rem
      <4> QED
        BY <3>1, <4>2, <4>3, <4>4, <4>5
    <3> QED
      BY <3>2, <3>3
  <2> QED
    BY <2>2, <2>3, <2>4, <2>5 DEF IntegersExact
<1> QED
  BY <1>1, CallAlways, PTL
-----------------------------------------------------------------------------
(* Every set of natural numbers that is not empty has a least element. *)
LEMMA LeastElement ==
  ASSUME NEW S, S \subseteq Nat, S # {}
  PROVE  \E n \in S : \A m \in S : n <= m
<1>1. PICK n \in S : \A m \in S : <<m, n>> \notin OpToRel(<, Nat)
  BY WFMin, NatLessThanWellFounded, Zenon
<1>2. n \in Nat /\ \A m \in S : ~(m < n)
  BY <1>1, Zenon DEF OpToRel
<1> QED
  BY <1>2

(* A loop over the indices 0 to N that returns val[i] at the first i in stop. *)
IsLoop(f, N, stop, val) == f = [i \in 0..N |-> IF i \in stop THEN val[i] ELSE f[i + 1]]

LoopFrom(N, stop, val) == (CHOOSE f : IsLoop(f, N, stop, val))[0]

(* There is such a loop: the one that looks ahead for the next index in stop. *)
LEMMA LoopExists ==
  ASSUME NEW N \in Nat, NEW stop, stop \subseteq 0..N, N \in stop, NEW val
  PROVE  \E f : IsLoop(f, N, stop, val)
<1>0. stop \subseteq Nat /\ \A k \in stop : k \in Int /\ 0 <= k /\ k <= N
  OBVIOUS
<1>1. ASSUME NEW i \in 0..N
      PROVE  \E j \in stop : i <= j /\ \A k \in stop : i <= k => j <= k
  <2> DEFINE S == {k \in stop : i <= k}
  <2>0. S \subseteq Nat
    BY <1>0
  <2>1. i <= N /\ N \in S
    OBVIOUS
  <2>2. PICK j \in S : \A k \in S : j <= k
    BY <2>0, <2>1, LeastElement
  <2> QED
    BY <2>2
<1> DEFINE next == [i \in 0..N |-> CHOOSE j \in stop : i <= j /\ \A k \in stop : i <= k => j <= k]
<1>2. \A i \in 0..N : next[i] \in stop /\ i <= next[i] /\ \A k \in stop : i <= k => next[i] <= k
  BY <1>1
<1> HIDE DEF next
<1>3. ASSUME NEW i \in 0..N, i \in stop PROVE next[i] = i
  <2>1. next[i] \in Int
    BY <1>0, <1>2
  <2> QED
    BY <1>2, <1>3, <2>1
<1>4. ASSUME NEW i \in 0..N, i \notin stop PROVE i + 1 \in 0..N /\ next[i] = next[i + 1]
  <2>1. i + 1 \in 0..N
    BY <1>4
  <2>2. next[i] \in stop /\ next[i + 1] \in stop
    BY <1>2, <2>1
  <2>3. i <= next[i] /\ i + 1 <= next[i + 1]
    BY <1>2, <2>1
  <2>4. next[i] \in Int /\ next[i + 1] \in Int /\ next[i] # i
    BY <1>0, <1>4, <2>2
  <2>5. i + 1 <= next[i] /\ i <= next[i + 1]
    BY <2>3, <2>4
  <2>6. next[i] <= next[i + 1] /\ next[i + 1] <= next[i]
    BY <1>2, <2>1, <2>2, <2>5
  <2> QED
    BY <2>1, <2>4, <2>6
<1> DEFINE f == [i \in 0..N |-> val[next[i]]]
<1>5. ASSUME NEW i \in 0..N PROVE f[i] = IF i \in stop THEN val[i] ELSE f[i + 1]
  BY <1>3, <1>4
<1>6. f = [i \in 0..N |-> f[i]]
  OBVIOUS
<1> HIDE DEF f
<1>7. f = [i \in 0..N |-> IF i \in stop THEN val[i] ELSE f[i + 1]]
  BY <1>5, <1>6
<1> QED
  BY <1>7 DEF IsLoop

(* What the loop returns. *)
LEMMA LoopReturns ==
  ASSUME NEW N \in Nat, NEW stop, stop \subseteq 0..N, N \in stop, NEW val
  PROVE  \E j \in stop : (\A k \in stop : j <= k) /\ LoopFrom(N, stop, val) = val[j]
<1>1. PICK f : IsLoop(f, N, stop, val) /\ LoopFrom(N, stop, val) = f[0]
  BY LoopExists DEF LoopFrom
<1>2. \A i \in 0..N : f[i] = IF i \in stop THEN val[i] ELSE f[i + 1]
  BY <1>1 DEF IsLoop
<1>3. stop \subseteq Nat /\ stop # {}
  OBVIOUS
<1>4. PICK j \in stop : \A k \in stop : j <= k
  BY <1>3, LeastElement
<1>5. f[j] = f[0]
  <2> DEFINE bad == {k \in 0..j : f[k] # f[0]}
  <2>1. j \in 0..N
    BY <1>4
  <2>2. SUFFICES ASSUME bad # {} PROVE FALSE
    BY <2>1
  <2>3. bad \subseteq Nat
    BY <2>1
  <2>4. PICK b \in bad : \A k \in bad : b <= k
    BY <2>2, <2>3, LeastElement
  <2>5. b \in Nat /\ b <= j /\ b # 0 /\ f[b] # f[0]
    BY <2>1, <2>4
  <2>6. b - 1 \in 0..j /\ b - 1 \in 0..N /\ b - 1 < j /\ (b - 1) + 1 = b /\ ~(b <= b - 1)
    BY <2>1, <2>5
  <2>7. b - 1 \notin bad
    BY <2>4, <2>6
  <2>8. b - 1 \notin stop
    BY <1>4, <2>1, <2>6
  <2>9. f[b - 1] = f[b]
    BY <1>2, <2>6, <2>8
  <2> QED
    BY <2>5, <2>6, <2>7, <2>9
<1> QED
  BY <1>1, <1>2, <1>4, <1>5

-----------------------------------------------------------------------------
LEMMA LeastIs ==
  ASSUME NEW S, S \subseteq Nat, NEW j \in S, \A k \in S : j <= k
  PROVE  Least(S) = j
<1>1. PICK m \in S : m = Least(S) /\ \A k \in S : m <= k
  BY DEF Least
<1> QED
  BY <1>1

LEMMA LeastOfNone == Least({}) = Null
BY DEF Least

LEMMA CharIs ==
  ASSUME NEW s \in Seq(Character), NEW i \in Nat
  PROVE  /\ Char(s, i) \in Nat
         /\ Char(s, i) # 0 <=> i < Len(s)
         /\ i < Len(s) => i + 1 \in 1..Len(s) /\ Char(s, i) = s[i + 1] /\ Char(s, i) \in Character
BY DEF Char, Character

LEMMA strlenIs ==
  ASSUME NEW s \in Seq(Character)
  PROVE  strlen(s) = Len(s)
<1> DEFINE N == Len(s)
           stop == {N}
           val == [i \in 0..N |-> i]
<1>1. N \in Nat /\ stop \subseteq 0..N /\ N \in stop
  OBVIOUS
<1>2. ASSUME NEW f
      PROVE  [i \in 0..N |-> IF Char(s, i) # 0 THEN f[i + 1] ELSE i]
               = [i \in 0..N |-> IF i \in stop THEN val[i] ELSE f[i + 1]]
  BY <1>1, CharIs
<1>3. strlen(s) = LoopFrom(N, stop, val)
  BY <1>2 DEF strlen, LoopFrom, IsLoop
<1>4. PICK j \in stop : LoopFrom(N, stop, val) = val[j]
  <2> HIDE DEF N, stop, val
  <2> QED
    BY <1>1, LoopReturns
<1> QED
  BY <1>1, <1>3, <1>4

(* A search: what stops the loop is a place in S, or an end behind all of S. *)
Finds(stop, val, S) ==
  /\ S \subseteq stop
  /\ \A i \in stop : val[i] = IF i \in S THEN i ELSE Null
  /\ \A i \in stop : i \notin S => \A k \in S : k < i

LEMMA LoopFinds ==
  ASSUME NEW N \in Nat, NEW stop, stop \subseteq 0..N, N \in stop, NEW val,
         NEW S, Finds(stop, val, S)
  PROVE  LoopFrom(N, stop, val) = Least(S)
<1>1. PICK j \in stop : (\A k \in stop : j <= k) /\ LoopFrom(N, stop, val) = val[j]
  BY LoopReturns
<1>2. S \subseteq Nat /\ stop \subseteq Nat
  BY DEF Finds
<1>3. CASE j \in S
  <2>1. Least(S) = j
    BY <1>1, <1>2, <1>3, LeastIs DEF Finds
  <2> QED
    BY <1>1, <1>3, <2>1 DEF Finds
<1>4. CASE j \notin S
  <2>1. ASSUME NEW k \in S PROVE FALSE
    <3>1. k < j /\ j <= k /\ k \in Nat /\ j \in Nat
      BY <1>1, <1>2, <1>4 DEF Finds
    <3> QED
      BY <3>1
  <2>2. S = {}
    BY <2>1
  <2> QED
    BY <1>1, <1>4, <2>2, LeastOfNone DEF Finds
<1> QED
  BY <1>3, <1>4

LEMMA memchrIs ==
  ASSUME NEW s, NEW ch, NEW n \in Nat
  PROVE  memchr(s, ch, n) = Least({i \in 0..(n - 1) : Char(s, i) = ch})
<1> DEFINE stop == {i \in 0..n : i = n \/ Char(s, i) = ch}
           val == [i \in 0..n |-> IF i < n THEN i ELSE Null]
           S == {i \in 0..(n - 1) : Char(s, i) = ch}
<1>1. stop \subseteq 0..n /\ n \in stop
  OBVIOUS
<1>2. ASSUME NEW f
      PROVE  [i \in 0..n |-> IF i < n THEN IF Char(s, i) = ch THEN i ELSE f[i + 1] ELSE Null]
               = [i \in 0..n |-> IF i \in stop THEN val[i] ELSE f[i + 1]]
  OBVIOUS
<1>3. memchr(s, ch, n) = LoopFrom(n, stop, val)
  BY <1>2 DEF memchr, LoopFrom, IsLoop
<1>4. Finds(stop, val, S)
  BY DEF Finds
<1> HIDE DEF stop, val, S
<1>5. LoopFrom(n, stop, val) = Least(S)
  BY <1>1, <1>4, LoopFinds
<1> QED
  BY <1>3, <1>5 DEF S

LEMMA strchrIs ==
  ASSUME NEW s \in Seq(Character), NEW ch \in Nat
  PROVE  strchr(s, ch) = Least({i \in 0..Len(s) : Char(s, i) = ch})
<1> DEFINE N == Len(s)
           stop == {i \in 0..N : i = N \/ Char(s, i) = ch}
           val == [i \in 0..N |-> IF i < N \/ ch = 0 THEN i ELSE Null]
           S == {i \in 0..N : Char(s, i) = ch}
<1>1. N \in Nat /\ stop \subseteq 0..N /\ N \in stop
  OBVIOUS
<1>2. \A i \in 0..N : Char(s, i) # 0 <=> i # N
  BY <1>1, CharIs
<1>3. ASSUME NEW f
      PROVE  [i \in 0..N |-> IF Char(s, i) # 0
                             THEN IF Char(s, i) = ch THEN i ELSE f[i + 1]
                             ELSE IF ch = 0 THEN i ELSE Null]
               = [i \in 0..N |-> IF i \in stop THEN val[i] ELSE f[i + 1]]
  BY <1>1, <1>2
<1>4. strchr(s, ch) = LoopFrom(N, stop, val)
  BY <1>3 DEF strchr, LoopFrom, IsLoop
<1>5. Finds(stop, val, S)
  BY <1>1, <1>2 DEF Finds
<1> HIDE DEF N, stop, val, S
<1>6. LoopFrom(N, stop, val) = Least(S)
  BY <1>1, <1>5, LoopFinds
<1> QED
  BY <1>4, <1>6 DEF S, N

(* What the callers of strchr ask. *)
LEMMA strchrFinds ==
  ASSUME NEW s \in Seq(Character), NEW ch \in Character
  PROVE  strchr(s, ch) # Null <=> ch \in Elements(s)
<1> DEFINE S == {i \in 0..Len(s) : Char(s, i) = ch}
<1>0. Len(s) \in Nat /\ DOMAIN s = 1..Len(s) /\ ch # 0 /\ ch \in Nat
  BY DEF Character
<1>1. strchr(s, ch) = Least(S)
  BY <1>0, strchrIs
<1>2. CASE S = {}
  <2>1. ASSUME NEW k \in DOMAIN s PROVE s[k] # ch
    <3>1. k - 1 \in 0..Len(s) /\ k - 1 \in Nat /\ k - 1 < Len(s) /\ (k - 1) + 1 = k
      BY <1>0, <2>1
    <3>2. Char(s, k - 1) = s[k]
      BY <3>1, CharIs
    <3> QED
      BY <1>2, <3>1, <3>2
  <2> QED
    BY <1>1, <1>2, <2>1, LeastOfNone DEF Elements
<1>3. CASE S # {}
  <2>1. S \subseteq Nat
    BY <1>0
  <2>2. PICK j \in S : \A k \in S : j <= k
    BY <1>3, <2>1, LeastElement
  <2>3. Least(S) = j /\ j \in Nat /\ Char(s, j) = ch
    BY <2>1, <2>2, LeastIs
  <2>4. j + 1 \in DOMAIN s /\ s[j + 1] = ch
    BY <1>0, <2>3, CharIs
  <2> QED
    BY <1>1, <2>3, <2>4 DEF Elements, Null
<1> QED
  BY <1>2, <1>3

(* No string holds a 0. *)
LEMMA ElementsAre ==
  ASSUME NEW s \in Seq(Character)
  PROVE  0 \notin Elements(s)
BY DEF Elements, Character

LEMMA strpbrkIs ==
  ASSUME NEW s \in Seq(Character), NEW r \in Seq(Character)
  PROVE  strpbrk(s, r) = Least({i \in 0..(Len(s) - 1) : Char(s, i) \in Elements(r)})
<1> DEFINE N == Len(s)
           S == {i \in 0..(N - 1) : Char(s, i) \in Elements(r)}
           stop == {i \in 0..N : i = N \/ Char(s, i) \in Elements(r)}
           val == [i \in 0..N |-> IF i < N THEN i ELSE Null]
<1>1. N \in Nat /\ stop \subseteq 0..N /\ N \in stop
  OBVIOUS
<1>2. \A i \in 0..N : /\ Char(s, i) # 0 <=> i < N
                      /\ i < N => (strchr(r, Char(s, i)) # Null <=> Char(s, i) \in Elements(r))
  BY <1>1, CharIs, strchrFinds
<1>3. ASSUME NEW f
      PROVE  [i \in 0..N |-> IF Char(s, i) # 0
                             THEN IF strchr(r, Char(s, i)) # Null THEN i ELSE f[i + 1]
                             ELSE Null]
               = [i \in 0..N |-> IF i \in stop THEN val[i] ELSE f[i + 1]]
  BY <1>1, <1>2
<1>4. strpbrk(s, r) = LoopFrom(N, stop, val)
  BY <1>3 DEF strpbrk, LoopFrom, IsLoop
<1>5. Finds(stop, val, S)
  BY <1>1 DEF Finds
<1> HIDE DEF N, stop, val, S
<1>6. LoopFrom(N, stop, val) = Least(S)
  BY <1>1, <1>5, LoopFinds
<1> QED
  BY <1>4, <1>6 DEF S, N

LEMMA strspnIs ==
  ASSUME NEW s \in Seq(Character), NEW r \in Seq(Character)
  PROVE  strspn(s, r) = Least({i \in 0..Len(s) : Char(s, i) \notin Elements(r)})
<1> DEFINE N == Len(s)
           S == {i \in 0..N : Char(s, i) \notin Elements(r)}
           val == [i \in 0..N |-> i]
<1>1. N \in Nat
  OBVIOUS
<1>2. \A i \in 0..N : /\ Char(s, i) # 0 <=> i < N
                      /\ i < N => (strchr(r, Char(s, i)) # Null <=> Char(s, i) \in Elements(r))
  BY <1>1, CharIs, strchrFinds
<1>3. S \subseteq 0..N /\ N \in S
  BY <1>1, <1>2, ElementsAre
<1>4. ASSUME NEW f
      PROVE  [i \in 0..N |-> IF Char(s, i) # 0 /\ strchr(r, Char(s, i)) # Null
                             THEN f[i + 1] ELSE i]
               = [i \in 0..N |-> IF i \in S THEN val[i] ELSE f[i + 1]]
  BY <1>1, <1>2, ElementsAre
<1>5. strspn(s, r) = LoopFrom(N, S, val)
  BY <1>4 DEF strspn, LoopFrom, IsLoop
<1>6. Finds(S, val, S)
  BY <1>3 DEF Finds
<1> HIDE DEF N, val, S
<1>7. LoopFrom(N, S, val) = Least(S)
  BY <1>1, <1>3, <1>6, LoopFinds
<1> QED
  BY <1>5, <1>7 DEF S, N

LEMMA strcspnIs ==
  ASSUME NEW s \in Seq(Character), NEW r \in Seq(Character)
  PROVE  strcspn(s, r) = Least({i \in 0..Len(s) : Char(s, i) \in Elements(r) \cup {0}})
<1> DEFINE N == Len(s)
           S == {i \in 0..N : Char(s, i) \in Elements(r) \cup {0}}
           val == [i \in 0..N |-> i]
<1>1. N \in Nat
  OBVIOUS
<1>2. \A i \in 0..N : /\ Char(s, i) # 0 <=> i < N
                      /\ i < N => (strchr(r, Char(s, i)) # Null <=> Char(s, i) \in Elements(r))
  BY <1>1, CharIs, strchrFinds
<1>3. S \subseteq 0..N /\ N \in S
  BY <1>1, <1>2
<1>4. ASSUME NEW f
      PROVE  [i \in 0..N |-> IF Char(s, i) # 0 /\ strchr(r, Char(s, i)) = Null
                             THEN f[i + 1] ELSE i]
               = [i \in 0..N |-> IF i \in S THEN val[i] ELSE f[i + 1]]
  BY <1>1, <1>2
<1>5. strcspn(s, r) = LoopFrom(N, S, val)
  BY <1>4 DEF strcspn, LoopFrom, IsLoop
<1>6. Finds(S, val, S)
  BY <1>3 DEF Finds
<1> HIDE DEF N, val, S
<1>7. LoopFrom(N, S, val) = Least(S)
  BY <1>1, <1>3, <1>6, LoopFinds
<1> QED
  BY <1>5, <1>7 DEF S, N

LEMMA MatchesAtIs ==
  ASSUME NEW s \in Seq(Character), NEW r \in Seq(Character), NEW i \in Nat
  PROVE  MatchesAt(s, r, i) <=> \A j \in 0..(Len(r) - 1) : Char(s, i + j) = Char(r, j)
<1> DEFINE N == strlen(r)
           stop == {j \in 0..N : j = N \/ Char(s, i + j) # Char(r, j)}
           val == [j \in 0..N |-> j]
<1>1. N \in Nat /\ N = Len(r)
  BY strlenIs
<1>2. stop \subseteq 0..N /\ N \in stop
  BY <1>1
<1>3. ASSUME NEW f
      PROVE  [j \in 0..N |-> IF j < N /\ Char(s, i + j) = Char(r, j) THEN f[j + 1] ELSE j]
               = [j \in 0..N |-> IF j \in stop THEN val[j] ELSE f[j + 1]]
  BY <1>1
<1>4. MatchesAt(s, r, i) <=> LoopFrom(N, stop, val) = N
  <2> DEFINE g == CHOOSE f : f = [j \in 0..N |->
                    IF j < N /\ Char(s, i + j) = Char(r, j) THEN f[j + 1] ELSE j]
  <2>1. MatchesAt(s, r, i) <=> g[0] = N
    BY DEF MatchesAt
  <2>2. g[0] = LoopFrom(N, stop, val)
    BY <1>3 DEF LoopFrom, IsLoop
  <2> HIDE DEF g
  <2> QED
    BY <2>1, <2>2
<1>5. PICK j \in stop : (\A k \in stop : j <= k) /\ LoopFrom(N, stop, val) = val[j]
  <2>1. N \in Nat
    BY <1>1
  <2> HIDE DEF N, stop, val
  <2> QED
    BY <1>2, <2>1, LoopReturns
<1>6. CASE j = N
  <2>1. \A k \in 0..(N - 1) : Char(s, i + k) = Char(r, k)
    BY <1>1, <1>5, <1>6
  <2> QED
    BY <1>1, <1>4, <1>5, <1>6, <2>1
<1>7. CASE j # N
  <2>1. j \in 0..(N - 1) /\ Char(s, i + j) # Char(r, j)
    BY <1>1, <1>5, <1>7
  <2> QED
    BY <1>1, <1>4, <1>5, <1>7, <2>1
<1> QED
  BY <1>6, <1>7

(* The needle is at a start exactly when it is what lies there. *)
LEMMA SubSeqIs ==
  ASSUME NEW s \in Seq(Character), NEW r \in Seq(Character), NEW i \in Nat,
         i + Len(r) <= Len(s)
  PROVE  SubSeq(s, i + 1, i + Len(r)) = r
           <=> \A j \in 0..(Len(r) - 1) : Char(s, i + j) = Char(r, j)
<1> DEFINE t == SubSeq(s, i + 1, i + Len(r))
<1>1. Len(r) \in Nat /\ Len(s) \in Nat
  OBVIOUS
<1>2. t \in Seq(Character) /\ Len(t) = Len(r) /\ \A k \in 1..Len(r) : t[k] = s[i + k]
  BY <1>1
<1> HIDE DEF t
<1>3. ASSUME NEW j \in 0..(Len(r) - 1)
      PROVE  j + 1 \in 1..Len(r) /\ Char(s, i + j) = t[j + 1] /\ Char(r, j) = r[j + 1]
  <2>1. j \in Nat /\ j < Len(r) /\ i + j \in Nat /\ i + j < Len(s) /\ (i + j) + 1 = i + (j + 1)
    BY <1>1, <1>3
  <2>2. Char(s, i + j) = s[i + (j + 1)] /\ Char(r, j) = r[j + 1]
    BY <2>1 DEF Char
  <2> QED
    BY <1>1, <1>2, <2>1, <2>2
<1>4. ASSUME NEW k \in 1..Len(r) PROVE k - 1 \in 0..(Len(r) - 1) /\ (k - 1) + 1 = k
  BY <1>1, <1>4
<1>5. t = r <=> \A k \in 1..Len(r) : t[k] = r[k]
  <2>1. t \in [1..Len(r) -> Character] /\ r \in [1..Len(r) -> Character]
    BY <1>1, <1>2
  <2> QED
    BY <2>1
<1>6. (\A k \in 1..Len(r) : t[k] = r[k])
        <=> \A j \in 0..(Len(r) - 1) : Char(s, i + j) = Char(r, j)
  BY <1>3, <1>4
<1> QED
  BY <1>5, <1>6 DEF t

LEMMA strstrIs ==
  ASSUME NEW s \in Seq(Character), NEW r \in Seq(Character)
  PROVE  strstr(s, r) = Least({i \in 0..(Len(s) - Len(r)) : SubSeq(s, i + 1, i + Len(r)) = r})
<1> DEFINE S == {i \in 0..(Len(s) - Len(r)) : SubSeq(s, i + 1, i + Len(r)) = r}
<1>1. Len(s) \in Nat /\ Len(r) \in Nat /\ strlen(s) = Len(s) /\ strlen(r) = Len(r)
  BY strlenIs
<1>2. CASE Len(r) > Len(s)
  <2>1. S = {}
    BY <1>1, <1>2
  <2>2. strstr(s, r) = Null
    BY <1>1, <1>2 DEF strstr
  <2> QED
    BY <2>1, <2>2, LeastOfNone
<1>3. CASE Len(r) <= Len(s)
  <2> DEFINE N == Len(s) + 1
             tries == strlen(s) - strlen(r) + 1
             stop == {i \in 0..N : i >= tries \/ i \in S}
             val == [i \in 0..N |-> IF i < tries THEN i ELSE Null]
  <2>1. N \in Nat /\ stop \subseteq 0..N /\ N \in stop /\ tries \in Nat /\ tries <= N
    BY <1>1, <1>3
  <2>2. ASSUME NEW i \in 0..N, i < tries PROVE MatchesAt(s, r, i) <=> i \in S
    <3>1. i \in Nat /\ i + Len(r) <= Len(s) /\ i \in 0..(Len(s) - Len(r))
      BY <1>1, <2>2
    <3>2. MatchesAt(s, r, i) <=> \A j \in 0..(Len(r) - 1) : Char(s, i + j) = Char(r, j)
      BY <3>1, MatchesAtIs
    <3>3. SubSeq(s, i + 1, i + Len(r)) = r
            <=> \A j \in 0..(Len(r) - 1) : Char(s, i + j) = Char(r, j)
      BY <3>1, SubSeqIs
    <3> QED
      BY <3>1, <3>2, <3>3
  <2>3. S \subseteq Nat /\ \A i \in S : i < tries /\ i \in 0..N
    BY <1>1, <1>3
  <2> HIDE DEF S
  <2>4. ASSUME NEW f
        PROVE  [i \in 0..N |-> IF i < tries
                               THEN IF MatchesAt(s, r, i) THEN i ELSE f[i + 1] ELSE Null]
                 = [i \in 0..N |-> IF i \in stop THEN val[i] ELSE f[i + 1]]
    BY <2>1, <2>2, <2>3
  <2>5. strstr(s, r) = LoopFrom(N, stop, val)
    <3>1. ~(strlen(r) > strlen(s))
      BY <1>1, <1>3
    <3> QED
      BY <2>4, <3>1 DEF strstr, LoopFrom, IsLoop
  <2>6. Finds(stop, val, S)
    BY <2>1, <2>3 DEF Finds
  <2> HIDE DEF N, stop, val
  <2>7. LoopFrom(N, stop, val) = Least(S)
    BY <2>1, <2>6, LoopFinds
  <2> QED
    BY <2>5, <2>7 DEF S
<1> QED
  BY <1>1, <1>2, <1>3

(* The searching functions find the first place there is, in strings of any length. *)
THEOREM StatelessSearchesAgree == Spec => []SearchesAgree
<1>1. CallInv => SearchesAgree
  <2> SUFFICES ASSUME CallInv, Calls("string") PROVE SearchesAgree
    BY DEF SearchesAgree
  <2> DEFINE s == call.s
             r == call.r
             n == call.n
  <2>1. s \in Seq(Character) /\ r \in Seq(Character) /\ n \in Nat
    BY StringCall
  <2> HIDE DEF s, r, n
  <2>2. \A ch \in Chars \cup {0} : ch \in Nat
    BY StatelessAssumption
  <2>3. \A ch \in Chars \cup {0} : strchr(s, ch) = Least({i \in 0..Len(s) : Char(s, i) = ch})
    BY <2>1, <2>2, strchrIs
  <2>4. \A ch \in Chars : memchr(s, ch, n) = Least({i \in 0..(n - 1) : Char(s, i) = ch})
    BY <2>1, memchrIs
  <2>5. /\ strstr(s, r) =
             Least({i \in 0..(Len(s) - Len(r)) : SubSeq(s, i + 1, i + Len(r)) = r})
        /\ strpbrk(s, r) = Least({i \in 0..(Len(s) - 1) : Char(s, i) \in Elements(r)})
        /\ strspn(s, r) = Least({i \in 0..Len(s) : Char(s, i) \notin Elements(r)})
        /\ strcspn(s, r) = Least({i \in 0..Len(s) : Char(s, i) \in Elements(r) \cup {0}})
    BY <2>1, strstrIs, strpbrkIs, strspnIs, strcspnIs, Zenon
  <2> QED
    BY <2>3, <2>4, <2>5, Zenon DEF SearchesAgree, s, r, n
<1> QED
  BY <1>1, CallAlways, PTL
-----------------------------------------------------------------------------
(* The order of two strings whose first difference is at i, and of two strings
   without one. *)
LEMMA OrderIs ==
  ASSUME NEW a \in Seq(Character), NEW b \in Seq(Character), NEW i \in Nat,
         i <= Len(a) + Len(b), Char(a, i) # Char(b, i),
         \A k \in 0..(i - 1) : Char(a, k) = Char(b, k)
  PROVE  Order(a, b) = IF Char(a, i) > Char(b, i) THEN 1 ELSE -1
<1> DEFINE differ == {k \in 0..(Len(a) + Len(b)) : Char(a, k) # Char(b, k)}
           m == CHOOSE k \in differ : \A j \in differ : k <= j
<1>1. Len(a) + Len(b) \in Nat
  OBVIOUS
<1>2. i \in differ /\ \A j \in differ : i <= j
  BY <1>1
<1>3. m \in differ /\ \A j \in differ : m <= j
  BY <1>2, Zenon
<1>4. differ \subseteq Nat /\ differ # {}
  BY <1>1, <1>2
<1>5. Order(a, b) = IF Char(a, m) > Char(b, m) THEN 1 ELSE -1
  BY <1>4, Zenon DEF Order
<1> HIDE DEF differ, m
<1>6. m = i
  BY <1>2, <1>3, <1>4
<1> QED
  BY <1>5, <1>6

LEMMA OrderOfEqual ==
  ASSUME NEW a \in Seq(Character), NEW b \in Seq(Character),
         \A k \in Nat : Char(a, k) = Char(b, k)
  PROVE  Order(a, b) = 0
BY DEF Order

(* The first characters of a string. *)
LEMMA PrefixIs ==
  ASSUME NEW s \in Seq(Character), NEW n \in Nat
  PROVE  /\ Prefix(s, n) \in Seq(Character)
         /\ Len(Prefix(s, n)) = IF n <= Len(s) THEN n ELSE Len(s)
         /\ \A i \in Nat : Char(Prefix(s, n), i) = IF i < n THEN Char(s, i) ELSE 0
<1> DEFINE m == IF n <= Len(s) THEN n ELSE Len(s)
           t == SubSeq(s, 1, m)
<1>1. m \in Nat /\ m <= Len(s) /\ m <= n
  OBVIOUS
<1>2. t \in Seq(Character) /\ Len(t) = m /\ \A k \in 1..m : t[k] = s[k]
  <2> HIDE DEF m
  <2> QED
    BY <1>1
<1>3. Prefix(s, n) = t
  BY DEF Prefix
<1> HIDE DEF t
<1>4. ASSUME NEW i \in Nat PROVE Char(t, i) = IF i < n THEN Char(s, i) ELSE 0
  <2>1. CASE i < m
    <3>1. i + 1 \in 1..m /\ i < n /\ i < Len(s)
      BY <1>1, <2>1
    <3> QED
      BY <1>2, <2>1, <3>1 DEF Char
  <2>2. CASE ~(i < m)
    BY <1>1, <1>2, <2>2 DEF Char
  <2> QED
    BY <2>1, <2>2
<1> QED
  BY <1>2, <1>3, <1>4

(* How strcmp's loop ends at index i. *)
LEMMA EndOfIs ==
  ASSUME NEW s \in Seq(Character), NEW r \in Seq(Character), NEW i \in Nat,
         ~(Char(s, i) # 0 /\ Char(r, i) # 0)
  PROVE  EndOf(s, r, i) = IF Char(s, i) = Char(r, i) THEN 0
                          ELSE IF Char(s, i) > Char(r, i) THEN 1 ELSE -1
<1>1. Char(s, i) \in Nat /\ Char(r, i) \in Nat
  BY CharIs
<1> QED
  BY <1>1 DEF EndOf

LEMMA strcmpIs ==
  ASSUME NEW s \in Seq(Character), NEW r \in Seq(Character)
  PROVE  strcmp(s, r) = Order(s, r)
<1> DEFINE N == Len(s)
           stop == {i \in 0..N : i = N \/ Char(s, i) # Char(r, i)}
           val == [i \in 0..N |-> IF Char(s, i) = Char(r, i) THEN 0
                                  ELSE IF Char(s, i) > Char(r, i) THEN 1 ELSE -1]
<1>1. N \in Nat /\ Len(r) \in Nat /\ stop \subseteq 0..N /\ N \in stop
  OBVIOUS
<1>2. ASSUME NEW i \in 0..N
      PROVE  /\ i \in Nat /\ Char(s, i) \in Nat /\ Char(r, i) \in Nat
             /\ Char(s, i) # 0 <=> i # N
  <2>1. i \in Nat /\ i <= N
    BY <1>1
  <2>2. Char(s, i) \in Nat /\ Char(r, i) \in Nat /\ (Char(s, i) # 0 <=> i < Len(s))
    BY <2>1, CharIs
  <2> QED
    BY <1>1, <2>1, <2>2
<1>3. \A i \in 0..N : ~(Char(s, i) # 0 /\ Char(r, i) # 0) => EndOf(s, r, i) = val[i]
  BY <1>2, EndOfIs
<1>4. ASSUME NEW f
      PROVE  [i \in 0..N |-> IF Char(s, i) # 0 /\ Char(r, i) # 0
                             THEN IF Char(s, i) > Char(r, i) THEN 1
                                  ELSE IF Char(s, i) < Char(r, i) THEN -1
                                  ELSE f[i + 1]
                             ELSE EndOf(s, r, i)]
               = [i \in 0..N |-> IF i \in stop THEN val[i] ELSE f[i + 1]]
  <2> SUFFICES ASSUME NEW i \in 0..N
               PROVE  (IF Char(s, i) # 0 /\ Char(r, i) # 0
                       THEN IF Char(s, i) > Char(r, i) THEN 1
                            ELSE IF Char(s, i) < Char(r, i) THEN -1
                            ELSE f[i + 1]
                       ELSE EndOf(s, r, i))
                      = IF i \in stop THEN val[i] ELSE f[i + 1]
    OBVIOUS
  <2>1. CASE Char(s, i) # 0 /\ Char(r, i) # 0
    BY <1>2, <2>1
  <2>2. CASE ~(Char(s, i) # 0 /\ Char(r, i) # 0)
    <3>1. i \in stop
      BY <1>2, <2>2
    <3> QED
      BY <1>3, <2>2, <3>1
  <2> QED
    BY <2>1, <2>2
<1>5. strcmp(s, r) = LoopFrom(N, stop, val)
  BY <1>4 DEF strcmp, LoopFrom, IsLoop
<1>6. PICK j \in stop : (\A k \in stop : j <= k) /\ LoopFrom(N, stop, val) = val[j]
  <2> HIDE DEF N, stop, val
  <2> QED
    BY <1>1, LoopReturns
<1>7. j \in Nat /\ j <= N /\ \A k \in 0..(j - 1) : Char(s, k) = Char(r, k)
  BY <1>1, <1>6
<1>8. CASE Char(s, j) # Char(r, j)
  <2>1. Order(s, r) = IF Char(s, j) > Char(r, j) THEN 1 ELSE -1
    BY <1>1, <1>7, <1>8, OrderIs
  <2> QED
    BY <1>1, <1>5, <1>6, <1>7, <1>8, <2>1
<1>9. CASE Char(s, j) = Char(r, j)
  <2>1. j = N /\ Char(s, j) = 0 /\ Char(r, j) = 0
    BY <1>2, <1>6, <1>9
  <2>2. Len(r) <= j
    BY <1>1, <1>7, <2>1, CharIs
  <2>3. ASSUME NEW k \in Nat PROVE Char(s, k) = Char(r, k)
    <3>1. CASE k < j
      BY <1>7, <3>1
    <3>2. CASE k >= j
      BY <1>1, <1>7, <2>1, <2>2, <3>2 DEF Char
    <3> QED
      BY <1>7, <3>1, <3>2
  <2>4. Order(s, r) = 0
    BY <2>3, OrderOfEqual
  <2> QED
    BY <1>1, <1>5, <1>6, <1>7, <1>9, <2>4
<1> QED
  BY <1>8, <1>9

(* memcmp and strncmp look at no more than the first count characters. *)
LEMMA memcmpIs ==
  ASSUME NEW s \in Seq(Character), NEW r \in Seq(Character), NEW n \in Nat,
         n <= Len(s), n <= Len(r)
  PROVE  memcmp(s, r, n) = Order(Prefix(s, n), Prefix(r, n))
<1> DEFINE stop == {i \in 0..n : i = n \/ Char(s, i) # Char(r, i)}
           val == [i \in 0..n |-> IF i < n THEN IF Char(s, i) > Char(r, i) THEN 1 ELSE -1 ELSE 0]
           a == Prefix(s, n)
           b == Prefix(r, n)
<1>1. stop \subseteq 0..n /\ n \in stop
  OBVIOUS
<1>2. ASSUME NEW i \in 0..n PROVE i \in Nat /\ Char(s, i) \in Nat /\ Char(r, i) \in Nat
  <2>1. i \in Nat
    OBVIOUS
  <2> QED
    BY <2>1, CharIs
<1>3. ASSUME NEW f
      PROVE  [i \in 0..n |-> IF i < n
                             THEN IF Char(s, i) > Char(r, i) THEN 1
                                  ELSE IF Char(s, i) < Char(r, i) THEN -1
                                  ELSE f[i + 1]
                             ELSE 0]
               = [i \in 0..n |-> IF i \in stop THEN val[i] ELSE f[i + 1]]
  BY <1>2
<1>4. memcmp(s, r, n) = LoopFrom(n, stop, val)
  BY <1>3 DEF memcmp, LoopFrom, IsLoop
<1>5. PICK j \in stop : (\A k \in stop : j <= k) /\ LoopFrom(n, stop, val) = val[j]
  <2> HIDE DEF stop, val
  <2> QED
    BY <1>1, LoopReturns
<1>6. /\ a \in Seq(Character) /\ Len(a) = n /\ b \in Seq(Character) /\ Len(b) = n
      /\ \A i \in Nat : i < n => Char(a, i) = Char(s, i) /\ Char(b, i) = Char(r, i)
      /\ \A i \in Nat : ~(i < n) => Char(a, i) = 0 /\ Char(b, i) = 0
  BY PrefixIs
<1> HIDE DEF a, b
<1>7. j \in Nat /\ j <= n /\ \A k \in 0..(j - 1) : Char(s, k) = Char(r, k)
  BY <1>5
<1>8. CASE j < n
  <2>1. Char(s, j) # Char(r, j) /\ Char(a, j) # Char(b, j)
    BY <1>5, <1>6, <1>7, <1>8
  <2>2. \A k \in 0..(j - 1) : Char(a, k) = Char(b, k)
    BY <1>6, <1>7
  <2>3. Order(a, b) = IF Char(a, j) > Char(b, j) THEN 1 ELSE -1
    BY <1>6, <1>7, <2>1, <2>2, OrderIs
  <2> QED
    BY <1>4, <1>5, <1>6, <1>7, <1>8, <2>3 DEF a, b
<1>9. CASE ~(j < n)
  <2>1. ASSUME NEW k \in Nat PROVE Char(a, k) = Char(b, k)
    BY <1>6, <1>7, <1>9
  <2>2. Order(a, b) = 0
    BY <1>6, <2>1, OrderOfEqual
  <2> QED
    BY <1>4, <1>5, <1>7, <1>9, <2>2 DEF a, b
<1> QED
  BY <1>8, <1>9

LEMMA strncmpIs ==
  ASSUME NEW s \in Seq(Character), NEW r \in Seq(Character), NEW n \in Nat
  PROVE  /\ strncmp(s, r, n) \in {0, Order(Prefix(s, n), Prefix(r, n))}
         /\ n <= Len(s) /\ n <= Len(r) => strncmp(s, r, n) = Order(Prefix(s, n), Prefix(r, n))
<1> DEFINE end(i) == i = n \/ Char(s, i) = 0 \/ Char(r, i) = 0
           stop == {i \in 0..n : end(i) \/ Char(s, i) # Char(r, i)}
           val == [i \in 0..n |-> IF end(i) THEN 0
                                  ELSE IF Char(s, i) > Char(r, i) THEN 1 ELSE -1]
           a == Prefix(s, n)
           b == Prefix(r, n)
<1>1. stop \subseteq 0..n /\ n \in stop
  OBVIOUS
<1>2. ASSUME NEW i \in 0..n PROVE i \in Nat /\ Char(s, i) \in Nat /\ Char(r, i) \in Nat
  <2>1. i \in Nat
    OBVIOUS
  <2> QED
    BY <2>1, CharIs
<1>3. ASSUME NEW f
      PROVE  [i \in 0..n |-> IF Char(s, i) # 0 /\ Char(r, i) # 0 /\ i < n
                             THEN IF Char(s, i) > Char(r, i) THEN 1
                                  ELSE IF Char(s, i) < Char(r, i) THEN -1
                                  ELSE f[i + 1]
                             ELSE 0]
               = [i \in 0..n |-> IF i \in stop THEN val[i] ELSE f[i + 1]]
  BY <1>2
<1>4. strncmp(s, r, n) = LoopFrom(n, stop, val)
  BY <1>3 DEF strncmp, LoopFrom, IsLoop
<1>5. PICK j \in stop : (\A k \in stop : j <= k) /\ LoopFrom(n, stop, val) = val[j]
  <2> HIDE DEF stop, val
  <2> QED
    BY <1>1, LoopReturns
<1>6. /\ a \in Seq(Character) /\ b \in Seq(Character)
      /\ Len(a) = IF n <= Len(s) THEN n ELSE Len(s)
      /\ \A i \in Nat : i < n => Char(a, i) = Char(s, i) /\ Char(b, i) = Char(r, i)
      /\ \A i \in Nat : ~(i < n) => Char(a, i) = 0 /\ Char(b, i) = 0
  BY PrefixIs
<1> HIDE DEF a, b
<1>7. j \in Nat /\ j <= n /\ \A k \in 0..(j - 1) : Char(s, k) = Char(r, k)
  BY <1>5
<1>8. CASE ~end(j)
  <2>1. j < n /\ j < Len(s) /\ Char(s, j) # Char(r, j)
    BY <1>5, <1>7, <1>8, CharIs
  <2>2. j <= Len(a) + Len(b) /\ Char(a, j) # Char(b, j)
    BY <1>6, <1>7, <2>1
  <2>3. \A k \in 0..(j - 1) : Char(a, k) = Char(b, k)
    BY <1>6, <1>7
  <2>4. Order(a, b) = IF Char(a, j) > Char(b, j) THEN 1 ELSE -1
    BY <1>6, <1>7, <2>2, <2>3, OrderIs
  <2>5. LoopFrom(n, stop, val) = Order(a, b)
    BY <1>5, <1>6, <1>7, <1>8, <2>1, <2>4
  <2> QED
    BY <1>4, <2>5 DEF a, b
<1>9. CASE end(j)
  <2>1. LoopFrom(n, stop, val) = 0
    BY <1>5, <1>7, <1>9
  <2>2. ASSUME n <= Len(s), n <= Len(r) PROVE Order(a, b) = 0
    <3>1. /\ Len(s) \in Nat /\ (Char(s, j) # 0 <=> j < Len(s))
          /\ Len(r) \in Nat /\ (Char(r, j) # 0 <=> j < Len(r))
      <4>1. j \in Nat
        BY <1>7
      <4>2. Char(s, j) # 0 <=> j < Len(s)
        BY <4>1, CharIs
      <4>3. Char(r, j) # 0 <=> j < Len(r)
        BY <4>1, CharIs
      <4> QED
        BY <4>2, <4>3
    <3>2. j = n
      BY <1>7, <1>9, <2>2, <3>1
    <3>3. ASSUME NEW k \in Nat PROVE Char(a, k) = Char(b, k)
      BY <1>6, <1>7, <3>2
    <3> QED
      BY <1>6, <3>3, OrderOfEqual
  <2> QED
    BY <1>4, <2>1, <2>2 DEF a, b
<1> QED
  BY <1>8, <1>9

(* strcmp and memcmp order strings of any length by their first difference; strncmp
   does so when no string ends before the count, and never the wrong way round. *)
THEOREM StatelessComparesAgree == Spec => []ComparesAgree
<1>1. CallInv => ComparesAgree
  <2> SUFFICES ASSUME CallInv, Calls("string") PROVE ComparesAgree
    BY DEF ComparesAgree
  <2> DEFINE s == call.s
             r == call.r
             n == call.n
  <2>1. s \in Seq(Character) /\ r \in Seq(Character) /\ n \in Nat
    BY StringCall
  <2> HIDE DEF s, r, n
  <2>2. strcmp(s, r) = Order(s, r)
    BY <2>1, strcmpIs
  <2>3. n <= Len(s) /\ n <= Len(r) =>
          /\ memcmp(s, r, n) = Order(Prefix(s, n), Prefix(r, n))
          /\ strncmp(s, r, n) = Order(Prefix(s, n), Prefix(r, n))
    BY <2>1, memcmpIs, strncmpIs
  <2>4. strncmp(s, r, n) \in {0, Order(Prefix(s, n), Prefix(r, n))}
    BY <2>1, strncmpIs
  <2> QED
    BY <2>2, <2>3, <2>4, Zenon DEF ComparesAgree, s, r, n
<1> QED
  BY <1>1, CallAlways, PTL

-----------------------------------------------------------------------------
LEMMA StopAtIs ==
  ASSUME NEW s \in Seq(Character), NEW n \in Nat
  PROVE  StopAt(s, n) = IF n <= Len(s) THEN n ELSE Len(s)
<1> DEFINE stop == {i \in 0..n : i = n \/ Char(s, i) = 0}
           val == [i \in 0..n |-> i]
<1>1. stop \subseteq 0..n /\ n \in stop /\ Len(s) \in Nat
  OBVIOUS
<1>2. ASSUME NEW f
      PROVE  [i \in 0..n |-> IF Char(s, i) # 0 /\ i < n THEN f[i + 1] ELSE i]
               = [i \in 0..n |-> IF i \in stop THEN val[i] ELSE f[i + 1]]
  OBVIOUS
<1>3. StopAt(s, n) = LoopFrom(n, stop, val)
  BY <1>2 DEF StopAt, LoopFrom, IsLoop
<1>4. PICK j \in stop : (\A k \in stop : j <= k) /\ LoopFrom(n, stop, val) = val[j]
  <2> HIDE DEF stop, val
  <2> QED
    BY <1>1, LoopReturns
<1>5. StopAt(s, n) = j /\ j \in Nat /\ j <= n
  BY <1>3, <1>4
<1>6. Char(s, j) # 0 <=> j < Len(s)
  BY <1>5, CharIs
<1>7. Len(s) <= n => Len(s) \in stop
  <2>1. Char(s, Len(s)) = 0
    BY <1>1, CharIs
  <2> QED
    BY <1>1, <2>1
<1> QED
  BY <1>1, <1>4, <1>5, <1>6, <1>7

(* The destination 0 to D holds the string t and its terminator, and nothing behind it
   was written. *)
Holds(dest, D, t) ==
  /\ dest \in [0..D -> Int]
  /\ Len(t) <= D
  /\ \A k \in 0..D : dest[k] = IF k <= Len(t) THEN Char(t, k) ELSE Old

LEMMA HoldsIs ==
  ASSUME NEW D \in Nat, NEW dest, NEW t \in Seq(Character), Holds(dest, D, t)
  PROVE  Bytes(dest, Len(t) + 1) = Append(t, 0) /\ Untouched(dest, Len(t) + 1)
<1> DEFINE n == Len(t) + 1
           u == Append(t, 0)
<1>1. Len(t) \in Nat /\ n \in Nat /\ n <= D + 1
  BY DEF Holds
<1>2. u \in Seq(Nat) /\ Len(u) = n /\ u[n] = 0 /\ \A k \in 1..Len(t) : u[k] = t[k]
  <2>1. t \in Seq(Nat)
    BY DEF Character
  <2> QED
    BY <2>1
<1>3. ASSUME NEW k \in 1..n PROVE dest[k - 1] = u[k]
  <2>1. k - 1 \in 0..D /\ k - 1 \in Nat /\ k - 1 <= Len(t) /\ (k - 1) + 1 = k
    BY <1>1
  <2>2. dest[k - 1] = Char(t, k - 1)
    BY <2>1 DEF Holds
  <2>3. CASE k = n
    <3>1. Char(t, k - 1) = 0
      BY <1>1, <2>3 DEF Char
    <3> QED
      BY <1>2, <2>2, <2>3, <3>1
  <2>4. CASE k # n
    <3>1. k \in 1..Len(t) /\ k - 1 < Len(t)
      BY <1>1, <2>4
    <3>2. Char(t, k - 1) = t[k]
      BY <2>1, <3>1 DEF Char
    <3> QED
      BY <1>2, <2>2, <3>1, <3>2
  <2> QED
    BY <2>3, <2>4
<1>4. u = [k \in 1..n |-> u[k]]
  <2> HIDE DEF u
  <2> QED
    BY <1>1, <1>2
<1> HIDE DEF u, n
<1>5. [k \in 1..n |-> dest[k - 1]] = u
  BY <1>3, <1>4
<1>6. Bytes(dest, n) = u
  BY <1>5 DEF Bytes
<1>7. Untouched(dest, Len(t) + 1)
  <2>1. DOMAIN dest = 0..D
    BY DEF Holds
  <2>2. ASSUME NEW k \in 0..D, k >= Len(t) + 1 PROVE dest[k] = Old
    BY <1>1, <2>2 DEF Holds
  <2> QED
    BY <2>1, <2>2 DEF Untouched
<1> QED
  BY <1>6, <1>7 DEF u, n

LEMMA EndInIs ==
  ASSUME NEW D \in Nat, NEW dest, NEW t \in Seq(Character), Holds(dest, D, t)
  PROVE  EndIn(dest) = Len(t)
<1> DEFINE stop == {i \in 0..D : dest[i] = 0 \/ i = D}
           val == [i \in 0..D |-> i]
<1>1. Len(t) \in Nat /\ DOMAIN dest = 0..D /\ stop \subseteq 0..D /\ D \in stop
  BY DEF Holds
<1>2. ASSUME NEW f
      PROVE  [i \in DOMAIN dest |-> IF dest[i] # 0 /\ i + 1 \in DOMAIN dest
                                    THEN f[i + 1] ELSE i]
               = [i \in 0..D |-> IF i \in stop THEN val[i] ELSE f[i + 1]]
  BY <1>1
<1>3. EndIn(dest) = LoopFrom(D, stop, val)
  BY <1>2 DEF EndIn, LoopFrom, IsLoop
<1>4. PICK j \in stop : (\A k \in stop : j <= k) /\ LoopFrom(D, stop, val) = val[j]
  <2> HIDE DEF stop, val
  <2> QED
    BY <1>1, LoopReturns
<1>5. EndIn(dest) = j /\ j \in Nat /\ j <= D
  BY <1>3, <1>4
<1>6. Len(t) \in stop
  <2>1. Len(t) \in 0..D /\ Char(t, Len(t)) = 0
    BY <1>1 DEF Holds, Char
  <2>2. dest[Len(t)] = 0
    BY <1>1, <2>1 DEF Holds
  <2> QED
    BY <2>1, <2>2
<1>7. ASSUME j < Len(t) PROVE FALSE
  <2>1. j \in 0..D /\ dest[j] = Char(t, j)
    BY <1>1, <1>5, <1>7 DEF Holds
  <2>2. Char(t, j) # 0
    BY <1>5, <1>7, CharIs
  <2>3. j # D
    BY <1>1, <1>5, <1>7 DEF Holds
  <2> QED
    BY <1>4, <2>1, <2>2, <2>3
<1> QED
  BY <1>1, <1>4, <1>5, <1>6, <1>7

(* Writing m characters of r and a terminator behind the string in dest. *)
LEMMA Concatenates ==
  ASSUME NEW D \in Nat, NEW dest, NEW t \in Seq(Character), Holds(dest, D, t),
         NEW r \in Seq(Character), NEW q \in Seq(Character), Len(t) + Len(q) <= D,
         \A j \in 0..(Len(q) - 1) : Char(q, j) = Char(r, j)
  PROVE  Holds([Stored(dest, Len(t), r, Len(q)) EXCEPT ![Len(t) + Len(q)] = 0], D, t \o q)
<1> DEFINE e == Len(t)
           m == Len(q)
           st == Stored(dest, e, r, m)
           new == [st EXCEPT ![e + m] = 0]
           c == t \o q
<1>1. e \in Nat /\ m \in Nat /\ DOMAIN dest = 0..D /\ e + m \in 0..D
  BY DEF Holds
<1>2. c \in Seq(Character) /\ Len(c) = e + m
  OBVIOUS
<1>3. ASSUME NEW k \in Nat
      PROVE  /\ k < e => Char(c, k) = Char(t, k)
             /\ e <= k /\ k < e + m => k - e \in 0..(m - 1) /\ Char(c, k) = Char(q, k - e)
             /\ k = e + m => Char(c, k) = 0
  <2>1. CASE k < e
    <3>1. k + 1 \in 1..e /\ k < Len(c)
      BY <1>1, <1>2, <2>1
    <3>2. c[k + 1] = t[k + 1]
      BY <3>1
    <3> QED
      BY <1>1, <2>1, <3>1, <3>2 DEF Char
  <2>2. CASE e <= k /\ k < e + m
    <3>1. k + 1 \in (e + 1)..(e + m) /\ k < Len(c) /\ k - e \in 0..(m - 1) /\ k - e < m
          /\ (k + 1) - e = (k - e) + 1
      BY <1>1, <1>2, <2>2
    <3>2. c[k + 1] = q[(k - e) + 1]
      BY <1>1, <2>2, <3>1
    <3> QED
      BY <1>1, <2>2, <3>1, <3>2 DEF Char
  <2>3. CASE k = e + m
    BY <1>1, <1>2, <2>3 DEF Char
  <2> QED
    BY <1>1, <2>1, <2>2, <2>3
<1>4. st \in [0..D -> Int]
  <2>1. st = [k \in 0..D |-> IF k \in e..(e + m - 1) THEN Char(r, k - e) ELSE dest[k]]
    BY <1>1 DEF Stored
  <2>2. ASSUME NEW k \in 0..D
        PROVE  (IF k \in e..(e + m - 1) THEN Char(r, k - e) ELSE dest[k]) \in Int
    <3>1. CASE k \in e..(e + m - 1)
      <4>1. k - e \in Nat
        BY <1>1, <3>1
      <4>2. Char(r, k - e) \in Nat
        BY <4>1, CharIs
      <4> QED
        BY <3>1, <4>2
    <3>2. CASE k \notin e..(e + m - 1)
      BY <3>2 DEF Holds
    <3> QED
      BY <3>1, <3>2
  <2> HIDE DEF st
  <2> QED
    BY <2>1, <2>2
<1>5. \A k \in 0..D : st[k] = IF k \in e..(e + m - 1) THEN Char(r, k - e) ELSE dest[k]
  BY <1>1 DEF Stored
<1> HIDE DEF st, c
<1>6. new \in [0..D -> Int] /\ \A k \in 0..D : new[k] = IF k = e + m THEN 0 ELSE st[k]
  BY <1>1, <1>4
<1> HIDE DEF new
<1>7. ASSUME NEW k \in 0..D PROVE new[k] = IF k <= Len(c) THEN Char(c, k) ELSE Old
  <2>1. k \in Nat /\ dest[k] = IF k <= e THEN Char(t, k) ELSE Old
    BY DEF Holds
  <2>2. CASE k < e
    <3>1. k # e + m /\ k \notin e..(e + m - 1) /\ k <= Len(c) /\ k <= e
      BY <1>1, <1>2, <2>1, <2>2
    <3> QED
      BY <1>3, <1>5, <1>6, <2>1, <2>2, <3>1
  <2>3. CASE e <= k /\ k < e + m
    <3>1. k # e + m /\ k \in e..(e + m - 1) /\ k <= Len(c)
      BY <1>1, <1>2, <2>1, <2>3
    <3>2. k - e \in 0..(m - 1) /\ Char(c, k) = Char(q, k - e)
      BY <1>3, <2>1, <2>3
    <3>3. Char(q, k - e) = Char(r, k - e)
      BY <3>2
    <3> QED
      BY <1>5, <1>6, <3>1, <3>2, <3>3
  <2>4. CASE k = e + m
    BY <1>2, <1>3, <1>6, <2>1, <2>4
  <2>5. CASE k > e + m
    <3>1. k # e + m /\ k \notin e..(e + m - 1) /\ ~(k <= Len(c)) /\ ~(k <= e)
      BY <1>1, <1>2, <2>1, <2>5
    <3> QED
      BY <1>5, <1>6, <2>1, <3>1
  <2>6. k < e \/ (e <= k /\ k < e + m) \/ k = e + m \/ k > e + m
    <3>1. k \in Nat /\ e \in Nat /\ m \in Nat
      BY <1>1
    <3> HIDE DEF e, m
    <3> QED
      BY <3>1
  <2> QED
    BY <2>2, <2>3, <2>4, <2>5, <2>6, Zenon
<1>8. Holds(new, D, c)
  BY <1>1, <1>2, <1>6, <1>7 DEF Holds
<1> QED
  BY <1>8 DEF new, st, c

LEMMA strcpyHolds ==
  ASSUME NEW D \in Nat, NEW dest, dest = [k \in 0..D |-> Old],
         NEW s \in Seq(Character), Len(s) <= D
  PROVE  Holds(strcpy(dest, s), D, s)
<1> DEFINE m == Len(s)
           st == Stored(dest, 0, s, m)
           new == [st EXCEPT ![m] = 0]
<1>1. m \in Nat /\ m \in 0..D /\ strlen(s) = m
  BY strlenIs
<1>2. strcpy(dest, s) = new
  BY <1>1 DEF strcpy
<1>3. st = [k \in 0..D |-> IF k \in 0..(0 + m - 1) THEN Char(s, k - 0) ELSE Old]
  BY DEF Stored
<1>4. st = [k \in 0..D |-> IF k < m THEN Char(s, k) ELSE Old]
  <2>1. ASSUME NEW k \in 0..D PROVE (k \in 0..(0 + m - 1) <=> k < m) /\ k - 0 = k
    BY <1>1
  <2> QED
    BY <1>3, <2>1
<1>5. ASSUME NEW k \in 0..D PROVE Char(s, k) \in Int /\ Old \in Int /\ Char(s, m) = 0
  <2>1. k \in Nat
    OBVIOUS
  <2>2. Char(s, k) \in Nat
    BY <2>1, CharIs
  <2> QED
    BY <1>1, <2>2 DEF Char, Old
<1> HIDE DEF st
<1>6. new \in [0..D -> Int]
  BY <1>1, <1>4, <1>5
<1>7. ASSUME NEW k \in 0..D PROVE new[k] = IF k <= m THEN Char(s, k) ELSE Old
  BY <1>1, <1>4, <1>5
<1> HIDE DEF new
<1> QED
  BY <1>1, <1>2, <1>6, <1>7 DEF Holds

LEMMA strncpyIs ==
  ASSUME NEW D \in Nat, NEW dest, dest = [k \in 0..D |-> Old],
         NEW s \in Seq(Character), NEW n \in Nat, n <= D
  PROVE  /\ Bytes(strncpy(dest, s, n), n) = [k \in 1..n |-> Char(s, k - 1)]
         /\ Untouched(strncpy(dest, s, n), n)
<1> DEFINE m == StopAt(s, n)
           st == Stored(dest, 0, s, m)
           pad == strncpy(dest, s, n)
<1>1. m \in Nat /\ m <= n /\ Len(s) \in Nat /\ (m < n => m = Len(s))
  BY StopAtIs
<1> HIDE DEF m
<1>2. ASSUME NEW k \in 0..D PROVE st[k] = IF k < m THEN Char(s, k) ELSE Old
  <2>1. (k \in 0..(0 + m - 1) <=> k < m) /\ k - 0 = k
    BY <1>1
  <2> QED
    BY <2>1 DEF Stored
<1>3. DOMAIN dest = 0..D /\ pad = [k \in DOMAIN dest |-> IF k \in m..(n - 1) THEN 0 ELSE st[k]]
  BY DEF strncpy, m
<1> HIDE DEF st, pad
<1>4. ASSUME NEW k \in 0..D PROVE pad[k] = IF k < n THEN Char(s, k) ELSE Old
  <2>1. pad[k] = IF k \in m..(n - 1) THEN 0 ELSE IF k < m THEN Char(s, k) ELSE Old
    BY <1>2, <1>3
  <2>2. CASE k < m
    BY <1>1, <2>1, <2>2
  <2>3. CASE m <= k /\ k < n
    <3>1. k \in m..(n - 1) /\ Char(s, k) = 0
      BY <1>1, <2>3 DEF Char
    <3> QED
      BY <2>1, <2>3, <3>1
  <2>4. CASE k >= n
    BY <1>1, <2>1, <2>4
  <2> QED
    BY <1>1, <2>2, <2>3, <2>4
<1>5. ASSUME NEW k \in 1..n PROVE pad[k - 1] = Char(s, k - 1)
  <2>1. k - 1 \in 0..D /\ k - 1 < n
    OBVIOUS
  <2> QED
    BY <1>4, <2>1
<1>6. Bytes(pad, n) = [k \in 1..n |-> Char(s, k - 1)]
  BY <1>5 DEF Bytes
<1>7. Untouched(pad, n)
  <2>1. DOMAIN pad = 0..D
    BY <1>3
  <2>2. ASSUME NEW k \in 0..D, k >= n PROVE pad[k] = Old
    BY <1>4, <2>2
  <2> QED
    BY <2>1, <2>2 DEF Untouched
<1> QED
  BY <1>6, <1>7 DEF pad

(* The copying functions write the string they should, terminated or padded as they
   should, and nothing behind it, for strings of any length. *)
THEOREM StatelessCopiesAgree == Spec => []CopiesAgree
<1>1. CallInv => CopiesAgree
  <2> SUFFICES ASSUME CallInv, Calls("string") PROVE CopiesAgree
    BY DEF CopiesAgree
  <2> DEFINE s == call.s
             r == call.r
             n == call.n
             D == 2 * MaxLen + MaxCount
             one == strcpy(Blank, s)
             two == strcat(one, r)
             pad == strncpy(Blank, s, n)
             cut == strncat(one, r, n)
             kept == Prefix(r, n)
  <2>1. /\ s \in Seq(Character) /\ r \in Seq(Character) /\ n \in Nat
        /\ Len(s) <= MaxLen /\ Len(r) <= MaxLen /\ n <= MaxCount
    BY StringCall
  <2>2. MaxLen \in Nat /\ MaxCount \in Nat
    BY StatelessAssumption
  <2> HIDE DEF s, r, n
  <2>3. /\ D \in Nat /\ Blank = [k \in 0..D |-> Old]
        /\ Len(s) <= D /\ n <= D /\ Len(s) + Len(r) <= D
    BY <2>1, <2>2 DEF Blank
  <2> HIDE DEF D
  <2>4. Holds(one, D, s)
    BY <2>1, <2>3, strcpyHolds
  <2>5. Bytes(pad, n) = [k \in 1..n |-> Char(s, k - 1)] /\ Untouched(pad, n)
    BY <2>1, <2>3, strncpyIs
  <2> HIDE DEF one, pad
  <2>6. EndIn(one) = Len(s)
    BY <2>1, <2>3, <2>4, EndInIs
  <2>7. Holds(two, D, s \o r)
    <3>1. two = [Stored(one, Len(s), r, Len(r)) EXCEPT ![Len(s) + Len(r)] = 0]
      BY <2>1, <2>6, strlenIs DEF strcat
    <3>2. Holds([Stored(one, Len(s), r, Len(r)) EXCEPT ![Len(s) + Len(r)] = 0], D, s \o r)
      BY <2>1, <2>3, <2>4, Concatenates
    <3> QED
      BY <3>1, <3>2
  <2>8. /\ kept \in Seq(Character) /\ Len(kept) = StopAt(r, n) /\ Len(kept) <= Len(r)
        /\ \A j \in 0..(Len(kept) - 1) : Char(kept, j) = Char(r, j)
    <3>1. /\ kept \in Seq(Character) /\ Len(kept) = IF n <= Len(r) THEN n ELSE Len(r)
          /\ \A j \in Nat : Char(kept, j) = IF j < n THEN Char(r, j) ELSE 0
      BY <2>1, PrefixIs
    <3>2. StopAt(r, n) = IF n <= Len(r) THEN n ELSE Len(r)
      BY <2>1, StopAtIs
    <3> HIDE DEF kept
    <3>3. Len(r) \in Nat /\ Len(kept) <= n /\ Len(kept) <= Len(r) /\ Len(kept) \in Nat
      BY <2>1, <3>1
    <3>4. ASSUME NEW j \in 0..(Len(kept) - 1) PROVE j \in Nat /\ j < n
      BY <2>1, <3>3
    <3> QED
      BY <3>1, <3>2, <3>3, <3>4
  <2> HIDE DEF kept
  <2>9. Holds(cut, D, s \o kept)
    <3>1. cut = [Stored(one, Len(s), r, Len(kept)) EXCEPT ![Len(s) + Len(kept)] = 0]
      BY <2>6, <2>8 DEF strncat
    <3>2. Len(s) + Len(kept) <= D
      BY <2>1, <2>3, <2>8
    <3>3. Holds([Stored(one, Len(s), r, Len(kept)) EXCEPT ![Len(s) + Len(kept)] = 0],
                D, s \o kept)
      BY <2>1, <2>3, <2>4, <2>8, <3>2, Concatenates
    <3> QED
      BY <3>1, <3>3
  <2> HIDE DEF two, cut
  <2>10. Bytes(one, Len(s) + 1) = Append(s, 0) /\ Untouched(one, Len(s) + 1)
    BY <2>1, <2>3, <2>4, HoldsIs
  <2>11. /\ Bytes(two, Len(s) + Len(r) + 1) = Append(s \o r, 0)
         /\ Untouched(two, Len(s) + Len(r) + 1)
    <3>1. s \o r \in Seq(Character) /\ Len(s \o r) = Len(s) + Len(r)
      BY <2>1
    <3>2. /\ Bytes(two, Len(s \o r) + 1) = Append(s \o r, 0)
          /\ Untouched(two, Len(s \o r) + 1)
      BY <2>3, <2>7, <3>1, HoldsIs
    <3> QED
      BY <3>1, <3>2
  <2>12. /\ Bytes(cut, Len(s) + Len(kept) + 1) = Append(s \o kept, 0)
         /\ Untouched(cut, Len(s) + Len(kept) + 1)
    <3>1. s \o kept \in Seq(Character) /\ Len(s \o kept) = Len(s) + Len(kept)
      BY <2>1, <2>8
    <3>2. /\ Bytes(cut, Len(s \o kept) + 1) = Append(s \o kept, 0)
          /\ Untouched(cut, Len(s \o kept) + 1)
      BY <2>3, <2>9, <3>1, HoldsIs
    <3> QED
      BY <3>1, <3>2
  <2> QED
    BY <2>5, <2>10, <2>11, <2>12, Zenon DEF CopiesAgree, one, two, pad, cut, kept, s, r, n
<1> QED
  BY <1>1, CallAlways, PTL

-----------------------------------------------------------------------------
(* Induction up to N, with the set of the numbers for which the claim holds. *)
LEMMA UpTo ==
  ASSUME NEW N \in Nat, NEW S, 0 \in S, \A i \in 1..N : i - 1 \in S => i \in S
  PROVE  \A i \in 0..N : i \in S
<1> DEFINE bad == {i \in 0..N : i \notin S}
<1>1. SUFFICES ASSUME bad # {} PROVE FALSE
  OBVIOUS
<1>2. bad \subseteq Nat
  OBVIOUS
<1>3. PICK b \in bad : \A k \in bad : b <= k
  BY <1>1, <1>2, LeastElement
<1>4. b \in 1..N /\ b \notin S /\ b - 1 \in 0..N /\ ~(b <= b - 1)
  BY <1>3
<1>5. b - 1 \in S
  BY <1>3, <1>4
<1> QED
  BY <1>4, <1>5

(* f starts with a and goes up to n by steps of g, in X. *)
Upward(f, n, X, a, g) ==
  /\ f \in [0..n -> X]
  /\ f[0] = a
  /\ \A i \in 1..n : f[i] = g[<<f[i - 1], i>>]

(* A recursion that goes up from 0 defines a function. *)
LEMMA UpwardExists ==
  ASSUME NEW N \in Nat, NEW X, NEW a \in X, NEW g \in [X \X (1..N) -> X]
  PROVE  \E f : Upward(f, N, X, a, g)
<1> DEFINE S == {n \in 0..N : \E f : Upward(f, n, X, a, g)}
<1>1. 0 \in S
  <2> DEFINE z == [i \in 0..0 |-> a]
  <2>1. Upward(z, 0, X, a, g)
    BY DEF Upward
  <2> HIDE DEF z
  <2>2. \E f : Upward(f, 0, X, a, g)
    BY <2>1, Zenon
  <2>3. 0 \in 0..N
    OBVIOUS
  <2> QED
    BY <2>2, <2>3, Zenon
<1>2. ASSUME NEW n \in 1..N, n - 1 \in S PROVE n \in S
  <2>1. PICK f : Upward(f, n - 1, X, a, g)
    BY <1>2
  <2>2. /\ f \in [0..(n - 1) -> X] /\ f[0] = a
        /\ \A i \in 1..(n - 1) : f[i] = g[<<f[i - 1], i>>]
    BY <2>1 DEF Upward
  <2> DEFINE last == g[<<f[n - 1], n>>]
             h == [i \in 0..n |-> IF i = n THEN last ELSE f[i]]
  <2>3. last \in X
    <3>1. f[n - 1] \in X
      BY <2>2
    <3> QED
      BY <3>1
  <2>4. h[n] = last
    OBVIOUS
  <2>5. \A i \in 0..n : i # n => i \in 0..(n - 1) /\ h[i] = f[i]
    OBVIOUS
  <2>6. h \in [0..n -> X]
    BY <2>2, <2>3, <2>5
  <2> HIDE DEF h
  <2>7. h[0] = a
    BY <2>2, <2>5
  <2>8. ASSUME NEW i \in 1..n PROVE h[i] = g[<<h[i - 1], i>>]
    <3>1. i - 1 \in 0..n /\ i - 1 # n /\ i \in 0..n
      OBVIOUS
    <3>2. h[i - 1] = f[i - 1]
      BY <2>5, <3>1
    <3>3. CASE i = n
      BY <2>4, <3>2, <3>3
    <3>4. CASE i # n
      <4>1. i \in 1..(n - 1) /\ h[i] = f[i]
        BY <2>5, <3>1, <3>4
      <4> QED
        BY <2>2, <3>2, <4>1
    <3> QED
      BY <3>3, <3>4
  <2>9. Upward(h, n, X, a, g)
    BY <2>6, <2>7, <2>8, Zenon DEF Upward
  <2>10. \E e : Upward(e, n, X, a, g)
    BY <2>9, Zenon
  <2>11. n \in 0..N
    OBVIOUS
  <2> QED
    BY <2>10, <2>11, Zenon
<1> HIDE DEF S
<1>3. N \in S
  BY <1>1, <1>2, UpTo
<1> QED
  BY <1>3, Zenon DEF S

LEMMA PowersAre ==
  ASSUME NEW base \in Nat, NEW n \in Nat
  PROVE  /\ Powers(base, n) \in [0..n -> Nat]
         /\ Powers(base, n)[0] = 1
         /\ \A k \in 1..n : Powers(base, n)[k] = base * Powers(base, n)[k - 1]
<1> DEFINE Is(f) == f = [k \in 0..n |-> IF k = 0 THEN 1 ELSE base * f[k - 1]]
           g == [p \in Nat \X (1..n) |-> base * p[1]]
<1>1. g \in [Nat \X (1..n) -> Nat]
  OBVIOUS
<1>2. \A x \in Nat, i \in 1..n : g[<<x, i>>] = base * x
  OBVIOUS
<1> HIDE DEF g
<1>3. PICK f : f \in [0..n -> Nat] /\ f[0] = 1 /\ \A i \in 1..n : f[i] = g[<<f[i - 1], i>>]
  <2>1. 1 \in Nat
    OBVIOUS
  <2>2. \E f : Upward(f, n, Nat, 1, g)
    BY <1>1, <2>1, UpwardExists, Zenon
  <2> QED
    BY <2>2, Zenon DEF Upward
<1>4. ASSUME NEW i \in 1..n PROVE f[i] = base * f[i - 1]
  <2>1. i - 1 \in 0..n
    OBVIOUS
  <2>2. f[i - 1] \in Nat
    BY <1>3, <2>1
  <2> QED
    BY <1>2, <1>3, <2>2
<1>5. Is(f)
  <2>1. ASSUME NEW k \in 0..n PROVE f[k] = IF k = 0 THEN 1 ELSE base * f[k - 1]
    BY <1>3, <1>4
  <2> QED
    BY <1>3, <2>1
<1>6. Powers(base, n) = CHOOSE w : Is(w)
  BY DEF Powers
<1>7. Is(Powers(base, n))
  BY <1>5, <1>6, Zenon
<1> DEFINE w == Powers(base, n)
<1>8. w = [k \in 0..n |-> IF k = 0 THEN 1 ELSE base * w[k - 1]]
  BY <1>7
<1> HIDE DEF w
<1>9. w[0] = 1 /\ \A k \in 1..n : w[k] = base * w[k - 1]
  BY <1>8
<1>10. \A k \in 0..n : w[k] \in Nat
  <2> DEFINE S == {k \in 0..n : w[k] \in Nat}
  <2>1. 0 \in S
    BY <1>9
  <2>2. ASSUME NEW k \in 1..n, k - 1 \in S PROVE k \in S
    BY <1>9, <2>2
  <2> HIDE DEF S
  <2>3. \A k \in 0..n : k \in S
    BY <2>1, <2>2, UpTo
  <2> QED
    BY <2>3 DEF S
<1>11. w \in [0..n -> Nat]
  BY <1>8, <1>10
<1> QED
  BY <1>9, <1>11 DEF w

LEMMA PowersPositive ==
  ASSUME NEW base \in Nat \ {0}, NEW n \in Nat
  PROVE  \A k \in 0..n : Powers(base, n)[k] >= 1
<1> DEFINE w == Powers(base, n)
           S == {k \in 0..n : w[k] >= 1}
<1>1. w \in [0..n -> Nat] /\ w[0] = 1 /\ \A k \in 1..n : w[k] = base * w[k - 1]
  BY PowersAre
<1> HIDE DEF w
<1>2. 0 \in S
  BY <1>1
<1>3. ASSUME NEW k \in 1..n, k - 1 \in S PROVE k \in S
  <2>1. w[k - 1] \in Nat /\ w[k - 1] >= 1 /\ w[k] = base * w[k - 1]
    BY <1>1, <1>3
  <2>2. \A x \in Nat : x >= 1 => base * x >= 1
    OBVIOUS
  <2> QED
    BY <2>1, <2>2
<1> HIDE DEF S
<1>4. \A k \in 0..n : k \in S
  BY <1>2, <1>3, UpTo
<1> QED
  BY <1>4 DEF S, w

(* The sums of the digits by their weight, one digit after the other. *)
LEMMA SumIs ==
  ASSUME NEW t \in Seq(Character), NEW base \in Nat
  PROVE  \E f : /\ f \in [0..Len(t) -> Int]
                /\ f[0] = 0
                /\ \A i \in 1..Len(t) :
                     f[i] = f[i - 1] + (t[i] - 48) * Powers(base, Len(t))[Len(t) - i]
                /\ DigitSum(t, base) = f[Len(t)]
<1> DEFINE L == Len(t)
           term(i) == (t[i] - 48) * Powers(base, L)[L - i]
           g == [p \in Int \X (1..L) |-> p[1] + term(p[2])]
           Is(f) == f = [k \in 0..Len(t) |-> IF k = 0 THEN 0 ELSE f[k - 1] + term(k)]
<1>1. L \in Nat /\ \A i \in 1..L : term(i) \in Int
  <2>1. L \in Nat
    OBVIOUS
  <2>2. ASSUME NEW i \in 1..L PROVE term(i) \in Int
    <3>1. t[i] \in Nat /\ L - i \in 0..L
      BY <2>1 DEF Character
    <3>2. Powers(base, L)[L - i] \in Nat
      BY <2>1, <3>1, PowersAre
    <3> QED
      BY <3>1, <3>2
  <2> QED
    BY <2>1, <2>2
<1>2. DigitSum(t, base) = (CHOOSE f : Is(f))[L]
  BY Zenon DEF DigitSum
<1> HIDE DEF L, term
<1>3. g \in [Int \X (1..L) -> Int]
  BY <1>1
<1>4. \A x \in Int, i \in 1..L : g[<<x, i>>] = x + term(i)
  OBVIOUS
<1> HIDE DEF g
<1>5. PICK f : f \in [0..L -> Int] /\ f[0] = 0 /\ \A i \in 1..L : f[i] = g[<<f[i - 1], i>>]
  <2>1. 0 \in Int
    OBVIOUS
  <2>2. \E f : Upward(f, L, Int, 0, g)
    BY <1>1, <1>3, <2>1, UpwardExists, Zenon
  <2> QED
    BY <2>2, Zenon DEF Upward
<1>6. ASSUME NEW i \in 1..L PROVE f[i] = f[i - 1] + term(i)
  <2>1. i - 1 \in 0..L
    BY <1>1
  <2>2. f[i - 1] \in Int
    BY <1>5, <2>1
  <2> QED
    BY <1>4, <1>5, <2>2
<1>7. Is(f)
  <2>1. ASSUME NEW k \in 0..L PROVE f[k] = IF k = 0 THEN 0 ELSE f[k - 1] + term(k)
    BY <1>1, <1>5, <1>6
  <2> QED
    BY <1>5, <2>1 DEF L
<1> DEFINE w == CHOOSE e : Is(e)
<1>8. Is(w)
  BY <1>7, Zenon
<1> HIDE DEF w
<1>9. w = [k \in 0..L |-> IF k = 0 THEN 0 ELSE w[k - 1] + term(k)]
  BY <1>8 DEF L
<1>10. w[0] = 0 /\ \A k \in 1..L : w[k] = w[k - 1] + term(k)
  BY <1>1, <1>9
<1>11. \A k \in 0..L : w[k] \in Int
  <2> DEFINE S == {k \in 0..L : w[k] \in Int}
  <2>1. 0 \in S
    BY <1>1, <1>10
  <2>2. ASSUME NEW k \in 1..L, k - 1 \in S PROVE k \in S
    BY <1>1, <1>10, <2>2
  <2> HIDE DEF S
  <2>3. \A k \in 0..L : k \in S
    BY <1>1, <2>1, <2>2, UpTo
  <2> QED
    BY <2>3 DEF S
<1>12. w \in [0..L -> Int]
  BY <1>9, <1>11
<1>13. DigitSum(t, base) = w[L]
  BY <1>2 DEF w
<1> QED
  BY <1>10, <1>12, <1>13, Zenon DEF L, term

(* One more character of an unsigned parse. *)
Accumulate(max, radix, x, ch) ==
  IF x = Error \/ Digit(ch, radix) = Error THEN Error
  ELSE IF x * radix + Digit(ch, radix) > max THEN Error
  ELSE x * radix + Digit(ch, radix)

LEMMA AccumulateIs ==
  ASSUME NEW max \in Int, NEW radix \in Nat, NEW ch \in Nat
  PROVE  /\ Accumulate(max, radix, Error, ch) = Error
         /\ \A x \in Nat : ~(48 <= ch /\ ch < 48 + radix) =>
              Accumulate(max, radix, x, ch) = Error
         /\ \A x \in Nat : 48 <= ch /\ ch < 48 + radix =>
              Accumulate(max, radix, x, ch) =
                IF x * radix + (ch - 48) > max THEN Error ELSE x * radix + (ch - 48)
<1>1. Error \notin Int
  BY NumbersAssumption
<1>2. Accumulate(max, radix, Error, ch) = Error
  BY Zenon DEF Accumulate
<1> DEFINE digit == ch - 48 \in 0..(radix - 1)
<1>3. digit <=> 48 <= ch /\ ch < 48 + radix
  OBVIOUS
<1>4. Digit(ch, radix) = IF digit THEN ch - 48 ELSE Error
  BY Zenon DEF Digit
<1>5. ch - 48 \in Int
  OBVIOUS
<1> HIDE DEF digit
<1>6. ~(48 <= ch /\ ch < 48 + radix) => Digit(ch, radix) = Error
  BY <1>3, <1>4, Zenon
<1>7. 48 <= ch /\ ch < 48 + radix => Digit(ch, radix) = ch - 48 /\ ch - 48 \in Int
  BY <1>3, <1>4, <1>5, Zenon
<1>8. ASSUME NEW x \in Nat, ~(48 <= ch /\ ch < 48 + radix)
      PROVE  Accumulate(max, radix, x, ch) = Error
  BY <1>6, <1>8, Zenon DEF Accumulate
<1>9. ASSUME NEW x \in Nat, 48 <= ch /\ ch < 48 + radix
      PROVE  Accumulate(max, radix, x, ch) =
               IF x * radix + (ch - 48) > max THEN Error ELSE x * radix + (ch - 48)
  <2>1. x # Error /\ ch - 48 # Error /\ Digit(ch, radix) = ch - 48
    BY <1>1, <1>7, <1>9
  <2> QED
    BY <2>1, Zenon DEF Accumulate
<1> QED
  BY <1>2, <1>8, <1>9, Zenon

(* The values an unsigned parse goes through. *)
LEMMA ParseLoopIs ==
  ASSUME NEW t \in Seq(Character), NEW radix \in Nat, NEW max \in Int
  PROVE  \E f : /\ f \in [0..Len(t) -> Nat \cup {Error}]
                /\ f[0] = 0
                /\ \A i \in 1..Len(t) : f[i] = Accumulate(max, radix, f[i - 1], t[i])
                /\ parseUnsigned(max, t, radix) = f[Len(t)]
<1> DEFINE L == Len(t)
           X == Nat \cup {Error}
           step(x, i) == Accumulate(max, radix, x, t[i])
           g == [p \in X \X (1..L) |-> step(p[1], p[2])]
           Is(f) == f = [i \in 0..Len(t) |-> IF i = 0 THEN 0 ELSE step(f[i - 1], i)]
<1>1. L \in Nat /\ 0 \in X
  OBVIOUS
<1>2. ASSUME NEW x \in X, NEW i \in 1..L PROVE step(x, i) \in X
  <2>1. t[i] \in Nat
    BY DEF Character
  <2>2. CASE x = Error
    <3>1. step(x, i) = Error
      BY <2>1, <2>2, AccumulateIs
    <3> QED
      BY <3>1, Zenon
  <2>3. CASE x \in Nat
    <3>1. CASE 48 <= t[i] /\ t[i] < 48 + radix
      <4> DEFINE v == x * radix + (t[i] - 48)
      <4>1. v \in Nat
        BY <2>1, <2>3, <3>1
      <4>2. step(x, i) = IF v > max THEN Error ELSE v
        BY <2>1, <2>3, <3>1, AccumulateIs
      <4> QED
        BY <4>1, <4>2, Zenon
    <3>2. CASE ~(48 <= t[i] /\ t[i] < 48 + radix)
      <4>1. step(x, i) = Error
        BY <2>1, <2>3, <3>2, AccumulateIs
      <4> QED
        BY <4>1, Zenon
    <3> QED
      BY <3>1, <3>2
  <2> QED
    BY <2>2, <2>3
<1>3. parseUnsigned(max, t, radix) = (CHOOSE f : Is(f))[L]
  BY Zenon DEF parseUnsigned, Accumulate
<1> HIDE DEF L, X, step
<1>4. g \in [X \X (1..L) -> X]
  BY <1>2
<1>5. \A x \in X, i \in 1..L : g[<<x, i>>] = step(x, i)
  OBVIOUS
<1> HIDE DEF g
<1>6. PICK f : f \in [0..L -> X] /\ f[0] = 0 /\ \A i \in 1..L : f[i] = g[<<f[i - 1], i>>]
  <2>1. \E f : Upward(f, L, X, 0, g)
    BY <1>1, <1>4, UpwardExists, Zenon
  <2> QED
    BY <2>1, Zenon DEF Upward
<1>7. ASSUME NEW i \in 1..L PROVE f[i] = step(f[i - 1], i)
  <2>1. i - 1 \in 0..L
    BY <1>1
  <2>2. f[i - 1] \in X
    BY <1>6, <2>1, Zenon
  <2> QED
    BY <1>5, <1>6, <2>2, Zenon
<1>8. Is(f)
  <2>1. ASSUME NEW k \in 0..L PROVE f[k] = IF k = 0 THEN 0 ELSE step(f[k - 1], k)
    <3>1. k # 0 => k \in 1..L
      BY <1>1
    <3> QED
      BY <1>6, <1>7, <3>1, Zenon
  <2> QED
    BY <1>6, <2>1 DEF L
<1> DEFINE w == CHOOSE e : Is(e)
<1>9. Is(w)
  BY <1>8, Zenon
<1> HIDE DEF w
<1>10. w = [k \in 0..L |-> IF k = 0 THEN 0 ELSE step(w[k - 1], k)]
  BY <1>9 DEF L
<1>11. w[0] = 0 /\ \A k \in 1..L : w[k] = step(w[k - 1], k)
  BY <1>1, <1>10
<1>12. \A k \in 0..L : w[k] \in X
  <2> DEFINE S == {k \in 0..L : w[k] \in X}
  <2>1. 0 \in S
    BY <1>1, <1>11
  <2>2. ASSUME NEW k \in 1..L, k - 1 \in S PROVE k \in S
    <3>1. k \in 0..L /\ w[k - 1] \in X
      BY <1>1, <2>2
    <3> QED
      BY <1>2, <1>11, <3>1, Zenon
  <2> HIDE DEF S
  <2>3. \A k \in 0..L : k \in S
    BY <1>1, <2>1, <2>2, UpTo
  <2> QED
    BY <2>3 DEF S
<1>13. w \in [0..L -> X]
  BY <1>10, <1>12
<1>14. parseUnsigned(max, t, radix) = w[L]
  BY <1>3 DEF w
<1> QED
  BY <1>11, <1>13, <1>14, Zenon DEF L, X, step

(* Every character of t is a digit. *)
AllDigits(t, radix) == \A k \in 1..Len(t) : 48 <= t[k] /\ t[k] < 48 + radix

(* A numeral with a character that is no digit does not parse. *)
LEMMA ParseFails ==
  ASSUME NEW t \in Seq(Character), NEW radix \in Nat, NEW max \in Int, ~AllDigits(t, radix)
  PROVE  parseUnsigned(max, t, radix) = Error
<1> DEFINE L == Len(t)
           X == Nat \cup {Error}
<1>1. L \in Nat /\ \A i \in 1..L : t[i] \in Nat
  BY DEF Character
<1>2. PICK m \in 1..L : ~(48 <= t[m] /\ t[m] < 48 + radix)
  BY DEF AllDigits
<1>3. PICK f : /\ f \in [0..L -> X]
               /\ \A i \in 1..L : f[i] = Accumulate(max, radix, f[i - 1], t[i])
               /\ parseUnsigned(max, t, radix) = f[L]
  BY ParseLoopIs, Zenon
<1> HIDE DEF L
<1> DEFINE S == {i \in 0..L : i >= m => f[i] = Error}
<1>4. 0 \in S
  BY <1>1
<1>5. ASSUME NEW i \in 1..L, i - 1 \in S PROVE i \in S
  <2>1. i \in 0..L /\ i - 1 \in 0..L
    BY <1>1
  <2>2. f[i] = Accumulate(max, radix, f[i - 1], t[i]) /\ f[i - 1] \in X /\ t[i] \in Nat
    BY <1>1, <1>3, <2>1, Zenon
  <2>3. CASE i = m
    <3>1. f[i] = Error
      <4>1. f[i - 1] = Error \/ f[i - 1] \in Nat
        BY <2>2
      <4> QED
        BY <1>2, <2>2, <2>3, <4>1, AccumulateIs
    <3> QED
      BY <2>1, <3>1
  <2>4. CASE i < m
    BY <1>2, <2>1, <2>4
  <2>5. CASE i > m
    <3>1. f[i - 1] = Error
      BY <1>2, <1>5, <2>5
    <3>2. f[i] = Error
      BY <2>2, <3>1, AccumulateIs
    <3> QED
      BY <2>1, <3>2
  <2> QED
    BY <1>2, <2>3, <2>4, <2>5
<1> HIDE DEF S
<1>6. \A i \in 0..L : i \in S
  BY <1>1, <1>4, <1>5, UpTo
<1>7. f[L] = Error
  <2>1. L \in S /\ L >= m
    BY <1>1, <1>2, <1>6
  <2> QED
    BY <2>1 DEF S
<1> QED
  BY <1>3, <1>7

LEMMA Distribute ==
  ASSUME NEW x \in Nat, NEW r \in Nat, NEW y \in Nat, NEW d \in Nat
  PROVE  x * (r * y) + d * y = (x * r + d) * y
OBVIOUS

LEMMA ProductGrows ==
  ASSUME NEW v \in Nat, NEW y \in Nat, y >= 1
  PROVE  v * y \in Nat /\ v * y >= v
OBVIOUS

(* Horner's rule with a check against the largest number, after i characters of
   length: the value read so far, by its weight, is the sum of the digits, or the
   sum is too large already. *)
Reads(x, weight, sum, i, max) ==
  \/ x \in Nat /\ x * weight = sum /\ (i > 0 => x <= max)
  \/ x = Error /\ sum > max /\ sum \in Int

LEMMA ReadsOn ==
  ASSUME NEW max \in Int, NEW radix \in Nat, NEW ch \in Nat, 48 <= ch, ch < 48 + radix,
         NEW x, NEW y \in Nat, y >= 1, NEW sum \in Int, NEW i \in Nat \ {0},
         Reads(x, radix * y, sum, i - 1, max)
  PROVE  Reads(Accumulate(max, radix, x, ch), y, sum + (ch - 48) * y, i, max)
<1> DEFINE d == ch - 48
<1>1. d \in Nat
  OBVIOUS
<1>2. Error \notin Int
  BY NumbersAssumption
<1>3. CASE x \in Nat /\ x * (radix * y) = sum
  <2> DEFINE v == x * radix + d
  <2>1. v \in Nat
    BY <1>1, <1>3
  <2>2. sum + d * y = v * y
    BY <1>1, <1>3, Distribute
  <2>3. v * y \in Nat /\ v * y >= v
    BY <2>1, ProductGrows
  <2>4. Accumulate(max, radix, x, ch) = IF v > max THEN Error ELSE v
    BY <1>3, AccumulateIs
  <2> HIDE DEF v, d
  <2>5. CASE v > max
    <3>1. Accumulate(max, radix, x, ch) = Error
      BY <2>4, <2>5, Zenon
    <3>2. sum + d * y \in Int /\ sum + d * y > max
      BY <2>1, <2>2, <2>3, <2>5
    <3> QED
      BY <3>1, <3>2, Zenon DEF Reads, d
  <2>6. CASE ~(v > max)
    <3>1. Accumulate(max, radix, x, ch) = v
      BY <2>4, <2>6, Zenon
    <3>2. v <= max
      BY <2>1, <2>6
    <3>3. v * y = sum + d * y
      BY <2>2
    <3> QED
      BY <2>1, <3>1, <3>2, <3>3, Zenon DEF Reads, d
  <2> QED
    BY <2>5, <2>6, Zenon
<1>4. CASE x = Error /\ sum > max
  <2>1. Accumulate(max, radix, x, ch) = Error
    BY <1>4, AccumulateIs
  <2>2. d * y \in Nat
    BY <1>1
  <2>3. sum + d * y \in Int /\ sum + d * y > max
    BY <1>4, <2>2
  <2> QED
    BY <2>1, <2>3, Zenon DEF Reads
<1> QED
  BY <1>3, <1>4 DEF Reads

(* A numeral parses to the sum of its digits if that is not too large. *)
LEMMA ParseSums ==
  ASSUME NEW t \in Seq(Character), NEW radix \in Nat, NEW max \in Int, AllDigits(t, radix)
  PROVE  /\ DigitSum(t, radix) \in Int
         /\ \/ parseUnsigned(max, t, radix) = Error /\ DigitSum(t, radix) > max
            \/ /\ parseUnsigned(max, t, radix) = DigitSum(t, radix)
               /\ DigitSum(t, radix) <= max \/ DigitSum(t, radix) = 0
<1> DEFINE L == Len(t)
           w == Powers(radix, L)
<1>1. L \in Nat /\ \A i \in 1..L : t[i] \in Nat /\ 48 <= t[i] /\ t[i] < 48 + radix
  BY DEF Character, AllDigits
<1>2. PICK f : /\ f[0] = 0
               /\ \A i \in 1..L : f[i] = Accumulate(max, radix, f[i - 1], t[i])
               /\ parseUnsigned(max, t, radix) = f[L]
  BY ParseLoopIs, Zenon
<1>3. PICK sum : /\ sum \in [0..L -> Int]
                 /\ sum[0] = 0
                 /\ \A i \in 1..L : sum[i] = sum[i - 1] + (t[i] - 48) * w[L - i]
                 /\ DigitSum(t, radix) = sum[L]
  BY SumIs, Zenon
<1> HIDE DEF L, w
<1>4. CASE L = 0
  <2>1. parseUnsigned(max, t, radix) = 0 /\ DigitSum(t, radix) = 0
    BY <1>2, <1>3, <1>4
  <2> QED
    BY <2>1
<1>5. CASE L # 0
  <2>1. radix \in Nat \ {0}
    <3>1. 1 \in 1..L
      BY <1>1, <1>5
    <3> QED
      BY <1>1, <3>1
  <2>2. /\ w \in [0..L -> Nat] /\ w[0] = 1
        /\ \A k \in 1..L : w[k] = radix * w[k - 1]
        /\ \A k \in 0..L : w[k] >= 1
    BY <1>1, <2>1, PowersAre, PowersPositive DEF w
  <2> DEFINE S == {i \in 0..L : Reads(f[i], w[L - i], sum[i], i, max)}
  <2>3. 0 \in S
    <3>1. 0 \in 0..L /\ L - 0 = L /\ L \in 0..L
      BY <1>1
    <3>2. w[L] \in Nat
      BY <2>2, <3>1
    <3>3. Reads(f[0], w[L], sum[0], 0, max)
      BY <1>2, <1>3, <3>2 DEF Reads
    <3> QED
      BY <3>1, <3>3
  <2>4. ASSUME NEW i \in 1..L, i - 1 \in S PROVE i \in S
    <3>1. /\ i \in 0..L /\ i \in Nat \ {0} /\ L - i \in 0..L /\ L - (i - 1) \in 1..L
          /\ L - (i - 1) - 1 = L - i /\ i - 1 \in 0..L
      BY <1>1
    <3>2. w[L - (i - 1)] = radix * w[L - i] /\ w[L - i] \in Nat /\ w[L - i] >= 1
      BY <2>2, <3>1
    <3>3. Reads(f[i - 1], radix * w[L - i], sum[i - 1], i - 1, max)
      BY <2>4, <3>2
    <3>4. sum[i - 1] \in Int /\ t[i] \in Nat /\ 48 <= t[i] /\ t[i] < 48 + radix
      BY <1>1, <1>3, <3>1
    <3>5. Reads(Accumulate(max, radix, f[i - 1], t[i]), w[L - i],
                sum[i - 1] + (t[i] - 48) * w[L - i], i, max)
      BY <3>1, <3>2, <3>3, <3>4, ReadsOn
    <3>6. Reads(f[i], w[L - i], sum[i], i, max)
      BY <1>2, <1>3, <3>5
    <3> QED
      BY <3>1, <3>6
  <2> HIDE DEF S
  <2>5. \A i \in 0..L : i \in S
    BY <1>1, <2>3, <2>4, UpTo
  <2>6. Reads(f[L], 1, sum[L], L, max)
    <3>1. L \in 0..L /\ L - L = 0
      BY <1>1
    <3> QED
      BY <2>2, <2>5, <3>1 DEF S
  <2>7. sum[L] \in Int
    BY <1>1, <1>3
  <2> QED
    BY <1>1, <1>2, <1>3, <1>5, <2>6, <2>7 DEF Reads
<1> QED
  BY <1>4, <1>5

LEMMA NumeralIs ==
  ASSUME NEW s \in Seq(Character), NEW base \in Nat
  PROVE  /\ Body(s) \in Seq(Character)
         /\ IsNumeral(s, base) <=> AllDigits(Body(s), base)
<1>1. Body(s) \in Seq(Character)
  <2>1. s # <<>> => Tail(s) \in Seq(Character)
    OBVIOUS
  <2> QED
    BY <2>1, Zenon DEF Body
<1> DEFINE t == Body(s)
<1>2. t \in Seq(Character)
  BY <1>1
<1>3. IsNumeral(s, base) <=> \A k \in DOMAIN t : t[k] - 48 \in 0..(base - 1)
  BY DEF IsNumeral
<1> HIDE DEF t
<1>4. DOMAIN t = 1..Len(t) /\ \A k \in 1..Len(t) : t[k] \in Nat
  BY <1>2 DEF Character
<1>5. \A k \in 1..Len(t) : t[k] - 48 \in 0..(base - 1) <=> 48 <= t[k] /\ t[k] < 48 + base
  BY <1>4
<1>6. IsNumeral(s, base) <=> AllDigits(t, base)
  BY <1>3, <1>4, <1>5, Zenon DEF AllDigits
<1> QED
  BY <1>1, <1>6 DEF t

(* What an unsigned parse returns. *)
LEMMA UnsignedIs ==
  ASSUME NEW t \in Seq(Character), NEW radix \in Nat, NEW max \in Int
  PROVE  LET fits == AllDigits(t, radix) /\ DigitSum(t, radix) <= max
             value == parseUnsigned(max, t, radix)
         IN  /\ OrZero(value) = IF fits THEN DigitSum(t, radix) ELSE 0
             /\ OrZero(IF value = Error THEN Error ELSE -value) =
                  IF fits THEN -DigitSum(t, radix) ELSE 0
<1> DEFINE value == parseUnsigned(max, t, radix)
           sum == DigitSum(t, radix)
<1>1. Error \notin Int
  BY NumbersAssumption
<1>2. CASE AllDigits(t, radix)
  <2>1. /\ sum \in Int
        /\ \/ value = Error /\ sum > max
           \/ value = sum /\ (sum <= max \/ sum = 0)
    BY <1>2, ParseSums
  <2> HIDE DEF value, sum
  <2>2. CASE value = Error /\ sum > max
    <3>1. ~(sum <= max)
      BY <2>1, <2>2
    <3> QED
      BY <2>2, <3>1, Zenon DEF OrZero, value, sum
  <2>3. CASE value = sum /\ sum <= max
    <3>1. value # Error /\ -value # Error /\ -value = -sum
      BY <1>1, <2>1, <2>3
    <3> QED
      BY <1>2, <2>3, <3>1, Zenon DEF OrZero, value, sum
  <2>4. CASE value = sum /\ sum = 0
    <3>1. 0 # Error
      BY <1>1
    <3>2. -sum = 0
      <4>1. \A x \in Int : x <= 0 /\ x >= 0 => -x = 0
        OBVIOUS
      <4>2. sum <= 0 /\ sum >= 0
        BY <2>1, <2>4
      <4> QED
        BY <2>1, <4>1, <4>2, Zenon
    <3>3. value = 0 /\ -value = 0 /\ -sum = 0
      BY <2>4, <3>2, Zenon
    <3> QED
      BY <2>4, <3>1, <3>3, Zenon DEF OrZero, value, sum
  <2> QED
    BY <2>1, <2>2, <2>3, <2>4, Zenon
<1>3. CASE ~AllDigits(t, radix)
  <2>1. value = Error
    BY <1>3, ParseFails
  <2> QED
    BY <1>3, <2>1, Zenon DEF OrZero
<1> QED
  BY <1>2, <1>3, Zenon

LEMMA EmptySum ==
  ASSUME NEW base \in Nat
  PROVE  DigitSum(<<>>, base) = 0
<1> DEFINE t == <<>>
<1>1. t \in Seq(Character) /\ Len(t) = 0
  OBVIOUS
<1> HIDE DEF t
<1>2. PICK f : /\ f \in [0..Len(t) -> Int]
               /\ f[0] = 0
               /\ \A i \in 1..Len(t) :
                    f[i] = f[i - 1] + (t[i] - 48) * Powers(base, Len(t))[Len(t) - i]
               /\ DigitSum(t, base) = f[Len(t)]
  BY <1>1, SumIs, Zenon
<1> QED
  BY <1>1, <1>2 DEF t

(* What a signed parse returns. *)
LEMMA SignedIs ==
  ASSUME NEW s \in Seq(Character), NEW base \in Nat, NEW bits \in Nat, SignedMax(bits) \in Int
  PROVE  OrZero(parseInt(bits, s, base)) = ParsesTo(bits, s, base)
<1> DEFINE max == SignedMax(bits)
<1>1. Body(s) \in Seq(Character) /\ (IsNumeral(s, base) <=> AllDigits(Body(s), base))
  BY NumeralIs
<1>2. Error \notin Int /\ Plus # Minus
  BY NumbersAssumption DEF Plus, Minus
<1>3. CASE s = <<>>
  <2>1. Body(s) = <<>>
    BY <1>3 DEF Body
  <2>2. Magnitude(s, base) = 0
    BY <2>1, EmptySum DEF Magnitude
  <2>3. Value(s, base) = 0
    BY <1>3, <2>2, Zenon DEF Value
  <2>4. parseInt(bits, s, base) = 0
    BY <1>3, Zenon DEF parseInt
  <2>5. OrZero(0) = 0
    BY <1>2 DEF OrZero
  <2> QED
    BY <2>3, <2>4, <2>5, Zenon DEF ParsesTo
<1>4. CASE s # <<>> /\ s[1] = Minus
  <2> DEFINE rest == parseUnsigned(max, Tail(s), base)
  <2>1. Body(s) = Tail(s)
    BY <1>4, Zenon DEF Body, Signs
  <2>2. parseInt(bits, s, base) = IF rest = Error THEN Error ELSE -rest
    BY <1>4, Zenon DEF parseInt
  <2>3. Value(s, base) = -DigitSum(Tail(s), base) /\ Magnitude(s, base) = DigitSum(Tail(s), base)
    BY <1>4, <2>1, Zenon DEF Value, Magnitude
  <2>4. OrZero(IF rest = Error THEN Error ELSE -rest) =
          IF AllDigits(Tail(s), base) /\ DigitSum(Tail(s), base) <= max
          THEN -DigitSum(Tail(s), base) ELSE 0
    BY <1>1, <2>1, UnsignedIs
  <2> QED
    BY <1>1, <2>1, <2>2, <2>3, <2>4, Zenon DEF ParsesTo
<1>5. CASE s # <<>> /\ s[1] = Plus
  <2>1. Body(s) = Tail(s)
    BY <1>5, Zenon DEF Body, Signs
  <2>2. parseInt(bits, s, base) = parseUnsigned(max, Tail(s), base)
    BY <1>2, <1>5, Zenon DEF parseInt
  <2>3. Value(s, base) = DigitSum(Tail(s), base) /\ Magnitude(s, base) = DigitSum(Tail(s), base)
    BY <1>2, <1>5, <2>1, Zenon DEF Value, Magnitude
  <2>4. OrZero(parseUnsigned(max, Tail(s), base)) =
          IF AllDigits(Tail(s), base) /\ DigitSum(Tail(s), base) <= max
          THEN DigitSum(Tail(s), base) ELSE 0
    BY <1>1, <2>1, UnsignedIs
  <2> QED
    BY <1>1, <2>1, <2>2, <2>3, <2>4, Zenon DEF ParsesTo
<1>6. CASE s # <<>> /\ s[1] # Minus /\ s[1] # Plus
  <2>1. Body(s) = s
    BY <1>6, Zenon DEF Body, Signs
  <2>2. parseInt(bits, s, base) = parseUnsigned(max, s, base)
    BY <1>6, Zenon DEF parseInt
  <2>3. Value(s, base) = DigitSum(s, base) /\ Magnitude(s, base) = DigitSum(s, base)
    BY <1>6, <2>1, Zenon DEF Value, Magnitude
  <2>4. OrZero(parseUnsigned(max, s, base)) =
          IF AllDigits(s, base) /\ DigitSum(s, base) <= max THEN DigitSum(s, base) ELSE 0
    BY UnsignedIs
  <2> QED
    BY <1>1, <2>1, <2>2, <2>3, <2>4, Zenon DEF ParsesTo
<1> QED
  BY <1>3, <1>4, <1>5, <1>6, Zenon

(* strtoul knows no sign: a string with one is no numeral. *)
LEMMA StrtoulIs ==
  ASSUME NEW s \in Seq(Character), NEW base \in Nat, NEW max \in Int
  PROVE  OrZero(parseUnsigned(max, s, base)) =
           IF Body(s) = s /\ IsNumeral(s, base) /\ Magnitude(s, base) <= max
           THEN Magnitude(s, base) ELSE 0
<1>1. IsNumeral(s, base) <=> AllDigits(Body(s), base)
  BY NumeralIs
<1>2. OrZero(parseUnsigned(max, s, base)) =
        IF AllDigits(s, base) /\ DigitSum(s, base) <= max THEN DigitSum(s, base) ELSE 0
  BY UnsignedIs
<1>3. CASE Body(s) = s
  BY <1>1, <1>2, <1>3, Zenon DEF Magnitude
<1>4. CASE Body(s) # s
  <2>1. s # <<>> /\ s[1] \in Signs
    BY <1>4, Zenon DEF Body
  <2>2. 1 \in 1..Len(s) /\ ~(48 <= s[1])
    BY <2>1 DEF Signs, Plus, Minus
  <2>3. ~AllDigits(s, base)
    BY <2>2, Zenon DEF AllDigits
  <2> QED
    BY <1>2, <1>4, <2>3, Zenon
<1> QED
  BY <1>3, <1>4, Zenon

(* For every width of c_int and c_long and every numeral: atoi, atol, strtol and
   strtoul return the exact value of a numeral that fits and 0 for any other
   string. *)
THEOREM StatelessParsesExact == Spec => []ParsesExact
<1>1. CallInv => ParsesExact
  <2> SUFFICES ASSUME CallInv, Calls("numeral") PROVE ParsesExact
    BY DEF ParsesExact
  <2> DEFINE s == call.s
             base == call.base
  <2>1. s \in Seq(Character) /\ base \in Int
    BY DEF CallInv, Calls
  <2>2. /\ IntBits \in Nat /\ SignedMax(IntBits) \in Int
        /\ LongBits \in Nat /\ SignedMax(LongBits) \in Int
        /\ UnsignedMax(LongBits) \in Int /\ 10 \in Nat
    BY NumbersAssumption DEF SignedMax, UnsignedMax
  <2> HIDE DEF s, base
  <2>3. atoi(s) = ParsesTo(IntBits, s, 10)
    BY <2>1, <2>2, SignedIs, Zenon DEF atoi
  <2>4. atol(s) = ParsesTo(LongBits, s, 10) /\ atoll(s) = atol(s)
    BY <2>1, <2>2, SignedIs, Zenon DEF atol, atoll
  <2>5. base \in 0..10 => base \in Nat /\ Radix(base)
    BY DEF Radix
  <2>6. base \in 0..10 => strtol(s, base) = ParsesTo(LongBits, s, base)
    BY <2>1, <2>2, <2>5, SignedIs, Zenon DEF strtol
  <2>7. base \in 0..10 =>
          strtoul(s, base) =
            IF Body(s) = s /\ IsNumeral(s, base)
                 /\ Magnitude(s, base) <= UnsignedMax(LongBits)
            THEN Magnitude(s, base) ELSE 0
    <3>1. base \in Nat =>
            OrZero(parseUnsigned(UnsignedMax(LongBits), s, base)) =
              IF Body(s) = s /\ IsNumeral(s, base)
                   /\ Magnitude(s, base) <= UnsignedMax(LongBits)
              THEN Magnitude(s, base) ELSE 0
      BY <2>1, <2>2, StrtoulIs
    <3> QED
      BY <2>5, <3>1, Zenon DEF strtoul
  <2> QED
    BY <2>3, <2>4, <2>6, <2>7, Zenon DEF ParsesExact, s, base
<1> QED
  BY <1>1, CallAlways, PTL
=============================================================================
