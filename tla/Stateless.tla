----------------------------- MODULE Stateless -----------------------------
(***************************************************************************)
(* The functions of zligc that keep no state: a program calls one of them, *)
(* with any arguments of a bounded set, and compares what comes back with  *)
(* what the C library promises.                                            *)
(*                                                                         *)
(* CString, Ctype and Numbers hold the functions as the code computes      *)
(* them; this module holds the reference definitions.                      *)
(***************************************************************************)
EXTENDS CString, Ctype, Numbers

CONSTANTS
  Chars,      \* the characters of strings, as unsigned bytes
  MaxLen,     \* the longest string
  MaxCount,   \* the largest count
  Digits10,   \* the characters of numerals
  MaxDigits,  \* the longest numeral
  Bases,      \* bases passed to strtol
  NoCall

ASSUME StatelessAssumption ==
  /\ Chars \subseteq 1..255 /\ MaxLen \in Nat /\ MaxCount \in Nat
  /\ Digits10 \subseteq 1..255 /\ MaxDigits \in Nat /\ Bases \subseteq Int

VARIABLE call   \* the arguments of the call under way

Init == call = NoCall

Strings(chars, max) == UNION {[1..k -> chars] : k \in 0..max}

(* A string or memory function on two strings and a count. *)
CallString(s, r, n) == call = NoCall /\ call' = [of |-> "string", s |-> s, r |-> r, n |-> n]

(* A character function. *)
CallChar(c) == call = NoCall /\ call' = [of |-> "char", c |-> c]

(* A function that reads a numeral. *)
CallNumeral(s, base) == call = NoCall /\ call' = [of |-> "numeral", s |-> s, base |-> base]

(* abs or labs of x, div of x by y. *)
CallInteger(x, y) == call = NoCall /\ call' = [of |-> "integer", x |-> x, y |-> y]

Return == call # NoCall /\ call' = NoCall

Next ==
  \/ \E s, r \in Strings(Chars, MaxLen), n \in 0..MaxCount : CallString(s, r, n)
  \/ \E c \in EOF..255 : CallChar(c)
  \/ \E s \in Strings(Digits10, MaxDigits), base \in Bases : CallNumeral(s, base)
  \/ \E x, y \in Signed(LongBits) : CallInteger(x, y)
  \/ Return

Spec == Init /\ [][Next]_call

Calls(of) == call # NoCall /\ call.of = of

-----------------------------------------------------------------------------
Prefix(str, count) == SubSeq(str, 1, IF count <= Len(str) THEN count ELSE Len(str))

(* The order of two strings, terminator included, by their first difference. *)
Order(a, b) ==
  LET differ == {i \in 0..(Len(a) + Len(b)) : Char(a, i) # Char(b, i)}
  IN  IF differ = {} THEN 0
      ELSE LET i == CHOOSE i \in differ : \A j \in differ : i <= j
           IN  IF Char(a, i) > Char(b, i) THEN 1 ELSE -1

(* strcmp and memcmp order strings by their first difference, a prefix before a
   longer string, whatever the lengths; strncmp does so when no string ends
   before the count, and never orders two strings the wrong way round. *)
ComparesAgree ==
  Calls("string") =>
    LET s == call.s  r == call.r  n == call.n
        within == n <= Len(s) /\ n <= Len(r)
        order == Order(Prefix(s, n), Prefix(r, n))
    IN  /\ strcmp(s, r) = Order(s, r)
        /\ within => memcmp(s, r, n) = order /\ strncmp(s, r, n) = order
        /\ strncmp(s, r, n) \in {0, order}

Least(offsets) ==
  IF offsets = {} THEN Null ELSE CHOOSE i \in offsets : \A j \in offsets : i <= j

Elements(str) == {str[k] : k \in DOMAIN str}

(* strchr, memchr, strstr, strpbrk, strspn and strcspn find the first place there
   is, the ends of the strings included, and NULL only when there is none. *)
SearchesAgree ==
  Calls("string") =>
    LET s == call.s  r == call.r  n == call.n
    IN  /\ \A ch \in Chars \cup {0} :
             strchr(s, ch) = Least({i \in 0..Len(s) : Char(s, i) = ch})
        /\ \A ch \in Chars :
             n <= Len(s) => memchr(s, ch, n) = Least({i \in 0..(n - 1) : Char(s, i) = ch})
        /\ strstr(s, r) =
             Least({i \in 0..(Len(s) - Len(r)) : SubSeq(s, i + 1, i + Len(r)) = r})
        /\ strpbrk(s, r) = Least({i \in 0..(Len(s) - 1) : Char(s, i) \in Elements(r)})
        /\ strspn(s, r) = Least({i \in 0..Len(s) : Char(s, i) \notin Elements(r)})
        /\ strcspn(s, r) = Least({i \in 0..Len(s) : Char(s, i) \in Elements(r) \cup {0}})

(* A destination that is large enough, none of it written. *)
Blank == [k \in 0..(2 * MaxLen + MaxCount) |-> Old]

(* The first bytes of an array. *)
Bytes(dest, count) == [k \in 1..count |-> dest[k - 1]]

(* Nothing from offset at on was written. *)
Untouched(dest, at) == \A k \in DOMAIN dest : k >= at => dest[k] = Old

(* strcpy, strncpy, strcat and strncat write the string they should, terminated or
   padded as they should, and not one byte behind it. *)
CopiesAgree ==
  Calls("string") =>
    LET s == call.s  r == call.r  n == call.n
        one == strcpy(Blank, s)
        two == strcat(one, r)
        pad == strncpy(Blank, s, n)
        cut == strncat(one, r, n)
        kept == Prefix(r, n)
    IN  /\ Bytes(one, Len(s) + 1) = Append(s, 0) /\ Untouched(one, Len(s) + 1)
        /\ Bytes(two, Len(s) + Len(r) + 1) = Append(s \o r, 0)
        /\ Untouched(two, Len(s) + Len(r) + 1)
        /\ Bytes(pad, n) = [k \in 1..n |-> Char(s, k - 1)] /\ Untouched(pad, n)
        /\ Bytes(cut, Len(s) + Len(kept) + 1) = Append(s \o kept, 0)
        /\ Untouched(cut, Len(s) + Len(kept) + 1)

(* strncmp orders the first count characters as strcmp does. *)
StrncmpAgrees ==
  Calls("string") =>
    strncmp(call.s, call.r, call.n) = Order(Prefix(call.s, call.n), Prefix(call.r, call.n))

(* A function with a count looks at no more than count characters. *)
CountRespected ==
  Calls("string") /\ call.n > 0 => StopAt(call.s, call.n) < call.n

-----------------------------------------------------------------------------
(* The classes of the C locale. *)
Digits == 48..57
Upper == 65..90
Lower == 97..122
Printed == 32..126
Members ==
  [isalpha |-> Upper \cup Lower, isdigit |-> Digits, isblank |-> {9, 32},
   isalnum |-> Upper \cup Lower \cup Digits,
   iscntrl |-> (0..127) \ Printed, isgraph |-> Printed \ {32}, islower |-> Lower,
   ispunct |-> Printed \ ({32} \cup Upper \cup Lower \cup Digits),
   isprint |-> Printed, isspace |-> {32} \cup 9..13, isupper |-> Upper,
   isxdigit |-> Digits \cup 65..70 \cup 97..102]

Built == {"isalnum", "ispunct"}

(* Each class function that tests ranges accepts exactly its class of the C
   locale: neither the wrapping subtraction nor the folding of case lets a byte
   of the other half of the range in. *)
RangesExact ==
  Calls("char") /\ call.c >= 0 =>
    \A f \in DOMAIN Members \ Built : Classify(f, call.c) = ToInt(call.c \in Members[f])

(* tolower and toupper move a letter to its other case and leave every other
   byte alone, the bytes above 127 included. *)
CasesExact ==
  Calls("char") /\ call.c >= 0 =>
    /\ Tolower(call.c) = IF call.c \in Upper THEN call.c + 32 ELSE call.c
    /\ Toupper(call.c) = IF call.c \in Lower THEN call.c - 32 ELSE call.c

(* isalnum is isalpha or isdigit, and ispunct the rest of isgraph. *)
AlnumExact ==
  Calls("char") /\ call.c >= 0 =>
    \A f \in Built : Classify(f, call.c) = ToInt(call.c \in Members[f])

(* A class function answers for EOF as well. *)
EofAnswered ==
  Calls("char") => \A f \in DOMAIN Members : Classify(f, call.c) # Panicked

-----------------------------------------------------------------------------
(* Numerals: an optional sign and digits of the base, nothing else. *)
Signs == {Plus, Minus}
Body(s) == IF s # <<>> /\ s[1] \in Signs THEN Tail(s) ELSE s
IsNumeral(s, base) == \A k \in DOMAIN Body(s) : Body(s)[k] - 48 \in 0..(base - 1)

(* The powers of the base up to the n-th. *)
Powers(base, n) == LET power[k \in 0..n] == IF k = 0 THEN 1 ELSE base * power[k - 1] IN power

(* Sum of the digits by their weight. *)
DigitSum(body, base) ==
  LET sum[k \in 0..Len(body)] ==
        IF k = 0 THEN 0
        ELSE sum[k - 1] + (body[k] - 48) * Powers(base, Len(body))[Len(body) - k]
  IN  sum[Len(body)]

Magnitude(s, base) == DigitSum(Body(s), base)

Value(s, base) ==
  IF s # <<>> /\ s[1] = Minus THEN -Magnitude(s, base) ELSE Magnitude(s, base)

(* What a parse into bits must give: the value of a numeral whose magnitude fits,
   0 for one that does not and for anything else. *)
ParsesTo(bits, s, base) ==
  IF IsNumeral(s, base) /\ Magnitude(s, base) <= SignedMax(bits) THEN Value(s, base) ELSE 0

(* atoi, atol, strtol and strtoul return the exact value of a numeral or 0: an
   overflow on the way, by a product or by a sum, never leaves a wrong number, at
   the limits of c_int and c_long too. *)
ParsesExact ==
  Calls("numeral") =>
    LET s == call.s
        base == call.base
    IN  /\ atoi(s) = ParsesTo(IntBits, s, 10)
        /\ atol(s) = ParsesTo(LongBits, s, 10) /\ atoll(s) = atol(s)
        /\ base \in 0..10 => strtol(s, base) = ParsesTo(LongBits, s, base)
        /\ base \in 0..10 =>
             strtoul(s, base) =
               IF Body(s) = s /\ IsNumeral(s, base)
                    /\ Magnitude(s, base) <= UnsignedMax(LongBits)
               THEN Magnitude(s, base) ELSE 0

(* Every number of the type can be read, the least one too. *)
LeastParses ==
  Calls("numeral") =>
    LET s == call.s
    IN  IsNumeral(s, 10) /\ Value(s, 10) \in Signed(IntBits) => atoi(s) = Value(s, 10)

(* A number is read up to the first character that is not a digit. *)
PrefixParses ==
  Calls("numeral") /\ call.s # <<>> /\ call.s[1] \in 49..57 => atoi(call.s) # 0

-----------------------------------------------------------------------------
(* abs never returns a negative number, and panics for the least c_int alone; div
   satisfies quot * y + rem = x with a remainder smaller than y and of the sign of
   x, for every x and every positive y; for the others it panics. *)
IntegersExact ==
  Calls("integer") =>
    LET x == call.x
        y == call.y
    IN  /\ x \in Signed(IntBits) =>
             abs(x) = IF -x > SignedMax(IntBits) THEN Overflow ELSE IF x < 0 THEN -x ELSE x
        /\ y <= 0 => div(x, y) = Overflow
        /\ y > 0 =>
             LET d == div(x, y)
             IN  /\ d.quot * y + d.rem = x
                 /\ -y < d.rem /\ d.rem < y
                 /\ d.rem * x >= 0

(* labs is exact on every long but the least. *)
LabsExact ==
  Calls("integer") /\ -call.x <= SignedMax(LongBits) =>
    labs(call.x) = IF call.x < 0 THEN -call.x ELSE call.x

(* div answers for every divisor but 0. *)
DivAnswers == Calls("integer") /\ call.y # 0 => div(call.x, call.y) # Overflow
=============================================================================
