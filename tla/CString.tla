------------------------------ MODULE CString ------------------------------
(***************************************************************************)
(* The searching, comparing and copying functions of src/string.zig, each  *)
(* as the loop the code runs.                                              *)
(*                                                                         *)
(* A C string is the sequence of its characters; its terminator is the 0   *)
(* that Char reads behind the last one.  A pointer into a string is an     *)
(* offset, Null is NULL.                                                   *)
(***************************************************************************)
EXTENDS Integers, Sequences

Null == -1

(* str[i] of a terminated string. *)
Char(str, i) == IF i < Len(str) THEN str[i + 1] ELSE 0

-----------------------------------------------------------------------------
(* The loops.  Each LET function is the rest of the loop from index i on. *)

strlen(str) ==
  LET loop[i \in 0..Len(str)] == IF Char(str, i) # 0 THEN loop[i + 1] ELSE i
  IN  loop[0]

memcmp(lhs, rhs, count) ==
  LET loop[i \in 0..count] ==
        IF i < count
        THEN IF Char(lhs, i) > Char(rhs, i) THEN 1
             ELSE IF Char(lhs, i) < Char(rhs, i) THEN -1
             ELSE loop[i + 1]
        ELSE 0
  IN  loop[0]

memchr(ptr, ch, count) ==
  LET loop[i \in 0..count] ==
        IF i < count THEN IF Char(ptr, i) = ch THEN i ELSE loop[i + 1] ELSE Null
  IN  loop[0]

(* How the comparison ends when a string does. *)
EndOf(lhs, rhs, i) ==
  IF Char(lhs, i) = 0 /\ Char(rhs, i) = 0 THEN 0 ELSE IF Char(rhs, i) = 0 THEN 1 ELSE -1

(* MUTANT: strings of which one is a prefix of the other are equal. *)
strcmpPrefix(lhs, rhs) ==
  LET loop[i \in 0..Len(lhs)] ==
        IF Char(lhs, i) # 0 /\ Char(rhs, i) # 0
        THEN IF Char(lhs, i) > Char(rhs, i) THEN 1
             ELSE IF Char(lhs, i) < Char(rhs, i) THEN -1
             ELSE loop[i + 1]
        ELSE 0
  IN  loop[0]

strcmp(lhs, rhs) ==
  LET loop[i \in 0..Len(lhs)] ==
        IF Char(lhs, i) # 0 /\ Char(rhs, i) # 0
        THEN IF Char(lhs, i) > Char(rhs, i) THEN 1
             ELSE IF Char(lhs, i) < Char(rhs, i) THEN -1
             ELSE loop[i + 1]
        ELSE EndOf(lhs, rhs, i)
  IN  loop[0]

(* The while's else branch returns 0 whenever the loop runs out; the lines below
   it, which would look at who ended first, are never reached. *)
strncmp(lhs, rhs, count) ==
  LET loop[i \in 0..count] ==
        IF Char(lhs, i) # 0 /\ Char(rhs, i) # 0 /\ i < count
        THEN IF Char(lhs, i) > Char(rhs, i) THEN 1
             ELSE IF Char(lhs, i) < Char(rhs, i) THEN -1
             ELSE loop[i + 1]
        ELSE 0
  IN  loop[0]

strchr(str, ch) ==
  LET loop[i \in 0..Len(str)] ==
        IF Char(str, i) # 0
        THEN IF Char(str, i) = ch THEN i ELSE loop[i + 1]
        ELSE IF ch = 0 THEN i ELSE Null
  IN  loop[0]

(* MUTANT: the last place the needle could start at is not tried. *)
strstrShort(haystack, needle) ==
  LET tries == strlen(haystack) - strlen(needle)
      inner(i) == [j \in 1..strlen(needle) |-> Char(haystack, i + j - 1)]
      outer[i \in 0..(Len(haystack) + 1)] ==
        IF i < tries THEN IF inner(i) = needle THEN i ELSE outer[i + 1] ELSE Null
  IN  IF strlen(needle) > strlen(haystack) THEN Null ELSE outer[0]

(* The inner loop at start i runs to the end of the needle: no character differs. *)
MatchesAt(haystack, needle, i) ==
  LET loop[j \in 0..strlen(needle)] ==
        IF j < strlen(needle) /\ Char(haystack, i + j) = Char(needle, j) THEN loop[j + 1] ELSE j
  IN  loop[0] = strlen(needle)

(* Every start up to the last possible one. *)
strstr(haystack, needle) ==
  LET tries == strlen(haystack) - strlen(needle) + 1
      outer[i \in 0..(Len(haystack) + 1)] ==
        IF i < tries THEN IF MatchesAt(haystack, needle, i) THEN i ELSE outer[i + 1] ELSE Null
  IN  IF strlen(needle) > strlen(haystack) THEN Null ELSE outer[0]

strpbrk(dest, breakset) ==
  LET loop[i \in 0..Len(dest)] ==
        IF Char(dest, i) # 0
        THEN IF strchr(breakset, Char(dest, i)) # Null THEN i ELSE loop[i + 1]
        ELSE Null
  IN  loop[0]

strspn(dest, accept) ==
  LET loop[i \in 0..Len(dest)] ==
        IF Char(dest, i) # 0 /\ strchr(accept, Char(dest, i)) # Null THEN loop[i + 1] ELSE i
  IN  loop[0]

strcspn(dest, reject) ==
  LET loop[i \in 0..Len(dest)] ==
        IF Char(dest, i) # 0 /\ strchr(reject, Char(dest, i)) = Null THEN loop[i + 1] ELSE i
  IN  loop[0]

-----------------------------------------------------------------------------
(* Copies.  Old is a byte of the destination that was not written; the result is
   the destination array. *)
Old == -1

(* dest after src[0..m) was stored from offset at on. *)
Stored(dest, at, src, m) ==
  [k \in DOMAIN dest |-> IF k \in at..(at + m - 1) THEN Char(src, k - at) ELSE dest[k]]

(* Index at which a copy loop with a count stops. *)
StopAt(src, count) ==
  LET loop[i \in 0..count] == IF Char(src, i) # 0 /\ i < count THEN loop[i + 1] ELSE i
  IN  loop[0]

strcpy(dest, src) == [Stored(dest, 0, src, strlen(src)) EXCEPT ![strlen(src)] = 0]

(* MUTANT: the rest of the count is not cleared. *)
strncpyUnpadded(dest, src, count) == Stored(dest, 0, src, StopAt(src, count))

strncpy(dest, src, count) ==
  LET m == StopAt(src, count)
  IN  [k \in DOMAIN dest |-> IF k \in m..(count - 1) THEN 0 ELSE Stored(dest, 0, src, m)[k]]

(* Offset of the terminator a string in dest ends with; the string ends in dest. *)
EndIn(dest) ==
  LET loop[i \in DOMAIN dest] ==
        IF dest[i] # 0 /\ i + 1 \in DOMAIN dest THEN loop[i + 1] ELSE i
  IN  loop[0]

strcat(dest, src) ==
  [Stored(dest, EndIn(dest), src, strlen(src)) EXCEPT ![EndIn(dest) + strlen(src)] = 0]

strncat(dest, src, count) ==
  LET m == StopAt(src, count)
  IN  [Stored(dest, EndIn(dest), src, m) EXCEPT ![EndIn(dest) + m] = 0]
=============================================================================
