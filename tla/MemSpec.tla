------------------------------ MODULE MemSpec ------------------------------
(***************************************************************************)
(* What memcpy, memmove and memset promise: a call takes effect in one     *)
(* step that replaces its destination by what its source (or character)    *)
(* was, and touches nothing else.  A call need not return.                 *)
(***************************************************************************)
EXTENDS Integers

CONSTANTS
  UMax,      \* the largest address: usize is 0..UMax
  ByteMax,   \* the largest u8
  Chars,     \* the c_int values memset is called with
  NoRequest  \* no call under way

Space == 0..UMax
Byte  == 0..ByteMax

VARIABLES mem, request

(* count bytes from p on, and that the address space holds them. *)
Region(p, count) == p..(p + count - 1)
Object(p, count) == p \in Space /\ count \in 0..(UMax + 1) /\ p + count <= UMax + 1

CopyRequest(dest, src, count) == <<"copy", dest, src, count>>
FillRequest(dest, ch, count)  == <<"fill", dest, ch, count>>

(* Memory m after its bytes at src were moved to dest, or dest was filled. *)
CopyOf(m, dest, src, count) ==
  [a \in Space |-> IF a \in Region(dest, count) THEN m[src + (a - dest)] ELSE m[a]]
FillOf(m, dest, byte, count) ==
  [a \in Space |-> IF a \in Region(dest, count) THEN byte ELSE m[a]]

Init == mem \in [Space -> Byte] /\ request = NoRequest

Call ==
  /\ request = NoRequest
  /\ \E dest \in Space, count \in 0..(UMax + 1) :
       /\ Object(dest, count)
       /\ \/ \E src \in Space : Object(src, count) /\ request' = CopyRequest(dest, src, count)
          \/ \E ch \in Chars : request' = FillRequest(dest, ch, count)
  /\ UNCHANGED mem

Return ==
  /\ request # NoRequest
  /\ IF request[1] = "copy"
     THEN mem' = CopyOf(mem, request[2], request[3], request[4])
     ELSE /\ request[3] \in Byte \/ request[4] = 0
          /\ mem' = FillOf(mem, request[2], request[3], request[4])
  /\ request' = NoRequest

Next == Call \/ Return

Spec == Init /\ [][Next]_<<mem, request>>
=============================================================================
