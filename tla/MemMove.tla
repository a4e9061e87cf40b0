------------------------------ MODULE MemMove ------------------------------
(***************************************************************************)
(* memcpy, memmove and memset of src/string.zig, byte by byte.             *)
(*                                                                         *)
(* memmove picks a direction by comparing addresses, with additions that   *)
(* are checked in the Debug build the Makefile makes: an addition past the *)
(* largest usize ends in the endless loop of panic.                        *)
(***************************************************************************)
EXTENDS Integers

CONSTANTS UMax, ByteMax, NoRequest,
  Chars      \* the c_int values a client passes to memset

ASSUME MemAssumption ==
  /\ UMax \in Nat /\ ByteMax \in Nat /\ Chars \subseteq Int
  /\ \A k \in {"copy", "fill"}, p \in 0..UMax, x \in 0..UMax \cup Chars, n \in 0..(UMax + 1) :
       NoRequest # <<k, p, x, n>>

VARIABLES
  mem,       \* the memory of the process
  pc,        \* "idle", a loop, or "panicked"
  kind,      \* "copy", or "fill" for memset
  dest, src, count, ch,   \* its arguments
  i,         \* its loop counter (ri in copyBackward)
  old        \* the memory when the call began

vars == <<mem, pc, kind, dest, src, count, ch, i, old>>
args == <<kind, dest, src, count, ch, old>>

(* What the callers see: a call under way has not happened yet. *)
Visible == IF pc = "idle" THEN mem ELSE old
Request ==
  IF pc = "idle" THEN NoRequest
  ELSE <<kind, dest, IF kind = "copy" THEN src ELSE ch, count>>

Abstract == INSTANCE MemSpec WITH mem <- Visible, request <- Request
Space == Abstract!Space
Byte  == Abstract!Byte
Region(p, n) == Abstract!Region(p, n)
Object(p, n) == Abstract!Object(p, n)

Counts == 0..(UMax + 1)

Init ==
  /\ mem \in [Space -> Byte]
  /\ pc = "idle"
  /\ kind = "copy"
  /\ dest = 0 /\ src = 0 /\ count = 0 /\ ch = 0 /\ i = 0
  /\ old = mem

-----------------------------------------------------------------------------
Enter(point, k, d, s, n, c) ==
  /\ pc = "idle"
  /\ Object(d, n) /\ Object(s, n)
  /\ pc' = point /\ kind' = k
  /\ dest' = d /\ src' = s /\ count' = n /\ ch' = c /\ i' = 0
  /\ old' = mem
  /\ UNCHANGED mem

(* Both pointers are noalias: the caller's regions are disjoint. *)
Memcpy(d, s, n) ==
  /\ Region(d, n) \cap Region(s, n) = {}
  /\ Enter("forward", "copy", d, s, n, 0)

(* MUTANT: overlapping regions are always copied forward. *)
DirectionForward(d, s, n) ==
  IF d = s THEN "idle"
  ELSE IF d + n > UMax \/ (d + n > s /\ s + n > UMax) THEN "panicked"
  ELSE "forward"

(* MUTANT: both additions are made before either comparison. *)
DirectionEager(d, s, n) ==
  IF d + n > UMax \/ s + n > UMax THEN "panicked"
  ELSE IF d = s THEN "idle"
  ELSE IF d + n <= s \/ s + n <= d THEN "forward"
  ELSE IF d < s THEN "forward" ELSE "backward"

(* The dispatch of memmove.  Either addition may overflow; the second one is
   made only when the first comparison is false. *)
Direction(d, s, n) ==
  IF d = s THEN "idle"
  ELSE IF d + n > UMax \/ (d + n > s /\ s + n > UMax) THEN "panicked"
  ELSE IF d + n <= s \/ s + n <= d THEN "forward"
  ELSE IF d < s THEN "forward" ELSE "backward"

Memmove(d, s, n) == Enter(Direction(d, s, n), "copy", d, s, n, 0)

Memset(d, c, n) == Enter("fill", "fill", d, d, n, c)

-----------------------------------------------------------------------------
(* MUTANT: the last byte is left out. *)
MoreButLast == i + 1 < count

(* MUTANT: one round too many. *)
MoreByOne == i <= count

(* The condition of the three loops. *)
More == i < count

(* MUTANT: the loop counter stays. *)
StoreByteStuck(a, b) == mem' = [mem EXCEPT ![a] = b] /\ UNCHANGED <<i, pc, args>>

(* One byte is stored and the loop counter moves on. *)
StoreByte(a, b) == mem' = [mem EXCEPT ![a] = b] /\ i' = i + 1 /\ UNCHANGED <<pc, args>>

(* One round of copyForward, copyBackward, memset. *)
CopyForward ==
  pc = "forward" /\ More /\ StoreByte(dest + i, mem[src + i])

CopyBackward ==
  /\ pc = "backward" /\ More
  /\ LET k == count - i - 1 IN StoreByte(dest + k, mem[src + k])

SetByte ==
  pc = "fill" /\ More /\ ch \in Byte /\ StoreByte(dest + i, ch)

(* @intCast(u8, ch) of a value that is no u8. *)
SetByteFails ==
  pc = "fill" /\ More /\ ch \notin Byte /\ pc' = "panicked" /\ UNCHANGED <<mem, i, args>>

Return ==
  pc \in {"forward", "backward", "fill"} /\ ~More /\ pc' = "idle" /\ UNCHANGED <<mem, i, args>>

-----------------------------------------------------------------------------
Call ==
  \E d \in Space, n \in Counts :
    \/ \E s \in Space : Memcpy(d, s, n) \/ Memmove(d, s, n)
    \/ \E c \in Chars : Memset(d, c, n)

Step == CopyForward \/ CopyBackward \/ SetByte \/ SetByteFails \/ Return

Next == Call \/ Step

Spec == Init /\ [][Next]_vars
FairSpec == Spec /\ WF_vars(Step)

-----------------------------------------------------------------------------
TypeOK ==
  /\ mem \in [Space -> Byte] /\ old \in [Space -> Byte]
  /\ pc \in {"idle", "forward", "backward", "fill", "panicked"}
  /\ kind \in {"copy", "fill"}
  /\ pc = "fill" => kind = "fill"
  /\ pc \in {"forward", "backward"} => kind = "copy"
  /\ Object(dest, count) /\ Object(src, count)
  /\ ch \in Chars \cup {0}
  /\ i \in 0..count

(* For every pair of regions, however they overlap, and whichever direction
   memmove picked, a call takes effect as one step that reads all of the source
   before it writes any of the destination; memcpy and memset likewise. *)
ActsAtOnce == Abstract!Spec

(* memmove panics only when one of its regions ends at the last address of the
   address space, memset only when the character does not fit a byte. *)
PanicsAtTheTop ==
  pc = "panicked" =>
    \/ dest # src /\ (dest + count = UMax + 1 \/ src + count = UMax + 1)
    \/ ch \notin Byte /\ count > 0

(* Every call that does not panic ends. *)
LoopsEnd == pc \in {"forward", "backward", "fill"} ~> pc \in {"idle", "panicked"}

-----------------------------------------------------------------------------
(* The memory while a loop runs: what it has copied so far, from old. *)
Done ==
  IF pc = "backward" THEN Region(dest + (count - i), i)
  ELSE IF pc = "panicked" THEN {}
  ELSE Region(dest, i)

Progress ==
  pc # "idle" =>
    \A a \in Space :
      mem[a] = IF a \in Done
               THEN IF pc = "fill" THEN ch ELSE old[src + (a - dest)]
               ELSE old[a]

(* The source bytes still to be read have not been overwritten. *)
SafeDirection ==
  /\ pc = "forward"  => dest < src \/ src + count <= dest \/ count = 0
  /\ pc = "backward" => src < dest
  /\ pc = "fill" /\ i > 0 => ch \in Byte

MoveInv == TypeOK /\ Progress /\ SafeDirection /\ PanicsAtTheTop
=============================================================================
