--------------------------- MODULE MemMoveProofs ---------------------------
(***************************************************************************)
(* memcpy, memmove and memset, for every size of the address space and     *)
(* every pair of regions: the loops implement MemSpec.                     *)
(***************************************************************************)
EXTENDS MemMove, TLAPS

USE MemAssumption
USE DEF Space, Byte, Region, Object, Abstract!Space, Abstract!Byte, Abstract!Region,
        Abstract!Object

LEMMA InitMoveInv == Init => MoveInv
BY DEF Init, MoveInv, TypeOK, Progress, SafeDirection, PanicsAtTheTop

(* A call begins: the loop has copied nothing, and the direction is safe. *)
LEMMA CallKeeps ==
  ASSUME MoveInv, Call
  PROVE  MoveInv'
<1> USE DEF MoveInv
<1>1. ASSUME NEW d \in Space, NEW s \in Space, NEW n \in Counts, Memcpy(d, s, n)
      PROVE  MoveInv'
  <2>1. Enter("forward", "copy", d, s, n, 0) /\ Region(d, n) \cap Region(s, n) = {}
    BY <1>1 DEF Memcpy
  <2>2. TypeOK' /\ PanicsAtTheTop'
    BY <2>1 DEF Enter, TypeOK, Counts, PanicsAtTheTop
  <2>3. d < s \/ s + n <= d \/ n = 0
    <3> SUFFICES ASSUME s <= d, d < s + n PROVE FALSE
      BY DEF Counts
    <3>1. d \in Region(d, n) /\ d \in Region(s, n)
      BY DEF Counts
    <3> QED
      BY <2>1, <3>1
  <2>4. SafeDirection'
    BY <2>1, <2>3 DEF Enter, SafeDirection
  <2>5. Progress'
    BY <2>1 DEF Enter, Progress, Done
  <2> QED
    BY <2>2, <2>4, <2>5
<1>2. ASSUME NEW d \in Space, NEW s \in Space, NEW n \in Counts, Memmove(d, s, n)
      PROVE  MoveInv'
  <2> DEFINE p == Direction(d, s, n)
  <2>1. Enter(p, "copy", d, s, n, 0)
    BY <1>2 DEF Memmove
  <2>2. /\ p \in {"idle", "forward", "backward", "panicked"}
        /\ p = "forward" => d < s \/ s + n <= d
        /\ p = "backward" => s < d
        /\ p = "panicked" => d # s /\ (d + n > UMax \/ s + n > UMax)
    BY DEF Direction, Counts
  <2> HIDE DEF p
  <2>3. TypeOK'
    BY <2>1, <2>2 DEF Enter, TypeOK, Counts
  <2>4. PanicsAtTheTop' /\ SafeDirection'
    BY <2>1, <2>2 DEF Enter, PanicsAtTheTop, SafeDirection, Counts
  <2>5. Progress'
    BY <2>1, <2>2 DEF Enter, Progress, Done
  <2> QED
    BY <2>3, <2>4, <2>5
<1>3. ASSUME NEW d \in Space, NEW c \in Chars, NEW n \in Counts, Memset(d, c, n)
      PROVE  MoveInv'
  <2>1. Enter("fill", "fill", d, d, n, c) /\ c \in Int
    BY <1>3 DEF Memset
  <2>2. TypeOK' /\ PanicsAtTheTop' /\ SafeDirection'
    BY <2>1 DEF Enter, TypeOK, Counts, PanicsAtTheTop, SafeDirection
  <2>3. Progress'
    BY <2>1 DEF Enter, Progress, Done
  <2> QED
    BY <2>2, <2>3
<1> QED
  BY <1>1, <1>2, <1>3 DEF Call

(* One byte more: it was read from a place no earlier round has written. *)
LEMMA StepKeeps ==
  ASSUME MoveInv, Step
  PROVE  MoveInv'
<1> USE DEF MoveInv
<1>0. dest \in Nat /\ src \in Nat /\ count \in Nat /\ i \in Nat
  BY DEF TypeOK
<1>1. CASE CopyForward
  <2>1. /\ pc = "forward" /\ i < count /\ pc' = pc /\ i' = i + 1
        /\ mem' = [mem EXCEPT ![dest + i] = mem[src + i]]
        /\ UNCHANGED args
    BY <1>1 DEF CopyForward, More, StoreByte
  <2>2. mem[src + i] = old[src + i]
    <3>1. src + i \in Space /\ src + i \notin Done
      BY <1>0, <2>1 DEF TypeOK, SafeDirection, Done
    <3> QED
      BY <2>1, <3>1 DEF Progress
  <2>3. TypeOK'
    BY <2>1 DEF TypeOK, args
  <2>4. PanicsAtTheTop' /\ SafeDirection'
    BY <2>1 DEF PanicsAtTheTop, SafeDirection, args
  <2>5. Progress'
    <3> SUFFICES ASSUME NEW a \in Space
                 PROVE  mem'[a] = IF a \in Region(dest, i + 1) THEN old[src + (a - dest)] ELSE old[a]
      BY <2>1 DEF Progress, Done, args
    <3>1. CASE a = dest + i
      BY <2>1, <2>2, <3>1 DEF TypeOK
    <3>2. CASE a # dest + i
      <4>1. mem'[a] = mem[a]
        BY <2>1, <3>2 DEF TypeOK
      <4>2. a \in Region(dest, i + 1) <=> a \in Region(dest, i)
        BY <3>2 DEF TypeOK
      <4>3. mem[a] = IF a \in Region(dest, i) THEN old[src + (a - dest)] ELSE old[a]
        BY <2>1 DEF Progress, Done
      <4> QED
        BY <4>1, <4>2, <4>3
    <3> QED
      BY <3>1, <3>2
  <2> QED
    BY <2>3, <2>4, <2>5
<1>2. CASE CopyBackward
  <2> DEFINE k == count - i - 1
  <2>1. /\ pc = "backward" /\ i < count /\ pc' = pc /\ i' = i + 1
        /\ mem' = [mem EXCEPT ![dest + k] = mem[src + k]]
        /\ UNCHANGED args
    BY <1>2 DEF CopyBackward, More, StoreByte
  <2>2. mem[src + k] = old[src + k]
    <3>1. src + k \in Space /\ src + k \notin Done
      BY <1>0, <2>1 DEF TypeOK, SafeDirection, Done
    <3> QED
      BY <2>1, <3>1 DEF Progress
  <2>3. TypeOK'
    BY <2>1 DEF TypeOK, args
  <2>4. PanicsAtTheTop' /\ SafeDirection'
    BY <2>1 DEF PanicsAtTheTop, SafeDirection, args
  <2>5. Progress'
    <3> SUFFICES ASSUME NEW a \in Space
                 PROVE  mem'[a] = IF a \in Region(dest + (count - (i + 1)), i + 1)
                                  THEN old[src + (a - dest)] ELSE old[a]
      BY <2>1 DEF Progress, Done, args
    <3>1. CASE a = dest + k
      BY <2>1, <2>2, <3>1 DEF TypeOK
    <3>2. CASE a # dest + k
      <4>1. mem'[a] = mem[a]
        BY <2>1, <3>2 DEF TypeOK
      <4>2. a \in Region(dest + (count - (i + 1)), i + 1) <=> a \in Region(dest + (count - i), i)
        BY <3>2 DEF TypeOK
      <4>3. mem[a] = IF a \in Region(dest + (count - i), i)
                     THEN old[src + (a - dest)] ELSE old[a]
        BY <2>1 DEF Progress, Done
      <4> QED
        BY <4>1, <4>2, <4>3
    <3> QED
      BY <3>1, <3>2
  <2> QED
    BY <2>3, <2>4, <2>5
<1>3. CASE SetByte
  <2>1. /\ pc = "fill" /\ i < count /\ pc' = pc /\ i' = i + 1 /\ ch \in Byte
        /\ mem' = [mem EXCEPT ![dest + i] = ch]
        /\ UNCHANGED args
    BY <1>3 DEF SetByte, More, StoreByte
  <2>2. TypeOK'
    BY <2>1 DEF TypeOK, args
  <2>3. PanicsAtTheTop' /\ SafeDirection'
    BY <2>1 DEF PanicsAtTheTop, SafeDirection, args
  <2>4. Progress'
    <3> SUFFICES ASSUME NEW a \in Space
                 PROVE  mem'[a] = IF a \in Region(dest, i + 1) THEN ch ELSE old[a]
      BY <2>1 DEF Progress, Done, args
    <3>1. CASE a = dest + i
      BY <2>1, <3>1 DEF TypeOK
    <3>2. CASE a # dest + i
      <4>1. mem'[a] = mem[a]
        BY <2>1, <3>2 DEF TypeOK
      <4>2. a \in Region(dest, i + 1) <=> a \in Region(dest, i)
        BY <3>2 DEF TypeOK
      <4>3. mem[a] = IF a \in Region(dest, i) THEN ch ELSE old[a]
        BY <2>1 DEF Progress, Done
      <4> QED
        BY <4>1, <4>2, <4>3
    <3> QED
      BY <3>1, <3>2
  <2> QED
    BY <2>2, <2>3, <2>4
<1>4. CASE SetByteFails
  <2>1. /\ pc = "fill" /\ i < count /\ ch \notin Byte /\ pc' = "panicked"
        /\ UNCHANGED <<mem, i, args>>
    BY <1>4 DEF SetByteFails, More
  <2>2. i = 0
    BY <2>1 DEF TypeOK, SafeDirection
  <2>3. TypeOK' /\ PanicsAtTheTop' /\ SafeDirection'
    BY <2>1 DEF TypeOK, PanicsAtTheTop, SafeDirection, args
  <2>4. \A a \in Space : mem[a] = old[a]
    <3>1. Done = {}
      BY <1>0, <2>1, <2>2 DEF Done
    <3> QED
      BY <2>1, <3>1 DEF Progress
  <2>5. Progress'
    BY <2>1, <2>4 DEF Progress, Done, args
  <2> QED
    BY <2>3, <2>5
<1>5. CASE Return
  BY <1>5 DEF Return, TypeOK, PanicsAtTheTop, SafeDirection, Progress, args
<1> QED
  BY <1>1, <1>2, <1>3, <1>4, <1>5 DEF Step

LEMMA MoveInvariant == Spec => []MoveInv
<1>1. MoveInv /\ [Next]_vars => MoveInv'
  <2>1. CASE UNCHANGED vars
    BY <2>1 DEF vars, MoveInv, TypeOK, Progress, Done, SafeDirection, PanicsAtTheTop
  <2> QED
    BY <2>1, CallKeeps, StepKeeps DEF Next
<1> QED
  BY <1>1, InitMoveInv, PTL DEF Spec

(* A call begins, as one step of MemSpec; memmove onto itself is none. *)
LEMMA CallRefines ==
  ASSUME MoveInv, Call
  PROVE  [Abstract!Next]_<<Visible, Request>>
<1>1. ASSUME NEW p, NEW k \in {"copy", "fill"}, NEW d \in Space, NEW s \in Space,
             NEW n \in Counts, NEW c \in Chars \cup {0},
             k = "fill" => c \in Chars, Enter(p, k, d, s, n, c)
      PROVE  [Abstract!Next]_<<Visible, Request>>
  <2>1. /\ pc = "idle" /\ Object(d, n) /\ Object(s, n) /\ pc' = p /\ kind' = k /\ dest' = d
        /\ src' = s /\ count' = n /\ ch' = c /\ old' = mem /\ mem' = mem
    BY <1>1 DEF Enter
  <2>2. Visible = mem /\ Visible' = mem /\ Request = NoRequest
    BY <2>1 DEF Visible, Request
  <2>3. CASE p = "idle"
    BY <2>1, <2>2, <2>3 DEF Request
  <2>4. CASE p # "idle" /\ k = "copy"
    <3>1. Request' = Abstract!CopyRequest(d, s, n)
      BY <2>1, <2>4 DEF Request, Abstract!CopyRequest
    <3> QED
      BY <2>1, <2>2, <3>1 DEF Abstract!Next, Abstract!Call, Counts
  <2>5. CASE p # "idle" /\ k = "fill"
    <3>1. Request' = Abstract!FillRequest(d, c, n)
      BY <2>1, <2>5 DEF Request, Abstract!FillRequest
    <3> QED
      BY <1>1, <2>1, <2>2, <2>5, <3>1 DEF Abstract!Next, Abstract!Call, Counts
  <2> QED
    BY <2>3, <2>4, <2>5
<1> QED
  BY <1>1 DEF Call, Memcpy, Memmove, Memset

(* The rounds of a loop are invisible; its return is the abstract effect. *)
LEMMA StepRefines ==
  ASSUME MoveInv, MoveInv', Step
  PROVE  [Abstract!Next]_<<Visible, Request>>
<1> USE DEF MoveInv
<1>1. CASE CopyForward \/ CopyBackward \/ SetByte \/ SetByteFails
  <2>1. /\ pc # "idle" /\ pc' # "idle"
        /\ UNCHANGED <<kind, dest, src, count, ch, old>>
    BY <1>1 DEF CopyForward, CopyBackward, SetByte, SetByteFails, StoreByte, args
  <2> QED
    BY <2>1 DEF Visible, Request
<1>2. CASE Return
  <2>1. /\ pc \in {"forward", "backward", "fill"} /\ ~(i < count) /\ pc' = "idle" /\ mem' = mem
    BY <1>2 DEF Return, More
  <2>2. i = count /\ dest \in Nat /\ count \in Nat /\ src \in Nat /\ ch \in Int
    BY <2>1 DEF TypeOK
  <2>3. Done = Region(dest, count)
    BY <2>1, <2>2 DEF Done
  <2>4. Visible = old /\ Visible' = mem /\ Request' = NoRequest
    BY <2>1 DEF Visible, Request
  <2>5. CASE pc \in {"forward", "backward"}
    <3>1. mem = Abstract!CopyOf(old, dest, src, count)
      <4>1. \A a \in Space :
              mem[a] = IF a \in Region(dest, count) THEN old[src + (a - dest)] ELSE old[a]
        BY <2>1, <2>3, <2>5 DEF Progress
      <4> QED
        BY <4>1 DEF Abstract!CopyOf, TypeOK
    <3>2. Request = <<"copy", dest, src, count>> /\ Request # NoRequest
      BY <2>1, <2>5 DEF Request, TypeOK
    <3> QED
      BY <2>4, <3>1, <3>2 DEF Abstract!Next, Abstract!Return
  <2>6. CASE pc = "fill"
    <3>1. mem = Abstract!FillOf(old, dest, ch, count)
      <4>1. \A a \in Space :
              mem[a] = IF a \in Region(dest, count) THEN ch ELSE old[a]
        BY <2>1, <2>3, <2>6 DEF Progress
      <4> QED
        BY <4>1 DEF Abstract!FillOf, TypeOK
    <3>2. Request = <<"fill", dest, ch, count>> /\ Request # NoRequest
      BY <2>1, <2>2, <2>6, 0 \in 0..UMax DEF Request, TypeOK
    <3>3. ch \in Byte \/ count = 0
      BY <2>2, <2>6 DEF SafeDirection
    <3> QED
      BY <2>4, <3>1, <3>2, <3>3 DEF Abstract!Next, Abstract!Return
  <2> QED
    BY <2>1, <2>5, <2>6
<1> QED
  BY <1>1, <1>2 DEF Step

(* However source and destination overlap, and whichever direction memmove takes,
   its loops do what one assignment of the whole region would do; so do those of
   memcpy and memset. *)
THEOREM MoveActsAtOnce == Spec => ActsAtOnce
<1>1. Init => Abstract!Init
  BY DEF Init, Abstract!Init, Visible, Request
<1>2. MoveInv /\ MoveInv' /\ [Next]_vars => [Abstract!Next]_<<Visible, Request>>
  <2>1. CASE UNCHANGED vars
    BY <2>1 DEF vars, Visible, Request
  <2> QED
    BY <2>1, CallRefines, StepRefines DEF Next
<1> QED
  BY <1>1, <1>2, MoveInvariant, PTL DEF Spec, ActsAtOnce, Abstract!Spec

(* memmove and memset hang only in the cases PanicsAtTheTop names: no addition of
   theirs overflows below the top of the address space. *)
THEOREM MovePanicsAtTheTop == Spec => []PanicsAtTheTop
<1>1. MoveInv => PanicsAtTheTop
  BY DEF MoveInv
<1> QED
  BY <1>1, MoveInvariant, PTL

(* The byte loops keep to their regions and counters, for every size of memory: the
   state of a call is well typed. *)
THEOREM MoveTypeCorrect == Spec => []TypeOK
<1>1. MoveInv => TypeOK
  BY DEF MoveInv
<1> QED
  BY <1>1, MoveInvariant, PTL
=============================================================================
