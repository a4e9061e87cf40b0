---------------------------- MODULE LineIOProofs ----------------------------
(***************************************************************************)
(* fgets stays inside its buffer and stops at a newline, and copying loops *)
(* write every byte once and in order, for every input, every size and any *)
(* number of threads on the streams.                                       *)
(***************************************************************************)
EXTENDS LineIO, TLAPS

USE LineAssumption

LEMMA InitLineInv == Init => LineInv
BY DEF Init, LineInv, LineTypes, FgetsProgress, Items, Positions, Threads

(* What t does with its own buffer leaves the other liners alone. *)
LEMMA OneLiner ==
  ASSUME LineInv, LineTypes', NEW t \in Threads, NEW p, NEW b,
         pc' = [pc EXCEPT ![t] = p], buf' = [buf EXCEPT ![t] = b],
         \A u \in Threads : u # t => size'[u] = size[u] /\ (u \in ended' <=> u \in ended),
         t \in Liners =>
           /\ p \in {"fgets", "fputs", "newline"} =>
                Len(b) < size'[t] /\ NoNewlineIn(b, Len(b) - 1)
           /\ p = "fgets" /\ t \notin ended' => NoNewlineIn(b, Len(b))
  PROVE  LineInv'
<1>1. pc'[t] = p /\ buf'[t] = b
  BY DEF LineInv, LineTypes
<1>2. \A u \in Threads : u # t => pc'[u] = pc[u] /\ buf'[u] = buf[u]
  BY DEF LineInv, LineTypes
<1>3. FgetsProgress'
  <2> SUFFICES ASSUME NEW u \in Liners PROVE FgetsProgress!(u)'
    BY DEF FgetsProgress
  <2>1. u \in Threads
    BY DEF Threads
  <2>2. CASE u = t
    BY <1>1, <2>2 DEF NoNewlineIn
  <2>3. CASE u # t
    BY <1>2, <2>1, <2>3 DEF LineInv, FgetsProgress, NoNewlineIn
  <2> QED
    BY <2>2, <2>3
<1> QED
  BY <1>3 DEF LineInv

(* A round of fgets: the byte fits, and nothing follows a newline. *)
LEMMA FgetsByteKeeps ==
  ASSUME LineInv, NEW t \in Liners, NEW item \in Items, NEW byte \in Bytes,
         FgetsByte(t, item, byte)
  PROVE  LineInv'
<1> USE DEF LineInv
<1> DEFINE b == Append(buf[t], item)
<1>1. /\ t \in Threads /\ pc[t] = "fgets" /\ pc' = pc /\ size' = size
      /\ Len(buf[t]) < size[t] - 1 /\ t \notin ended
      /\ buf' = [buf EXCEPT ![t] = b]
      /\ ended' = IF byte = NL THEN ended \cup {t} ELSE ended
      /\ ReadByte(item, byte)
  BY DEF FgetsByte, Store, FgetsMore, Threads, LineTypes
<1>2. buf[t] \in Seq(Items)
  BY <1>1 DEF LineTypes
<1>3. b \in Seq(Items) /\ Len(b) = Len(buf[t]) + 1 /\ b[Len(b)] = item
      /\ \A k \in 1..Len(buf[t]) : b[k] = buf[t][k]
  BY <1>2
<1>4. NoNewlineIn(buf[t], Len(buf[t])) /\ Len(buf[t]) \in Nat
  BY <1>1, <1>2 DEF FgetsProgress
<1>5. LineTypes'
  <2>1. pos' \in 0..Len(Input)
    BY <1>1 DEF ReadByte, LineTypes
  <2> QED
    BY <1>1, <1>3, <2>1 DEF LineTypes
<1>6. item # Stale => byte = Input[item]
  BY <1>1 DEF ReadByte
<1> HIDE DEF b
<1>7. NoNewlineIn(b, Len(b) - 1)
  BY <1>3, <1>4 DEF NoNewlineIn
<1>8. byte # NL => NoNewlineIn(b, Len(b))
  <2>1. \A k \in 1..Len(b) : k \in 1..Len(buf[t]) \/ k = Len(b)
    BY <1>3, <1>4
  <2> QED
    BY <1>3, <1>4, <1>6, <2>1 DEF NoNewlineIn
<1>9. Len(b) < size'[t]
  BY <1>1, <1>3, <1>4 DEF LineTypes
<1>10. pc' = [pc EXCEPT ![t] = "fgets"]
  BY <1>1 DEF LineTypes
<1>11. t \notin ended' => byte # NL
  BY <1>1
<1>12. \A u \in Threads : u # t => size'[u] = size[u] /\ (u \in ended' <=> u \in ended)
  BY <1>1
<1> QED
  BY <1>1, <1>5, <1>7, <1>8, <1>9, <1>10, <1>11, <1>12, OneLiner

(* The other steps of a liner: its buffer is emptied, or kept as it is. *)
LEMMA LinerKeeps ==
  ASSUME LineInv, NEW t \in Threads,
         \/ \E n \in Sizes : FgetsCall(t, n)
         \/ FgetsReadFails(t) \/ FgetsReturn(t) \/ FputsString(t) \/ FputsNewline(t)
         \/ \E n \in 0..Len(buf[t]) : FputsStringFails(t, n)
  PROVE  LineInv'
<1> USE DEF LineInv
<1>0. /\ <<>> \in Seq(Items) /\ Len(<<>>) = 0 /\ NoNewlineIn(<<>>, 0) /\ NoNewlineIn(<<>>, -1)
      /\ buf[t] \in Seq(Items)
  BY DEF NoNewlineIn, LineTypes
<1>1. ASSUME NEW n \in Sizes, FgetsCall(t, n) PROVE LineInv'
  <2> DEFINE p == IF n <= 0 THEN "panicked" ELSE "fgets"
  <2>1. /\ pc' = [pc EXCEPT ![t] = p] /\ size' = [size EXCEPT ![t] = n]
        /\ buf' = [buf EXCEPT ![t] = <<>>] /\ ended' = ended \ {t} /\ pos' = pos
        /\ n \in Int /\ t \in Liners
    BY <1>1 DEF FgetsCall, Goto, Empty
  <2>2. LineTypes'
    <3>1. \A u \in Charers \cup Blockers : u # t /\ u \in Threads
      BY <2>1 DEF Threads
    <3>2. p \notin {"fputc", "fwrite", "done"}
      OBVIOUS
    <3> QED
      BY <1>0, <2>1, <3>1, <3>2 DEF LineTypes, Threads
  <2>3. p = "fgets" => Len(<<>>) < size'[t]
    BY <1>0, <2>1 DEF LineTypes
  <2>4. p \in {"fgets", "panicked"}
    OBVIOUS
  <2>5. \A u \in Threads : u # t => size'[u] = size[u] /\ (u \in ended' <=> u \in ended)
    BY <2>1 DEF LineTypes
  <2>6. Len(<<>>) - 1 = -1
    BY <1>0
  <2> HIDE DEF p
  <2> QED
    BY <1>0, <2>1, <2>2, <2>3, <2>4, <2>5, <2>6, OneLiner
<1>2. CASE FgetsReadFails(t) \/ FgetsReturn(t) \/ FputsString(t)
  <2>1. PICK p \in {"fputs", "newline"} :
          /\ pc' = [pc EXCEPT ![t] = p] /\ UNCHANGED <<pos, size, buf, ended>>
          /\ pc[t] \in {"fgets", "fputs"}
    BY <1>2 DEF FgetsReadFails, FgetsReturn, FputsString, Goto
  <2>2. LineTypes'
    BY <2>1 DEF LineTypes
  <2>3. buf' = [buf EXCEPT ![t] = buf[t]]
    BY <2>1 DEF LineTypes
  <2>4. t \in Liners => Len(buf[t]) < size'[t] /\ NoNewlineIn(buf[t], Len(buf[t]) - 1)
    BY <2>1 DEF FgetsProgress
  <2> QED
    BY <2>1, <2>2, <2>3, <2>4, OneLiner
<1>3. CASE FputsNewline(t) \/ \E n \in 0..Len(buf[t]) : FputsStringFails(t, n)
  <2>1. /\ pc' = [pc EXCEPT ![t] = "top"] /\ UNCHANGED <<pos, size, ended>>
        /\ buf' = [buf EXCEPT ![t] = <<>>]
    BY <1>3 DEF FputsNewline, FputsStringFails, Goto, Empty
  <2>2. LineTypes'
    BY <1>0, <2>1 DEF LineTypes
  <2> QED
    BY <2>1, <2>2, OneLiner
<1> QED
  BY <1>1, <1>2, <1>3

(* Threads of the other kinds. *)
LEMMA OthersKeep ==
  ASSUME LineInv, NEW t \in Threads,
         \/ \E item \in Items, byte \in Bytes : Fgetc(t, item, byte)
         \/ FgetcFails(t) \/ Fputc(t) \/ FputcFails(t)
         \/ \E n \in 0..BlockSize : Fread(t, n)
         \/ FreadFails(t) \/ Fwrite(t)
         \/ \E n \in 0..Len(buf[t]) : FwriteFails(t, n)
  PROVE  LineInv'
<1> USE DEF LineInv
<1>0. <<>> \in Seq(Items) /\ buf[t] \in Seq(Items)
  BY DEF LineTypes
<1>1. t \notin Liners
  BY DEF Fgetc, FgetcFails, Fputc, FputcFails, Fread, FreadFails, Fwrite, FwriteFails, LineTypes
<1>2. ASSUME NEW p \in {"top", "fputc", "fwrite", "done", "panicked"}, NEW b \in Seq(Items),
             pc' = [pc EXCEPT ![t] = p], buf' = [buf EXCEPT ![t] = b],
             UNCHANGED <<size, ended>>, pos' \in 0..Len(Input)
      PROVE  LineInv'
  <2>1. LineTypes'
    BY <1>1, <1>2 DEF LineTypes, Threads
  <2> QED
    BY <1>1, <1>2, <2>1, OneLiner
<1>3. ASSUME NEW item \in Items, NEW byte \in Bytes, Fgetc(t, item, byte) PROVE LineInv'
  <2>1. <<item>> \in Seq(Items)
    OBVIOUS
  <2>2. pos' \in 0..Len(Input)
    BY <1>3 DEF Fgetc, ReadByte, LineTypes
  <2> QED
    BY <1>2, <1>3, <2>1, <2>2 DEF Fgetc, Goto
<1>4. ASSUME NEW n \in 0..BlockSize, Fread(t, n) PROVE LineInv'
  <2> DEFINE b == [k \in 1..n |-> pos + k]
  <2>1. pos' \in 0..Len(Input) /\ pos + n <= Len(Input) /\ pos \in Nat /\ n \in Nat
    BY <1>4 DEF Fread, LineTypes
  <2>2. b \in Seq(Items)
    <3>1. \A k \in 1..n : pos + k \in Items
      BY <2>1 DEF Items, Positions
    <3> QED
      BY <2>1, <3>1
  <2>3. /\ pc' = [pc EXCEPT ![t] = IF n = 0 THEN "done" ELSE "fwrite"]
        /\ buf' = [buf EXCEPT ![t] = b] /\ UNCHANGED <<size, ended>>
    BY <1>4 DEF Fread, Goto
  <2> HIDE DEF b
  <2> QED
    BY <1>2, <2>1, <2>2, <2>3
<1>5. CASE FgetcFails(t) \/ FreadFails(t)
  <2>1. buf' = [buf EXCEPT ![t] = buf[t]] /\ pos' \in 0..Len(Input)
    BY <1>5 DEF FgetcFails, FreadFails, LineTypes
  <2> QED
    BY <1>0, <1>2, <1>5, <2>1 DEF FgetcFails, FreadFails, Goto
<1>6. CASE Fputc(t) \/ FputcFails(t) \/ Fwrite(t) \/ \E n \in 0..Len(buf[t]) : FwriteFails(t, n)
  <2>1. /\ pc' = [pc EXCEPT ![t] = "top"] /\ UNCHANGED <<pos, size, ended>>
        /\ buf' = [buf EXCEPT ![t] = <<>>]
    BY <1>6 DEF Fputc, FputcFails, Fwrite, FwriteFails, Goto, Empty
  <2> QED
    BY <1>0, <1>2, <2>1 DEF LineTypes
<1> QED
  BY <1>3, <1>4, <1>5, <1>6

LEMMA StepLineInv == LineInv /\ [Next]_vars => LineInv'
<1> SUFFICES ASSUME LineInv, [Next]_vars PROVE LineInv'
  OBVIOUS
<1>1. CASE UNCHANGED vars
  BY <1>1 DEF vars, LineInv, LineTypes, FgetsProgress, NoNewlineIn
<1>2. ASSUME NEW t \in Threads, Works(t) \/ Fails(t) PROVE LineInv'
  <2>1. ASSUME NEW item \in Items, NEW byte \in Bytes, FgetsByte(t, item, byte) PROVE LineInv'
    <3>1. CASE t \in Liners
      BY <2>1, <3>1, FgetsByteKeeps
    <3>2. CASE t \notin Liners
      <4>1. FALSE
        BY <2>1, <3>2 DEF FgetsByte, LineInv, LineTypes, Threads
      <4> QED
        BY <4>1
    <3> QED
      BY <3>1, <3>2
  <2> QED
    BY <1>2, <2>1, LinerKeeps, OthersKeep DEF Works, Fails
<1> QED
  BY <1>1, <1>2 DEF Next

LEMMA LineAlways == Spec => []LineInv
  BY InitLineInv, StepLineInv, PTL DEF Spec

(* The buffer of fgets is never overrun, and holds one line at most, whatever the
   input, the size and the other threads. *)
THEOREM LineFgetsFits == Spec => []FgetsFits
<1>1. LineInv => FgetsFits
  BY DEF LineInv, FgetsProgress, FgetsFits
<1> QED
  BY <1>1, LineAlways, PTL

-----------------------------------------------------------------------------
(* The string in a line: it ends with the line, or at a NUL.  A stale byte may be
   one too, but nothing of the input follows it. *)
StringEnd(b, n) == n < Len(b) /\ b[n + 1] # Stale => Input[b[n + 1]] = NUL

StringInv ==
  /\ strlen \in [Threads -> Nat]
  /\ \A t \in Threads : strlen[t] <= Len(buf[t]) /\ (pc[t] = "top" => strlen[t] = 0)
  /\ \A t \in Threads : pc[t] \in {"fgets", "fputs"} => StringEnd(buf[t], strlen[t])

(* A step of t that leaves the other buffers alone. *)
LEMMA OneString ==
  ASSUME StringInv, LineTypes, LineTypes', NEW t \in Threads, NEW n \in Nat,
         strlen' = [strlen EXCEPT ![t] = n], n <= Len(buf'[t]),
         \A u \in Threads : u # t => pc'[u] = pc[u] /\ buf'[u] = buf[u],
         pc'[t] = "top" => n = 0, pc'[t] \in {"fgets", "fputs"} => StringEnd(buf'[t], n)
  PROVE  StringInv'
<1>1. strlen' \in [Threads -> Nat] /\ strlen'[t] = n /\ \A u \in Threads : u # t => strlen'[u] = strlen[u]
  BY DEF StringInv
<1>2. ASSUME NEW u \in Threads
      PROVE  /\ strlen'[u] <= Len(buf'[u]) /\ (pc'[u] = "top" => strlen'[u] = 0)
             /\ pc'[u] \in {"fgets", "fputs"} => StringEnd(buf'[u], strlen'[u])
  <2>1. CASE u = t
    BY <1>1, <2>1
  <2>2. CASE u # t
    BY <1>1, <2>2 DEF StringInv
  <2> QED
    BY <2>1, <2>2
<1>3. \A u \in Threads : pc'[u] \in {"fgets", "fputs"} => StringEnd(buf'[u], strlen'[u])
  BY <1>2
<1> QED
  BY <1>1, <1>2, <1>3 DEF StringInv, StringEnd

LEMMA StringAlways == Spec => []StringInv
<1>1. Init => StringInv
  <2> SUFFICES ASSUME Init PROVE StringInv
    OBVIOUS
  <2>1. strlen \in [Threads -> Nat] /\ \A t \in Threads : strlen[t] = 0 /\ buf[t] = <<>>
    BY DEF Init
  <2>2. Len(<<>>) = 0
    OBVIOUS
  <2> QED
    BY <2>1, <2>2 DEF StringInv, StringEnd
<1>2. LineInv /\ LineInv' /\ StringInv /\ [Next]_vars => StringInv'
  <2> SUFFICES ASSUME LineTypes, LineTypes', StringInv, [Next]_vars PROVE StringInv'
    BY DEF LineInv
  <2>1. CASE UNCHANGED vars
    BY <2>1 DEF vars, StringInv, StringEnd
  <2>2. ASSUME NEW t \in Threads, Works(t) \/ Fails(t) PROVE StringInv'
    <3>0. /\ pc \in [Threads -> {"top", "fgets", "fputs", "newline", "fputc", "fwrite", "done", "panicked"}]
          /\ buf \in [Threads -> Seq(Items)] /\ buf[t] \in Seq(Items) /\ Len(buf[t]) \in Nat
          /\ strlen \in [Threads -> Nat] /\ strlen[t] \in Nat /\ strlen[t] <= Len(buf[t])
          /\ buf'[t] \in Seq(Items) /\ Len(buf'[t]) \in Nat
      BY DEF LineTypes, StringInv
    <3>1. ASSUME NEW p, pc' = [pc EXCEPT ![t] = p], Empty(t) PROVE StringInv'
      <4>1. /\ buf'[t] = <<>> /\ Len(<<>>) = 0
            /\ \A u \in Threads : u # t => pc'[u] = pc[u] /\ buf'[u] = buf[u]
        BY <3>0, <3>1 DEF Empty
      <4>2. StringEnd(buf'[t], 0) /\ 0 <= Len(buf'[t])
        BY <4>1 DEF StringEnd
      <4> QED
        BY <3>1, <4>1, <4>2, OneString DEF Empty
    <3>2. ASSUME NEW p \in {"fputs", "newline", "panicked", "done"}, pc' = [pc EXCEPT ![t] = p],
                 buf' = buf, strlen' = strlen, p = "fputs" => pc[t] = "fgets"
          PROVE  StringInv'
      <4>1. pc'[t] = p /\ \A u \in Threads : u # t => pc'[u] = pc[u]
        BY <3>0, <3>2
      <4>2. strlen' = [strlen EXCEPT ![t] = strlen[t]]
        BY <3>0, <3>2
      <4>3. pc'[t] \in {"fgets", "fputs"} => StringEnd(buf'[t], strlen[t])
        BY <3>2, <4>1 DEF StringInv, StringEnd
      <4> QED
        BY <3>0, <3>2, <4>1, <4>2, <4>3, OneString
    <3>3. ASSUME NEW p \in {"fputc", "fwrite", "done"}, NEW b, pc' = [pc EXCEPT ![t] = p],
                 buf' = [buf EXCEPT ![t] = b], strlen' = strlen, pc[t] = "top"
          PROVE  StringInv'
      <4>1. pc'[t] = p /\ \A u \in Threads : u # t => pc'[u] = pc[u] /\ buf'[u] = buf[u]
        BY <3>0, <3>3
      <4>2. strlen[t] = 0 /\ strlen' = [strlen EXCEPT ![t] = strlen[t]]
        BY <3>0, <3>3 DEF StringInv
      <4>3. pc'[t] \notin {"top", "fgets", "fputs"} /\ strlen[t] <= Len(buf'[t])
        BY <3>0, <3>3, <4>1, <4>2
      <4> QED
        BY <3>0, <4>1, <4>2, <4>3, OneString
    <3>4. ASSUME NEW item \in Items, NEW byte \in Bytes, FgetsByte(t, item, byte) PROVE StringInv'
      <4> DEFINE l == Len(buf[t])
                 n == IF byte # NUL /\ strlen[t] = l THEN strlen[t] + 1 ELSE strlen[t]
                 b == Append(buf[t], item)
      <4>1. /\ pc[t] = "fgets" /\ pc' = pc /\ buf' = [buf EXCEPT ![t] = b]
            /\ strlen' = [strlen EXCEPT ![t] = n] /\ ReadByte(item, byte)
        BY <3>4 DEF FgetsByte, Store
      <4>2. buf'[t] = b /\ \A u \in Threads : u # t => buf'[u] = buf[u]
        BY <3>0, <4>1
      <4>3. Len(b) = l + 1 /\ b[l + 1] = item /\ \A k \in 1..l : b[k] = buf[t][k]
        BY <3>0
      <4>4. n \in Nat /\ n <= l + 1 /\ l \in Nat
        BY <3>0
      <4>5. StringEnd(b, n)
        <5>1. CASE strlen[t] = l
          <6>1. item # Stale => byte = Input[item]
            BY <4>1 DEF ReadByte
          <6>2. n = l => byte = NUL
            BY <3>0, <5>1
          <6>3. n < Len(b) => n = l
            BY <4>3, <4>4, <5>1
          <6> HIDE DEF b, n
          <6> QED
            BY <4>3, <6>1, <6>2, <6>3 DEF StringEnd
        <5>2. CASE strlen[t] # l
          <6>1. strlen[t] < l /\ n = strlen[t] /\ n + 1 \in 1..l
            BY <3>0, <5>2
          <6>2. StringEnd(buf[t], strlen[t])
            BY <4>1 DEF StringInv
          <6> HIDE DEF b, n
          <6> QED
            BY <4>3, <6>1, <6>2 DEF StringEnd
        <5> QED
          BY <5>1, <5>2
      <4> HIDE DEF b, n
      <4> QED
        BY <4>1, <4>2, <4>3, <4>4, <4>5, OneString
    <3>5. CASE \/ \E n \in Sizes : FgetsCall(t, n)
               \/ FputsNewline(t) \/ Fputc(t) \/ Fwrite(t) \/ FputcFails(t)
               \/ \E n \in 0..Len(buf[t]) : FputsStringFails(t, n) \/ FwriteFails(t, n)
      BY <3>1, <3>5 DEF FgetsCall, FputsNewline, Fputc, Fwrite, FputcFails, FputsStringFails,
                        FwriteFails, Goto
    <3>6. CASE FgetsReadFails(t) \/ FgetsReturn(t) \/ FputsString(t) \/ FgetcFails(t) \/ FreadFails(t)
      BY <3>2, <3>6 DEF FgetsReadFails, FgetsReturn, FputsString, FgetcFails, FreadFails, Goto
    <3>7. ASSUME NEW item \in Items, NEW byte \in Bytes, Fgetc(t, item, byte) PROVE StringInv'
      BY <3>3, <3>7 DEF Fgetc, Goto
    <3>8. ASSUME NEW n \in 0..BlockSize, Fread(t, n) PROVE StringInv'
      <4>1. PICK p \in {"done", "fwrite"} : pc' = [pc EXCEPT ![t] = p]
        BY <3>8 DEF Fread, Goto
      <4> QED
        BY <3>3, <3>8, <4>1 DEF Fread
    <3> QED
      BY <2>2, <3>4, <3>5, <3>6, <3>7, <3>8 DEF Works, Fails
  <2> QED
    BY <2>1, <2>2 DEF Next
<1> QED
  BY <1>1, <1>2, LineAlways, PTL DEF Spec

-----------------------------------------------------------------------------
(* The inductive invariant of copying.  A byte that was read and not written is
   pending with one thread only, behind everything that thread has written. *)

(* Input bytes come first in a buffer, in the order of the input, none beyond p,
   and stale ones only once p is the end of the input. *)
Sorted(b, p) ==
  \E m \in 0..Len(b) :
    /\ \A k \in 1..Len(b) : b[k] = Stale <=> k > m
    /\ m < Len(b) => p = Len(Input)
    /\ \A k \in 1..m : b[k] <= p /\ \A j \in 1..m : j < k => b[j] < b[k]

(* No byte is pending twice. *)
Apart == \A t, u \in Threads : t # u => Pending(t) \cap Pending(u) = {}

(* What is pending is behind what is written. *)
Ahead ==
  \A t \in Threads : \A p \in Pending(t) : \A j \in DOMAIN out :
    out[j][2] # p /\ (out[j][1] = t => out[j][2] < p)

CopyInv ==
  /\ out \in Seq(Threads \X Positions) /\ dropped \subseteq Positions /\ lines \subseteq SUBSET Positions
  /\ \A j \in DOMAIN out : out[j][2] <= pos
  /\ \A t \in Threads : Sorted(buf[t], pos)
  /\ \A t \in Threads : Pending(t) \subseteq 1..pos
  /\ Apart /\ Ahead /\ BytesOnceInOrder

LEMMA InitCopy == Init => CopyInv
<1> SUFFICES ASSUME Init PROVE CopyInv
  OBVIOUS
<1>1. out = <<>> /\ DOMAIN out = {} /\ lines = {} /\ dropped = {} /\ pos = 0 /\ \A t \in Threads : buf[t] = <<>>
  BY DEF Init
<1>2. \A t \in Threads : Pending(t) = {}
  BY DEF Init, Pending
<1>3. Sorted(<<>>, 0)
  <2>1. Len(<<>>) = 0 /\ 0 \in 0..0
    OBVIOUS
  <2> QED
    BY <2>1 DEF Sorted
<1>4. out \in Seq(Threads \X Positions)
  BY <1>1
<1>5. Apart /\ Ahead
  BY <1>2 DEF Apart, Ahead
<1>6. BytesOnceInOrder
  BY <1>1 DEF BytesOnceInOrder
<1> QED
  BY <1>1, <1>2, <1>3, <1>4, <1>5, <1>6 DEF CopyInv

(* A thread that stays away from a buffer keeps what is pending in it. *)
LEMMA PendingSame ==
  ASSUME NEW u \in Threads, pc'[u] = pc[u], buf'[u] = buf[u]
  PROVE  Pending(u)' = Pending(u)
  BY DEF Pending, Elements

(* Sorting does not depend on how far the input was read, as long as it was read
   further. *)
LEMMA SortedLater ==
  ASSUME NEW b, NEW p \in 0..Len(Input), NEW q \in 0..Len(Input), p <= q,
         b \in Seq(Items), Sorted(b, p)
  PROVE  Sorted(b, q)
<1>1. PICK m \in 0..Len(b) :
        /\ \A k \in 1..Len(b) : b[k] = Stale <=> k > m
        /\ m < Len(b) => p = Len(Input)
        /\ \A k \in 1..m : b[k] <= p /\ \A j \in 1..m : j < k => b[j] < b[k]
  BY DEF Sorted
<1>2. m < Len(b) => q = Len(Input)
  BY <1>1
<1>3. \A k \in 1..m : b[k] <= q
  <2>1. \A k \in 1..m : k \in 1..Len(b)
    OBVIOUS
  <2>2. \A k \in 1..m : b[k] \in Int
    BY <2>1 DEF Items, Positions, Stale
  <2> QED
    BY <1>1, <2>2
<1> QED
  BY <1>1, <1>2, <1>3 DEF Sorted

(* Thread t takes what the input delivers, possibly nothing. *)
LEMMA TakeKeeps ==
  ASSUME CopyInv, LineTypes, LineTypes', NEW t \in Threads,
         out' = out, lines' = lines, dropped' = dropped, pos <= pos',
         \A u \in Threads : u # t => pc'[u] = pc[u] /\ buf'[u] = buf[u],
         Sorted(buf'[t], pos'), Pending(t)' = Pending(t) \cup ((pos + 1)..pos')
  PROVE  CopyInv'
<1>1. pos \in Nat /\ pos' \in Nat /\ pos \in 0..Len(Input) /\ pos' \in 0..Len(Input)
  BY DEF LineTypes
<1>2. \A u \in Threads : u # t => Pending(u)' = Pending(u)
  BY PendingSame
<1>3. \A u \in Threads : Pending(u) \subseteq 1..pos
  BY DEF CopyInv
<1>4. \A j \in DOMAIN out : out[j] \in Threads \X Positions /\ out[j][2] \in Nat /\ out[j][2] <= pos
  <2>1. out \in Seq(Threads \X Positions)
    BY DEF CopyInv
  <2>2. Positions \subseteq Nat
    BY DEF Positions
  <2>3. \A j \in DOMAIN out : out[j] \in Threads \X Positions
    BY <2>1
  <2> QED
    BY <2>2, <2>3 DEF CopyInv
<1>5. \A u \in Threads : Sorted(buf'[u], pos')
  <2> SUFFICES ASSUME NEW u \in Threads, u # t PROVE Sorted(buf'[u], pos')
    OBVIOUS
  <2>1. Sorted(buf[u], pos) /\ buf[u] \in Seq(Items) /\ buf'[u] = buf[u]
    BY DEF CopyInv, LineTypes
  <2> QED
    BY <1>1, <2>1, SortedLater
<1>6. \A u \in Threads : Pending(u)' \subseteq 1..pos'
  BY <1>1, <1>2, <1>3
<1>7. Apart'
  <2> SUFFICES ASSUME NEW u \in Threads, NEW v \in Threads, u # v, NEW p \in Pending(u)', p \in Pending(v)'
               PROVE  FALSE
    BY DEF Apart
  <2>1. \A w \in Threads : w # t => p \notin (pos + 1)..pos' \/ p \notin Pending(w)
    BY <1>1, <1>3
  <2> QED
    BY <1>2, <2>1 DEF CopyInv, Apart
<1>8. Ahead'
  <2> SUFFICES ASSUME NEW u \in Threads, NEW p \in Pending(u)', NEW j \in DOMAIN out
               PROVE  out[j][2] # p /\ (out[j][1] = u => out[j][2] < p)
    BY DEF Ahead
  <2>1. CASE p \in Pending(u)
    BY <2>1 DEF CopyInv, Ahead
  <2>2. CASE p \in (pos + 1)..pos'
    BY <1>1, <1>4, <2>2
  <2> QED
    BY <1>2, <2>1, <2>2
<1>9. BytesOnceInOrder'
  <2>1. ASSUME NEW p \in 1..pos'
        PROVE  \/ \E k \in DOMAIN out' : out'[k][2] = p
               \/ \E u \in Threads : p \in Pending(u)'
               \/ MayBeLost(p)'
    <3>2. CASE p \in 1..pos
      <4>1. \/ \E k \in DOMAIN out : out[k][2] = p
            \/ \E u \in Threads : p \in Pending(u)
            \/ MayBeLost(p)
        BY <3>2 DEF CopyInv, BytesOnceInOrder
      <4>2. MayBeLost(p) => MayBeLost(p)'
        BY DEF MayBeLost
      <4> QED
        BY <1>2, <4>1, <4>2
    <3>3. CASE p \in (pos + 1)..pos'
      BY <3>3
    <3> QED
      BY <1>1, <2>1, <3>2, <3>3
  <2> QED
    BY <2>1 DEF CopyInv, BytesOnceInOrder
<1> QED
  BY <1>4, <1>5, <1>6, <1>7, <1>8, <1>9, <1>1 DEF CopyInv

(* What a write takes from a buffer is a prefix of its input bytes. *)
LEMMA WrittenPrefix ==
  ASSUME NEW t \in Threads, NEW n \in 0..Len(buf[t]), buf[t] \in Seq(Items), Sorted(buf[t], pos)
  PROVE  \E m \in 0..n :
           /\ Written(t, n) = [k \in 1..m |-> <<t, buf[t][k]>>]
           /\ \A k \in 1..m : k \in DOMAIN buf[t] /\ buf[t][k] \in Positions
           /\ \A j, k \in 1..m : j < k => buf[t][j] < buf[t][k]
           /\ \A k \in 1..n : buf[t][k] # Stale => k \in 1..m
<1> DEFINE b == buf[t]
<1>1. PICK r \in 0..Len(b) :
        /\ \A k \in 1..Len(b) : b[k] = Stale <=> k > r
        /\ \A k \in 1..r : \A j \in 1..r : j < k => b[j] < b[k]
  BY DEF Sorted
<1>2. b \in Seq(Items) /\ Len(b) \in Nat /\ DOMAIN b = 1..Len(b) /\ n \in Nat /\ r \in Nat
      /\ n <= Len(b) /\ r <= Len(b) /\ \A k \in 1..Len(b) : b[k] \in Items
  OBVIOUS
<1> HIDE DEF b
<1> DEFINE m == IF r < n THEN r ELSE n
<1>3. m \in 0..n
  BY <1>2
<1>4. {k \in 1..n : b[k] # Stale} = 1..m
  <2>1. \A k \in 1..n : k \in 1..Len(b)
    BY <1>2
  <2>2. \A k \in 1..n : b[k] # Stale <=> ~(k > r)
    BY <1>1, <2>1
  <2>3. \A k \in 1..n : ~(k > r) <=> k \in 1..m
    BY <1>2
  <2>4. \A k \in 1..m : k \in 1..n
    BY <1>2
  <2> HIDE DEF m
  <2> QED
    BY <2>2, <2>3, <2>4
<1>5. Written(t, n) = [k \in 1..m |-> <<t, buf[t][k]>>]
  BY <1>4 DEF Written, b
<1>6. \A k \in 1..m : k \in 1..Len(b) /\ k \in 1..r
  BY <1>2
<1>7. \A k \in 1..m : k \in DOMAIN b /\ b[k] \in Positions
  <2>1. \A k \in 1..m : b[k] # Stale
    BY <1>4
  <2> HIDE DEF m
  <2> QED
    BY <1>2, <1>6, <2>1 DEF Items
<1>8. \A j, k \in 1..m : j < k => b[j] < b[k]
  <2> HIDE DEF m
  <2> QED
    BY <1>1, <1>6
<1>9. \A k \in 1..n : b[k] # Stale => k \in 1..m
  BY <1>4
<1> HIDE DEF m
<1> QED
  BY <1>3, <1>5, <1>7, <1>8, <1>9 DEF b

(* The input bytes in t's buffer that a write of n bytes leaves. *)
Unwritten(t, n) == {buf[t][k] : k \in {k \in DOMAIN buf[t] : n < k}} \ {Stale}

LEMMA Joined ==
  ASSUME NEW S, NEW r \in Seq(S), NEW s \in Seq(S)
  PROVE  /\ r \o s \in Seq(S) /\ Len(r \o s) = Len(r) + Len(s)
         /\ DOMAIN (r \o s) = 1..(Len(r) + Len(s))
         /\ \A j \in 1..Len(r) : (r \o s)[j] = r[j]
         /\ \A k \in 1..Len(s) : (r \o s)[Len(r) + k] = s[k]
  OBVIOUS

(* Thread t writes its buffer, or fails after a part of it. *)
LEMMA WriteKeeps ==
  ASSUME CopyInv, LineTypes, LineTypes', NEW t \in Threads, NEW n \in 0..Len(buf[t]),
         pc[t] \in {"fgets", "fputs", "fputc", "fwrite"},
         out' = out \o Written(t, n), lines \subseteq lines', dropped \subseteq dropped', pos' = pos,
         dropped' \subseteq Positions, lines' \subseteq SUBSET Positions,
         \A u \in Threads : u # t => pc'[u] = pc[u] /\ buf'[u] = buf[u],
         Sorted(buf'[t], pos), Pending(t)' = {},
         \A q \in Unwritten(t, n) : MayBeLost(q)'
  PROVE  CopyInv'
<1> DEFINE b == buf[t]
           w == Written(t, n)
           L == Len(out)
<1>1. b \in Seq(Items) /\ Sorted(b, pos) /\ out \in Seq(Threads \X Positions) /\ pos \in Nat
  BY DEF CopyInv, LineTypes
<1>2. PICK m \in 0..n :
        /\ w = [k \in 1..m |-> <<t, b[k]>>]
        /\ \A k \in 1..m : k \in DOMAIN b /\ b[k] \in Positions
        /\ \A j, k \in 1..m : j < k => b[j] < b[k]
        /\ \A k \in 1..n : b[k] # Stale => k \in 1..m
  BY <1>1, WrittenPrefix
<1> HIDE DEF w, b
<1>3. m \in Nat /\ L \in Nat /\ DOMAIN out = 1..L
  BY <1>1
<1>4. w \in Seq(Threads \X Positions) /\ Len(w) = m
  BY <1>2, <1>3
<1>5. /\ out' \in Seq(Threads \X Positions) /\ DOMAIN out' = 1..(L + m)
      /\ \A j \in 1..L : out'[j] = out[j]
      /\ \A k \in 1..m : out'[L + k] = w[k]
  <2>1. out' = out \o w
    BY DEF w
  <2> HIDE DEF w
  <2>2. out \in Seq(Threads \X Positions) /\ w \in Seq(Threads \X Positions)
    BY <1>1, <1>4
  <2>3. /\ out \o w \in Seq(Threads \X Positions) /\ DOMAIN (out \o w) = 1..(Len(out) + Len(w))
        /\ \A j \in 1..Len(out) : (out \o w)[j] = out[j]
        /\ \A k \in 1..Len(w) : (out \o w)[Len(out) + k] = w[k]
    BY ONLY <2>2, Joined
  <2>4. /\ out' \in Seq(Threads \X Positions) /\ DOMAIN out' = 1..(Len(out) + Len(w))
        /\ \A j \in 1..Len(out) : out'[j] = out[j]
        /\ \A k \in 1..Len(w) : out'[Len(out) + k] = w[k]
    BY <2>1, <2>3, Zenon
  <2> QED
    BY <1>4, <2>4
<1>6. \A k \in 1..m : out'[L + k][1] = t /\ out'[L + k][2] = b[k]
  BY <1>2, <1>5
<1>7. \A j \in 1..(L + m) : j \in 1..L \/ \E k \in 1..m : j = L + k
  <2> SUFFICES ASSUME NEW j \in 1..(L + m), j \notin 1..L PROVE \E k \in 1..m : j = L + k
    OBVIOUS
  <2>1. j - L \in 1..m /\ j = L + (j - L)
    BY <1>3
  <2> QED
    BY <2>1
<1>8. \A k \in 1..m : b[k] \in Pending(t) /\ b[k] \in Nat
  <2>1. 0 \notin Positions /\ Positions \subseteq Nat
    BY DEF Positions
  <2>2. Pending(t) = {b[k] : k \in DOMAIN b} \ {0}
    BY DEF Pending, Elements, Stale, b
  <2>3. \A k \in 1..m : k \in DOMAIN b /\ b[k] \in Positions
    BY <1>2
  <2> QED
    BY <2>1, <2>2, <2>3
<1>9. \A u \in Threads : u # t => Pending(u)' = Pending(u)
  BY PendingSame
<1>10. \A j \in DOMAIN out : out[j][2] \in Nat
  <2>1. Positions \subseteq Nat
    BY DEF Positions
  <2>2. \A j \in DOMAIN out : out[j] \in Threads \X Positions
    BY <1>1
  <2> QED
    BY <2>1, <2>2
<1> HIDE DEF L
<1>11. \A j \in DOMAIN out' : out'[j][2] <= pos
  <2>1. \A k \in 1..m : b[k] <= pos
    BY <1>1, <1>8 DEF CopyInv
  <2>2. \A j \in 1..L : out[j][2] <= pos
    BY <1>3 DEF CopyInv
  <2> QED
    <3> SUFFICES ASSUME NEW j \in 1..(L + m) PROVE out'[j][2] <= pos
      BY <1>5
    <3>1. CASE j \in 1..L
      BY <1>5, <2>2, <3>1
    <3>2. ASSUME NEW k \in 1..m, j = L + k PROVE out'[j][2] <= pos
      BY <1>6, <2>1, <3>2
    <3> QED
      BY <1>7, <3>1, <3>2
<1>12. \A u \in Threads : Sorted(buf'[u], pos') /\ Pending(u)' \subseteq 1..pos'
  BY <1>9 DEF CopyInv
<1>13. Apart'
  BY <1>9 DEF CopyInv, Apart
<1>14. Ahead'
  <2> SUFFICES ASSUME NEW u \in Threads, NEW p \in Pending(u)', NEW j \in DOMAIN out'
               PROVE  out'[j][2] # p /\ (out'[j][1] = u => out'[j][2] < p)
    BY DEF Ahead
  <2>1. u # t /\ p \in Pending(u)
    BY <1>9
  <2>2. CASE j \in 1..L
    BY <1>3, <1>5, <2>1, <2>2 DEF CopyInv, Ahead
  <2>3. ASSUME NEW k \in 1..m, j = L + k PROVE out'[j][1] = t /\ out'[j][2] # p
    <3>1. out'[j][1] = t /\ out'[j][2] = b[k] /\ b[k] \in Pending(t)
      BY <1>6, <1>8, <2>3
    <3>2. Pending(t) \cap Pending(u) = {}
      BY <2>1 DEF CopyInv, Apart
    <3> QED
      BY <2>1, <3>1, <3>2
  <2> QED
    BY <1>5, <1>7, <2>1, <2>2, <2>3
<1>15. ASSUME NEW j \in DOMAIN out', NEW k \in DOMAIN out', j < k
       PROVE  out'[j][2] # out'[k][2] /\ (out'[j][1] = out'[k][1] => out'[j][2] < out'[k][2])
  <2>1. CASE k \in 1..L
    <3>1. j \in 1..L
      BY <1>3, <1>5, <1>15, <2>1
    <3> QED
      BY <1>3, <1>5, <1>15, <2>1, <3>1 DEF CopyInv, BytesOnceInOrder
  <2>2. CASE j \in 1..L /\ k \notin 1..L
    <3>1. PICK i \in 1..m : k = L + i
      BY <1>5, <1>7, <2>2
    <3>2. out[j][2] # b[i] /\ (out[j][1] = t => out[j][2] < b[i])
      BY <1>3, <1>8, <2>2 DEF CopyInv, Ahead
    <3> QED
      BY <1>5, <1>6, <2>2, <3>1, <3>2
  <2>3. CASE j \notin 1..L /\ k \notin 1..L
    <3>1. PICK h \in 1..m : j = L + h
      BY <1>5, <1>7, <2>3
    <3>2. PICK i \in 1..m : k = L + i
      BY <1>5, <1>7, <2>3
    <3>3. h < i
      BY <1>3, <1>15, <3>1, <3>2
    <3>4. b[h] < b[i] /\ b[h] \in Nat /\ b[i] \in Nat
      BY <1>2, <1>8, <3>3
    <3>5. b[h] # b[i]
      BY <3>4
    <3> QED
      BY <1>6, <3>1, <3>2, <3>4, <3>5
  <2> QED
    BY <2>1, <2>2, <2>3
<1>16. ASSUME NEW p \in 1..pos'
       PROVE  \/ \E k \in DOMAIN out' : out'[k][2] = p
              \/ \E u \in Threads : p \in Pending(u)'
              \/ MayBeLost(p)'
  <2>1. \/ \E k \in DOMAIN out : out[k][2] = p
        \/ \E u \in Threads : p \in Pending(u)
        \/ MayBeLost(p)
    BY <1>16 DEF CopyInv, BytesOnceInOrder
  <2>2. MayBeLost(p) => MayBeLost(p)'
    BY DEF MayBeLost
  <2>3. ASSUME NEW k \in 1..L, out[k][2] = p PROVE k \in DOMAIN out' /\ out'[k][2] = p
    BY <1>3, <1>5, <2>3
  <2>4. ASSUME p \in Pending(t) PROVE (\E k \in DOMAIN out' : out'[k][2] = p) \/ MayBeLost(p)'
    <3>1. PICK k \in DOMAIN b : b[k] = p /\ b[k] # Stale
      BY <2>4 DEF Pending, Elements, b
    <3>2. CASE n < k
      <4>1. p \in Unwritten(t, n)
        BY <3>1, <3>2 DEF Unwritten, b
      <4> QED
        BY <4>1
    <3>3. CASE ~(n < k)
      <4>1. DOMAIN b = 1..Len(b) /\ n \in Nat
        BY <1>1 DEF b
      <4>2. k \in 1..n
        BY <3>3, <4>1
      <4>3. k \in 1..m
        BY <1>2, <3>1, <4>2
      <4>4. L + k \in DOMAIN out'
        BY <1>3, <1>5, <4>3
      <4> QED
        BY <1>6, <3>1, <4>3, <4>4
    <3> QED
      BY <3>2, <3>3
  <2>5. ASSUME NEW u \in Threads, u # t, p \in Pending(u) PROVE p \in Pending(u)'
    BY <1>9, <2>5
  <2> QED
    BY <1>3, <2>1, <2>2, <2>3, <2>4, <2>5
<1>17. BytesOnceInOrder'
  BY <1>15, <1>16 DEF BytesOnceInOrder
<1> QED
  BY <1>5, <1>11, <1>12, <1>13, <1>14, <1>17 DEF CopyInv

-----------------------------------------------------------------------------
(* What is pending with t, from its point and its buffer. *)
LEMMA PendingIs ==
  ASSUME NEW t \in Threads, pc'[t] \in {"fgets", "fputs", "fputc", "fwrite"}
  PROVE  Pending(t)' = {buf'[t][k] : k \in DOMAIN buf'[t]} \ {Stale}
  BY DEF Pending, Elements

LEMMA EmptySorted == ASSUME NEW p PROVE Sorted(<<>>, p)
<1>1. Len(<<>>) = 0 /\ 0 \in 0..0 /\ 1..0 = {}
  OBVIOUS
<1> QED
  BY <1>1 DEF Sorted

(* Steps in which a thread keeps or gives up its buffer without a system call that
   moves bytes. *)
LEMMA IdleCopy ==
  ASSUME CopyInv, LineTypes, LineTypes', NEW t \in Threads,
         \/ \E n \in Sizes : FgetsCall(t, n)
         \/ FgetsReadFails(t) \/ FgetsReturn(t) \/ FputsNewline(t) \/ FgetcFails(t) \/ FreadFails(t)
  PROVE  CopyInv'
<1>1. pos \in Nat /\ pc \in [Threads -> {"top", "fgets", "fputs", "newline", "fputc", "fwrite", "done", "panicked"}]
      /\ buf \in [Threads -> Seq(Items)] /\ Sorted(buf[t], pos)
  BY DEF LineTypes, CopyInv
<1>2. (pos + 1)..pos = {}
  BY <1>1
<1>3. ASSUME NEW p, pc' = [pc EXCEPT ![t] = p], buf' = buf \/ buf' = [buf EXCEPT ![t] = <<>>]
      PROVE  /\ pc'[t] = p /\ (buf'[t] = buf[t] \/ buf'[t] = <<>>)
             /\ \A u \in Threads : u # t => pc'[u] = pc[u] /\ buf'[u] = buf[u]
             /\ Sorted(buf'[t], pos)
  BY <1>1, <1>3, EmptySorted
<1>4. ASSUME pos' = pos, out' = out, lines' = lines, dropped' = dropped,
              \A u \in Threads : u # t => pc'[u] = pc[u] /\ buf'[u] = buf[u],
              Sorted(buf'[t], pos), Pending(t)' = Pending(t)
       PROVE  CopyInv'
  <2>1. pos <= pos' /\ Sorted(buf'[t], pos') /\ Pending(t)' = Pending(t) \cup ((pos + 1)..pos')
    BY <1>1, <1>2, <1>4
  <2> QED
    BY <1>4, <2>1, TakeKeeps
<1>5. CASE FgetsReadFails(t) \/ FgetsReturn(t)
  <2>1. pc[t] = "fgets" /\ pc' = [pc EXCEPT ![t] = "fputs"] /\ buf' = buf /\ pos' = pos /\ out' = out
        /\ lines' = lines /\ dropped' = dropped
    BY <1>5 DEF FgetsReadFails, FgetsReturn, Goto, history
  <2>2. pc'[t] = "fputs"
    BY <1>1, <2>1
  <2>3. Pending(t)' = Pending(t)
    BY <2>1, <2>2 DEF Pending, Elements
  <2>4. /\ \A u \in Threads : u # t => pc'[u] = pc[u] /\ buf'[u] = buf[u]
        /\ Sorted(buf'[t], pos)
    BY <1>3, <2>1
  <2> QED
    BY <1>4, <2>1, <2>3, <2>4
<1>6. ASSUME NEW p \in {"fgets", "top", "panicked", "done"}, pc[t] \in {"top", "newline"},
             pc' = [pc EXCEPT ![t] = p], buf' = buf \/ buf' = [buf EXCEPT ![t] = <<>>],
             p = "fgets" => buf' = [buf EXCEPT ![t] = <<>>],
             pos' = pos, out' = out, lines' = lines, dropped' = dropped
      PROVE  CopyInv'
  <2>1. Pending(t) = {}
    BY <1>6 DEF Pending
  <2>2. Pending(t)' = {}
    <3>1. pc'[t] = p /\ (p = "fgets" => buf'[t] = <<>>)
      BY <1>1, <1>6
    <3> QED
      BY <1>6, <3>1 DEF Pending, Elements
  <2>3. /\ \A u \in Threads : u # t => pc'[u] = pc[u] /\ buf'[u] = buf[u]
        /\ Sorted(buf'[t], pos)
    <3>1. buf' = buf \/ buf' = [buf EXCEPT ![t] = <<>>]
      BY <1>6
    <3> QED
      BY <1>3, <1>6, <3>1
  <2> QED
    BY <1>4, <1>6, <2>1, <2>2, <2>3
<1>7. ASSUME NEW n \in Sizes, FgetsCall(t, n) PROVE CopyInv'
  <2>1. PICK p \in {"panicked", "fgets"} : pc' = [pc EXCEPT ![t] = p]
    BY <1>7 DEF FgetsCall, Goto
  <2>2. /\ pc[t] = "top" /\ buf' = [buf EXCEPT ![t] = <<>>] /\ pos' = pos /\ out' = out
        /\ lines' = lines /\ dropped' = dropped
    BY <1>7 DEF FgetsCall, Empty, history
  <2> QED
    BY <1>6, <2>1, <2>2
<1>8. CASE FputsNewline(t)
  BY <1>6, <1>8 DEF FputsNewline, Goto, Empty, history
<1>9. CASE FgetcFails(t) \/ FreadFails(t)
  <2>1. PICK p \in {"panicked", "done"} : pc' = [pc EXCEPT ![t] = p]
    BY <1>9 DEF FgetcFails, FreadFails, Goto
  <2>2. /\ pc[t] = "top" /\ buf' = buf /\ pos' = pos /\ out' = out
        /\ lines' = lines /\ dropped' = dropped
    BY <1>9 DEF FgetcFails, FreadFails, history
  <2> QED
    BY <1>6, <2>1, <2>2
<1> QED
  BY <1>5, <1>7, <1>8, <1>9

(* Steps that write. *)
LEMMA WritingCopy ==
  ASSUME CopyInv, LineTypes, LineTypes', StringInv, NEW t \in Threads,
         \/ FputsString(t) \/ Fputc(t) \/ Fwrite(t) \/ FputcFails(t)
         \/ \E n \in 0..Len(buf[t]) : FputsStringFails(t, n) \/ FwriteFails(t, n)
  PROVE  CopyInv'
<1>1. /\ pc \in [Threads -> {"top", "fgets", "fputs", "newline", "fputc", "fwrite", "done", "panicked"}]
      /\ buf \in [Threads -> Seq(Items)] /\ Sorted(buf[t], pos)
      /\ dropped \subseteq Positions /\ lines \subseteq SUBSET Positions
  BY DEF LineTypes, CopyInv
<1>2. /\ Len(buf[t]) \in Nat /\ Len(buf[t]) \in 0..Len(buf[t]) /\ 0 \in 0..Len(buf[t])
      /\ strlen[t] \in 0..Len(buf[t]) /\ DOMAIN buf[t] = 1..Len(buf[t])
  BY <1>1 DEF StringInv
<1> DEFINE held == Elements(buf[t]) \ {Stale}
<1>3. held \subseteq Positions /\ \A k \in DOMAIN buf[t] : buf[t][k] # Stale => buf[t][k] \in held
  <2>1. \A k \in DOMAIN buf[t] : buf[t][k] \in Items
    BY <1>1
  <2> QED
    BY <2>1 DEF Elements, Items
(* What every such step does, with n bytes written. *)
<1>4. ASSUME NEW n \in 0..Len(buf[t]), NEW p \in {"newline", "top"},
             pc[t] \in {"fputs", "fputc", "fwrite"}, pc' = [pc EXCEPT ![t] = p],
             buf' = buf \/ buf' = [buf EXCEPT ![t] = <<>>],
             out' = out \o Written(t, n), pos' = pos,
             lines' \in {lines, lines \cup {held}}, dropped' \in {dropped, dropped \cup held},
             \A q \in Unwritten(t, n) : MayBeLost(q)'
      PROVE  CopyInv'
  <2>1. pc'[t] = p /\ \A u \in Threads : u # t => pc'[u] = pc[u] /\ buf'[u] = buf[u]
    BY <1>1, <1>4
  <2>2. Pending(t)' = {}
    BY <1>4, <2>1 DEF Pending
  <2>3. Sorted(buf'[t], pos)
    <3>1. buf'[t] = buf[t] \/ buf'[t] = <<>>
      BY <1>1, <1>4
    <3> QED
      BY <1>1, <3>1, EmptySorted
  <2> HIDE DEF held
  <2>4. lines \subseteq lines' /\ lines' \subseteq SUBSET Positions
    BY <1>1, <1>3, <1>4
  <2>5. dropped \subseteq dropped' /\ dropped' \subseteq Positions
    BY <1>1, <1>3, <1>4
  <2> QED
    BY <1>4, <2>1, <2>2, <2>3, <2>4, <2>5, WriteKeeps
(* A failing write: everything the buffer held is excused. *)
<1>5. ASSUME NEW n \in 0..Len(buf[t]), pc[t] \in {"fputs", "fputc", "fwrite"},
             pc' = [pc EXCEPT ![t] = "top"], buf' = [buf EXCEPT ![t] = <<>>],
             out' = out \o Written(t, n), pos' = pos, lines' = lines, dropped' = dropped \cup held
      PROVE  CopyInv'
  <2>1. \A q \in Unwritten(t, n) : MayBeLost(q)'
    <3> SUFFICES ASSUME NEW q \in held PROVE MayBeLost(q)'
      BY <1>3 DEF Unwritten
    <3> HIDE DEF held
    <3> QED
      BY <1>5 DEF MayBeLost
  <2> HIDE DEF held
  <2> QED
    BY <1>4, <1>5, <2>1
<1>6. CASE FputsString(t)
  <2> DEFINE b == buf[t]
  <2>1. /\ pc[t] = "fputs" /\ pc' = [pc EXCEPT ![t] = "newline"] /\ buf' = buf /\ pos' = pos
        /\ out' = out \o Written(t, strlen[t]) /\ lines' = lines \cup {held} /\ dropped' = dropped
    BY <1>6 DEF FputsString, Goto
  <2>2. PICK m \in 0..Len(b) :
          /\ \A k \in 1..Len(b) : b[k] = Stale <=> k > m
          /\ \A k \in 1..m : \A j \in 1..m : j < k => b[j] < b[k]
    BY <1>1 DEF Sorted
  <2>3. ASSUME NEW k \in DOMAIN b, b[k] # Stale, strlen[t] < k
        PROVE  b[k] \in held /\ \E q \in held : q <= b[k] /\ Input[q] = NUL
    <3> DEFINE i == strlen[t] + 1
    <3>1. k \in 1..Len(b) /\ k \in Nat /\ i \in Nat /\ Len(b) \in Nat /\ m \in Nat /\ i <= k
      BY <1>2, <2>3
    <3>2. k \in 1..m
      BY <2>2, <2>3, <3>1
    <3> HIDE DEF i, b
    <3>3. i \in 1..m /\ i \in 1..Len(b)
      BY <1>2, <3>1, <3>2 DEF i
    <3>4. b[i] # Stale
      BY <2>2, <3>1, <3>3
    <3>5. Input[b[i]] = NUL
      <4>1. strlen[t] < Len(b)
        BY <1>2, <3>1, <3>3 DEF i
      <4> QED
        BY <2>1, <3>4, <4>1 DEF StringInv, StringEnd, i, b
    <3>6. b[i] \in held /\ b[k] \in held
      BY <1>2, <1>3, <2>3, <3>3, <3>4 DEF b
    <3> HIDE DEF held
    <3>7. b[i] <= b[k]
      <4>1. b[i] \in Nat /\ b[k] \in Nat
        BY <1>3, <3>6 DEF Positions
      <4>2. i = k \/ i < k
        BY <3>1
      <4>3. i < k => b[i] < b[k]
        BY <2>2, <3>2, <3>3
      <4> QED
        BY <4>1, <4>2, <4>3
    <3> QED
      BY <3>5, <3>6, <3>7
  <2> HIDE DEF held, b
  <2>4. \A q \in Unwritten(t, strlen[t]) : MayBeLost(q)'
    <3> SUFFICES ASSUME NEW r, r \in held, \E q \in held : q <= r /\ Input[q] = NUL
                 PROVE  MayBeLost(r)'
      BY <2>3 DEF Unwritten, b
    <3>1. held \in lines'
      BY <2>1
    <3> QED
      BY <3>1 DEF MayBeLost
  <2> QED
    BY <1>2, <1>4, <2>1, <2>4
<1>7. CASE Fputc(t) \/ Fwrite(t)
  <2>1. /\ pc[t] \in {"fputc", "fwrite"} /\ pc' = [pc EXCEPT ![t] = "top"]
        /\ buf' = [buf EXCEPT ![t] = <<>>] /\ pos' = pos
        /\ out' = out \o Written(t, Len(buf[t])) /\ lines' = lines /\ dropped' = dropped
    BY <1>7 DEF Fputc, Fwrite, WriteAll, Goto, Empty, history
  <2>2. Unwritten(t, Len(buf[t])) = {}
    BY <1>2 DEF Unwritten
  <2> HIDE DEF held
  <2> QED
    BY <1>2, <1>4, <2>1, <2>2
<1>8. CASE FputcFails(t)
  <2>1. /\ pc[t] = "fputc" /\ pc' = [pc EXCEPT ![t] = "top"] /\ buf' = [buf EXCEPT ![t] = <<>>]
        /\ pos' = pos /\ out' = out \o Written(t, 0) /\ lines' = lines /\ dropped' = dropped \cup held
    BY <1>8 DEF FputcFails, WriteSome, Goto, Empty
  <2> HIDE DEF held
  <2> QED
    BY <1>2, <1>5, <2>1
<1>9. ASSUME NEW n \in 0..Len(buf[t]), FputsStringFails(t, n) \/ FwriteFails(t, n) PROVE CopyInv'
  <2>1. /\ pc[t] \in {"fputs", "fwrite"} /\ pc' = [pc EXCEPT ![t] = "top"]
        /\ buf' = [buf EXCEPT ![t] = <<>>] /\ pos' = pos
        /\ out' = out \o Written(t, n) /\ lines' = lines /\ dropped' = dropped \cup held
    BY <1>9 DEF FputsStringFails, FwriteFails, WriteSome, Goto, Empty
  <2> HIDE DEF held
  <2> QED
    BY <1>5, <2>1
<1> QED
  BY <1>6, <1>7, <1>8, <1>9

(* Steps that read. *)
LEMMA ReadingCopy ==
  ASSUME CopyInv, LineTypes, LineTypes', NEW t \in Threads,
         \/ \E item \in Items, byte \in Bytes : FgetsByte(t, item, byte) \/ Fgetc(t, item, byte)
         \/ \E n \in 0..BlockSize : Fread(t, n)
  PROVE  CopyInv'
<1>1. /\ pc \in [Threads -> {"top", "fgets", "fputs", "newline", "fputc", "fwrite", "done", "panicked"}]
      /\ buf \in [Threads -> Seq(Items)] /\ Sorted(buf[t], pos)
      /\ pos \in 0..Len(Input) /\ Len(Input) \in Nat /\ pos \in Nat
  BY DEF LineTypes, CopyInv
<1>2. ASSUME NEW n \in 0..BlockSize, Fread(t, n) PROVE CopyInv'
  <2> DEFINE b == [k \in 1..n |-> pos + k]
  <2>1. n \in Nat /\ pos' = pos + n /\ pc[t] = "top"
    BY <1>2 DEF Fread
  <2>2. b \in Seq(Nat) /\ Len(b) = n /\ \A k \in 1..n : b[k] = pos + k
    BY <1>1, <2>1
  <2>3. /\ pc' = [pc EXCEPT ![t] = IF n = 0 THEN "done" ELSE "fwrite"]
        /\ buf' = [buf EXCEPT ![t] = b] /\ out' = out /\ lines' = lines /\ dropped' = dropped
    BY <1>2 DEF Fread, Goto, history
  <2> HIDE DEF b
  <2>4. /\ pc'[t] = (IF n = 0 THEN "done" ELSE "fwrite") /\ buf'[t] = b
        /\ \A u \in Threads : u # t => pc'[u] = pc[u] /\ buf'[u] = buf[u]
    BY <1>1, <2>3
  <2>5. Sorted(b, pos')
    <3>1. n \in 0..Len(b) /\ ~(n < Len(b))
      BY <2>1, <2>2
    <3>2. \A k \in 1..Len(b) : b[k] = Stale <=> k > n
      BY <1>1, <2>1, <2>2 DEF Stale
    <3>3. \A k \in 1..n : b[k] <= pos' /\ \A j \in 1..n : j < k => b[j] < b[k]
      BY <1>1, <2>1, <2>2
    <3> QED
      BY <3>1, <3>2, <3>3 DEF Sorted
  <2>6. Pending(t)' = Pending(t) \cup ((pos + 1)..pos')
    <3>1. Pending(t) = {}
      BY <2>1 DEF Pending
    <3>2. CASE n = 0
      <4>1. (pos + 1)..pos' = {}
        BY <1>1, <2>1, <3>2
      <4> QED
        BY <2>4, <3>1, <3>2, <4>1 DEF Pending
    <3>3. CASE n # 0
      <4>1. Pending(t)' = {b[k] : k \in DOMAIN b} \ {Stale}
        BY <2>4, <3>3, PendingIs
      <4>2. {b[k] : k \in DOMAIN b} = (pos + 1)..pos'
        <5>1. DOMAIN b = 1..n
          BY <2>2
        <5>2. \A k \in 1..n : b[k] \in (pos + 1)..pos'
          BY <1>1, <2>1, <2>2
        <5>3. ASSUME NEW p \in (pos + 1)..pos' PROVE \E k \in 1..n : b[k] = p
          <6>1. p - pos \in 1..n /\ pos + (p - pos) = p
            BY <1>1, <2>1
          <6> QED
            BY <2>2, <6>1
        <5> QED
          BY <5>1, <5>2, <5>3
      <4>3. Stale \notin (pos + 1)..pos'
        BY <1>1 DEF Stale
      <4> QED
        BY <3>1, <4>1, <4>2, <4>3
    <3> QED
      BY <3>2, <3>3
  <2>7. pos <= pos'
    BY <1>1, <2>1
  <2> QED
    BY <1>1, <2>3, <2>4, <2>5, <2>6, <2>7, TakeKeeps
(* One byte behind what the buffer holds. *)
<1>3. ASSUME NEW old \in Seq(Items), Sorted(old, pos), NEW item \in Items, NEW byte,
             NEW p \in {"fgets", "fputc"}, ReadByte(item, byte),
             pc' = [pc EXCEPT ![t] = p], buf' = [buf EXCEPT ![t] = Append(old, item)],
             Pending(t) = {old[k] : k \in DOMAIN old} \ {Stale}, out' = out, lines' = lines, dropped' = dropped
      PROVE  CopyInv'
  <2> DEFINE b == Append(old, item)
  <2>1. pc'[t] = p /\ buf'[t] = b /\ \A u \in Threads : u # t => pc'[u] = pc[u] /\ buf'[u] = buf[u]
    BY <1>1, <1>3
  <2>2. /\ Len(old) \in Nat /\ DOMAIN old = 1..Len(old) /\ DOMAIN b = 1..(Len(old) + 1)
        /\ Len(b) = Len(old) + 1 /\ b[Len(old) + 1] = item
        /\ \A k \in 1..Len(old) : b[k] = old[k]
    BY <1>3
  <2>3. \A k \in 1..Len(old) : old[k] \in Nat
    <3>1. Items \subseteq Nat
      BY DEF Items, Positions, Stale
    <3>2. \A k \in 1..Len(old) : old[k] \in Items
      OBVIOUS
    <3> QED
      BY <3>1, <3>2
  <2>4. PICK m \in 0..Len(old) :
          /\ \A k \in 1..Len(old) : old[k] = Stale <=> k > m
          /\ m < Len(old) => pos = Len(Input)
          /\ \A k \in 1..m : old[k] <= pos /\ \A j \in 1..m : j < k => old[j] < old[k]
    BY <1>3 DEF Sorted
  <2>5. Pending(t)' = {b[k] : k \in DOMAIN b} \ {Stale}
    <3>1. pc'[t] \in {"fgets", "fputs", "fputc", "fwrite"}
      BY <2>1
    <3>2. Pending(t)' = {buf'[t][k] : k \in DOMAIN buf'[t]} \ {Stale}
      BY <3>1, PendingIs
    <3> HIDE DEF b
    <3> QED
      BY <2>1, <3>2
  <2> HIDE DEF b
  <2>6. {b[k] : k \in DOMAIN b} = {old[k] : k \in DOMAIN old} \cup {item}
    <3>1. \A k \in 1..(Len(old) + 1) : k \in 1..Len(old) \/ k = Len(old) + 1
      BY <2>2
    <3>2. Len(old) + 1 \in 1..(Len(old) + 1) /\ \A k \in 1..Len(old) : k \in 1..(Len(old) + 1)
      BY <2>2
    <3> QED
      BY <2>2, <3>1, <3>2
  <2>7. CASE pos < Len(Input) /\ item = pos + 1 /\ pos' = pos + 1
    <3>1. m = Len(old)
      <4>1. m < Len(old) => pos = Len(Input)
        BY <2>4
      <4>2. pos # Len(Input)
        BY <1>1, <2>7
      <4>3. Len(old) \in Nat
        BY <2>2
      <4> QED
        BY <4>1, <4>2, <4>3
    <3>2. Sorted(b, pos')
      <4>1. m + 1 \in 0..Len(b) /\ ~(m + 1 < Len(b))
        BY <2>2, <3>1
      <4>2. \A k \in 1..Len(b) : b[k] # Stale /\ ~(k > m + 1)
        <5>1. \A k \in 1..Len(b) : (k \in 1..Len(old) /\ ~(k > m)) \/ k = Len(old) + 1
          BY <2>2, <3>1
        <5>2. item # Stale
          BY <1>1, <2>7 DEF Stale
        <5>3. \A k \in 1..Len(b) : b[k] # Stale
          BY <2>2, <2>4, <5>1, <5>2
        <5> QED
          BY <2>2, <3>1, <5>3
      <4>3. \A k \in 1..m : b[k] = old[k] /\ b[k] \in Nat /\ b[k] <= pos
        BY <2>2, <2>3, <2>4, <3>1
      <4>4. b[m + 1] = pos + 1
        BY <2>2, <2>7, <3>1
      <4>5. \A k \in 1..(m + 1) : k \in 1..m \/ k = m + 1
        BY <2>2, <3>1
      <4>6. \A k \in 1..(m + 1) : b[k] <= pos'
        <5>1. \A x \in Nat : x <= pos => x <= pos'
          BY <1>1, <2>7
        <5>2. b[m + 1] <= pos'
          BY <1>1, <2>7, <4>4
        <5> QED
          BY <4>3, <4>5, <5>1, <5>2
      <4>7. ASSUME NEW k \in 1..(m + 1), NEW j \in 1..(m + 1), j < k PROVE b[j] < b[k]
        <5>1. j \in 1..m
          BY <2>2, <3>1, <4>7
        <5>2. CASE k \in 1..m
          BY <2>4, <4>3, <4>7, <5>1, <5>2
        <5>3. CASE k = m + 1
          BY <1>1, <4>3, <4>4, <5>1, <5>3
        <5> QED
          BY <4>5, <5>2, <5>3
      <4> QED
        BY <4>1, <4>2, <4>6, <4>7 DEF Sorted
    <3>3. (pos + 1)..pos' = {item} /\ item # Stale
      BY <1>1, <2>7 DEF Stale
    <3>4. Pending(t)' = Pending(t) \cup ((pos + 1)..pos')
      BY <1>3, <2>5, <2>6, <3>3
    <3>5. pos <= pos'
      BY <1>1, <2>7
    <3> QED
      BY <1>1, <1>3, <2>1, <3>2, <3>4, <3>5, TakeKeeps
  <2>8. CASE pos = Len(Input) /\ item = Stale /\ pos' = pos
    <3>1. Sorted(b, pos')
      <4>1. m \in 0..Len(b)
        BY <2>2
      <4>2. \A k \in 1..Len(b) : b[k] = Stale <=> k > m
        <5>1. \A k \in 1..Len(b) : k \in 1..Len(old) \/ (k = Len(old) + 1 /\ k > m)
          BY <2>2
        <5> QED
          BY <2>2, <2>4, <2>8, <5>1
      <4>3. \A k \in 1..m : b[k] = old[k]
        BY <2>2
      <4> QED
        BY <2>4, <2>8, <4>1, <4>2, <4>3 DEF Sorted
    <3>2. (pos + 1)..pos' = {}
      BY <1>1, <2>8
    <3>3. Pending(t)' = Pending(t) \cup ((pos + 1)..pos')
      BY <1>3, <2>5, <2>6, <2>8, <3>2
    <3>4. pos <= pos'
      BY <1>1, <2>8
    <3> QED
      BY <1>1, <1>3, <2>1, <3>1, <3>3, <3>4, TakeKeeps
  <2> QED
    BY <1>3, <2>7, <2>8 DEF ReadByte
<1>4. ASSUME NEW item \in Items, NEW byte \in Bytes, FgetsByte(t, item, byte) PROVE CopyInv'
  <2>1. /\ pc[t] = "fgets" /\ pc' = [pc EXCEPT ![t] = "fgets"] /\ ReadByte(item, byte)
        /\ buf' = [buf EXCEPT ![t] = Append(buf[t], item)] /\ out' = out /\ lines' = lines /\ dropped' = dropped
    BY <1>1, <1>4 DEF FgetsByte, Store, history
  <2>2. Pending(t) = {buf[t][k] : k \in DOMAIN buf[t]} \ {Stale}
    BY <2>1 DEF Pending, Elements
  <2>3. buf[t] \in Seq(Items)
    BY <1>1
  <2> QED
    BY <1>1, <1>3, <2>1, <2>2, <2>3
<1>5. ASSUME NEW item \in Items, NEW byte \in Bytes, Fgetc(t, item, byte) PROVE CopyInv'
  <2>1. /\ pc[t] = "top" /\ pc' = [pc EXCEPT ![t] = "fputc"] /\ ReadByte(item, byte)
        /\ buf' = [buf EXCEPT ![t] = <<item>>] /\ out' = out /\ lines' = lines /\ dropped' = dropped
    BY <1>5 DEF Fgetc, Goto, history
  <2>2. <<item>> = Append(<<>>, item) /\ <<>> \in Seq(Items) /\ DOMAIN <<>> = {}
    OBVIOUS
  <2>3. Pending(t) = {}
    BY <2>1 DEF Pending
  <2>4. {<<>>[k] : k \in DOMAIN <<>>} \ {Stale} = {}
    BY <2>2
  <2>5. buf' = [buf EXCEPT ![t] = Append(<<>>, item)]
    BY <2>1, <2>2
  <2> QED
    BY <1>3, <2>1, <2>2, <2>3, <2>4, <2>5, EmptySorted
<1> QED
  BY <1>2, <1>4, <1>5

LEMMA CopyAlways == Spec => []CopyInv
<1>1. LineInv /\ LineInv' /\ StringInv /\ CopyInv /\ [Next]_vars => CopyInv'
  <2> SUFFICES ASSUME LineInv, LineInv', StringInv, CopyInv, [Next]_vars PROVE CopyInv'
    OBVIOUS
  <2>1. LineTypes /\ LineTypes'
    BY DEF LineInv
  <2>2. CASE UNCHANGED vars
    <3>1. pos' = pos /\ pc' = pc /\ buf' = buf /\ out' = out /\ lines' = lines /\ dropped' = dropped
      BY <2>2 DEF vars
    <3>2. \A t \in Threads : Pending(t)' = Pending(t)
      BY <3>1, PendingSame
    <3>3. Apart' /\ Ahead'
      BY <3>1, <3>2 DEF CopyInv, Apart, Ahead
    <3>4. BytesOnceInOrder'
      BY <3>1, <3>2 DEF CopyInv, BytesOnceInOrder, MayBeLost
    <3> QED
      BY <3>1, <3>2, <3>3, <3>4 DEF CopyInv
  <2>3. ASSUME NEW t \in Threads, Works(t) \/ Fails(t) PROVE CopyInv'
    <3>1. CASE \/ \E n \in Sizes : FgetsCall(t, n)
               \/ FgetsReadFails(t) \/ FgetsReturn(t) \/ FputsNewline(t) \/ FgetcFails(t) \/ FreadFails(t)
      BY <2>1, <3>1, IdleCopy
    <3>2. CASE \/ FputsString(t) \/ Fputc(t) \/ Fwrite(t) \/ FputcFails(t)
               \/ \E n \in 0..Len(buf[t]) : FputsStringFails(t, n) \/ FwriteFails(t, n)
      BY <2>1, <3>2, WritingCopy
    <3>3. CASE \/ \E item \in Items, byte \in Bytes : FgetsByte(t, item, byte) \/ Fgetc(t, item, byte)
               \/ \E n \in 0..BlockSize : Fread(t, n)
      BY <2>1, <3>3, ReadingCopy
    <3> QED
      BY <2>3, <3>1, <3>2, <3>3 DEF Works, Fails
  <2> QED
    BY <2>2, <2>3 DEF Next
<1> QED
  BY <1>1, InitCopy, LineAlways, StringAlways, PTL DEF Spec

(* Positions, points and buffers keep their types: every item in a buffer and every
   byte written is a position of the input or, in a buffer, the stale byte. *)
THEOREM LineTypeCorrect == Spec => []TypeOK
<1>1. LineInv /\ StringInv /\ CopyInv => TypeOK
  BY DEF LineInv, LineTypes, StringInv, CopyInv, TypeOK
<1> QED
  BY <1>1, LineAlways, StringAlways, CopyAlways, PTL

(* However many threads copy the stream byte by byte, line by line or in blocks, no
   byte is written twice, each thread writes in the order of the input, and a byte
   is lost only with a buffer whose own write failed, or at or behind a NUL in a
   line that fputs was given. *)
THEOREM LineBytesOnce == Spec => []BytesOnceInOrder
<1>1. CopyInv => BytesOnceInOrder
  BY DEF CopyInv
<1> QED
  BY <1>1, CopyAlways, PTL
=============================================================================
