------------------------------- MODULE LineIO -------------------------------
(***************************************************************************)
(* The bytes that go through src/stdio.zig: threads that copy one input    *)
(* stream to one output stream, as example.c does, with fgets and fputs    *)
(* (Liners), with getchar and putchar (Charers) or with fread and fwrite   *)
(* (Blockers).  No stream is buffered or locked: every read and write is a *)
(* system call of its own, and fgets makes one per byte.                   *)
(*                                                                         *)
(* A byte that was read is named by its position in the input; Stale is    *)
(* the undefined byte that fgetc returns when a read delivers nothing.     *)
(* out records the input bytes that were written, not the newline that     *)
(* fputs adds; lines and dropped are history that only the properties read.*)
(***************************************************************************)
EXTENDS Integers, Sequences

CONSTANTS
  Liners, Charers, Blockers,
  Input,        \* what the input stream delivers before it ends
  NL, NUL,      \* the newline and the character that ends a string
  UndefBytes,   \* what an undefined byte may turn out to be
  Sizes,        \* the sizes passed to fgets
  BlockSize,    \* the number of bytes fread asks for
  Failures      \* whether system calls may fail

Threads == Liners \cup Charers \cup Blockers

ASSUME LineAssumption ==
  /\ Liners \cap Charers = {} /\ Liners \cap Blockers = {} /\ Charers \cap Blockers = {}
  /\ Input \in Seq({Input[k] : k \in DOMAIN Input})
  /\ UndefBytes # {}
  /\ Sizes \subseteq Int
  /\ BlockSize \in Nat \ {0}
  /\ Failures \in BOOLEAN

Stale == 0
Positions == DOMAIN Input
Elements(s) == {s[k] : k \in DOMAIN s}

VARIABLES
  pos,      \* how much of the input has been read
  pc,       \* where each thread is
  size,     \* the size argument of its fgets
  buf,      \* the bytes its buffer holds
  strlen,   \* how many of them stand before the first NUL of a line
  ended,    \* the threads whose fgets has stored a newline
  out,      \* <<thread, position>> for every input byte written
  lines,    \* the input positions of every line passed to fputs
  dropped   \* the positions in buffers whose write failed

vars == <<pos, pc, size, buf, strlen, ended, out, lines, dropped>>
history == <<lines, dropped>>

Init ==
  /\ pos = 0
  /\ pc = [t \in Threads |-> "top"]
  /\ size = [t \in Threads |-> 1]
  /\ buf = [t \in Threads |-> <<>>]
  /\ strlen = [t \in Threads |-> 0]
  /\ ended = {}
  /\ out = <<>>
  /\ lines = {}
  /\ dropped = {}

Goto(t, point) == pc' = [pc EXCEPT ![t] = point]

(* The caller is done with the bytes of its buffer. *)
Empty(t) ==
  /\ buf' = [buf EXCEPT ![t] = <<>>]
  /\ strlen' = [strlen EXCEPT ![t] = 0]

(* fd.read of one byte into b: what fgetc hands on.  At the end of the input
   the count 0 is ignored and b is as it was. *)
ReadByte(item, byte) ==
  \/ pos < Len(Input) /\ item = pos + 1 /\ byte = Input[pos + 1] /\ pos' = pos + 1
  \/ pos = Len(Input) /\ item = Stale /\ byte \in UndefBytes /\ UNCHANGED pos

Bytes == Elements(Input) \cup UndefBytes
Items == Positions \cup {Stale}

-----------------------------------------------------------------------------
(* fgets: entry, with the size the loop condition computes size - 1 from; 0 and
   negative sizes panic there. *)
FgetsCall(t, n) ==
  /\ t \in Liners /\ pc[t] = "top"
  /\ Goto(t, IF n <= 0 THEN "panicked" ELSE "fgets")
  /\ size' = [size EXCEPT ![t] = n]
  /\ Empty(t)
  /\ ended' = ended \ {t}
  /\ UNCHANGED <<pos, out, history>>

(* MUTANT: one byte too many, no room for the terminator. *)
FgetsMoreByOne(t) == Len(buf[t]) < size[t]

(* The loop goes on: room is left and no newline has been stored. *)
FgetsMore(t) == Len(buf[t]) < size[t] - 1 /\ t \notin ended

(* s[i] = byte: the string in the buffer grows until a NUL is stored in it. *)
Store(t, item, byte) ==
  /\ buf' = [buf EXCEPT ![t] = Append(@, item)]
  /\ strlen' = [strlen EXCEPT ![t] = IF byte # NUL /\ @ = Len(buf[t]) THEN @ + 1 ELSE @]

(* MUTANT: at the end of the input fgets waits for more. *)
FgetsByteWaiting(t, item, byte) ==
  /\ pc[t] = "fgets" /\ FgetsMore(t)
  /\ item # Stale
  /\ ReadByte(item, byte)
  /\ Store(t, item, byte)
  /\ ended' = IF byte = NL THEN ended \cup {t} ELSE ended
  /\ UNCHANGED <<pc, size, out, history>>

(* One round: fgetc, the byte stored. *)
FgetsByte(t, item, byte) ==
  /\ pc[t] = "fgets" /\ FgetsMore(t)
  /\ ReadByte(item, byte)
  /\ Store(t, item, byte)
  /\ ended' = IF byte = NL THEN ended \cup {t} ELSE ended
  /\ UNCHANGED <<pc, size, out, history>>

(* MUTANT: a failed read makes fgets return NULL; what it had stored is dropped. *)
FgetsReadDrops(t) ==
  /\ Failures /\ pc[t] = "fgets" /\ FgetsMore(t)
  /\ Goto(t, "top")
  /\ Empty(t)
  /\ UNCHANGED <<pos, size, ended, out, history>>

(* fgetc fails and returns EOF: the loop breaks; what is there is returned. *)
FgetsReadFails(t) ==
  /\ Failures /\ pc[t] = "fgets" /\ FgetsMore(t)
  /\ Goto(t, "fputs")
  /\ UNCHANGED <<pos, size, buf, strlen, ended, out, history>>

(* The terminator is stored at s[i] and s returned: never NULL. *)
FgetsReturn(t) ==
  /\ pc[t] = "fgets" /\ ~FgetsMore(t)
  /\ Goto(t, "fputs")
  /\ UNCHANGED <<pos, size, buf, strlen, ended, out, history>>

-----------------------------------------------------------------------------
(* The input bytes among the first n of t's buffer, as written by t.  They are the
   first of them, and so a sequence: the input does not resume after its end. *)
Written(t, n) ==
  [k \in {k \in 1..n : buf[t][k] # Stale} |-> <<t, buf[t][k]>>]

(* fd.write of the whole buffer. *)
WriteAll(t) == out' = out \o Written(t, Len(buf[t]))

(* fd.write of len bytes of the buffer fails after n of them. *)
WriteSome(t, len, n) ==
  /\ Failures
  /\ n < len
  /\ out' = out \o Written(t, n)
  /\ dropped' = dropped \cup (Elements(buf[t]) \ {Stale})

(* fputs: the string, which ends at the first NUL the line holds, then a newline in
   a second write.  The caller, like example.c, does not look at the result. *)
FputsString(t) ==
  /\ pc[t] = "fputs"
  /\ out' = out \o Written(t, strlen[t])
  /\ lines' = lines \cup {Elements(buf[t]) \ {Stale}}
  /\ Goto(t, "newline")
  /\ UNCHANGED <<pos, size, buf, strlen, ended, dropped>>

FputsStringFails(t, n) ==
  /\ pc[t] = "fputs"
  /\ WriteSome(t, strlen[t], n)
  /\ Goto(t, "top")
  /\ Empty(t)
  /\ UNCHANGED <<pos, size, ended, lines>>

(* The newline is written, or its write fails and fputs returns -1 although the
   string is out. *)
FputsNewline(t) ==
  /\ pc[t] = "newline"
  /\ Goto(t, "top")
  /\ Empty(t)
  /\ UNCHANGED <<pos, size, ended, out, history>>

-----------------------------------------------------------------------------
(* getchar: a byte, or EOF when the read fails; putchar of EOF is an @intCast
   that panics. *)
Fgetc(t, item, byte) ==
  /\ t \in Charers /\ pc[t] = "top"
  /\ ReadByte(item, byte)
  /\ buf' = [buf EXCEPT ![t] = <<item>>]
  /\ Goto(t, "fputc")
  /\ UNCHANGED <<size, strlen, ended, out, history>>

FgetcFails(t) ==
  /\ Failures /\ t \in Charers /\ pc[t] = "top"
  /\ Goto(t, "panicked")
  /\ UNCHANGED <<pos, size, buf, strlen, ended, out, history>>

Fputc(t) ==
  /\ pc[t] = "fputc"
  /\ WriteAll(t)
  /\ Empty(t)
  /\ Goto(t, "top")
  /\ UNCHANGED <<pos, size, ended, history>>

FputcFails(t) ==
  /\ pc[t] = "fputc"
  /\ WriteSome(t, 1, 0)
  /\ Empty(t)
  /\ Goto(t, "top")
  /\ UNCHANGED <<pos, size, ended, lines>>

-----------------------------------------------------------------------------
(* MUTANT: fread reports the bytes asked for, not the ones it got. *)
FreadFull(t, n) ==
  /\ t \in Blockers /\ pc[t] = "top"
  /\ n = BlockSize
  /\ pos' = IF pos + n <= Len(Input) THEN pos + n ELSE Len(Input)
  /\ buf' = [buf EXCEPT ![t] = [k \in 1..n |-> IF pos + k <= Len(Input) THEN pos + k ELSE Stale]]
  /\ Goto(t, "fwrite")
  /\ UNCHANGED <<size, strlen, ended, out, history>>

(* MUTANT: a short read counts as one byte more. *)
FreadPast(t, n) ==
  /\ t \in Blockers /\ pc[t] = "top"
  /\ n \in 0..BlockSize /\ pos + n <= Len(Input) + 1
  /\ n = 0 => pos = Len(Input)
  /\ pos' = pos + n
  /\ buf' = [buf EXCEPT ![t] = [k \in 1..n |-> pos + k]]
  /\ Goto(t, IF n = 0 THEN "done" ELSE "fwrite")
  /\ UNCHANGED <<size, strlen, ended, out, history>>

(* fread of BlockSize bytes delivers n of them, at least one while there are
   any; 0 of them, or an error, ends the client's loop. *)
Fread(t, n) ==
  /\ t \in Blockers /\ pc[t] = "top"
  /\ n \in 0..BlockSize /\ pos + n <= Len(Input)
  /\ n = 0 => pos = Len(Input)
  /\ pos' = pos + n
  /\ buf' = [buf EXCEPT ![t] = [k \in 1..n |-> pos + k]]
  /\ Goto(t, IF n = 0 THEN "done" ELSE "fwrite")
  /\ UNCHANGED <<size, strlen, ended, out, history>>

FreadFails(t) ==
  /\ Failures /\ t \in Blockers /\ pc[t] = "top"
  /\ Goto(t, "done")
  /\ UNCHANGED <<pos, size, buf, strlen, ended, out, history>>

Fwrite(t) ==
  /\ pc[t] = "fwrite"
  /\ WriteAll(t)
  /\ Empty(t)
  /\ Goto(t, "top")
  /\ UNCHANGED <<pos, size, ended, history>>

(* fwrite returns 0 although n bytes are out. *)
FwriteFails(t, n) ==
  /\ pc[t] = "fwrite"
  /\ WriteSome(t, Len(buf[t]), n)
  /\ Empty(t)
  /\ Goto(t, "top")
  /\ UNCHANGED <<pos, size, ended, lines>>

-----------------------------------------------------------------------------
Works(t) ==
  \/ \E n \in Sizes : FgetsCall(t, n)
  \/ \E item \in Items, byte \in Bytes : FgetsByte(t, item, byte)
  \/ FgetsReturn(t) \/ FputsString(t) \/ FputsNewline(t)
  \/ \E item \in Items, byte \in Bytes : Fgetc(t, item, byte)
  \/ Fputc(t)
  \/ \E n \in 0..BlockSize : Fread(t, n)
  \/ Fwrite(t)

Fails(t) ==
  \/ FgetsReadFails(t) \/ FgetcFails(t) \/ FputcFails(t) \/ FreadFails(t)
  \/ \E n \in 0..Len(buf[t]) : FputsStringFails(t, n) \/ FwriteFails(t, n)

Next == \E t \in Threads : Works(t) \/ Fails(t)

Spec == Init /\ [][Next]_vars

(* Every thread is scheduled, and reads and writes of the two streams do not
   block for ever; nothing has to fail. *)
FairSpec == Spec /\ \A t \in Threads : WF_vars(Works(t))

-----------------------------------------------------------------------------
TypeOK ==
  /\ pos \in 0..Len(Input)
  /\ pc \in [Threads -> {"top", "fgets", "fputs", "newline", "fputc", "fwrite", "done", "panicked"}]
  /\ size \in [Threads -> Int]
  /\ buf \in [Threads -> Seq(Items)]
  /\ strlen \in [Threads -> Nat]
  /\ ended \subseteq Threads
  /\ out \in Seq(Threads \X Positions)
  /\ lines \subseteq SUBSET Positions
  /\ dropped \subseteq Positions

(* No newline among the first n items of s. *)
NoNewlineIn(s, n) == \A k \in 1..n : s[k] # Stale => Input[s[k]] # NL

(* fgets stores at most size - 1 bytes, so that the terminator it adds is inside
   the caller's buffer, and nothing after a newline, also at the end of the input
   and with other threads reading the same stream. *)
FgetsFits ==
  \A t \in Liners :
    pc[t] \in {"fgets", "fputs", "newline"} =>
      /\ Len(buf[t]) < size[t]
      /\ NoNewlineIn(buf[t], Len(buf[t]) - 1)

(* Bytes of t that are in its buffer and not yet written. *)
Pending(t) ==
  IF pc[t] \in {"fgets", "fputs", "fputc", "fwrite"} THEN Elements(buf[t]) \ {Stale} ELSE {}

(* The two ways a byte is lost: a write of the buffer that held it failed, or it
   stood at or behind a NUL in a line passed to fputs. *)
MayBeLost(p) ==
  \/ p \in dropped
  \/ \E line \in lines : p \in line /\ \E q \in line : q <= p /\ Input[q] = NUL

(* No input byte is written twice, each thread writes its bytes in the order of
   the input, and a byte that was read is written, or in the buffer of one thread,
   or was in a buffer whose own write failed, or was cut off by fputs at a NUL in
   its line: neither the failures of other threads and other calls nor the NUL
   bytes of other lines lose it. *)
BytesOnceInOrder ==
  /\ \A j, k \in DOMAIN out :
       j < k => /\ out[j][2] # out[k][2]
                /\ out[j][1] = out[k][1] => out[j][2] < out[k][2]
  /\ \A p \in 1..pos :
       \/ \E k \in DOMAIN out : out[k][2] = p
       \/ \E t \in Threads : p \in Pending(t)
       \/ MayBeLost(p)

(* fgets with room for the terminator always returns: end of input, other readers
   and failing reads cannot keep it. *)
FgetsReturns == \A t \in Liners : pc[t] = "fgets" ~> pc[t] = "fputs"

(* A copy loop over fread and fwrite ends. *)
BlocksEnd == \A t \in Blockers : <>(pc[t] = "done")

(* The copy loop of example.c, which goes on while fgets does not return NULL,
   ends. *)
EchoEnds == \A t \in Liners : <>(pc[t] = "done")

-----------------------------------------------------------------------------
(* What keeps FgetsFits true: a liner's buffer while fgets fills it. *)
LineTypes ==
  /\ pos \in 0..Len(Input)
  /\ pc \in [Threads -> {"top", "fgets", "fputs", "newline", "fputc", "fwrite", "done", "panicked"}]
  /\ size \in [Threads -> Int]
  /\ buf \in [Threads -> Seq(Items)]
  /\ ended \subseteq Threads
  /\ \A t \in Liners : pc[t] \notin {"fputc", "fwrite", "done"}
  /\ \A t \in Charers \cup Blockers : pc[t] # "fgets"

FgetsProgress ==
  \A t \in Liners :
    /\ pc[t] \in {"fgets", "fputs", "newline"} =>
         /\ Len(buf[t]) < size[t]
         /\ NoNewlineIn(buf[t], Len(buf[t]) - 1)
    /\ pc[t] = "fgets" /\ t \notin ended => NoNewlineIn(buf[t], Len(buf[t]))

LineInv == LineTypes /\ FgetsProgress
=============================================================================
