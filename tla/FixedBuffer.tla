---------------------------- MODULE FixedBuffer ----------------------------
(***************************************************************************)
(* The bump arithmetic of the one allocator of the library.                *)
(*                                                                         *)
(* src/allocator.zig makes a FixedBufferAllocator of Zig's standard        *)
(* library over a static buffer of 32 KiB.  The standard library is not    *)
(* part of the repository; this module models the part of it that          *)
(* stdlib.zig and stdio.zig use: an index that only moves forward, rounded *)
(* up to the alignment of the request, and an error when the request would *)
(* end past the buffer.                                                    *)
(***************************************************************************)
EXTENDS Integers

CONSTANTS
  BufLen,   \* bytes of the static buffer (1024 * 32 in the code)
  BufBase   \* address of its first byte; a [N]u8 may start anywhere

ASSUME BufferAssumption == BufLen \in Nat \ {0} /\ BufBase \in Nat

(* Indices of the buffer. *)
Addr == 0..(BufLen - 1)

(* Where a request starts: end_index marched forward to the alignment of the
   address (not of the index). *)
AdjustedIndex(end, alignment) ==
  LET rem == (BufBase + end) % alignment
  IN  IF rem = 0 THEN end ELSE end + (alignment - rem)

(* The index one past a request of n bytes. *)
NewEndIndex(end, n, alignment) == AdjustedIndex(end, alignment) + n

(* error.OutOfMemory: the request would end past the buffer. *)
OutOfMemory(end, n, alignment) == NewEndIndex(end, n, alignment) > BufLen
=============================================================================
