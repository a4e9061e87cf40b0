-------------------------------- MODULE Heap --------------------------------
(***************************************************************************)
(* malloc, calloc, realloc, free and aligned_alloc of src/stdlib.zig over  *)
(* the fixed buffer of src/allocator.zig, called by several threads.       *)
(*                                                                         *)
(* A call loads end_index when it starts and stores the new one when it    *)
(* returns; nothing locks the two together, and calls may overlap.  raced  *)
(* remembers that two of them did.                                         *)
(*                                                                         *)
(* blocks records every block ever handed out, with what the caller was    *)
(* granted (ptr, len) and what <stdlib.h> lets it rely on: want bytes, the *)
(* first known of which hold data.  A block is firm when it was handed out *)
(* before any two calls overlapped.                                        *)
(***************************************************************************)
EXTENDS FixedBuffer, Sequences

CONSTANTS
  Threads,
  Sizes,       \* sizes a client asks for
  Nums,        \* element counts it passes to calloc
  Alignments,  \* alignments it passes to aligned_alloc
  MaxRaced,    \* bound: calls overlap only before so many blocks were handed out
  NoCall       \* a thread outside the allocator

ASSUME HeapAssumption ==
  /\ Sizes \subseteq Nat /\ Nums \subseteq Nat /\ Alignments \subseteq Nat \ {0}
  /\ MaxRaced \in Nat

VARIABLES
  end_index,  \* fixed.end_index
  mem,        \* the bytes of the buffer
  blocks,     \* every block handed out so far
  live,       \* the blocks (indices of blocks) still owned by a caller
  call,       \* the allocator call each thread is in
  raced       \* whether two calls have overlapped yet

vars == <<end_index, mem, blocks, live, call, raced>>

(* A byte is Undef, Zero or the index of the block whose owner stored it. *)
Undef == -1
Zero  == 0

AlignOfU8 == 1

(* How a block came about: fresh from malloc or calloc, or the successor of an
   older one. *)
Request ==
  [n: Nat, want: Nat, align: Nat \ {0}, data: Int, known: Nat, fill: {Undef, Zero},
   inherited: BOOLEAN, old: Nat, seen: Nat]

Block ==
  [ptr: Nat, len: Nat, want: Nat, align: Nat \ {0}, data: Int, known: Nat,
   inherited: BOOLEAN, firm: BOOLEAN]

Ids == DOMAIN blocks

(* The bytes block i was granted, and the bytes its owner may use. *)
Granted(i)  == blocks[i].ptr .. (blocks[i].ptr + blocks[i].len - 1)
Promised(i) == blocks[i].ptr .. (blocks[i].ptr + blocks[i].want - 1)

Init ==
  /\ end_index = 0
  /\ mem = [a \in Addr |-> Undef]
  /\ blocks = <<>>
  /\ live = {}
  /\ call = [t \in Threads |-> NoCall]
  /\ raced = FALSE

-----------------------------------------------------------------------------
(* A call that starts now overlaps another one. *)
Overlaps == \E u \in Threads : call[u] # NoCall

(* Entry of a call: the request it makes, with the end_index it loads. *)
Enter(t, request) ==
  /\ call[t] = NoCall
  /\ Overlaps => Len(blocks) < MaxRaced
  /\ call' = [call EXCEPT ![t] = request]
  /\ raced' = (raced \/ Overlaps)
  /\ UNCHANGED <<end_index, mem, blocks, live>>

MallocRequest(size, alignment) ==
  [n |-> size, want |-> size, align |-> alignment, data |-> Undef, known |-> 0,
   fill |-> Undef, inherited |-> FALSE, old |-> 0, seen |-> end_index]

Malloc(t, size) == Enter(t, MallocRequest(size, AlignOfU8))

(* The alignment is the caller's wish only: the code forwards to malloc. *)
AlignedAlloc(t, alignment, size) == Enter(t, MallocRequest(size, alignment))

(* MUTANT: the bytes are not cleared. *)
CallocDirty(t, num, size) ==
  Enter(t, [n |-> size, want |-> num * size, align |-> AlignOfU8, data |-> Zero,
            known |-> num * size, fill |-> Undef, inherited |-> FALSE, old |-> 0,
            seen |-> end_index])

(* calloc asks for size bytes, whatever num is, and clears them. *)
Calloc(t, num, size) ==
  Enter(t, [n |-> size, want |-> num * size, align |-> AlignOfU8, data |-> Zero,
            known |-> num * size, fill |-> Zero, inherited |-> FALSE, old |-> 0,
            seen |-> end_index])

(* No other call is replacing block i. *)
Settled(i) == \A t \in Threads : call[t] # NoCall => call[t].old # i

(* MUTANT: realloc grows the block where it is. *)
ReallocInPlace(t, i, new_size) ==
  LET b == blocks[i]
      keep == IF b.known <= new_size THEN b.known ELSE new_size
  IN  /\ i \in live
      /\ Settled(i)
      /\ Enter(t, [n |-> new_size, want |-> new_size, align |-> AlignOfU8,
                   data |-> b.data, known |-> keep, fill |-> Undef,
                   inherited |-> TRUE, old |-> i, seen |-> b.ptr])

(* realloc calls the allocator with an old slice of length 0: a fresh
   allocation, nothing copied. *)
Realloc(t, i, new_size) ==
  LET b == blocks[i]
      keep == IF b.known <= new_size THEN b.known ELSE new_size
  IN  /\ i \in live
      /\ Settled(i)
      /\ Enter(t, [n |-> new_size, want |-> new_size, align |-> AlignOfU8,
                   data |-> b.data, known |-> keep, fill |-> Undef,
                   inherited |-> TRUE, old |-> i, seen |-> end_index])

(* allocator.alloc of 0 elements: an undefined pointer, the buffer untouched. *)
AllocNothing(t) ==
  /\ call[t] # NoCall
  /\ call[t].n = 0
  /\ call' = [call EXCEPT ![t] = NoCall]
  /\ UNCHANGED <<end_index, mem, blocks, live, raced>>

(* OutOfMemory: the caller gets NULL and nothing changed. *)
AllocRefused(t) ==
  /\ call[t] # NoCall
  /\ call[t].n # 0
  /\ OutOfMemory(call[t].seen, call[t].n, AlignOfU8)
  /\ call' = [call EXCEPT ![t] = NoCall]
  /\ UNCHANGED <<end_index, mem, blocks, live, raced>>

NewBlock(c) ==
  [ptr |-> AdjustedIndex(c.seen, AlignOfU8), len |-> c.n, want |-> c.want,
   align |-> c.align, data |-> c.data, known |-> c.known,
   inherited |-> c.inherited, firm |-> ~raced]

(* MUTANT: a block that realloc replaced gives its bytes back. *)
AllocGrantedReusing(t) ==
  LET c == call[t]
      b == NewBlock(c)
  IN  /\ c # NoCall
      /\ c.n # 0
      /\ ~OutOfMemory(c.seen, c.n, AlignOfU8)
      /\ end_index' = IF c.old # 0 THEN c.seen ELSE NewEndIndex(c.seen, c.n, AlignOfU8)
      /\ mem' = [a \in Addr |-> IF a \in b.ptr..(b.ptr + b.len - 1) THEN c.fill ELSE mem[a]]
      /\ blocks' = Append(blocks, b)
      /\ live' = (live \ {c.old}) \cup {Len(blocks) + 1}
      /\ call' = [call EXCEPT ![t] = NoCall]
      /\ UNCHANGED raced

(* MUTANT: the refusal of the allocator is not looked at. *)
AllocGrantedUnchecked(t) ==
  LET c == call[t]
      b == NewBlock(c)
  IN  /\ c # NoCall
      /\ c.n # 0
      /\ end_index' = NewEndIndex(c.seen, c.n, AlignOfU8)
      /\ mem' = [a \in Addr |-> IF a \in b.ptr..(b.ptr + b.len - 1) THEN c.fill ELSE mem[a]]
      /\ blocks' = Append(blocks, b)
      /\ live' = (live \ {c.old}) \cup {Len(blocks) + 1}
      /\ call' = [call EXCEPT ![t] = NoCall]
      /\ UNCHANGED raced

(* The request fits: end_index moves, the bytes are overwritten (calloc clears
   them, the allocator leaves them undefined otherwise), the caller gets them; the
   owner of a block that realloc replaced holds the new one instead. *)
AllocGranted(t) ==
  LET c == call[t]
      b == NewBlock(c)
  IN  /\ c # NoCall
      /\ c.n # 0
      /\ ~OutOfMemory(c.seen, c.n, AlignOfU8)
      /\ end_index' = NewEndIndex(c.seen, c.n, AlignOfU8)
      /\ mem' = [a \in Addr |-> IF a \in b.ptr..(b.ptr + b.len - 1) THEN c.fill ELSE mem[a]]
      /\ blocks' = Append(blocks, b)
      /\ live' = (live \ {c.old}) \cup {Len(blocks) + 1}
      /\ call' = [call EXCEPT ![t] = NoCall]
      /\ UNCHANGED raced

(* MUTANT: free hands back everything above the block. *)
FreeReusing(i) ==
  /\ i \in live
  /\ Settled(i)
  /\ live' = live \ {i}
  /\ end_index' = blocks[i].ptr
  /\ UNCHANGED <<mem, blocks, call, raced>>

(* free passes a slice of length 0 to the allocator, which returns at once:
   only the caller's claim ends. *)
Free(i) ==
  /\ i \in live
  /\ Settled(i)
  /\ live' = live \ {i}
  /\ UNCHANGED <<end_index, mem, blocks, call, raced>>

(* Block b once its owner i has filled it. *)
Marked(b, i) ==
  [ptr |-> b.ptr, len |-> b.len, want |-> b.want, align |-> b.align, data |-> i,
   known |-> b.want, inherited |-> FALSE, firm |-> b.firm]

(* The owner of a live block stores its own mark in every byte it asked for.
   Bytes past the buffer are outside the model. *)
Store(i) ==
  /\ i \in live
  /\ Settled(i)
  /\ mem' = [a \in Addr |-> IF a \in Promised(i) THEN i ELSE mem[a]]
  /\ blocks' = [blocks EXCEPT ![i] = Marked(blocks[i], i)]
  /\ UNCHANGED <<end_index, live, call, raced>>

-----------------------------------------------------------------------------
EnterSome(t) ==
  \/ \E size \in Sizes : Malloc(t, size)
  \/ \E alignment \in Alignments, size \in Sizes : AlignedAlloc(t, alignment, size)
  \/ \E num \in Nums, size \in Sizes : Calloc(t, num, size)
  \/ \E i \in Ids, size \in Sizes : Realloc(t, i, size)

ReturnSome(t) == AllocNothing(t) \/ AllocRefused(t) \/ AllocGranted(t)

Client == \E i \in Ids : Free(i) \/ Store(i)

Next == (\E t \in Threads : EnterSome(t) \/ ReturnSome(t)) \/ Client

Spec == Init /\ [][Next]_vars

-----------------------------------------------------------------------------
TypeOK ==
  /\ end_index \in 0..BufLen
  /\ mem \in [Addr -> Int]
  /\ blocks \in Seq(Block)
  /\ live \subseteq Ids
  /\ call \in [Threads -> Request \cup {NoCall}]
  /\ raced \in BOOLEAN

(* Every block ever handed out by malloc, calloc, realloc or aligned_alloc lies
   in the buffer.  A firm block shares no byte with any other, freed and
   reallocated blocks included: neither a stale pointer nor a race of two
   allocator calls makes somebody else's block reach it.  Only blocks handed out
   after calls overlapped may share bytes, and only with each other. *)
GrantsDisjoint ==
  /\ \A i \in Ids : Granted(i) \subseteq Addr
  /\ \A i, j \in Ids :
       i # j /\ (blocks[i].firm \/ blocks[j].firm) => Granted(i) \cap Granted(j) = {}

(* What the owner of a live, firm block stored, or what calloc cleared, is still
   there, whatever the other owners stored, allocated or freed since, owners of
   blocks handed out in a race included. *)
BytesStay ==
  \A i \in live :
    blocks[i].firm /\ ~blocks[i].inherited =>
      \A k \in 0..(blocks[i].known - 1) :
        blocks[i].ptr + k \in Addr => mem[blocks[i].ptr + k] = blocks[i].data

(* A block that came from realloc starts with the bytes of the block it
   replaced, as the slice old_mem that realloc passes on is meant to say. *)
ReallocCopies ==
  \A i \in live :
    blocks[i].inherited =>
      \A k \in 0..(blocks[i].known - 1) : mem[blocks[i].ptr + k] = blocks[i].data

(* A block has the alignment its caller asked aligned_alloc for. *)
AlignedAsAsked == \A i \in Ids : (BufBase + blocks[i].ptr) % blocks[i].align = 0

(* A refused size stays refused while calls do not overlap: whatever is freed
   later, no step makes room for a request that did not fit before.  (free and
   realloc of the code give nothing back; a race does, when a late store moves
   end_index back.) *)
RefusalIsFinal ==
  [][\A n \in Sizes : ~raced /\ OutOfMemory(end_index, n, AlignOfU8)
                        => OutOfMemory(end_index', n, AlignOfU8)]_vars

(* What the owners of live, firm blocks have: each its bytes, with their contents. *)
FirmLive == {i \in live : blocks[i].firm}
Owned == [i \in FirmLive |-> [a \in Granted(i) |-> mem[a]]]

Contract == INSTANCE HeapSpec WITH own <- Owned

(* Firm blocks are those of an abstract heap, in which a block's bytes are nobody
   else's and only its owner changes them: the five functions implement it, with
   any overlap of calls, as long as calloc is asked for one element. *)
ActsAsHeap == Contract!Spec
-----------------------------------------------------------------------------
(* What holds between two steps: a firm block ends where every later block
   starts at the latest, at or below end_index and what every call in flight has
   loaded; firm blocks come first; and until calls overlap at most one is in
   flight, with the current end_index. *)
End(i) == blocks[i].ptr + blocks[i].len

GrantsInside == \A i \in Ids : End(i) <= BufLen

InOrder == \A i, j \in Ids : i < j /\ blocks[i].firm => End(i) <= blocks[j].ptr

BelowEnd ==
  \A i \in Ids : blocks[i].firm =>
    /\ End(i) <= end_index
    /\ \A t \in Threads : call[t] # NoCall => End(i) <= call[t].seen

FirmFirst == \A i, j \in Ids : i < j /\ blocks[j].firm => blocks[i].firm

UntilRaced ==
  ~raced =>
    /\ \A i \in Ids : blocks[i].firm
    /\ \A t \in Threads : call[t] # NoCall =>
         /\ call[t].seen = end_index
         /\ \A u \in Threads : u # t => call[u] = NoCall

HeapInv == TypeOK /\ GrantsInside /\ InOrder /\ BelowEnd /\ FirmFirst /\ UntilRaced

(* With calloc of at most one element nobody relies on more than it got, and
   what a call will fill in is what its caller will rely on. *)
WantsFit == \A i \in Ids : blocks[i].known <= blocks[i].want /\ blocks[i].want <= blocks[i].len

CallsFit ==
  \A t \in Threads : call[t] # NoCall =>
    /\ call[t].known <= call[t].want
    /\ call[t].want <= call[t].n
    /\ ~call[t].inherited /\ call[t].known # 0 => call[t].data = call[t].fill

BytesInv == HeapInv /\ WantsFit /\ CallsFit /\ BytesStay
=============================================================================
