----------------------------- MODULE HeapProofs -----------------------------
(***************************************************************************)
(* Proofs about Heap for every buffer, every set of sizes and any number   *)
(* of threads, whose calls may overlap.                                    *)
(***************************************************************************)
EXTENDS Heap, TLAPS

(* A byte request is never moved forward: its alignment is 1. *)
LEMMA ByteIndex ==
  ASSUME NEW end \in Nat
  PROVE  AdjustedIndex(end, AlignOfU8) = end
  BY BufferAssumption DEF AdjustedIndex, AlignOfU8

(* The fields of a block are numbers. *)
LEMMA BlockFields ==
  ASSUME TypeOK, NEW i \in Ids
  PROVE  /\ blocks[i].ptr \in Nat /\ blocks[i].len \in Nat
         /\ blocks[i].want \in Nat /\ blocks[i].known \in Nat
         /\ blocks[i].inherited \in BOOLEAN /\ blocks[i].firm \in BOOLEAN
  <1>1. blocks[i] \in Block
    BY DEF TypeOK, Ids
  <1>2. QED
    BY <1>1 DEF Block

(* The type invariant and the order of the blocks hold initially. *)
LEMMA InitHeapInv == Init => HeapInv
  <1> SUFFICES ASSUME Init PROVE HeapInv
    OBVIOUS
  <1>1. Ids = {}
    BY DEF Init, Ids
  <1>2. TypeOK
    <2>1. end_index \in 0..BufLen /\ mem \in [Addr -> Int]
      BY BufferAssumption DEF Init, Undef
    <2>2. blocks \in Seq(Block) /\ live \subseteq Ids
      BY DEF Init
    <2>3. call \in [Threads -> Request \cup {NoCall}]
      BY DEF Init
    <2>4. raced \in BOOLEAN
      BY DEF Init
    <2>5. QED
      BY <2>1, <2>2, <2>3, <2>4 DEF TypeOK
  <1>3. GrantsInside /\ InOrder /\ BelowEnd /\ FirmFirst
    BY <1>1 DEF GrantsInside, InOrder, BelowEnd, FirmFirst
  <1>4. UntilRaced
    BY <1>1 DEF Init, UntilRaced
  <1>5. QED
    BY <1>2, <1>3, <1>4 DEF HeapInv

(* Entering with a well-typed request that carries the current end_index keeps
   the invariant, whoever else is inside. *)
LEMMA EnterKeeps ==
  ASSUME HeapInv, NEW t \in Threads, NEW r \in Request,
         r.seen = end_index, Enter(t, r)
  PROVE  HeapInv'
  <1>1. TypeOK'
    BY DEF HeapInv, TypeOK, Enter, Ids
  <1>2. GrantsInside' /\ InOrder' /\ FirmFirst'
    BY DEF HeapInv, GrantsInside, InOrder, FirmFirst, Enter, Ids, End
  <1>3. BelowEnd'
    BY DEF HeapInv, TypeOK, BelowEnd, Enter, Ids, End
  <1>4. UntilRaced'
    BY DEF HeapInv, TypeOK, UntilRaced, Enter, Overlaps, Ids
  <1>5. QED
    BY <1>1, <1>2, <1>3, <1>4 DEF HeapInv

(* Every entry action makes such a request. *)
LEMMA EntryRequests ==
  ASSUME HeapInv, NEW t \in Threads, EnterSome(t)
  PROVE  \E r \in Request : r.seen = end_index /\ Enter(t, r)
  <1>1. end_index \in Nat
    BY BufferAssumption DEF HeapInv, TypeOK
  <1>2. ASSUME NEW size \in Sizes, Malloc(t, size)
        PROVE  \E r \in Request : r.seen = end_index /\ Enter(t, r)
    <2>1. MallocRequest(size, AlignOfU8) \in Request
      BY <1>1, HeapAssumption DEF MallocRequest, Request, Undef, AlignOfU8
    <2>2. QED
      BY <1>2, <2>1 DEF Malloc, MallocRequest
  <1>3. ASSUME NEW alignment \in Alignments, NEW size \in Sizes,
               AlignedAlloc(t, alignment, size)
        PROVE  \E r \in Request : r.seen = end_index /\ Enter(t, r)
    <2>1. MallocRequest(size, alignment) \in Request
      BY <1>1, HeapAssumption DEF MallocRequest, Request, Undef
    <2>2. QED
      BY <1>3, <2>1 DEF AlignedAlloc, MallocRequest
  <1>4. ASSUME NEW num \in Nums, NEW size \in Sizes, Calloc(t, num, size)
        PROVE  \E r \in Request : r.seen = end_index /\ Enter(t, r)
    <2>1. num * size \in Nat
      BY HeapAssumption
    <2> DEFINE r == [n |-> size, want |-> num * size, align |-> AlignOfU8,
                     data |-> Zero, known |-> num * size, fill |-> Zero,
                     inherited |-> FALSE, old |-> 0, seen |-> end_index]
    <2>2. r \in Request
      BY <1>1, <2>1, HeapAssumption DEF Request, Undef, Zero, AlignOfU8
    <2>3. QED
      BY <1>4, <2>2 DEF Calloc
  <1>5. ASSUME NEW i \in Ids, NEW size \in Sizes, Realloc(t, i, size)
        PROVE  \E r \in Request : r.seen = end_index /\ Enter(t, r)
    <2>1. blocks[i] \in Block /\ i \in Nat
      BY DEF HeapInv, TypeOK, Ids
    <2> DEFINE keep == IF blocks[i].known <= size THEN blocks[i].known ELSE size
               r == [n |-> size, want |-> size, align |-> AlignOfU8,
                     data |-> blocks[i].data, known |-> keep, fill |-> Undef,
                     inherited |-> TRUE, old |-> i, seen |-> end_index]
    <2>2. r \in Request
      BY <1>1, <2>1, HeapAssumption DEF Request, Block, Undef, Zero, AlignOfU8
    <2>3. QED
      BY <1>5, <2>2 DEF Realloc
  <1>6. QED
    BY <1>2, <1>3, <1>4, <1>5 DEF EnterSome

(* What a grant does: one more block, below the new end_index, where the call
   believes the free bytes to start. *)
LEMMA GrantStep ==
  ASSUME TypeOK, NEW t \in Threads, AllocGranted(t)
  PROVE  /\ call[t] \in Request /\ call[t].n \in Nat /\ call[t].seen \in Nat
         /\ NewBlock(call[t]) \in Block
         /\ NewBlock(call[t]).ptr = call[t].seen
         /\ NewBlock(call[t]).len = call[t].n
         /\ NewBlock(call[t]).firm = ~raced
         /\ end_index \in Nat
         /\ end_index' = call[t].seen + call[t].n
         /\ end_index' <= BufLen
         /\ blocks' \in Seq(Block)
         /\ Len(blocks) \in Nat
         /\ Ids' = 1..(Len(blocks) + 1)
         /\ Ids = 1..Len(blocks)
         /\ blocks'[Len(blocks) + 1] = NewBlock(call[t])
         /\ \A j \in Ids : blocks'[j] = blocks[j]
  <1> DEFINE c == call[t]
             b == NewBlock(c)
  <1>1. /\ c \in Request /\ c.n \in Nat /\ c.seen \in Nat /\ raced \in BOOLEAN
        /\ end_index \in Nat
    BY BufferAssumption DEF AllocGranted, TypeOK, Request
  <1>2. AdjustedIndex(c.seen, AlignOfU8) = c.seen
    BY <1>1, ByteIndex
  <1>3. b \in Block /\ b.ptr = c.seen /\ b.len = c.n /\ b.firm = ~raced
    BY <1>1, <1>2 DEF NewBlock, Block, Request
  <1>4. end_index' = c.seen + c.n /\ end_index' <= BufLen /\ blocks' = Append(blocks, b)
    BY <1>1, <1>2, BufferAssumption DEF AllocGranted, NewEndIndex, OutOfMemory
  <1>5. blocks \in Seq(Block)
    BY DEF TypeOK
  <1>6. /\ blocks' \in Seq(Block) /\ Len(blocks) \in Nat
        /\ Ids' = 1..(Len(blocks) + 1) /\ Ids = 1..Len(blocks)
        /\ blocks'[Len(blocks) + 1] = b
        /\ \A j \in Ids : blocks'[j] = blocks[j]
    BY <1>3, <1>4, <1>5 DEF Ids
  <1>7. QED
    BY <1>1, <1>3, <1>4, <1>6

(* A granted request keeps the types. *)
LEMMA GrantTypes ==
  ASSUME TypeOK, NEW t \in Threads, AllocGranted(t)
  PROVE  TypeOK'
  <1>1. live' \subseteq Ids'
    <2>1. live' = (live \ {call[t].old}) \cup {Len(blocks) + 1} /\ live \subseteq Ids
      BY DEF AllocGranted, TypeOK
    <2>2. Ids \subseteq Ids' /\ Len(blocks) + 1 \in Ids'
      BY GrantStep
    <2>3. QED
      BY <2>1, <2>2
  <1>2. call' \in [Threads -> Request \cup {NoCall}] /\ raced' \in BOOLEAN
    BY DEF AllocGranted, TypeOK
  <1>3. mem' \in [Addr -> Int]
    <2>0. call[t] \in Request /\ mem \in [Addr -> Int]
      BY GrantStep DEF TypeOK
    <2>1. call[t].fill \in Int
      BY <2>0 DEF Request, Undef, Zero
    <2>2. QED
      BY <2>0, <2>1 DEF AllocGranted
  <1>4. end_index' \in 0..BufLen /\ blocks' \in Seq(Block)
    BY GrantStep, BufferAssumption
  <1>5. QED
    BY <1>1, <1>2, <1>3, <1>4 DEF TypeOK

(* A granted request starts behind every firm block, even when the end_index it
   loaded is no longer the current one. *)
LEMMA GrantKeeps ==
  ASSUME HeapInv, NEW t \in Threads, AllocGranted(t)
  PROVE  HeapInv'
  <1> DEFINE c == call[t]
             m == Len(blocks) + 1
  <1>1. TypeOK /\ c # NoCall
    BY DEF HeapInv, AllocGranted
  <1>2. /\ c.n \in Nat /\ c.seen \in Nat /\ end_index \in Nat /\ Len(blocks) \in Nat
        /\ end_index' = c.seen + c.n /\ end_index' <= BufLen
        /\ Ids' = 1..m /\ Ids = 1..Len(blocks)
        /\ \A j \in Ids : blocks'[j] = blocks[j]
        /\ blocks'[m].ptr = c.seen /\ blocks'[m].len = c.n /\ blocks'[m].firm = ~raced
    BY <1>1, GrantStep
  <1>3. TypeOK'
    BY <1>1, GrantTypes
  <1>4. \A j \in Ids : /\ blocks[j].ptr \in Nat /\ blocks[j].len \in Nat
                       /\ End(j) <= BufLen
                       /\ blocks[j].firm => End(j) <= c.seen
    BY <1>1, BlockFields DEF HeapInv, GrantsInside, BelowEnd
  <1>5. /\ \A i \in Ids' : i = m => End(i)' = end_index'
        /\ \A i \in Ids : End(i)' = End(i)
    BY <1>2 DEF End
  <1>51. \A i \in Ids' : i = m \/ i \in Ids
    BY <1>2
  <1>6. GrantsInside'
    BY <1>2, <1>4, <1>5, <1>51 DEF GrantsInside
  <1>7. InOrder'
    <2> SUFFICES ASSUME NEW i \in Ids', NEW j \in Ids', i < j, blocks'[i].firm
                 PROVE  End(i)' <= blocks'[j].ptr
      BY DEF InOrder
    <2>1. i \in Ids
      BY <1>2
    <2>2. CASE j = m
      BY <1>2, <1>4, <1>5, <2>1, <2>2
    <2>3. CASE j \in Ids
      BY <1>2, <1>5, <2>1, <2>3 DEF HeapInv, InOrder
    <2>4. QED
      BY <1>2, <2>2, <2>3
  <1>8. FirmFirst'
    <2> SUFFICES ASSUME NEW i \in Ids', NEW j \in Ids', i < j, blocks'[j].firm
                 PROVE  blocks'[i].firm
      BY DEF FirmFirst
    <2>1. i \in Ids /\ blocks'[i] = blocks[i]
      BY <1>2
    <2>2. CASE j = m
      BY <1>2, <2>1, <2>2 DEF HeapInv, UntilRaced
    <2>3. CASE j \in Ids
      BY <1>2, <2>1, <2>3 DEF HeapInv, FirmFirst
    <2>4. QED
      BY <1>2, <2>2, <2>3
  <1>9. \A u \in Threads : call'[u] # NoCall => u # t /\ call'[u] = call[u]
    BY <1>1 DEF AllocGranted, TypeOK
  <1>10. BelowEnd'
    <2> SUFFICES ASSUME NEW i \in Ids', blocks'[i].firm
                 PROVE  /\ End(i)' <= end_index'
                        /\ \A u \in Threads : call'[u] # NoCall => End(i)' <= call'[u].seen
      BY DEF BelowEnd
    <2>1. CASE i = m
      <3>1. ~raced
        BY <1>2, <2>1
      <3>2. \A u \in Threads : call'[u] = NoCall
        BY <1>1, <1>9, <3>1 DEF HeapInv, UntilRaced
      <3>3. QED
        BY <1>2, <1>5, <2>1, <3>2
    <2>2. CASE i \in Ids
      <3>1. End(i)' = End(i) /\ blocks[i].firm /\ End(i) \in Nat
        BY <1>2, <1>4, <1>5, <2>2 DEF End
      <3>2. End(i) <= c.seen
        BY <1>4, <2>2, <3>1
      <3>3. End(i)' <= end_index'
        BY <1>2, <3>1, <3>2
      <3>4. \A u \in Threads : call[u] # NoCall => End(i) <= call[u].seen
        BY <2>2, <3>1 DEF HeapInv, BelowEnd
      <3>5. QED
        BY <1>9, <3>1, <3>3, <3>4
    <2>3. QED
      BY <1>2, <2>1, <2>2
  <1>11. UntilRaced'
    <2> SUFFICES ASSUME ~raced
                 PROVE  /\ \A i \in Ids' : blocks'[i].firm
                        /\ \A u \in Threads : call'[u] = NoCall
      BY DEF UntilRaced, AllocGranted
    <2>1. \A u \in Threads : call'[u] = NoCall
      BY <1>1, <1>9 DEF HeapInv, UntilRaced
    <2>2. \A i \in Ids' : i = m \/ i \in Ids
      BY <1>2
    <2>3. QED
      BY <1>2, <2>1, <2>2 DEF HeapInv, UntilRaced
  <1>12. QED
    BY <1>3, <1>6, <1>7, <1>8, <1>10, <1>11 DEF HeapInv

(* What an owner's store does to the blocks: it changes what it relies on. *)
LEMMA StoreStep ==
  ASSUME TypeOK, NEW i \in Ids, Store(i)
  PROVE  /\ blocks' \in Seq(Block) /\ Ids' = Ids
         /\ blocks'[i] = Marked(blocks[i], i)
         /\ \A j \in Ids : j # i => blocks'[j] = blocks[j]
         /\ \A j \in Ids : /\ blocks'[j].ptr = blocks[j].ptr
                            /\ blocks'[j].len = blocks[j].len
                            /\ blocks'[j].firm = blocks[j].firm
         /\ mem' \in [Addr -> Int]
  <1>1. blocks \in Seq(Block) /\ blocks[i] \in Block /\ i \in 1..Len(blocks)
    BY DEF TypeOK, Ids
  <1> DEFINE b == Marked(blocks[i], i)
  <1>2. /\ b \in Block /\ b.ptr = blocks[i].ptr /\ b.len = blocks[i].len
        /\ b.firm = blocks[i].firm
    <2>0. b.ptr = blocks[i].ptr /\ b.len = blocks[i].len
      BY DEF Marked
    <2>1. b.firm = blocks[i].firm
      BY Zenon DEF Marked
    <2>2. b \in Block
      <3>1. blocks[i].align \in Nat \ {0} /\ i \in Int
        <4>1. blocks[i] \in Block
          BY <1>1
        <4>2. blocks[i].align \in Nat \ {0}
          BY <4>1 DEF Block
        <4>3. i \in Int
          BY <1>1
        <4>4. QED
          BY <4>2, <4>3
      <3>2. /\ blocks[i].ptr \in Nat /\ blocks[i].len \in Nat
            /\ blocks[i].want \in Nat /\ blocks[i].firm \in BOOLEAN
        BY BlockFields
      <3>3. QED
        BY <3>1, <3>2, Zenon DEF Block, Marked
    <2>3. QED
      BY <2>0, <2>1, <2>2
  <1>3. blocks' = [blocks EXCEPT ![i] = b]
    BY DEF Store
  <1>4. /\ blocks' \in Seq(Block) /\ Ids' = Ids /\ blocks'[i] = b
        /\ \A j \in Ids : j # i => blocks'[j] = blocks[j]
    BY <1>1, <1>2, <1>3 DEF Ids
  <1>5. mem' \in [Addr -> Int]
    BY <1>1 DEF Store, TypeOK
  <1>6. QED
    BY <1>2, <1>4, <1>5

(* The inductive step. *)
LEMMA NextHeapInv == HeapInv /\ [Next]_vars => HeapInv'
  <1> SUFFICES ASSUME HeapInv, [Next]_vars PROVE HeapInv'
    OBVIOUS
  <1> USE DEF HeapInv, GrantsInside, InOrder, BelowEnd, FirmFirst, UntilRaced
  <1>1. ASSUME NEW t \in Threads, EnterSome(t) PROVE HeapInv'
    BY <1>1, EntryRequests, EnterKeeps
  <1>2. ASSUME NEW t \in Threads, AllocNothing(t) \/ AllocRefused(t) PROVE HeapInv'
    <2>1. /\ UNCHANGED <<end_index, mem, blocks, live, raced>>
          /\ call' = [call EXCEPT ![t] = NoCall]
      BY <1>2 DEF AllocNothing, AllocRefused
    <2>2. TypeOK'
      BY <2>1 DEF TypeOK, Ids
    <2>3. \A u \in Threads : call'[u] # NoCall => u # t /\ call'[u] = call[u]
      BY <2>1 DEF TypeOK
    <2>4. QED
      BY <2>1, <2>2, <2>3 DEF Ids, End
  <1>3. ASSUME NEW t \in Threads, AllocGranted(t) PROVE HeapInv'
    BY <1>3, GrantKeeps
  <1>4. ASSUME NEW i \in Ids, Free(i) PROVE HeapInv'
    BY <1>4 DEF Free, TypeOK, Ids, End
  <1>5. ASSUME NEW i \in Ids, Store(i) PROVE HeapInv'
    <2>1. UNCHANGED <<end_index, live, call, raced>>
      BY <1>5 DEF Store
    <2>2. \A j \in Ids : End(j)' = End(j)
      BY <1>5, StoreStep DEF End
    <2>3. TypeOK'
      BY <1>5, <2>1, StoreStep DEF TypeOK
    <2>4. QED
      BY <1>5, <2>1, <2>2, <2>3, StoreStep
  <1>6. CASE UNCHANGED vars
    BY <1>6 DEF vars, TypeOK, Ids, End
  <1>7. QED
    BY <1>1, <1>2, <1>3, <1>4, <1>5, <1>6 DEF Next, ReturnSome, Client

(* Type correctness of the heap, races included: end_index never passes the
   buffer. *)
THEOREM HeapTypes == Spec => []TypeOK
  <1>1. HeapInv => TypeOK
    BY DEF HeapInv
  <1>2. QED
    BY <1>1, InitHeapInv, NextHeapInv, PTL DEF Spec

(* A block in the order of InOrder shares no byte with the blocks behind it. *)
LEMMA OrderedApart ==
  ASSUME HeapInv, NEW i \in Ids, NEW j \in Ids, i < j, blocks[i].firm
  PROVE  Granted(i) \cap Granted(j) = {}
  <1>1. /\ blocks[i].ptr \in Nat /\ blocks[i].len \in Nat
        /\ blocks[j].ptr \in Nat /\ blocks[j].len \in Nat
    BY BlockFields DEF HeapInv
  <1>2. blocks[i].ptr + blocks[i].len <= blocks[j].ptr
    BY DEF HeapInv, InOrder, End
  <1>3. QED
    BY <1>1, <1>2 DEF Granted

(* Two blocks of which one is firm share no byte. *)
LEMMA FirmApart ==
  ASSUME HeapInv, NEW i \in Ids, NEW j \in Ids, i # j, blocks[i].firm \/ blocks[j].firm
  PROVE  Granted(i) \cap Granted(j) = {}
  <1>1. i < j \/ j < i
    BY DEF HeapInv, TypeOK, Ids
  <1>2. CASE i < j
    <2>1. blocks[i].firm
      BY <1>2 DEF HeapInv, FirmFirst
    <2>2. QED
      BY <1>2, <2>1, OrderedApart
  <1>3. CASE j < i
    <2>1. blocks[j].firm
      BY <1>3 DEF HeapInv, FirmFirst
    <2>2. QED
      BY <1>3, <2>1, OrderedApart
  <1>4. QED
    BY <1>1, <1>2, <1>3

(* Every block lies in the buffer. *)
LEMMA GrantedInside ==
  ASSUME HeapInv, NEW i \in Ids
  PROVE  Granted(i) \subseteq Addr
  <1>1. /\ blocks[i].ptr \in Nat /\ blocks[i].len \in Nat
        /\ blocks[i].ptr + blocks[i].len <= BufLen
    BY BlockFields DEF HeapInv, GrantsInside, End
  <1>2. QED
    BY <1>1, BufferAssumption DEF Granted, Addr

(* Blocks lie in the buffer, and a byte of a block that was handed out before
   calls overlapped is never handed out again: for every buffer size, every mix of
   malloc, calloc, realloc, aligned_alloc and free, any number of threads and any
   overlap of their calls. *)
THEOREM HeapDisjoint == Spec => []GrantsDisjoint
  <1>1. HeapInv => GrantsDisjoint
    BY GrantedInside, FirmApart DEF GrantsDisjoint
  <1>2. QED
    BY <1>1, InitHeapInv, NextHeapInv, PTL DEF Spec

-----------------------------------------------------------------------------
(* free and realloc give nothing back: while calls do not overlap, a request that
   did not fit never fits again, for every buffer and every size. *)
THEOREM HeapRefusalIsFinal == Spec => RefusalIsFinal
  <1>1. HeapInv /\ [Next]_vars
          => [\A n \in Sizes : ~raced /\ OutOfMemory(end_index, n, AlignOfU8)
                => OutOfMemory(end_index', n, AlignOfU8)]_vars
    <2> SUFFICES ASSUME HeapInv, [Next]_vars, NEW n \in Sizes, ~raced,
                        OutOfMemory(end_index, n, AlignOfU8)
                 PROVE  OutOfMemory(end_index', n, AlignOfU8)
      OBVIOUS
    <2>1. end_index \in Nat /\ end_index' \in Nat /\ n \in Nat
      BY NextHeapInv, HeapAssumption, BufferAssumption DEF HeapInv, TypeOK
    <2>2. end_index <= end_index'
      <3>1. ASSUME NEW t \in Threads, EnterSome(t) PROVE end_index' = end_index
        BY <3>1 DEF EnterSome, Malloc, AlignedAlloc, Calloc, Realloc, Enter
      <3>2. ASSUME NEW t \in Threads, AllocNothing(t) \/ AllocRefused(t)
            PROVE  end_index' = end_index
        BY <3>2 DEF AllocNothing, AllocRefused
      <3>3. ASSUME NEW t \in Threads, AllocGranted(t) PROVE end_index <= end_index'
        <4>1. call[t].seen = end_index
          BY <3>3 DEF AllocGranted, HeapInv, UntilRaced
        <4>2. QED
          BY <2>1, <3>3, <4>1, GrantStep DEF HeapInv
      <3>4. ASSUME NEW i \in Ids, Free(i) \/ Store(i) PROVE end_index' = end_index
        BY <3>4 DEF Free, Store
      <3>5. CASE UNCHANGED vars
        BY <2>1, <3>5 DEF vars
      <3>6. QED
        BY <2>1, <3>1, <3>2, <3>3, <3>4, <3>5 DEF Next, ReturnSome, Client
    <2>3. QED
      BY <2>1, <2>2, ByteIndex, BufferAssumption DEF OutOfMemory, NewEndIndex
  <1>2. QED
    BY <1>1, InitHeapInv, NextHeapInv, PTL DEF Spec, RefusalIsFinal

-----------------------------------------------------------------------------
(* A calloc of at most one element relies on no more than it is given. *)
LEMMA EntryFits ==
  ASSUME BytesInv, \A num \in Nums : num <= 1, NEW t \in Threads, EnterSome(t)
  PROVE  CallsFit'
  <1>1. ASSUME NEW r, r.known <= r.want, r.want <= r.n,
               ~r.inherited /\ r.known # 0 => r.data = r.fill, Enter(t, r)
        PROVE  CallsFit'
    BY <1>1 DEF CallsFit, BytesInv, HeapInv, TypeOK, Enter
  <1>2. ASSUME NEW size \in Sizes, NEW alignment,
               Enter(t, MallocRequest(size, alignment))
        PROVE  CallsFit'
    <2>1. size \in Nat
      BY HeapAssumption
    <2>2. QED
      BY <1>1, <1>2, <2>1 DEF MallocRequest
  <1>3. ASSUME NEW num \in Nums, NEW size \in Sizes, Calloc(t, num, size)
        PROVE  CallsFit'
    <2>1. num \in {0, 1} /\ size \in Nat
      BY HeapAssumption
    <2>2. num * size \in Nat /\ num * size <= size
      BY <2>1
    <2>3. QED
      BY <1>1, <1>3, <2>2 DEF Calloc
  <1>4. ASSUME NEW i \in Ids, NEW size \in Sizes, Realloc(t, i, size)
        PROVE  CallsFit'
    <2>1. blocks[i].known \in Nat /\ size \in Nat
      BY BlockFields, HeapAssumption DEF BytesInv, HeapInv
    <2>2. QED
      BY <1>1, <1>4, <2>1 DEF Realloc
  <1>5. QED
    BY <1>2, <1>3, <1>4 DEF EnterSome, Malloc, AlignedAlloc

(* A grant touches only bytes nobody has yet. *)
LEMMA GrantBytes ==
  ASSUME BytesInv, NEW t \in Threads, AllocGranted(t)
  PROVE  WantsFit' /\ CallsFit' /\ BytesStay'
  <1> DEFINE c == call[t]
             b == NewBlock(c)
             m == Len(blocks) + 1
  <1>0. TypeOK /\ HeapInv
    BY DEF BytesInv, HeapInv
  <1>1. /\ c \in Request /\ c.seen \in Nat /\ c.n \in Nat
        /\ Ids' = 1..m /\ Ids = 1..Len(blocks) /\ Len(blocks) \in Nat
        /\ blocks'[m] = b
        /\ \A j \in Ids : blocks'[j] = blocks[j]
        /\ b.ptr = c.seen /\ b.len = c.n
    BY <1>0, GrantStep
  <1>2. /\ b.want = c.want /\ b.known = c.known
        /\ b.data = c.data /\ b.inherited = c.inherited
    BY DEF NewBlock
  <1>3. /\ c.known \in Nat /\ c.want \in Nat /\ c.known <= c.want /\ c.want <= c.n
        /\ ~c.inherited /\ c.known # 0 => c.data = c.fill
    BY <1>1 DEF BytesInv, CallsFit, Request, AllocGranted
  <1>6. WantsFit'
    BY <1>1, <1>2, <1>3 DEF BytesInv, WantsFit
  <1>7. CallsFit'
    BY DEF AllocGranted, BytesInv, HeapInv, TypeOK, CallsFit
  <1>8. mem' = [a \in Addr |-> IF a \in b.ptr..(b.ptr + b.len - 1) THEN c.fill ELSE mem[a]]
    BY DEF AllocGranted
  <1>11. live' \subseteq live \cup {m}
    BY DEF AllocGranted
  <1>12. \A j \in Ids : blocks[j].firm => End(j) <= c.seen
    BY DEF BytesInv, HeapInv, BelowEnd, AllocGranted
  <1> HIDE DEF c, b, m
  <1>9. BytesStay'
    <2> SUFFICES ASSUME NEW i \in live', blocks'[i].firm, ~(blocks'[i].inherited),
                        NEW k \in 0..(blocks'[i].known - 1),
                        blocks'[i].ptr + k \in Addr
                 PROVE  mem'[blocks'[i].ptr + k] = blocks'[i].data
      BY DEF BytesStay
    <2>1. i = m \/ i \in live
      BY <1>11
    <2>2. CASE i = m
      <3>1. blocks'[i] = b
        BY <1>1, <2>2
      <3>2. /\ k \in Nat /\ k < c.known /\ b.ptr + k \in Addr
            /\ b.ptr + k \in b.ptr..(b.ptr + b.len - 1)
        <4>1. b.ptr \in Nat /\ b.len \in Nat /\ b.known \in Nat /\ b.known <= b.len
          BY <1>1, <1>2, <1>3
        <4>2. k \in 0..(b.known - 1) /\ b.ptr + k \in Addr
          BY <3>1
        <4>3. QED
          BY <1>2, <4>1, <4>2
      <3>3. mem'[b.ptr + k] = c.fill
        BY <1>8, <3>2
      <3>4. c.fill = c.data
        BY <1>2, <1>3, <3>1, <3>2
      <3>5. QED
        BY <1>2, <3>1, <3>3, <3>4
    <2>3. CASE i \in live
      <3>0. i \in Ids
        BY <1>0, <2>3 DEF TypeOK
      <3>1. i \in Ids /\ blocks'[i] = blocks[i]
        BY <1>1, <3>0
      <3>2. /\ blocks[i].ptr \in Nat /\ blocks[i].len \in Nat
            /\ blocks[i].known \in Nat
            /\ blocks[i].known <= blocks[i].len
            /\ blocks[i].ptr + blocks[i].len <= c.seen
        <4>1. /\ blocks[i].ptr \in Nat /\ blocks[i].len \in Nat
              /\ blocks[i].known \in Nat /\ blocks[i].want \in Nat
          BY <1>0, <3>0, BlockFields
        <4>2. blocks[i].known <= blocks[i].want /\ blocks[i].want <= blocks[i].len
          BY <3>0 DEF BytesInv, WantsFit
        <4>3. End(i) <= c.seen
          BY <1>12, <3>0, <3>1
        <4>4. QED
          BY <4>1, <4>2, <4>3 DEF End
      <3>3. blocks[i].ptr + k \in Addr /\ k \in Nat /\ k < blocks[i].known
        BY <3>1, <3>2
      <3>4. blocks[i].ptr + k < b.ptr
        BY <1>1, <3>2, <3>3
      <3>5. mem'[blocks[i].ptr + k] = mem[blocks[i].ptr + k]
        <4>1. blocks[i].ptr + k \notin b.ptr..(b.ptr + b.len - 1)
          BY <1>1, <3>2, <3>3, <3>4
        <4>2. QED
          BY <1>8, <3>3, <4>1
      <3>6. QED
        BY <2>3, <3>1, <3>2, <3>3, <3>5 DEF BytesInv, BytesStay
    <2>4. QED
      BY <2>1, <2>2, <2>3
  <1>10. QED
    BY <1>6, <1>7, <1>9

(* An owner that fills its block touches nobody else's. *)
LEMMA StoreBytes ==
  ASSUME BytesInv, NEW i \in Ids, Store(i)
  PROVE  WantsFit' /\ CallsFit' /\ BytesStay'
  <1>1. TypeOK /\ HeapInv
    BY DEF BytesInv, HeapInv
  <1>2. /\ mem' = [a \in Addr |-> IF a \in Promised(i) THEN i ELSE mem[a]]
        /\ live' = live /\ call' = call /\ i \in live
    BY DEF Store
  <1>3. /\ Ids' = Ids
        /\ blocks'[i] = Marked(blocks[i], i)
        /\ \A j \in Ids : j # i => blocks'[j] = blocks[j]
    BY <1>1, StoreStep
  <1>4. /\ blocks'[i].ptr = blocks[i].ptr /\ blocks'[i].len = blocks[i].len
        /\ blocks'[i].want = blocks[i].want /\ blocks'[i].known = blocks[i].want
        /\ blocks'[i].data = i
    BY <1>3 DEF Marked
  <1>5. \A j \in Ids : /\ blocks[j].ptr \in Nat /\ blocks[j].len \in Nat
                       /\ blocks[j].want \in Nat /\ blocks[j].known \in Nat
                       /\ blocks[j].known <= blocks[j].want
                       /\ blocks[j].want <= blocks[j].len
    BY <1>1, BlockFields DEF BytesInv, WantsFit
  <1>6. WantsFit'
    BY <1>3, <1>4, <1>5 DEF WantsFit
  <1>7. CallsFit'
    BY <1>2 DEF BytesInv, CallsFit
  <1>8. BytesStay'
    <2> SUFFICES ASSUME NEW j \in live', blocks'[j].firm, ~(blocks'[j].inherited),
                        NEW k \in 0..(blocks'[j].known - 1),
                        blocks'[j].ptr + k \in Addr
                 PROVE  mem'[blocks'[j].ptr + k] = blocks'[j].data
      BY DEF BytesStay
    <2>1. j \in Ids /\ j \in live
      BY <1>2 DEF BytesInv, HeapInv, TypeOK
    <2>2. CASE j = i
      <3>1. blocks[i].ptr + k \in Promised(i) /\ blocks[i].ptr + k \in Addr
        BY <1>4, <1>5, <2>2 DEF Promised
      <3>2. QED
        BY <1>2, <1>4, <2>2, <3>1
    <2>3. CASE j # i
      <3>1. blocks'[j] = blocks[j]
        BY <1>3, <2>1, <2>3
      <3>2. k \in Nat /\ k < blocks[j].len
        BY <1>5, <2>1, <3>1
      <3>3. blocks[j].ptr + k \in Granted(j) /\ Promised(i) \subseteq Granted(i)
        BY <1>5, <2>1, <3>2 DEF Granted, Promised
      <3>4. blocks[j].ptr + k \notin Promised(i)
        BY <1>1, <2>1, <2>3, <3>1, <3>3, FirmApart
      <3>5. mem'[blocks[j].ptr + k] = mem[blocks[j].ptr + k]
        BY <1>2, <3>1, <3>4
      <3>6. QED
        BY <2>1, <3>1, <3>5 DEF BytesInv, BytesStay
    <2>4. QED
      BY <2>2, <2>3
  <1>9. QED
    BY <1>6, <1>7, <1>8

(* What everybody relies on holds initially. *)
LEMMA InitBytesInv == Init => BytesInv
  <1>1. Init => WantsFit /\ CallsFit /\ BytesStay
    BY DEF Init, WantsFit, CallsFit, BytesStay, Ids
  <1>2. QED
    BY <1>1, InitHeapInv DEF BytesInv

(* The inductive step for the bytes. *)
LEMMA NextBytesInv ==
  ASSUME \A num \in Nums : num <= 1
  PROVE  BytesInv /\ [Next]_vars => BytesInv'
  <1> SUFFICES ASSUME BytesInv, [Next]_vars
               PROVE  WantsFit' /\ CallsFit' /\ BytesStay'
    BY NextHeapInv DEF BytesInv
  <1>1. ASSUME NEW t \in Threads, EnterSome(t)
        PROVE  WantsFit' /\ CallsFit' /\ BytesStay'
    <2>1. UNCHANGED <<end_index, mem, blocks, live>>
      BY <1>1 DEF EnterSome, Malloc, AlignedAlloc, Calloc, Realloc, Enter
    <2>2. CallsFit'
      BY <1>1, EntryFits
    <2>3. QED
      BY <2>1, <2>2 DEF BytesInv, WantsFit, BytesStay, Ids
  <1>2. ASSUME NEW t \in Threads, AllocNothing(t) \/ AllocRefused(t)
        PROVE  WantsFit' /\ CallsFit' /\ BytesStay'
    BY <1>2 DEF AllocNothing, AllocRefused, BytesInv, HeapInv, TypeOK, WantsFit,
                CallsFit, BytesStay, Ids
  <1>3. ASSUME NEW t \in Threads, AllocGranted(t)
        PROVE  WantsFit' /\ CallsFit' /\ BytesStay'
    BY <1>3, GrantBytes
  <1>4. ASSUME NEW i \in Ids, Free(i)
        PROVE  WantsFit' /\ CallsFit' /\ BytesStay'
    BY <1>4 DEF Free, BytesInv, WantsFit, CallsFit, BytesStay, Ids
  <1>5. ASSUME NEW i \in Ids, Store(i)
        PROVE  WantsFit' /\ CallsFit' /\ BytesStay'
    BY <1>5, StoreBytes
  <1>6. CASE UNCHANGED vars
    BY <1>6 DEF vars, BytesInv, WantsFit, CallsFit, BytesStay, Ids
  <1>7. QED
    BY <1>1, <1>2, <1>3, <1>4, <1>5, <1>6 DEF Next, ReturnSome, Client

(* Nobody's bytes change under it: what an owner stored, or calloc cleared,
   stays until the owner itself frees or refills the block, if the block was
   handed out before calls overlapped.  Proved for every client that calls
   calloc with at most one element: calloc hands out the bytes of one. *)
THEOREM HeapBytesStay ==
  ASSUME \A num \in Nums : num <= 1
  PROVE  Spec => []BytesStay
  <1>1. BytesInv => BytesStay
    BY DEF BytesInv
  <1>2. QED
    BY <1>1, InitBytesInv, NextBytesInv, PTL DEF Spec

-----------------------------------------------------------------------------
(* Blocks that stay where they are, with their bytes, are the same to their
   owners. *)
LEMMA OwnedKept ==
  ASSUME NEW j, j \in FirmLive, j \in FirmLive', Granted(j)' = Granted(j),
         \A a \in Granted(j) : mem'[a] = mem[a]
  PROVE  Owned'[j] = Owned[j]
  BY DEF Owned, Granted

(* If no firm block comes, goes or changes, the abstract heap does not either. *)
LEMMA OwnedSame ==
  ASSUME FirmLive' = FirmLive,
         \A j \in FirmLive : Granted(j)' = Granted(j),
         \A j \in FirmLive : \A a \in Granted(j) : mem'[a] = mem[a]
  PROVE  UNCHANGED Owned
  BY DEF Owned, Granted

(* A grant: the abstract heap hands out a block, takes one back, or, once calls
   have overlapped, does nothing. *)
LEMMA GrantActs ==
  ASSUME HeapInv, NEW t \in Threads, AllocGranted(t)
  PROVE  [Contract!Next]_Owned
  <1> DEFINE c == call[t]
             m == Len(blocks) + 1
             keep == FirmLive \ {c.old}
  <1>1. TypeOK /\ c # NoCall /\ c.n # 0 /\ live \subseteq Ids
    BY DEF HeapInv, AllocGranted, TypeOK
  <1>2. /\ c.n \in Nat /\ c.seen \in Nat /\ Len(blocks) \in Nat
        /\ Ids' = 1..m /\ Ids = 1..Len(blocks)
        /\ \A j \in Ids : blocks'[j] = blocks[j]
        /\ blocks'[m].ptr = c.seen /\ blocks'[m].len = c.n /\ blocks'[m].firm = ~raced
        /\ NewBlock(c).ptr = c.seen /\ NewBlock(c).len = c.n
    BY <1>1, GrantStep
  <1>3. m \notin Ids /\ m \notin FirmLive
    BY <1>1, <1>2 DEF FirmLive
  <1>4. live' = (live \ {c.old}) \cup {m}
    BY DEF AllocGranted
  <1>5. FirmLive' = IF raced THEN keep ELSE keep \cup {m}
    BY <1>1, <1>2, <1>3, <1>4 DEF FirmLive
  <1>6. \A j \in FirmLive : /\ Granted(j)' = Granted(j)
                            /\ \A a \in Granted(j) : mem'[a] = mem[a]
    <2> SUFFICES ASSUME NEW j \in FirmLive
                 PROVE  /\ Granted(j)' = Granted(j)
                        /\ \A a \in Granted(j) : mem'[a] = mem[a]
      OBVIOUS
    <2>1. j \in Ids /\ blocks[j].firm
      BY <1>1 DEF FirmLive
    <2>2. blocks[j].ptr \in Nat /\ blocks[j].len \in Nat
      BY <1>1, <2>1, BlockFields
    <2>3. blocks[j].ptr + blocks[j].len <= c.seen
      BY <1>1, <2>1 DEF HeapInv, BelowEnd, End
    <2>4. Granted(j) \subseteq Addr
      BY <2>1, GrantedInside
    <2>5. \A a \in Granted(j) : a \in Addr /\ a \notin c.seen..(c.seen + c.n - 1)
      <3>1. c.seen \in Nat /\ c.n \in Nat
        BY <1>2
      <3>2. QED
        BY <2>2, <2>3, <2>4, <3>1 DEF Granted
    <2>6. mem' = [a \in Addr |-> IF a \in c.seen..(c.seen + c.n - 1) THEN c.fill
                                  ELSE mem[a]]
      BY <1>2 DEF AllocGranted
    <2>7. Granted(j)' = Granted(j)
      BY <1>2, <2>1 DEF Granted
    <2>8. QED
      BY <2>5, <2>6, <2>7
  <1>7. \A j \in keep : j \in DOMAIN Owned' /\ Owned'[j] = Owned[j]
    BY <1>5, <1>6, OwnedKept DEF Owned, Granted
  <1>8. CASE ~raced
    <2>1. DOMAIN Owned' = keep \cup {m} /\ m \notin DOMAIN Owned
      BY <1>3, <1>5, <1>8 DEF Owned, Granted
    <2>2. DOMAIN Owned'[m] = c.seen..(c.seen + c.n - 1)
      BY <1>2, <2>1 DEF Owned, Granted
    <2>3. DOMAIN Owned'[m] # {}
      BY <1>1, <1>2, <2>2
    <2>4. \A j \in keep : DOMAIN Owned[j] \cap DOMAIN Owned'[m] = {}
      <3> SUFFICES ASSUME NEW j \in keep
                   PROVE  DOMAIN Owned[j] \cap DOMAIN Owned'[m] = {}
        OBVIOUS
      <3>1. j \in Ids /\ blocks[j].firm /\ DOMAIN Owned[j] = Granted(j)
        BY <1>1 DEF FirmLive, Owned, Granted
      <3>2. blocks[j].ptr \in Nat /\ blocks[j].len \in Nat
        BY <1>1, <3>1, BlockFields
      <3>3. blocks[j].ptr + blocks[j].len <= c.seen
        BY <1>1, <3>1 DEF HeapInv, BelowEnd, End
      <3>4. c.seen \in Nat /\ c.n \in Nat
        BY <1>2
      <3>5. Granted(j) \cap (c.seen..(c.seen + c.n - 1)) = {}
        BY <3>2, <3>3, <3>4 DEF Granted
      <3>6. QED
        BY <2>2, <3>1, <3>5
    <2>5. Contract!HandOut(keep)
      BY <1>7, <2>1, <2>3, <2>4 DEF Contract!HandOut, Contract!Kept, Contract!Apart
    <2>6. DOMAIN Owned = FirmLive
      BY DEF Owned, Granted
    <2>7. CASE c.old \in FirmLive
      BY <2>5, <2>6, <2>7 DEF Contract!Next, Contract!Reallocate
    <2>8. CASE c.old \notin FirmLive
      <3>1. keep = DOMAIN Owned
        BY <2>6, <2>8
      <3>2. QED
        BY <2>5, <3>1 DEF Contract!Next, Contract!Allocate
    <2>9. QED
      BY <2>7, <2>8
  <1>9. CASE raced
    <2>1. CASE c.old \in FirmLive
      <3>1. DOMAIN Owned' = keep /\ DOMAIN Owned = FirmLive
        BY <1>5, <1>9 DEF Owned, Granted
      <3>2. QED
        BY <1>7, <2>1, <3>1 DEF Contract!Next, Contract!Release, Contract!Kept
    <2>2. CASE c.old \notin FirmLive
      BY <1>5, <1>6, <1>9, <2>2, OwnedSame
    <2>3. QED
      BY <2>1, <2>2
  <1>10. QED
    BY <1>1, <1>8, <1>9 DEF TypeOK

(* A free: the abstract heap takes the block back, if it is firm. *)
LEMMA FreeActs ==
  ASSUME NEW i \in Ids, Free(i)
  PROVE  [Contract!Next]_Owned
  <1>1. mem' = mem /\ blocks' = blocks /\ live' = live \ {i}
    BY DEF Free
  <1>2. /\ FirmLive' = FirmLive \ {i}
        /\ \A j \in FirmLive : Granted(j)' = Granted(j)
    BY <1>1 DEF FirmLive, Granted
  <1>3. CASE i \in FirmLive
    <2>1. DOMAIN Owned' = FirmLive \ {i} /\ DOMAIN Owned = FirmLive
      BY <1>2 DEF Owned, Granted
    <2>2. \A j \in FirmLive \ {i} : Owned'[j] = Owned[j]
      BY <1>1, <1>2, OwnedKept
    <2>3. QED
      BY <1>3, <2>1, <2>2 DEF Contract!Next, Contract!Release, Contract!Kept
  <1>4. CASE i \notin FirmLive
    BY <1>1, <1>2, <1>4, OwnedSame
  <1>5. QED
    BY <1>3, <1>4

(* A store: into one block of the abstract heap, or into none. *)
LEMMA StoreActs ==
  ASSUME BytesInv, NEW i \in Ids, Store(i)
  PROVE  [Contract!Next]_Owned
  <1>1. TypeOK /\ HeapInv /\ live \subseteq Ids
    BY DEF BytesInv, HeapInv, TypeOK
  <1>2. /\ mem' = [a \in Addr |-> IF a \in Promised(i) THEN i ELSE mem[a]]
        /\ live' = live /\ i \in live
    BY DEF Store
  <1>3. /\ FirmLive' = FirmLive
        /\ \A j \in FirmLive : Granted(j)' = Granted(j)
    BY <1>1, <1>2, StoreStep DEF FirmLive, Granted
  <1>4. Promised(i) \subseteq Granted(i)
    BY <1>1, BlockFields DEF BytesInv, WantsFit, Promised, Granted
  <1>5. \A j \in FirmLive : j # i => \A a \in Granted(j) : mem'[a] = mem[a]
    <2> SUFFICES ASSUME NEW j \in FirmLive, j # i, NEW a \in Granted(j)
                 PROVE  mem'[a] = mem[a]
      OBVIOUS
    <2>1. j \in Ids /\ blocks[j].firm
      BY <1>1 DEF FirmLive
    <2>2. a \in Addr /\ a \notin Granted(i)
      BY <1>1, <2>1, FirmApart, GrantedInside
    <2>3. QED
      BY <1>2, <1>4, <2>2
  <1>6. CASE i \in FirmLive
    <2>1. DOMAIN Owned' = FirmLive /\ DOMAIN Owned = FirmLive
      BY <1>3 DEF Owned, Granted
    <2>2. \A j \in FirmLive \ {i} : Owned'[j] = Owned[j]
      BY <1>3, <1>5, OwnedKept
    <2>3. DOMAIN Owned'[i] = DOMAIN Owned[i]
      BY <1>3, <1>6 DEF Owned, Granted
    <2>4. QED
      BY <1>6, <2>1, <2>2, <2>3 DEF Contract!Next, Contract!Store, Contract!Kept
  <1>7. CASE i \notin FirmLive
    BY <1>3, <1>5, <1>7, OwnedSame
  <1>8. QED
    BY <1>6, <1>7

(* malloc, calloc, realloc, aligned_alloc and free implement the abstract heap on
   the blocks handed out before calls overlapped, whatever overlaps later and for
   every buffer: each such block has bytes of its own, which nobody else changes.
   As for HeapBytesStay, calloc is asked for at most one element. *)
THEOREM HeapActsAsHeap ==
  ASSUME \A num \in Nums : num <= 1
  PROVE  Spec => ActsAsHeap
  <1>1. Init => Contract!Init
    <2> SUFFICES ASSUME Init PROVE Contract!Init
      OBVIOUS
    <2>1. FirmLive = {}
      BY DEF Init, FirmLive
    <2>2. QED
      BY <2>1 DEF Contract!Init, Owned, Granted
  <1>2. BytesInv /\ [Next]_vars => [Contract!Next]_Owned
    <2> SUFFICES ASSUME BytesInv, [Next]_vars PROVE [Contract!Next]_Owned
      OBVIOUS
    <2>1. ASSUME UNCHANGED <<mem, blocks, live>> PROVE UNCHANGED Owned
      BY <2>1 DEF Owned, FirmLive, Granted
    <2>2. ASSUME NEW t \in Threads, EnterSome(t) PROVE UNCHANGED Owned
      BY <2>1, <2>2 DEF EnterSome, Malloc, AlignedAlloc, Calloc, Realloc, Enter
    <2>3. ASSUME NEW t \in Threads, AllocNothing(t) \/ AllocRefused(t)
          PROVE  UNCHANGED Owned
      BY <2>1, <2>3 DEF AllocNothing, AllocRefused
    <2>4. ASSUME NEW t \in Threads, AllocGranted(t) PROVE [Contract!Next]_Owned
      BY <2>4, GrantActs DEF BytesInv
    <2>5. ASSUME NEW i \in Ids, Free(i) \/ Store(i) PROVE [Contract!Next]_Owned
      BY <2>5, FreeActs, StoreActs
    <2>6. CASE UNCHANGED vars
      BY <2>1, <2>6 DEF vars
    <2>7. QED
      BY <2>2, <2>3, <2>4, <2>5, <2>6 DEF Next, ReturnSome, Client
  <1>3. QED
    BY <1>1, <1>2, InitBytesInv, NextBytesInv, PTL DEF Spec, ActsAsHeap, Contract!Spec
=============================================================================
