# A verification project for zligc

zligc is a C library written in Zig: `src/*.zig` (about 1,600 lines) is built
into `lib/libc.a`, and `example.c` is linked with it. This directory holds TLA+
models of its own code, TLC configurations that check them on small instances,
and TLAPS proofs of the properties that matter most. Paths below are relative to
the repository; `src/` there is the directory of the Zig files.

The library is built in Zig's Debug mode (`zig build-obj` without a release
flag), so a failed `@intCast`, an overflowing `+` or `-`, `unreachable` and
`@panic` all reach `panic` of `src/index.zig`, which loops for ever. The models
show such a call as one that has `panicked` and never moves again.

## Inventory

| Part | State | Operations | Correct when |
|---|---|---|---|
| Allocator and heap (`allocator.zig`, `stdlib.zig`) | a 32 KiB buffer and `end_index`, shared by every thread and by stdio | `malloc`, `calloc`, `realloc`, `free`, `aligned_alloc` | blocks are disjoint, inside the buffer, large and aligned enough; owners' bytes survive |
| Streams (`stdio.zig`) | three static `File`s that start undefined, the flag `resolved`, `File`s on the heap, the process's descriptors | `readOpaqueHandle`, `initStreams`, `fopen`, `freopen`, `fclose`, seeking, every read and write | a stream denotes the file it was opened on, no descriptor is shared or leaked, every call returns |
| Input and output (`stdio.zig`) | the position in the input, the callers' buffers; nothing is buffered in the library | `fgetc`, `fputc`, `fgets`, `fputs`, `fread`, `fwrite` and forwarders | buffers are not overrun, bytes go to one reader, in order, once; loops end |
| Files (`stdio.zig`) | none but the descriptors: positions, contents and names are the system's; names are copied into the heap | `fopen`, `freopen`, `fclose`, `fread`, `fwrite`, `fseek`, `ftell`, `rewind`, `rename`, `remove` | what a stream wrote is in its file, once and in order; a failing call harms nothing; opening keeps what should be kept |
| Formatted output (`stdio.zig`) | the index into the format | `test_fprintf` | the whole format is scanned, nothing behind it |
| Memory and strings (`string.zig`) | the caller's memory | `memcpy`, `memmove`, `memset`, 14 string functions | they do what `<string.h>` says for every overlap, length and count |
| Character classes (`ctype.zig`) | none | 12 classes, 2 case mappings | exact on every byte and EOF |
| Startup and termination (`crt.zig`, `stdlib.zig`, `index.zig`) | the words on the initial stack, the auxiliary table, the environment slice, two handler tables | `_start`, `atexit`, `at_quick_exit`, `exit`, `quick_exit`, `abort`, return of `main` | only what the kernel wrote is read; every way to end ends, with the right status |
| Integers (`stdlib.zig`) | none | `atoi`, `strtol` and kin, `abs`, `labs`, `div` and kin | exact at the limits of the types |
| Mathematics, locale, time, errno, random numbers, `system` | none, or constants | one-line forwards and stubs | not modelled (below) |

How they interact: stdio allocates every `File` and every copy of a path from
the same fixed buffer that `malloc` serves, and never gives one back; `fgets` calls `fgetc` and so
`readOpaqueHandle` once per byte; `test_fprintf` calls `fputc` and `fwrite`;
`memmove` calls `memcpy`; `strpbrk`, `strspn`, `strcspn` call `strchr`, `strstr`
calls `strlen`; `getenv` hands the name to Zig's library, which searches the slice
that startup left; every failed check ends in `panic`.

What is hard: threads share the allocator, the standard streams and the handler
tables without a lock; the one atomic operation of the library guards a lazy
initialisation; system calls may fail between two steps of a function; arithmetic
is checked, so a boundary value hangs the program. `PROJECT.json` lists the
hazards line by line, with the properties that watch each.

## Modules

| Module | Models | Notes |
|---|---|---|
| `FixedBuffer` | the bump arithmetic of Zig's `FixedBufferAllocator` | external: the standard library is not in the repository; only what stdlib.zig and stdio.zig use of it |
| `HeapSpec` | what the owners of memory are promised: bytes of their own that nobody else changes | abstract specification |
| `Heap` | the five allocation functions | a call is two steps, the load of `end_index` and its store; calls of threads overlap; implements `HeapSpec` under a refinement mapping |
| `Streams` | stdio's `File`s and descriptors | a call is a sequence of points: compare-and-swap, the three stores of `initStreams`, the operation, load and store of `end_index` for the File and for the copy of the path, the open; extends `FixedBuffer` |
| `LineIO` | the bytes: three kinds of copying threads on one stream | one step per system call; bytes are named by their position in the input |
| `Fprintf` | `test_fprintf` | |
| `MemSpec` | what `memcpy`, `memmove`, `memset` promise: one atomic step | abstract specification |
| `MemMove` | the byte loops | implements `MemSpec` under a refinement mapping |
| `Files` | named files: positions, contents, names, and the heap that copies of names use up | one step per call, calls do not overlap; extends `FixedBuffer`; the file system is external |
| `CString` | the string loops as recursive functions | operators only |
| `Ctype` | the character functions | operators only; `c \| 32` and `c & 0x5f` as arithmetic (`WithCaseBit`, `WithoutCaseBit`) |
| `Numbers` | the string-to-integer functions, `abs`, `div` and kin | operators only |
| `Stateless` | a program that calls the functions of the three modules above | holds the reference definitions they are compared with |
| `Process` | startup and termination | |
| `MC*` | constants for TLC | |
| `HeapProofs`, `StreamsProofs`, `MemMoveProofs`, `LineIOProofs`, `FprintfProofs`, `ProcessProofs`, `FilesProofs`, `StatelessProofs` | TLAPS proofs | one per module with properties; the last also proves about `CString`, `Ctype` and `Numbers` |

Definitions named in a comment as MUTANT are variants of the definition that
follows them, with a bug the code might have had; each property is shown to fail
for at least one of them.

### How state and actions correspond to the code

**Heap.** `end_index` and `mem` are the allocator's. `blocks` and `live` are
bookkeeping: what each caller was granted (`ptr`, `len`) and what `<stdlib.h>`
lets it rely on (`want` bytes, of which the first `known` hold `data`).
`Malloc`, `Calloc`, `Realloc`, `AlignedAlloc` start a call with the request the
code makes, in which `calloc` drops `num`, `realloc` an old length of 0 and
`aligned_alloc` the alignment. `AllocNothing`, `AllocRefused` and `AllocGranted`
end it. `Free` changes nothing but the caller's claim, as in the code. `Store` is
the client. Without a lock the load and the store of `end_index` are a data race;
the model interleaves them. `raced` is history: two calls have overlapped. A
block is `firm` when it was handed out before that. Blocks handed out after it
may share bytes with each other; the properties say that they never reach a
firm block: every call loads an `end_index` at or above the ends of all firm blocks,
and stores one that is no lower. `ActsAsHeap` maps the live firm blocks to the blocks of `HeapSpec`.

**Streams.** `handle[f]` is the descriptor number in File `f`; before
`initStreams` and after `close` it is any of `UndefHandles`. `fdt` is the
process's descriptor table, `bound` what the user of a stream was promised. `Cas`
is `readOpaqueHandle`: `@cmpxchgStrong` yields null when it succeeds, so the
winner goes straight to its operation and everybody else runs `initStreams`. A
caller uses only streams it was given, and closes one only while it is in no call on
it; `holders` counts the callers that have a File. `Closable` names the standard
streams they may close or reopen. Reads, writes and seeks are one `Io` step;
`IoPanics` and `FreopenNull` are the calls the code panics in.

`fopen` calls the allocator twice, for the `File` and for the copy of the path,
`freopen` once; the allocator has no lock, so `LoadForFile` and `LoadForPath` load
`end_index` and `CreateFile` and `CopyPath` store it, with steps of other threads
between. `raced` and `firm` are history, as in `Heap`: two such calls have overlapped;
the Files made before that. After an overlap two callers may share a File, of whose
two descriptors one is lost, a path may be copied over a File (`Overwritten`) or over
another path (`PathsRead`); the properties say what still holds then. The other users
of the allocator (`malloc` and kin, `rename`, `remove`) are in `Heap` and `Files` and
do not interleave with these calls.

**LineIO.** Streams are initialised here. `ReadByte` is `fd.read` of one byte as
`fgetc` uses it: at the end of the input the count 0 is ignored and the byte is
undefined (`Stale`, with any value of `UndefBytes`). `fgets` never returns NULL.
Writes are complete or fail after some bytes, as `File.write` loops over short
writes. `out` leaves out the newline that `fputs` adds. `strlen` is where the string
in a buffer ends, at its first NUL: `fputs` writes no more than that, so what stands
behind a NUL in a line is lost without a failure. `lines` and `dropped` are history: the lines
that `fputs` has written, and the bytes of the buffers whose own write failed. `fread`
and `fwrite` take one number of bytes; the product `count * size` (stdio.zig:130, 136)
and the panic when it overflows are left out.

**Files.** `dir`, `data` and `open` are the system's: the file each name denotes,
the contents of each file, the file and position of each open stream. A byte is
named by the stream that wrote it and its number among the bytes that stream
wrote, so that a lost, repeated or left-over byte shows; this is kept only for a
stream that has not moved and has its file to itself (`alone`, `put`: history).
`OpenWrite` is `File.openWrite`: create or cut to nothing, for writing only,
whatever the mode; so `Fread` always fails. `used` is the allocator's `end_index`:
each name that goes to the system is copied there, both names of `rename` in one
request, and stays. A call that fails has used what it had allocated until then. A seek or a
tell that the system refuses changes nothing (`FseekFails`, `FtellFails`); `rewind`
panics on it (`RewindFails`). `Fails` and `Panics` record how the call ended.

**MemMove.** One step per byte. `Direction` is the dispatch of `memmove`; both of
its sums may overflow, and the second is made only when the first comparison
fails. `Visible` and `Request` map a call under way to a call that has not
happened yet.

**Process.** `stack` holds the words from `argc_ptr` on; `Words` builds the
stack as the kernel lays it out. `CountEnv` and `ReadAux` are the two loops. Other
threads run once `main` does. The handler tables can only hold null, since `atexit`
stores nothing (the store is commented out), so `ExitSlot` has no branch that calls
a handler.

**CString, Ctype, Numbers, Fprintf.** Each operator is the code's loop or
expression. The character at index `Len` of a string is its terminator.
`@intCast(u8, ch)` in `memchr` and `strchr`, and its panic on a character that is no
byte, is left out: their characters are bytes. `labs` and `llabs` take a `c_int` where the header declares a long
type; they see the low bits of the argument (`Low`). Arithmetic that does not fit, a
divisor that is not positive (`@rem` requires a positive one) and a base that is no
`u8` yield `Overflow`, the panic. `Stateless` makes one call at a time with every
argument of a bounded set.

## Runs

Each passing run finishes in less than two minutes. A violation run shows a
disagreement between the code and what a comment, `example.c` or dead code of the
same function says; `findings` in `PROJECT.json` quotes it.

| Run | Checks | Shows |
|---|---|---|
| `heap` | `TypeOK`, `GrantsDisjoint`, `BytesStay`, `RefusalIsFinal`, `ActsAsHeap` | 3-byte buffer, sizes 0 to 2, two threads: the buffer fills up, is refused, is freed and asked again; calls overlap from the start or after one block was handed out |
| `streams` | `TypeOK`, `DescriptorsOwned`, `OthersInitialised`, `OneOwner`, `FirmHandles` | two threads, room for two Files and their paths, five descriptors, an undefined handle that happens to be the descriptor `fopen` gets; allocator calls that overlap from the start or after a File was made; the calls that panic included |
| `streams_first` | `FirstInitialised` | violated: the test of the compare-and-swap is inverted |
| `mem_move` | `TypeOK`, `ActsAtOnce`, `PanicsAtTheTop`, `LoopsEnd` | all regions of a five-byte memory: every way to overlap, touch and end at the top |
| `line_io` | `TypeOK`, `FgetsFits`, `BytesOnceInOrder`, `FgetsReturns`, `BlocksEnd` | one thread of each kind on the input of a letter, a NUL and a newline; sizes 0, 1, 3 and 4, so that the line is cut by the size or by the NUL; blocks of two bytes; failing calls |
| `line_io_echo` | `EchoEnds` | violated: the loop of `example.c` never sees NULL |
| `fprintf_scan` | `ReadsInside`, `PiecesComplete`, `ScanEnds` | all formats of up to five characters of a letter, another character and percent signs |
| `process_run` | `TypeOK`, `ReadsInside`, `StartupExact`, `StatusHonest`, `ExitEnds` | 2 argument lists, 3 environments (one empty), 3 auxiliary vectors (a tag twice, a tag past the table, none), two threads, tables of two slots, codes 1, 256, -1 |
| `files` | `TypeOK`, `WritesInOrder`, `FailureHarmless`, `NamesFreeze` | two names of one character, an 18-byte heap: two streams and one more name, or one stream and renames; files of up to two bytes; every call fails somewhere; names freeze while streams are still open |
| `files_read` | `ReadKeeps` | violated: `fopen` or `freopen` with mode "r" empties the file |
| `stateless` | `ComparesAgree`, `SearchesAgree`, `CopiesAgree`, `RangesExact`, `CasesExact`, `ParsesExact`, `IntegersExact` | all pairs of strings of up to four characters over two letters, counts to five; all 256 bytes and EOF; all numerals of up to four of seven characters; all pairs of 7-bit integers |
| `strncmp` | `StrncmpAgrees` | violated: the lines of `strncmp` that order a prefix are never reached |

More promises of the C library are stated in the modules and are false of the
code; a configuration that checks one of them in place of the properties of the
run named here shows it in a few steps. They are not among the runs.

| Promise | Module, run | Why it fails |
|---|---|---|
| `BytesStay` with `Nums = {2}` | `Heap`, `heap` | `calloc(2, 1)` allocates and clears one byte: `num` is never used (stdlib.zig:100) |
| `GrantsDisjoint` without `firm` | `Heap`, `heap` | two threads load the same `end_index` (allocator.zig:3 calls a thread-safe allocator a TODO) |
| `ReallocCopies` | `Heap`, `heap` | `realloc` takes the old length for 0 (stdlib.zig:94, a TODO) |
| `AlignedAsAsked` with `Alignments = {2}` | `Heap`, `heap` | `aligned_alloc` drops the alignment (stdlib.zig:121, a TODO) |
| `DescriptorsOwned` without `raced` | `Streams`, `streams` | two threads in `fopen` are given the same File, and the first descriptor is overwritten (stdio.zig:47) |
| `BytesOnceInOrder` with losses from failures only | `LineIO`, `line_io` | `fputs` stops at a NUL that `fgets` stored (stdio.zig:179) |
| `ReopenedStaysBound` | `Streams`, `streams` with `Closable = {stdin, stderr}` | every call runs `initStreams` again and overwrites what `freopen` stored |
| `ReopenReturns` | `Streams`, `streams` with `FairSpec` | `freopen(NULL, mode, stream)` panics (stdio.zig:65, a TODO); `example.c:40` makes this call |
| `AbortEnds`, `ReturnEnds`, `AtexitAccepts` | `Process`, `process_run` | `abort` and a return of 256 reach `panic`; `atexit` looks for a slot that is not null in a table of nulls |
| `AlnumExact`, `EofAnswered` | `Stateless`, `stateless` | `isalnum` joins its tests with `and` (so `ispunct` takes letters too); `@intCast(c_uint, EOF)` panics |
| `CountRespected` | `Stateless`, `stateless` | `strncpy`, `strncat` and `strncmp` read the character at index `count` before they compare the index (string.zig:146, 192, 236) |
| `LeastParses`, `PrefixParses` | `Stateless`, `stateless` | a magnitude that needs the sign to fit, and a digit followed by anything else, parse to 0 |
| `LabsExact`, `DivAnswers` | `Stateless`, `stateless` | `labs` takes a `c_int`; `@rem` panics for a negative divisor |

Bounds. The buffer sizes, table sizes and lengths are small because the code
treats all sizes alike: what matters is a request that fits exactly, one that does
not, and one after the buffer is full, which three bytes give; a newline before, at
and after the last byte that fits; a needle shorter than, as long as and longer
than its haystack. `UMod` stands for 2^32
and only has to exceed every sum the range tests make with a byte. `IntBits` 5 and
`LongBits` 7 put the limits of both types, 15 and 63, among numerals of two digits,
one of which overflows in the product and one in the sum. `MaxRaced` 2 lets calls
overlap while none or one block has been handed out, so before and after a firm
block exists; what single calls do after an overlap is not bounded. `MaxSize` 2 gives a write of two bytes that fails after one and
a hole after a seek past the end. Where the bound is a constant of a proved module,
the theorem holds for every value of it.

Deadlock checking is off where the system may stop: after a panic (`Files`,
`Streams`, `MemMove`, `LineIO`), after the process has ended (`Process`), or when the
behaviour is finite (`Fprintf`).

Fairness. `FairSpec` of `LineIO`, `MemMove` and `Process`, and of `Streams` for the
promise `ReopenReturns`, assumes weak fairness of each thread's steps inside the
library: a thread in the library is scheduled and a system call comes back. There is
no lock, so nothing stronger is needed. The client's decision to call is never assumed fair, except in `LineIO`,
where the client is the copy loop itself and a thread's step includes its next call;
no system call has to fail.

## What is proved

TLAPS proves, for every value of the constants that satisfies the named
assumptions:

- `HeapTypes`, `HeapDisjoint`, `HeapRefusalIsFinal`: any number of threads, any
  buffer, any overlap of calls. The inductive invariant `HeapInv` says that a firm
  block ends where every later block starts at the latest (`InOrder`), at or below
  `end_index` and what every call under way has loaded (`BelowEnd`), that firm
  blocks come first (`FirmFirst`), and that until calls overlap every block is firm
  and the one call under way has loaded the current `end_index` (`UntilRaced`).
  Disjointness alone is not inductive: it says nothing of where the next block
  goes. `BelowEnd` is why a late store that moves `end_index` back does no harm to
  firm blocks: the call that makes it loaded an index at or above their ends.
- `HeapBytesStay` and `HeapActsAsHeap`, under `\A num \in Nums : num <= 1`: `calloc`
  for at most one element. They need, in addition, that nobody relies on more
  bytes than it was granted (`WantsFit`, `CallsFit`), which `calloc(2, 1)` breaks.
  `HeapActsAsHeap` shows that `Heap` implements `HeapSpec`: each of the three ways a
  call ends, `Free` and `Store` is a step of `HeapSpec` or leaves `Owned` alone.
- `StreamsDescriptorsOwned`, `StreamsOthersInitialised`, `StreamsOneOwner`,
  `StreamsFirmHandles`, `StreamsTypes`, for any number of threads, names and
  descriptors, under `Closable = {}`: the client leaves the standard streams open;
  without it `initStreams` makes a reopened stream denote a descriptor that may be
  closed. The first holds until two allocator calls overlap, as does the part of the
  second that is not about standard streams; the others hold for ever. The invariant
  `StreamInv` says what stream a call at each point is on (`CallsKnown`), how far
  `initStreams` has come (`InitProgress`: the stores of different threads all write the
  same values, so progress is never undone), and that a firm File ends at or below
  `end_index` and what any call has loaded of it (`FirmBelow`), which is why late stores
  never reach it. `OneOwner` is itself a part, since nobody else may be about to make or close
  a File that is in use. Until calls overlap (`Calm`) descriptors 0 to 2 stay, all Files
  are firm, a stream is open unless a call is opening it, and one call at most is
  between its load and its store.
- `MoveActsAtOnce`: `MemMove` implements `MemSpec`. The invariant `MoveInv` says
  what has been copied so far (`Progress`) and why the bytes still to be read are
  intact (`SafeDirection`): forward only when the destination is below the source
  or the regions are apart, backward only when it is above.
- `MovePanicsAtTheTop` and `MoveTypeCorrect`, from the same invariant.
- `LineFgetsFits`: the invariant `LineInv` adds that `ended` is set as soon as a
  newline is in the buffer (`FgetsProgress`).
- `LineBytesOnce` and `LineTypeCorrect`: any input, any number of threads of each
  kind. What has been written says nothing of what a thread will write next, so the
  invariant `CopyInv` speaks of the bytes that are pending, read by a thread and not
  yet written: no two threads have one pending (`Apart`), all of them lie behind what
  their thread wrote and are written nowhere (`Ahead`), and buffers are in the order of
  the input (`Sorted`) because the position only grows. `StringInv` says that a NUL
  byte of the input stands where the string in a buffer ends, unless the byte there was
  read past the end of the input: then all that follows it was, so `fputs` cuts
  nothing else off.
- `FprintfReadsInside` and `FprintfPiecesComplete`: formats of any length. Where a
  conversion begins depends on the parity of a whole run of percent signs, while a
  step sees one character; `PieceInv` carries the length of the run before the index
  and says that the scan is inside a conversion exactly when it is odd.
- `TypeCorrect`, `NoReadOutside`, `StartupIsExact` and `StatusIsHonest` of `Process`: any arguments, environment and auxiliary vector, any
  table size, any number of threads. `StartInv` says that the stack is as the kernel
  left it (`StackInv`), how far each loop is (`LoopInv`), and that the entry of a tag
  is the last value among the pairs read so far (`AuxInv`); the lemma `Layout` says
  which word of the stack is which. Reads stay inside because each vector ends in a
  word that stops its loop.
- `FilesTypeCorrect`, `WritesStayInOrder`, `FailuresAreHarmless` and
  `NamesStayFrozen` of `Files`: any names, sizes, offsets and number of streams.
  `WritesInOrder` is not inductive: another stream on the same file could write into
  it. `FilesInv` adds that an open stream has a file (`Placed`) and that one that
  counts as alone shares it with no open stream (`Sole`). `NamesStayFrozen` also
  states what `NamesFreeze` amounts to: from the first state without room on, no step
  changes the directory; it rests on the lemma `UsedGrows`, that no step gives heap back.
- `StatelessRangesExact`, `StatelessCasesExact`, `StatelessIntegersExact`,
  `StatelessSearchesAgree`, `StatelessComparesAgree`, `StatelessCopiesAgree`,
  `StatelessParsesExact`: strings and counts of any size, every width of the integer
  types, every modulus of `c_uint` above 512. The functions keep no state, so the
  invariant (`CallInv`) only says what the arguments are, and the work is in lemmas
  about the operators. A search loop is a recursive function that goes up to a bound;
  the set of indices at which it stops has a least element, and the loop returns the
  value there (`LoopExists`, `LoopReturns`, `LoopFinds`). A parse accumulates from
  the left, the reference adds digits by weight; `ParseSums` relates the two by
  induction on the characters read (`UpTo`): the value so far times the weight of the
  last digit read is the sum so far, or the sum is above the limit already and stays
  so (`Reads`). An overflow half way can therefore not be made good by later digits.
  The induction principle is that a set of numbers without a least element is empty.

Assumptions are those named in the modules: `BufferAssumption`, `HeapAssumption` and
so on say that sizes are natural numbers, that sets of threads are apart and that a
stack holds what a kernel writes. The two hypotheses beyond them are the ones given
above for `HeapBytesStay` and `HeapActsAsHeap`, and for the theorems of `Streams`.

Every invariant and every action property of a passing run is the statement of a
theorem. Only model-checked are the properties under fairness (`LoopsEnd`,
 `FgetsReturns`, `BlocksEnd`, `ScanEnds`, `ExitEnds`), since the prover
does not handle liveness, and the properties of the violation runs, which are false.

## Differences from the C library that no run is about

`fputs` writes a newline after its string. `fread` and `fwrite` return bytes, not
items. A stream of `fopen` can never be read. `rand` returns negative numbers too.
`strtol` does not set `str_end`. `fputc` returns 0. `feof` and `ferror` are always 0.
None of the functions sets `errno`.

## Not modelled

The repository holds 2,581 files, of which the library's own code is the twelve Zig
files of `src/`, 1,589 lines; `PROJECT.json` maps 731 of them (46%). The rest:

- `musl-1.1.19/` and `include/`: the vendored source of another C library and the
  headers taken from it, more than 110,000 lines of C. The Makefile builds none of
  it into `libc.a`; a model of it would say nothing about zligc.
- `math.zig` (304 lines): one-line forwards to floating-point functions of Zig's
  library.
- `locale.zig`, `time.zig`, `errno.zig`: constants, stubs and one clock read.
- `getenv`: forwards to the search of Zig's library and changes nothing; the slice it
  searches is the subject of `StartupExact`.
- `rand`, `srand`: forwards to a generator of Zig's library; `system`: one call.
- `clearerr`, `feof`, `ferror`, `fflush`, `setvbuf`, `strerror`, `__ctype_b_loc`: stubs.
- Bases above 10 of `strtol`: letters as digits.
- Functions of the C library that are commented out or noted as omitted.

## Plan

Done, in this order: `FixedBuffer` and `Heap`; `Streams`; `MemSpec` and
`MemMove`; `LineIO`; `Process`; `CString`; `Fprintf`; `Ctype`; the first proofs;
overlapping calls in the properties of `Heap`, `HeapSpec` and the refinement, with
their proofs; `Files`; `Numbers` and `Stateless`; the proofs of `Process`, `Files`,
`Fprintf`, the copying of `LineIO`, and `Stateless`; overlapping allocator calls in
`Streams` and NUL bytes in `LineIO`, with their proofs.

Next:

1. What the code does right where a promise of the C library fails, as theorems: which
   arguments of `strncmp` give the wrong order, and what `labs` returns.
2. `Streams` over `Heap` in place of `FixedBuffer`, so that `fopen`, `malloc`
   and `rename` of different threads race for the one buffer, and the bytes of a `File` are
   bytes of a block.
