------------------------------ MODULE Streams ------------------------------
(***************************************************************************)
(* The streams of src/stdio.zig: a FILE is a File, which is one descriptor *)
(* number.  The three standard streams are static Files that start out     *)
(* undefined and are filled in lazily by readOpaqueHandle; fopen makes a   *)
(* File on the heap.  Several threads call in.                             *)
(*                                                                         *)
(* readOpaqueHandle is a compare-and-swap on resolved and, for every       *)
(* caller that does NOT win it, the three stores of initStreams, one       *)
(* standard stream after the other.                                        *)
(*                                                                         *)
(* Every read, write, seek and tell of stdio.zig is one Io step on the     *)
(* descriptor that the File holds when the step happens; the bytes are the *)
(* subject of LineIO.                                                      *)
(*                                                                         *)
(* fopen and freopen call the allocator of src/allocator.zig, which has no *)
(* lock: as in Heap, a call loads end_index in one step and stores it in   *)
(* another.  raced remembers that two such calls have overlapped; from     *)
(* then on two callers may get the same File, and the copy of a path may   *)
(* lie on a File or on another path.  firm holds the Files that were made  *)
(* before.                                                                 *)
(***************************************************************************)
EXTENDS FixedBuffer

CONSTANTS
  Threads,
  stdin, stdout, stderr,  \* the addresses of the three static Files
  Names,          \* file names a client opens
  PathLen,        \* length of each name
  MaxFd,          \* descriptors of the process
  UndefHandles,   \* what an undefined descriptor number may turn out to be
  Closable,       \* the standard streams the client may close or reopen
  Unfinished,     \* what the client uses that panics: "freopen" without a name, "io"
                  \* that seeks from the end or on what has no position
  NoFile, NoCall

Std == {stdin, stdout, stderr}

ASSUME StreamsAssumption ==
  /\ stdin # stdout /\ stdin # stderr /\ stdout # stderr
  /\ \A s \in Std : s \notin Addr
  /\ PathLen \in [Names -> Nat]
  /\ MaxFd \in Nat /\ MaxFd > 3
  /\ UndefHandles \subseteq Int /\ UndefHandles # {}
  /\ Closable \subseteq Std
  /\ NoFile \notin Names \cup Std \cup Addr
  /\ Names \cap Std = {}
  /\ Unfinished \subseteq {"freopen", "io"}

FileSize  == 4   \* sizeof(File): one i32 on POSIX
FileAlign == 4
AlignOfU8 == 1

FilePtr == Std \cup Addr
Fds == 0..(MaxFd - 1)

(* The descriptors the process starts with. *)
StdFd == [s \in Std |-> IF s = stdin THEN 0 ELSE IF s = stdout THEN 1 ELSE 2]

VARIABLES
  resolved,   \* the flag of the compare-and-swap
  handle,     \* the descriptor number in each File
  fdt,        \* what each descriptor of the process is open on
  used,       \* fixed.end_index
  bound,      \* what each stream denotes for its user; NoFile: not open
  holders,    \* how many callers of fopen were given each File and still have it
  call,       \* the call each thread is in
  raced,      \* whether two allocator calls have overlapped yet
  firm        \* the Files that fopen made before any two did

vars == <<resolved, handle, fdt, used, bound, holders, call, raced, firm>>

(* stream is the File the call is about, at the point it has reached, first
   whether it won the compare-and-swap, end the end_index it has loaded. *)
Point ==
  {"create", "creating", "cas", "stdin", "stdout", "stderr", "act",
   "open", "copying", "opening", "panicked"}

Call ==
  [op: {"fopen", "freopen", "fclose", "io"}, stream: FilePtr \cup {NoFile},
   name: Names \cup {NoFile}, at: Point, first: BOOLEAN, end: 0..BufLen]

Init ==
  /\ resolved = 0
  /\ handle \in [FilePtr -> UndefHandles]
  /\ fdt = [d \in Fds |-> IF d = 0 THEN stdin ELSE IF d = 1 THEN stdout
                          ELSE IF d = 2 THEN stderr ELSE NoFile]
  /\ used = 0
  /\ bound = [f \in FilePtr |-> IF f \in Std THEN f ELSE NoFile]
  /\ holders = [f \in FilePtr |-> IF f \in Std THEN 1 ELSE 0]
  /\ call = [t \in Threads |-> NoCall]
  /\ raced = FALSE
  /\ firm = {}

InCall(t) == call[t] # NoCall

At(t, point) == InCall(t) /\ call[t].at = point

(* A call that will close, or reopen, its stream. *)
Closing(t) == InCall(t) /\ call[t].op \in {"fclose", "freopen"}

(* A call that has loaded end_index and not stored it. *)
Allocating(t) == At(t, "creating") \/ At(t, "copying")

(* The call of t as it goes on, about File f, from another point. *)
Moved(t, f, point, first, end) ==
  [op |-> call[t].op, stream |-> f, name |-> call[t].name, at |-> point,
   first |-> first, end |-> end]

Goto(t, point) ==
  call' = [call EXCEPT ![t] = Moved(t, call[t].stream, point, call[t].first, 0)]

Return(t) == call' = [call EXCEPT ![t] = NoCall]

-----------------------------------------------------------------------------
(* A caller that has a stream uses it, and closes it when it is not in a call on
   it.  Two callers that were given one File do not know of each other. *)
MayUse(f) == holders[f] > 0
MayClose(f) ==
  /\ holders[f] > 0
  /\ f \in Std => f \in Closable
  /\ holders[f] = 1 => \A t \in Threads : InCall(t) /\ call[t].stream = f => Closing(t)

Enter(t, op, f, name, point) ==
  /\ ~InCall(t)
  /\ call' = [call EXCEPT ![t] = [op |-> op, stream |-> f, name |-> name, at |-> point,
                                  first |-> FALSE, end |-> 0]]
  /\ UNCHANGED <<resolved, handle, fdt, used, bound, raced, firm>>

(* The caller gives its stream up. *)
GiveUp(f) == holders' = [holders EXCEPT ![f] = holders[f] - 1]

(* fread, fwrite, fgetc, fputc, fputs, fseek, ftell, rewind and what forwards
   to them. *)
IoCall(t, f) == MayUse(f) /\ Enter(t, "io", f, NoFile, "cas") /\ UNCHANGED holders

Fclose(t, f) == MayClose(f) /\ Enter(t, "fclose", f, NoFile, "cas") /\ GiveUp(f)

Freopen(t, f, name) == MayClose(f) /\ Enter(t, "freopen", f, name, "cas") /\ GiveUp(f)

(* freopen without a file name: @panic, an endless loop. *)
FreopenNull(t, f) ==
  /\ "freopen" \in Unfinished
  /\ MayClose(f)
  /\ Enter(t, "freopen", f, NoFile, "panicked")
  /\ GiveUp(f)

(* fopen; its stream is not known before the File is allocated. *)
Fopen(t, name) == Enter(t, "fopen", NoFile, name, "create") /\ UNCHANGED holders

-----------------------------------------------------------------------------
(* The allocator reads end_index. *)
LoadEnd(t, from, to) ==
  /\ At(t, from)
  /\ call' = [call EXCEPT ![t] = Moved(t, call[t].stream, to, call[t].first, used)]
  /\ raced' = (raced \/ \E u \in Threads : Allocating(u))
  /\ UNCHANGED <<resolved, handle, fdt, used, bound, holders, firm>>

LoadForFile(t) == LoadEnd(t, "create", "creating")
LoadForPath(t) == LoadEnd(t, "open", "copying")

(* MUTANT: the refusal of the allocator is not looked at. *)
CreateFileUnchecked(t) ==
  LET f == AdjustedIndex(call[t].end, FileAlign)
  IN  /\ At(t, "creating")
      /\ used' = NewEndIndex(call[t].end, FileSize, FileAlign)
      /\ \E h \in UndefHandles : handle' = [handle EXCEPT ![f] = h]
      /\ firm' = IF raced THEN firm ELSE firm \cup {f}
      /\ call' = [call EXCEPT ![t] = Moved(t, f, "open", FALSE, 0)]
      /\ UNCHANGED <<resolved, fdt, bound, holders, raced>>

(* MUTANT: end_index moves to the start of the File. *)
CreateFileSizeless(t) ==
  LET f == AdjustedIndex(call[t].end, FileAlign)
  IN  /\ At(t, "creating")
      /\ ~OutOfMemory(call[t].end, FileSize, FileAlign)
      /\ used' = f
      /\ \E h \in UndefHandles : handle' = [handle EXCEPT ![f] = h]
      /\ firm' = IF raced THEN firm ELSE firm \cup {f}
      /\ call' = [call EXCEPT ![t] = Moved(t, f, "open", FALSE, 0)]
      /\ UNCHANGED <<resolved, fdt, bound, holders, raced>>

(* allocator.create(File): end_index is stored, the File is left undefined. *)
CreateFile(t) ==
  LET f == AdjustedIndex(call[t].end, FileAlign)
  IN  /\ At(t, "creating")
      /\ ~OutOfMemory(call[t].end, FileSize, FileAlign)
      /\ used' = NewEndIndex(call[t].end, FileSize, FileAlign)
      /\ \E h \in UndefHandles : handle' = [handle EXCEPT ![f] = h]
      /\ firm' = IF raced THEN firm ELSE firm \cup {f}
      /\ call' = [call EXCEPT ![t] = Moved(t, f, "open", FALSE, 0)]
      /\ UNCHANGED <<resolved, fdt, bound, holders, raced>>

(* No room for a File: NULL. *)
CreateRefused(t) ==
  /\ At(t, "creating")
  /\ OutOfMemory(call[t].end, FileSize, FileAlign)
  /\ Return(t)
  /\ UNCHANGED <<resolved, handle, fdt, used, bound, holders, raced, firm>>

PathBytes(t) == PathLen[call[t].name] + 1

(* The Files that the copy of the path lies on: none before a race. *)
Overwritten(t) ==
  LET from == AdjustedIndex(call[t].end, AlignOfU8)
  IN  {f \in Addr : f + FileSize > from /\ f < from + PathBytes(t)}

(* File.openWrite copies the path into the heap, where it is never given back. *)
CopyPath(t) ==
  /\ At(t, "copying")
  /\ ~OutOfMemory(call[t].end, PathBytes(t), AlignOfU8)
  /\ used' = NewEndIndex(call[t].end, PathBytes(t), AlignOfU8)
  /\ \E h \in [Overwritten(t) -> UndefHandles] :
       handle' = [f \in FilePtr |-> IF f \in Overwritten(t) THEN h[f] ELSE handle[f]]
  /\ Goto(t, "opening")
  /\ UNCHANGED <<resolved, fdt, bound, holders, raced, firm>>

(* The path does not fit in the heap: NULL, the File stays undefined. *)
OpenNoMemory(t) ==
  /\ At(t, "copying")
  /\ OutOfMemory(call[t].end, PathBytes(t), AlignOfU8)
  /\ Return(t)
  /\ UNCHANGED <<resolved, handle, fdt, used, bound, holders, raced, firm>>

FreeFds == {d \in Fds : fdt[d] = NoFile}

(* What the copy of the path may say when the system reads it. *)
PathsRead(t) == IF raced THEN Names ELSE {call[t].name}

(* The system opens the file, on the lowest free descriptor, which is stored in
   the File; the caller has a stream. *)
OpenDone(t, d, name) ==
  LET f == call[t].stream
  IN  /\ At(t, "opening")
      /\ d \in FreeFds /\ \A e \in FreeFds : d <= e
      /\ name \in PathsRead(t)
      /\ fdt' = [fdt EXCEPT ![d] = name]
      /\ handle' = [handle EXCEPT ![f] = d]
      /\ bound' = [bound EXCEPT ![f] = call[t].name]
      /\ holders' = [holders EXCEPT ![f] = holders[f] + 1]
      /\ Return(t)
      /\ UNCHANGED <<resolved, used, raced, firm>>

(* The system refuses the open (or has no descriptor left): NULL as well, the
   path copy already made. *)
OpenRefused(t) ==
  /\ At(t, "opening")
  /\ Return(t)
  /\ UNCHANGED <<resolved, handle, fdt, used, bound, holders, raced, firm>>

-----------------------------------------------------------------------------
(* MUTANT: whoever loses the race relies on the winner to initialise. *)
CasTrusting(t) ==
  /\ At(t, "cas")
  /\ resolved' = 1
  /\ call' = [call EXCEPT ![t] = Moved(t, call[t].stream, IF resolved = 0 THEN "stdin" ELSE "act",
                                       FALSE, 0)]
  /\ UNCHANGED <<handle, fdt, used, bound, holders, raced, firm>>

(* @cmpxchgStrong yields null on success: the call that changes the flag skips
   initStreams, every other one runs it. *)
Cas(t) ==
  /\ At(t, "cas")
  /\ resolved' = 1
  /\ call' = [call EXCEPT ![t] = Moved(t, call[t].stream, IF resolved = 0 THEN "act" ELSE "stdin",
                                       resolved = 0, 0)]
  /\ UNCHANGED <<handle, fdt, used, bound, holders, raced, firm>>

(* One assignment of initStreams, and the point after it. *)
InitStream(t, from, s, to) ==
  /\ At(t, from)
  /\ handle' = [handle EXCEPT ![s] = StdFd[s]]
  /\ Goto(t, to)
  /\ UNCHANGED <<resolved, fdt, used, bound, holders, raced, firm>>

InitStreams(t) ==
  \/ InitStream(t, "stdin", stdin, "stdout")
  \/ InitStream(t, "stdout", stdout, "stderr")
  \/ InitStream(t, "stderr", stderr, "act")

(* The operation itself, on handle[call[t].stream]. *)
Io(t) ==
  /\ At(t, "act")
  /\ call[t].op = "io"
  /\ Return(t)
  /\ UNCHANGED <<resolved, handle, fdt, used, bound, holders, raced, firm>>

(* fseek with SEEK_END or a negative offset, rewind when the seek fails. *)
IoPanics(t) ==
  /\ "io" \in Unfinished
  /\ At(t, "act")
  /\ call[t].op = "io"
  /\ Goto(t, "panicked")
  /\ UNCHANGED <<resolved, handle, fdt, used, bound, holders, raced, firm>>

(* MUTANT: the descriptor is not closed. *)
CloseNot(t) ==
  LET f == call[t].stream
  IN  /\ At(t, "act")
      /\ Closing(t)
      /\ handle' \in {[handle EXCEPT ![f] = u] : u \in UndefHandles}
      /\ bound' = [bound EXCEPT ![f] = NoFile]
      /\ IF call[t].op = "fclose" THEN Return(t) ELSE Goto(t, "open")
      /\ UNCHANGED <<resolved, fdt, used, holders, raced, firm>>

(* MUTANT: fclose gives the File of the last fopen back to the allocator. *)
CloseReusing(t) ==
  LET f == call[t].stream
  IN  /\ At(t, "act")
      /\ Closing(t)
      /\ fdt' = [d \in Fds |-> IF d = handle[f] THEN NoFile ELSE fdt[d]]
      /\ handle' \in {[handle EXCEPT ![f] = u] : u \in UndefHandles}
      /\ bound' = [bound EXCEPT ![f] = NoFile]
      /\ used' = IF call[t].op = "fclose" /\ f \in Addr THEN f ELSE used
      /\ IF call[t].op = "fclose" THEN Return(t) ELSE Goto(t, "open")
      /\ UNCHANGED <<resolved, holders, raced, firm>>

(* fd.close(): the descriptor is closed, if it is one, and left undefined.
   fclose returns; freopen goes on to open. *)
Close(t) ==
  LET f == call[t].stream
  IN  /\ At(t, "act")
      /\ Closing(t)
      /\ fdt' = [d \in Fds |-> IF d = handle[f] THEN NoFile ELSE fdt[d]]
      /\ handle' \in {[handle EXCEPT ![f] = u] : u \in UndefHandles}
      /\ bound' = [bound EXCEPT ![f] = NoFile]
      /\ IF call[t].op = "fclose" THEN Return(t) ELSE Goto(t, "open")
      /\ UNCHANGED <<resolved, used, holders, raced, firm>>

-----------------------------------------------------------------------------
Calls(t) ==
  \/ \E f \in FilePtr : IoCall(t, f) \/ Fclose(t, f) \/ FreopenNull(t, f)
  \/ \E f \in FilePtr, name \in Names : Freopen(t, f, name)
  \/ \E name \in Names : Fopen(t, name)

Step(t) ==
  \/ LoadForFile(t) \/ CreateFile(t) \/ CreateRefused(t)
  \/ Cas(t) \/ InitStreams(t) \/ Io(t) \/ IoPanics(t) \/ Close(t)
  \/ LoadForPath(t) \/ CopyPath(t) \/ OpenNoMemory(t)
  \/ (\E d \in Fds, name \in Names : OpenDone(t, d, name)) \/ OpenRefused(t)

Next == \E t \in Threads : Calls(t) \/ Step(t)

(* A thread inside the library is eventually scheduled, and no system call
   blocks for ever. *)
Fairness == \A t \in Threads : WF_vars(Step(t))

Spec == Init /\ [][Next]_vars

FairSpec == Spec /\ Fairness

-----------------------------------------------------------------------------
TypeOK ==
  /\ resolved \in {0, 1}
  /\ handle \in [FilePtr -> Int]
  /\ fdt \in [Fds -> Names \cup Std \cup {NoFile}]
  /\ used \in 0..BufLen
  /\ bound \in [FilePtr -> Names \cup Std \cup {NoFile}]
  /\ holders \in [FilePtr -> Nat]
  /\ call \in [Threads -> Call \cup {NoCall}]
  /\ raced \in BOOLEAN
  /\ firm \subseteq Addr

(* The File of stream f holds a descriptor open on what the stream denotes. *)
Denotes(f) == handle[f] \in Fds /\ fdt[handle[f]] = bound[f]

(* Streams from fopen: *)
Opened == {f \in Addr : bound[f] # NoFile}

(* Until two calls of the unlocked allocator overlap, every stream that fopen or
   freopen handed out denotes the file it was opened on, shares its descriptor
   with no other open stream, and no descriptor is left open without a stream:
   whatever the threads do in the system calls between, and whatever
   readOpaqueHandle of other threads stores into the standard streams meanwhile.
   (After an overlap two callers of fopen may share a File, and one of the two
   descriptors is lost.) *)
DescriptorsOwned ==
  ~raced =>
    /\ \A f \in Opened : Denotes(f) /\ handle[f] \notin {StdFd[s] : s \in Std}
    /\ \A f, g \in Opened : f # g => handle[f] # handle[g]
    /\ \A d \in Fds : d > 2 /\ fdt[d] # NoFile => \E f \in Opened : handle[f] = d

Initialised(s) == handle[s] = StdFd[s]

(* A call that did not win the compare-and-swap of readOpaqueHandle, when it
   reaches its operation, finds the File initialised: the right number in a
   standard stream, always, and until allocator calls overlap a descriptor open on
   what the stream denotes.  Initialisation by one thread is never seen half done
   by another. *)
OthersInitialised ==
  \A t \in Threads : At(t, "act") /\ ~call[t].first =>
    /\ call[t].stream \in Std => Initialised(call[t].stream)
    /\ ~raced => Denotes(call[t].stream)

(* A call that closes, reopens or, in fopen, makes File f. *)
Owning(t, f) == InCall(t) /\ call[t].op # "io" /\ call[t].stream = f

(* A File that fopen made before any two allocator calls overlapped has one owner
   for ever: no later fopen hands it out again, however the loads and stores of
   end_index interleave, and nobody is in a call on it while its owner closes or
   reopens it. *)
OneOwner ==
  \A f \in firm :
    /\ holders[f] <= 1
    /\ \A t, u \in Threads :
         Owning(t, f) => holders[f] = 0 /\ (u # t /\ InCall(u) => call[u].stream # f)

(* The descriptor number in such a File changes only in a call on this very
   stream: the late store of a race never makes somebody else's File, or the copy
   of a path, lie on it. *)
FirmHandles ==
  [][\A f \in firm :
       handle'[f] # handle[f] =>
         \E t \in Threads : Owning(t, f) /\ call'[t] # call[t]]_vars

(* Every call, the first one included, finds an initialised File. *)
FirstInitialised ==
  \A t \in Threads : At(t, "act") /\ call[t].first => Denotes(call[t].stream)

(* A stream that freopen has bound to a file still denotes it at its next use. *)
ReopenedStaysBound ==
  \A t \in Threads :
    At(t, "act") /\ ~call[t].first /\ bound[call[t].stream] \in Names
      => Denotes(call[t].stream)

(* Every call of freopen returns. *)
ReopenReturns ==
  \A t \in Threads : InCall(t) /\ call[t].op = "freopen" ~> ~InCall(t)

-----------------------------------------------------------------------------
(* What holds between two steps of a client that leaves the standard streams
   open.  A call is on a File as its point says, and none closes a standard
   stream. *)
Known(c) ==
  /\ c.at \in {"create", "creating"} =>
       c.op = "fopen" /\ c.stream = NoFile /\ c.name \in Names
  /\ c.at \in {"open", "copying", "opening"} =>
       c.op \in {"fopen", "freopen"} /\ c.stream \in Addr /\ c.name \in Names
  /\ c.at \in {"cas", "stdin", "stdout", "stderr", "act", "panicked"} =>
       c.op # "fopen" /\ c.stream \in FilePtr
  /\ c.op = "freopen" /\ c.at # "panicked" => c.name \in Names
  /\ c.op \in {"fclose", "freopen"} => c.stream \in Addr

CallsKnown == \A t \in Threads : InCall(t) => Known(call[t])

(* How far a call that runs initStreams has come; nothing undoes it. *)
Far(c) ==
  /\ c.at = "stdout" => Initialised(stdin)
  /\ c.at = "stderr" => Initialised(stdin) /\ Initialised(stdout)
  /\ c.at = "act" /\ ~c.first => \A s \in Std : Initialised(s)

InitProgress == \A t \in Threads : InCall(t) => Far(call[t])

(* A firm File ends at or below end_index and what any call has loaded of it. *)
FirmBelow ==
  \A f \in firm :
    /\ f + FileSize <= used
    /\ \A t \in Threads : Allocating(t) => f + FileSize <= call[t].end

(* Until allocator calls overlap, descriptors 0 to 2 stay what they were; *)
StdStay == \A s \in Std : bound[s] = s /\ fdt[StdFd[s]] = s

(* all Files are firm, and a stream is open unless a call is opening it; *)
OnFirm(c) ==
  c.stream # NoFile =>
    /\ c.stream \in Addr => c.stream \in firm
    /\ bound[c.stream] = NoFile <=> c.at \in {"open", "copying", "opening"}

FilesFirm ==
  /\ \A f \in Addr : holders[f] > 0 \/ bound[f] # NoFile => f \in firm
  /\ \A f \in FilePtr : holders[f] > 0 => bound[f] # NoFile
  /\ \A t \in Threads : InCall(t) => OnFirm(call[t])

(* and at most one call is between its load and its store of end_index. *)
OneAllocates ==
  \A t \in Threads : Allocating(t) =>
    call[t].end = used /\ \A u \in Threads : u # t => ~Allocating(u)

Calm == StdStay /\ FilesFirm /\ OneAllocates

StreamInv ==
  /\ TypeOK
  /\ CallsKnown
  /\ InitProgress
  /\ FirmBelow
  /\ OneOwner
  /\ ~raced => Calm
  /\ DescriptorsOwned
=============================================================================
