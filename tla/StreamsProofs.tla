--------------------------- MODULE StreamsProofs ---------------------------
(***************************************************************************)
(* The stream invariants, for every number of threads, names, descriptors  *)
(* and heap bytes, of a client that neither closes nor reopens a standard  *)
(* stream.  What is said of firm Files, of the standard streams and of the *)
(* types holds however calls of the allocator overlap, the rest until two  *)
(* of them do.                                                             *)
(***************************************************************************)
EXTENDS Streams, TLAPS

USE StreamsAssumption, BufferAssumption

(* A File or a path lands at or above the end_index that its call has loaded and
   below the end of the buffer. *)
LEMMA Bump ==
  ASSUME NEW end \in 0..BufLen, NEW n \in Nat, NEW a \in {1, 4},
         ~OutOfMemory(end, n, a)
  PROVE  /\ AdjustedIndex(end, a) \in Nat
         /\ AdjustedIndex(end, a) >= end
         /\ NewEndIndex(end, n, a) = AdjustedIndex(end, a) + n
         /\ NewEndIndex(end, n, a) \in 0..BufLen
<1> DEFINE rem == (BufBase + end) % a
<1>1. rem \in 0..(a - 1)
  OBVIOUS
<1>2. AdjustedIndex(end, a) \in Nat /\ AdjustedIndex(end, a) >= end
  BY <1>1 DEF AdjustedIndex
<1> QED
  BY <1>2 DEF NewEndIndex, OutOfMemory

(* The three standard descriptors are different and below MaxFd. *)
LEMMA StdFds ==
  /\ StdFd \in [Std -> 0..2]
  /\ \A s \in Std : StdFd[s] \in Fds
  /\ \A d \in 0..2 : \E s \in Std : StdFd[s] = d
  /\ StdFd[stdin] = 0 /\ StdFd[stdout] = 1 /\ StdFd[stderr] = 2
BY DEF StdFd, Std, Fds

(* Addresses of the heap, the standard streams and NoFile are different things. *)
LEMMA Pointers ==
  /\ \A f \in Addr : f \in FilePtr /\ f \notin Std /\ f # NoFile /\ f \in Int
  /\ \A s \in Std : s \in FilePtr /\ s # NoFile
  /\ NoFile \notin FilePtr
BY DEF FilePtr, Addr

LEMMA InitStreamInv == Init => StreamInv
<1> SUFFICES ASSUME Init PROVE StreamInv
  OBVIOUS
<1>1. \A f \in Addr : bound[f] = NoFile /\ holders[f] = 0
  BY Pointers DEF Init
<1>2. \A t \in Threads : ~InCall(t)
  BY DEF Init, InCall
<1>3. TypeOK
  <2>1. handle \in [FilePtr -> Int]
    BY DEF Init
  <2>2. fdt \in [Fds -> Names \cup Std \cup {NoFile}]
    BY DEF Init, Std
  <2>3. bound \in [FilePtr -> Names \cup Std \cup {NoFile}] /\ holders \in [FilePtr -> Nat]
    BY DEF Init
  <2>4. call \in [Threads -> Call \cup {NoCall}] /\ firm \subseteq Addr
    BY DEF Init
  <2>5. resolved \in {0, 1} /\ used \in 0..BufLen
    BY DEF Init
  <2>6. raced \in BOOLEAN
    BY DEF Init
  <2> QED
    BY <2>1, <2>2, <2>3, <2>4, <2>5, <2>6 DEF TypeOK
<1>4. Calm
  <2>1. StdStay
    <3>1. \A s \in Std : bound[s] = s
      BY Pointers DEF Init
    <3>2. fdt[0] = stdin /\ fdt[1] = stdout /\ fdt[2] = stderr
      BY DEF Init, Fds
    <3> QED
      BY <3>1, <3>2, StdFds DEF StdStay, Std
  <2>2. FilesFirm
    <3>1. \A s \in Std : bound[s] # NoFile
      BY Pointers DEF Init
    <3> QED
      BY <1>1, <1>2, <3>1 DEF FilesFirm, FilePtr
  <2> QED
    BY <2>1, <2>2, <1>2 DEF Calm, OneAllocates, Allocating, At
<1>5. DescriptorsOwned
  <2>1. Opened = {}
    BY <1>1 DEF Opened
  <2>2. \A d \in Fds : d > 2 => fdt[d] = NoFile
    BY DEF Init, Fds
  <2> QED
    BY <2>1, <2>2 DEF DescriptorsOwned
<1>6. firm = {}
  BY DEF Init
<1>7. CallsKnown /\ InitProgress /\ FirmBelow /\ OneOwner
  BY <1>2, <1>6 DEF CallsKnown, InitProgress, FirmBelow, OneOwner
<1> QED
  BY <1>3, <1>4, <1>5, <1>7 DEF StreamInv

-----------------------------------------------------------------------------
(* A call that is under way is a record that fits its point. *)
LEMMA CallRecord ==
  ASSUME TypeOK, CallsKnown, NEW t \in Threads, InCall(t)
  PROVE  call[t] \in Call /\ Known(call[t]) /\ call[t].end \in 0..BufLen
BY DEF TypeOK, CallsKnown, InCall, Call

(* A step of t changes t's call only. *)
LEMMA OneCall ==
  ASSUME TypeOK, NEW t \in Threads, NEW c, call' = [call EXCEPT ![t] = c]
  PROVE  /\ call'[t] = c
         /\ \A u \in Threads : u # t => call'[u] = call[u]
BY DEF TypeOK

LEMMA KnownStep ==
  ASSUME TypeOK, CallsKnown, NEW t \in Threads, NEW c,
         call' = [call EXCEPT ![t] = c],
         c # NoCall => Known(c)
  PROVE  CallsKnown'
<1> SUFFICES ASSUME NEW u \in Threads, call'[u] # NoCall PROVE Known(call'[u])
  BY DEF CallsKnown, InCall, Known
<1>1. call'[t] = c /\ \A v \in Threads : v # t => call'[v] = call[v]
  BY OneCall
<1>2. CASE u = t
  BY <1>1, <1>2
<1>3. CASE u # t
  BY <1>1, <1>3 DEF CallsKnown, InCall
<1> QED
  BY <1>2, <1>3

(* What initStreams has stored stays. *)
LEMMA FarStep ==
  ASSUME TypeOK, InitProgress, NEW t \in Threads, NEW c,
         call' = [call EXCEPT ![t] = c],
         \A s \in Std : handle'[s] = handle[s] \/ handle'[s] = StdFd[s],
         c # NoCall =>
           /\ c.at = "stdout" => handle'[stdin] = StdFd[stdin]
           /\ c.at = "stderr" => handle'[stdin] = StdFd[stdin] /\ handle'[stdout] = StdFd[stdout]
           /\ c.at = "act" /\ ~c.first => \A s \in Std : handle'[s] = StdFd[s]
  PROVE  InitProgress'
<1> SUFFICES ASSUME NEW u \in Threads, call'[u] # NoCall
             PROVE  /\ call'[u].at = "stdout" => handle'[stdin] = StdFd[stdin]
                    /\ call'[u].at = "stderr" =>
                         handle'[stdin] = StdFd[stdin] /\ handle'[stdout] = StdFd[stdout]
                    /\ call'[u].at = "act" /\ ~call'[u].first =>
                         \A s \in Std : handle'[s] = StdFd[s]
  BY DEF InitProgress, InCall, Far, Initialised
<1>1. call'[t] = c /\ \A v \in Threads : v # t => call'[v] = call[v]
  BY OneCall
<1>2. CASE u = t
  BY <1>1, <1>2
<1>3. CASE u # t
  <2>1. call'[u] = call[u] /\ InCall(u)
    BY <1>1, <1>3 DEF InCall
  <2>2. Far(call[u])
    BY <2>1 DEF InitProgress
  <2> QED
    BY <2>1, <2>2 DEF Far, Initialised, Std
<1> QED
  BY <1>2, <1>3

(* Nothing is stored, or loaded, below the end of a firm File. *)
LEMMA BelowStep ==
  ASSUME TypeOK, FirmBelow, NEW t \in Threads, NEW c,
         call' = [call EXCEPT ![t] = c],
         firm' = firm,
         \A f \in firm : f + FileSize <= used',
         c # NoCall /\ c.at \in {"creating", "copying"} =>
           \A f \in firm : f + FileSize <= c.end
  PROVE  FirmBelow'
<1>1. call'[t] = c /\ \A v \in Threads : v # t => call'[v] = call[v]
  BY OneCall
<1> SUFFICES ASSUME NEW f \in firm, NEW u \in Threads, Allocating(u)'
             PROVE  f + FileSize <= call'[u].end
  BY DEF FirmBelow, FileSize
<1>2. CASE u = t
  BY <1>1, <1>2 DEF Allocating, At, InCall
<1>3. CASE u # t
  <2>1. call'[u] = call[u] /\ Allocating(u)
    BY <1>1, <1>3 DEF Allocating, At, InCall
  <2> QED
    BY <2>1 DEF FirmBelow
<1> QED
  BY <1>2, <1>3

(* The owners of firm Files stay when t goes on with its call, or begins one on
   a File that is not firm or only uses one that its caller has. *)
MayFollow(t, c) ==
  \/ c.stream \notin firm
  \/ InCall(t) /\ c.op = call[t].op /\ c.stream = call[t].stream
  \/ c.op = "io" /\ holders[c.stream] > 0

LEMMA OwnerStep ==
  ASSUME TypeOK, OneOwner, NEW t \in Threads, NEW c,
         call' = [call EXCEPT ![t] = c],
         UNCHANGED <<firm, holders>>,
         c # NoCall => MayFollow(t, c)
  PROVE  OneOwner'
<1>1. call'[t] = c /\ \A v \in Threads : v # t => call'[v] = call[v]
  BY OneCall
<1> SUFFICES ASSUME NEW f \in firm
             PROVE  /\ holders[f] <= 1
                    /\ \A v, u \in Threads :
                         Owning(v, f)' => holders[f] = 0 /\ (u # v /\ InCall(u)' => call'[u].stream # f)
  BY DEF OneOwner
<1>2. \A v \in Threads : Owning(v, f)' => Owning(v, f)
  <2> SUFFICES ASSUME NEW v \in Threads, Owning(v, f)' PROVE Owning(v, f)
    OBVIOUS
  <2>1. CASE v = t
    BY <1>1, <2>1 DEF Owning, InCall, MayFollow
  <2>2. CASE v # t
    BY <1>1, <2>2 DEF Owning, InCall
  <2> QED
    BY <2>1, <2>2
<1>3. \A u \in Threads : InCall(u)' /\ call'[u].stream = f =>
        holders[f] > 0 \/ (InCall(u) /\ call[u].stream = f)
  <2> SUFFICES ASSUME NEW u \in Threads, InCall(u)', call'[u].stream = f
               PROVE  holders[f] > 0 \/ (InCall(u) /\ call[u].stream = f)
    OBVIOUS
  <2>1. CASE u = t
    BY <1>1, <2>1 DEF InCall, MayFollow
  <2>2. CASE u # t
    BY <1>1, <2>2 DEF InCall
  <2> QED
    BY <2>1, <2>2
<1> QED
  BY <1>2, <1>3 DEF OneOwner

(* No overlap yet, and nothing but the call of t changes. *)
LEMMA CalmStep ==
  ASSUME TypeOK, Calm, NEW t \in Threads, NEW c,
         call' = [call EXCEPT ![t] = c],
         UNCHANGED <<fdt, bound, holders, used, firm>>,
         c # NoCall => OnFirm(c),
         c # NoCall /\ c.at \in {"creating", "copying"} =>
           c.end = used /\ \A u \in Threads : u # t => ~Allocating(u)
  PROVE  Calm'
<1>1. call'[t] = c /\ \A v \in Threads : v # t => call'[v] = call[v]
  BY OneCall
<1>2. StdStay'
  BY DEF Calm, StdStay
<1>3. FilesFirm'
  <2> SUFFICES ASSUME NEW u \in Threads, call'[u] # NoCall PROVE OnFirm(call'[u])
    BY DEF Calm, FilesFirm, OnFirm, InCall
  <2>1. CASE u = t
    BY <1>1, <2>1
  <2>2. CASE u # t
    BY <1>1, <2>2 DEF Calm, FilesFirm, InCall
  <2> QED
    BY <2>1, <2>2
<1>4. OneAllocates'
  <2>1. \A u \in Threads : u # t => (Allocating(u)' <=> Allocating(u))
    BY <1>1 DEF Allocating, At, InCall
  <2>2. Allocating(t)' => c # NoCall /\ c.at \in {"creating", "copying"}
    BY <1>1 DEF Allocating, At, InCall
  <2> SUFFICES ASSUME NEW u \in Threads, Allocating(u)'
               PROVE  call'[u].end = used /\ \A v \in Threads : v # u => ~Allocating(v)'
    BY DEF OneAllocates
  <2>3. CASE u = t
    BY <1>1, <2>1, <2>2, <2>3
  <2>4. CASE u # t
    <3>1. Allocating(u) /\ call'[u] = call[u]
      BY <1>1, <2>1, <2>4
    <3>2. ~Allocating(t)'
      BY <2>2, <2>4, <3>1
    <3> QED
      BY <2>1, <3>1, <3>2 DEF Calm, OneAllocates
  <2> QED
    BY <2>3, <2>4
<1> QED
  BY <1>2, <1>3, <1>4 DEF Calm

(* Streams keep their descriptors when no File of an open stream changes. *)
LEMMA OwnedStep ==
  ASSUME DescriptorsOwned, UNCHANGED <<fdt, bound>>,
         ~raced' => ~raced /\ \A f \in Opened : handle'[f] = handle[f]
  PROVE  DescriptorsOwned'
<1>1. Opened' = Opened /\ \A f \in Opened : f \in Addr
  BY DEF Opened
<1> QED
  BY <1>1 DEF DescriptorsOwned, Denotes

-----------------------------------------------------------------------------
(* The call of t begins, moves on or ends, and nothing else changes. *)
LEMMA QuietKeeps ==
  ASSUME StreamInv, NEW t \in Threads, NEW c \in Call \cup {NoCall},
         call' = [call EXCEPT ![t] = c],
         UNCHANGED <<handle, fdt, used, bound, holders, raced, firm>>,
         resolved' \in {0, 1},
         c # NoCall =>
           /\ Known(c)
           /\ c.at \notin {"creating", "copying", "stdout", "stderr"}
           /\ c.at = "act" => c.first
           /\ ~raced => OnFirm(c)
           /\ MayFollow(t, c)
  PROVE  StreamInv'
<1> USE DEF StreamInv
<1>1. TypeOK'
  BY DEF TypeOK
<1>2. CallsKnown'
  BY KnownStep
<1>3. InitProgress'
  BY FarStep
<1>4. FirmBelow'
  BY BelowStep DEF FirmBelow
<1>5. OneOwner'
  BY OwnerStep
<1>6. ~raced' => Calm'
  BY CalmStep
<1>7. DescriptorsOwned'
  BY OwnedStep
<1> QED
  BY <1>1, <1>2, <1>3, <1>4, <1>5, <1>6, <1>7

(* fopen begins, and calls that use a stream. *)
LEMMA BeginKeeps ==
  ASSUME StreamInv, NEW t \in Threads,
         (\E name \in Names : Fopen(t, name)) \/ (\E f \in FilePtr : IoCall(t, f))
  PROVE  StreamInv'
<1> USE DEF StreamInv
<1>1. ASSUME NEW name \in Names, Fopen(t, name) PROVE StreamInv'
  <2> DEFINE c == [op |-> "fopen", stream |-> NoFile, name |-> name, at |-> "create",
                   first |-> FALSE, end |-> 0]
  <2>1. c \in Call
    BY DEF Call, Point
  <2>2. Known(c) /\ OnFirm(c) /\ c.at = "create" /\ c.stream = NoFile
    BY DEF Known, OnFirm
  <2>3. MayFollow(t, c)
    BY <2>2, Pointers DEF MayFollow, TypeOK
  <2>4. /\ call' = [call EXCEPT ![t] = c]
        /\ UNCHANGED <<handle, fdt, used, bound, holders, raced, firm>>
        /\ resolved' \in {0, 1}
    BY <1>1 DEF Fopen, Enter, TypeOK
  <2> HIDE DEF c
  <2> QED
    BY <2>1, <2>2, <2>3, <2>4, QuietKeeps
<1>2. ASSUME NEW f \in FilePtr, IoCall(t, f) PROVE StreamInv'
  <2> DEFINE c == [op |-> "io", stream |-> f, name |-> NoFile, at |-> "cas",
                   first |-> FALSE, end |-> 0]
  <2>1. c \in Call
    BY DEF Call, Point
  <2>2. holders[f] > 0
    BY <1>2 DEF IoCall, MayUse
  <2>3. Known(c) /\ MayFollow(t, c) /\ c.at = "cas"
    BY <2>2 DEF Known, MayFollow
  <2>4. ~raced => OnFirm(c)
    BY <2>2 DEF OnFirm, Calm, FilesFirm
  <2>5. /\ call' = [call EXCEPT ![t] = c]
        /\ UNCHANGED <<handle, fdt, used, bound, holders, raced, firm>>
        /\ resolved' \in {0, 1}
    BY <1>2 DEF IoCall, Enter, TypeOK
  <2> HIDE DEF c
  <2> QED
    BY <2>1, <2>3, <2>4, <2>5, QuietKeeps
<1> QED
  BY <1>1, <1>2

(* The steps that change the call only. *)
LEMMA PlainStepsKeep ==
  ASSUME StreamInv, NEW t \in Threads,
         CreateRefused(t) \/ OpenNoMemory(t) \/ OpenRefused(t) \/ Io(t) \/ IoPanics(t)
           \/ Cas(t)
  PROVE  StreamInv'
<1> USE DEF StreamInv
<1>1. CASE CreateRefused(t) \/ OpenNoMemory(t) \/ OpenRefused(t) \/ Io(t)
  BY <1>1, QuietKeeps DEF CreateRefused, OpenNoMemory, OpenRefused, Io, Return, TypeOK
<1>2. CASE Cas(t)
  <2> DEFINE c == Moved(t, call[t].stream, IF resolved = 0 THEN "act" ELSE "stdin",
                        resolved = 0, 0)
  <2>1. At(t, "cas") /\ InCall(t) /\ call[t] \in Call /\ Known(call[t])
    BY <1>2, CallRecord DEF Cas, At
  <2>2. /\ c.op = call[t].op /\ c.stream = call[t].stream /\ c.name = call[t].name
        /\ c.at \in {"act", "stdin"}
        /\ c.at = "act" => c.first
    BY DEF Moved
  <2>3. c \in Call
    BY <2>1 DEF Moved, Call, Point
  <2> HIDE DEF c
  <2>4. Known(c)
    BY <2>1, <2>2 DEF Known, At
  <2>5. ~raced => OnFirm(c)
    <3>1. ~raced => OnFirm(call[t])
      BY <2>1 DEF Calm, FilesFirm
    <3> QED
      BY <3>1, <2>1, <2>2 DEF OnFirm, At
  <2>6. MayFollow(t, c)
    BY <2>1, <2>2 DEF MayFollow
  <2>7. /\ call' = [call EXCEPT ![t] = c]
        /\ UNCHANGED <<handle, fdt, used, bound, holders, raced, firm>>
        /\ resolved' \in {0, 1}
    BY <1>2 DEF Cas, c, TypeOK
  <2>8. c.at \notin {"creating", "copying", "stdout", "stderr"}
    BY <2>2
  <2> QED
    BY <2>2, <2>3, <2>4, <2>5, <2>6, <2>7, <2>8, QuietKeeps
<1>3. CASE IoPanics(t)
  <2> DEFINE c == Moved(t, call[t].stream, "panicked", call[t].first, 0)
  <2>1. At(t, "act") /\ InCall(t) /\ call[t] \in Call /\ Known(call[t]) /\ call[t].op = "io"
    BY <1>3, CallRecord DEF IoPanics, At
  <2>2. c.op = "io" /\ c.stream = call[t].stream /\ c.at = "panicked"
    BY <2>1 DEF Moved
  <2>3. c \in Call
    BY <2>1 DEF Moved, Call, Point
  <2> HIDE DEF c
  <2>4. Known(c)
    BY <2>1, <2>2 DEF Known, At
  <2>5. ~raced => OnFirm(c)
    <3>1. ~raced => OnFirm(call[t])
      BY <2>1 DEF Calm, FilesFirm
    <3> QED
      BY <3>1, <2>1, <2>2 DEF OnFirm, At
  <2>6. MayFollow(t, c)
    BY <2>1, <2>2 DEF MayFollow
  <2>7. /\ call' = [call EXCEPT ![t] = c]
        /\ UNCHANGED <<handle, fdt, used, bound, holders, raced, firm>>
        /\ resolved' \in {0, 1}
    BY <1>3 DEF IoPanics, Goto, c, TypeOK
  <2> QED
    BY <2>2, <2>3, <2>4, <2>5, <2>6, <2>7, QuietKeeps
<1> QED
  BY <1>1, <1>2, <1>3

(* A caller that gives its stream up to close or reopen it is its only owner, if
   the File is firm, and nobody is in a call on it. *)
LEMMA GiveUpKeeps ==
  ASSUME StreamInv, Closable = {}, NEW t \in Threads, NEW f \in FilePtr,
         NEW op \in {"fclose", "freopen"}, NEW name \in Names \cup {NoFile},
         NEW point \in {"cas", "panicked"},
         op = "freopen" /\ point = "cas" => name \in Names,
         MayClose(f), Enter(t, op, f, name, point), GiveUp(f)
  PROVE  StreamInv'
<1> USE DEF StreamInv
<1> DEFINE c == [op |-> op, stream |-> f, name |-> name, at |-> point, first |-> FALSE,
                 end |-> 0]
<1>1. c \in Call
  BY DEF Call, Point
<1>2. f \in Addr /\ holders[f] > 0
  BY DEF MayClose, FilePtr
<1>3. /\ call' = [call EXCEPT ![t] = c]
      /\ holders' = [holders EXCEPT ![f] = holders[f] - 1]
      /\ UNCHANGED <<resolved, handle, fdt, used, bound, raced, firm>>
  BY DEF Enter, GiveUp
<1>4. c.op = op /\ c.stream = f /\ c.name = name /\ c.at = point
  OBVIOUS
<1> HIDE DEF c
<1>5. Known(c)
  BY <1>2, <1>4 DEF Known
<1>6. /\ holders'[f] = holders[f] - 1
      /\ \A g \in FilePtr : g # f => holders'[g] = holders[g]
      /\ holders[f] \in Nat
  BY <1>3 DEF TypeOK
<1>7. TypeOK'
  <2>1. holders' \in [FilePtr -> Nat]
    BY <1>2, <1>3, <1>6 DEF TypeOK
  <2> QED
    BY <1>1, <1>3, <2>1 DEF TypeOK
<1>8. CallsKnown'
  BY <1>3, <1>5, KnownStep
<1>9. InitProgress'
  BY <1>3, <1>4, FarStep
<1>10. FirmBelow'
  BY <1>3, <1>4, BelowStep DEF FirmBelow
<1>11. call'[t] = c /\ \A v \in Threads : v # t => call'[v] = call[v]
  BY <1>3, OneCall
<1>12. OneOwner'
  <2> SUFFICES ASSUME NEW g \in firm
               PROVE  /\ holders'[g] <= 1
                      /\ \A v, u \in Threads :
                           Owning(v, g)' =>
                             holders'[g] = 0 /\ (u # v /\ InCall(u)' => call'[u].stream # g)
    BY <1>3 DEF OneOwner
  <2>1. g \in FilePtr
    BY Pointers DEF TypeOK
  <2>2. CASE g = f
    <3>1. holders[f] = 1 /\ \A v \in Threads : ~Owning(v, f)
      BY <1>2, <1>6, <2>2 DEF OneOwner
    <3>2. \A v \in Threads : InCall(v) => call[v].stream # f
      BY <3>1, CallRecord DEF MayClose, Owning, Closing
    <3>3. \A v \in Threads : v # t => (InCall(v)' => call'[v].stream # f)
      BY <3>2, <1>11 DEF InCall
    <3>4. \A v \in Threads : Owning(v, f)' => v = t
      BY <3>3 DEF Owning
    <3> QED
      BY <2>2, <3>1, <3>3, <3>4, <1>6
  <2>3. CASE g # f
    <3>1. holders'[g] = holders[g]
      BY <2>1, <2>3, <1>6
    <3>2. \A v \in Threads : InCall(v)' /\ call'[v].stream = g => v # t
      BY <2>3, <1>4, <1>11
    <3>3. \A v \in Threads : InCall(v)' /\ call'[v].stream = g =>
            InCall(v) /\ call'[v] = call[v]
      BY <3>2, <1>11 DEF InCall
    <3>4. \A v \in Threads : Owning(v, g)' => Owning(v, g)
      BY <3>3 DEF Owning
    <3> QED
      BY <3>1, <3>3, <3>4 DEF OneOwner
  <2> QED
    BY <2>2, <2>3
<1>13. ASSUME ~raced' PROVE Calm'
  <2>1. Calm
    BY <1>3, <1>13
  <2>2. OnFirm(c)
    BY <1>2, <1>4, <2>1, Pointers DEF OnFirm, Calm, FilesFirm
  <2>3. StdStay' /\ OneAllocates'
    <3>1. \A u \in Threads : Allocating(u)' => u # t /\ Allocating(u) /\ call'[u] = call[u]
      BY <1>4, <1>11 DEF Allocating, At, InCall
    <3>2. \A u \in Threads : u # t => (Allocating(u)' <=> Allocating(u))
      BY <1>11 DEF Allocating, At, InCall
    <3> QED
      BY <2>1, <3>1, <3>2, <1>3 DEF Calm, StdStay, OneAllocates
  <2>4. FilesFirm'
    <3>1. \A g \in FilePtr : holders'[g] > 0 => holders[g] > 0
      BY <1>2, <1>6
    <3>2. ASSUME NEW u \in Threads, call'[u] # NoCall PROVE OnFirm(call'[u])
      <4>1. CASE u = t
        BY <4>1, <1>11, <2>2
      <4>2. CASE u # t
        BY <3>2, <4>2, <1>11, <2>1 DEF Calm, FilesFirm, InCall
      <4> QED
        BY <4>1, <4>2
    <3> QED
      BY <3>1, <3>2, <2>1, <1>3, Pointers DEF Calm, FilesFirm, OnFirm, InCall
  <2> QED
    BY <2>3, <2>4 DEF Calm
<1>14. DescriptorsOwned'
  BY <1>3, OwnedStep
<1> QED
  BY <1>7, <1>8, <1>9, <1>10, <1>12, <1>13, <1>14

LEMMA CallsKeep ==
  ASSUME StreamInv, Closable = {}, NEW t \in Threads, Calls(t)
  PROVE  StreamInv'
<1>1. CASE (\E name \in Names : Fopen(t, name)) \/ (\E f \in FilePtr : IoCall(t, f))
  BY <1>1, BeginKeeps
<1>2. ASSUME NEW f \in FilePtr, Fclose(t, f) PROVE StreamInv'
  BY <1>2, GiveUpKeeps DEF Fclose
<1>3. ASSUME NEW f \in FilePtr, FreopenNull(t, f) PROVE StreamInv'
  BY <1>3, GiveUpKeeps DEF FreopenNull
<1>4. ASSUME NEW f \in FilePtr, NEW name \in Names, Freopen(t, f, name) PROVE StreamInv'
  BY <1>4, GiveUpKeeps DEF Freopen
<1> QED
  BY <1>1, <1>2, <1>3, <1>4 DEF Calls

-----------------------------------------------------------------------------
(* A second load while another call is under way is a race. *)
LEMMA LoadKeeps ==
  ASSUME StreamInv, NEW t \in Threads, LoadForFile(t) \/ LoadForPath(t)
  PROVE  StreamInv'
<1> USE DEF StreamInv
<1>1. PICK from \in {"create", "open"}, to \in {"creating", "copying"} :
        /\ LoadEnd(t, from, to)
        /\ from = "create" <=> to = "creating"
  BY DEF LoadForFile, LoadForPath
<1> DEFINE c == Moved(t, call[t].stream, to, call[t].first, used)
<1>2. At(t, from) /\ InCall(t) /\ call[t] \in Call /\ Known(call[t])
  BY <1>1, CallRecord DEF LoadEnd, At
<1>3. /\ c.op = call[t].op /\ c.stream = call[t].stream /\ c.name = call[t].name
      /\ c.at = to /\ c.end = used
  BY DEF Moved
<1>4. c \in Call
  BY <1>1, <1>2 DEF Moved, Call, Point, TypeOK
<1>5. /\ call' = [call EXCEPT ![t] = c]
      /\ raced' = (raced \/ \E u \in Threads : Allocating(u))
      /\ UNCHANGED <<resolved, handle, fdt, used, bound, holders, firm>>
  BY <1>1 DEF LoadEnd
<1> HIDE DEF c
<1>6. Known(c)
  BY <1>1, <1>2, <1>3 DEF Known, At
<1>7. TypeOK'
  <2>1. raced' \in BOOLEAN
    BY <1>5
  <2> QED
    BY <2>1, <1>4, <1>5 DEF TypeOK
<1>8. CallsKnown' /\ InitProgress'
  BY <1>1, <1>3, <1>5, <1>6, KnownStep, FarStep
<1>9. FirmBelow'
  BY <1>3, <1>5, BelowStep DEF FirmBelow
<1>10. OneOwner'
  <2>1. MayFollow(t, c)
    BY <1>2, <1>3 DEF MayFollow
  <2> QED
    BY <2>1, <1>5, OwnerStep
<1>11. ASSUME ~raced' PROVE Calm'
  <2>1. Calm /\ \A u \in Threads : ~Allocating(u)
    BY <1>5, <1>11
  <2>2. OnFirm(c)
    <3>1. OnFirm(call[t])
      BY <2>1, <1>2 DEF Calm, FilesFirm
    <3> QED
      BY <3>1, <1>1, <1>2, <1>3 DEF OnFirm, At, Known
  <2> QED
    BY <2>1, <2>2, <1>3, <1>5, CalmStep
<1>12. DescriptorsOwned'
  BY <1>5, OwnedStep
<1> QED
  BY <1>7, <1>8, <1>9, <1>10, <1>11, <1>12

(* initStreams stores what an earlier run of it stored, and nothing else. *)
LEMMA InitStreamKeeps ==
  ASSUME StreamInv, NEW t \in Threads, InitStreams(t)
  PROVE  StreamInv'
<1> USE DEF StreamInv
<1>1. PICK s \in Std, from \in {"stdin", "stdout", "stderr"}, to \in {"stdout", "stderr", "act"} :
        /\ InitStream(t, from, s, to)
        /\ \/ from = "stdin" /\ s = stdin /\ to = "stdout"
           \/ from = "stdout" /\ s = stdout /\ to = "stderr"
           \/ from = "stderr" /\ s = stderr /\ to = "act"
  BY DEF InitStreams, Std
<1> DEFINE c == Moved(t, call[t].stream, to, call[t].first, 0)
<1>2. InCall(t) /\ call[t].at = from /\ call[t] \in Call /\ Known(call[t])
  BY <1>1, CallRecord DEF InitStream, At
<1>3. /\ call' = [call EXCEPT ![t] = c]
      /\ handle' = [handle EXCEPT ![s] = StdFd[s]]
      /\ UNCHANGED <<resolved, fdt, used, bound, holders, raced, firm>>
  BY <1>1 DEF InitStream, Goto
<1>4. /\ c \in Call /\ c.op = call[t].op /\ c.stream = call[t].stream
      /\ c.name = call[t].name /\ c.at = to
  BY <1>1, <1>2 DEF Moved, Call, Point
<1> HIDE DEF c
<1>5. /\ handle'[s] = StdFd[s]
      /\ \A f \in FilePtr : f # s => handle'[f] = handle[f]
      /\ \A f \in Addr : handle'[f] = handle[f]
  BY <1>3, Pointers DEF TypeOK
<1>6. TypeOK'
  <2>1. StdFd[s] \in Int
    BY StdFds
  <2>2. handle' \in [FilePtr -> Int]
    BY <2>1, <1>3 DEF TypeOK
  <2> QED
    BY <1>3, <1>4, <2>2 DEF TypeOK
<1>7. CallsKnown'
  <2>1. Known(c)
    BY <1>1, <1>2, <1>4 DEF Known
  <2> QED
    BY <2>1, <1>3, KnownStep
<1>8. InitProgress'
  <2>1. \A r \in Std : handle'[r] = handle[r] \/ handle'[r] = StdFd[r]
    BY <1>5, Pointers
  <2>2. Far(call[t])
    BY <1>2 DEF InitProgress
  <2>3. /\ to = "stdout" => handle'[stdin] = StdFd[stdin]
        /\ to = "stderr" => handle'[stdin] = StdFd[stdin] /\ handle'[stdout] = StdFd[stdout]
        /\ to = "act" => \A r \in Std : handle'[r] = StdFd[r]
    BY <2>1, <2>2, <1>1, <1>2, <1>5 DEF Far, Initialised, Std
  <2> QED
    BY <2>1, <2>3, <1>3, <1>4, FarStep
<1>9. FirmBelow'
  BY <1>1, <1>3, <1>4, BelowStep DEF FirmBelow
<1>10. OneOwner'
  <2>1. MayFollow(t, c)
    BY <1>2, <1>4 DEF MayFollow
  <2> QED
    BY <2>1, <1>3, OwnerStep
<1>11. ASSUME ~raced' PROVE Calm'
  <2>1. OnFirm(c)
    <3>1. OnFirm(call[t])
      BY <1>2, <1>3, <1>11 DEF Calm, FilesFirm
    <3> QED
      BY <3>1, <1>1, <1>2, <1>4 DEF OnFirm
  <2> QED
    BY <2>1, <1>1, <1>3, <1>4, <1>11, CalmStep
<1>12. DescriptorsOwned'
  BY <1>3, <1>5, OwnedStep DEF Opened
<1> QED
  BY <1>6, <1>7, <1>8, <1>9, <1>10, <1>11, <1>12

(* fopen's File lies above every firm one; it is nobody's, unless calls have
   overlapped. *)
LEMMA CreateKeeps ==
  ASSUME StreamInv, NEW t \in Threads, CreateFile(t)
  PROVE  StreamInv'
<1> USE DEF StreamInv
<1>1. /\ At(t, "creating") /\ InCall(t) /\ call[t] \in Call /\ Known(call[t])
      /\ call[t].end \in 0..BufLen /\ Allocating(t)
  BY CallRecord DEF CreateFile, At, Allocating
<1>2. PICK f \in Addr :
        /\ f = AdjustedIndex(call[t].end, FileAlign)
        /\ f >= call[t].end /\ f + FileSize = used' /\ used' \in 0..BufLen
  BY <1>1, Bump DEF CreateFile, FileAlign, FileSize, Addr
<1> DEFINE c == Moved(t, f, "open", FALSE, 0)
<1>3. PICK h \in UndefHandles : handle' = [handle EXCEPT ![f] = h]
  BY <1>2 DEF CreateFile
<1>4. /\ call' = [call EXCEPT ![t] = c]
      /\ firm' = IF raced THEN firm ELSE firm \cup {f}
      /\ UNCHANGED <<resolved, fdt, bound, holders, raced>>
  BY <1>2 DEF CreateFile
<1>5. /\ c \in Call /\ c.op = "fopen" /\ c.stream = f /\ c.name = call[t].name
      /\ c.at = "open" /\ Known(c)
  BY <1>1, <1>2 DEF Moved, Call, Point, Known, At, FilePtr
<1> HIDE DEF c
<1>6. f \notin firm /\ \A g \in firm : g \in Int /\ g + FileSize <= f /\ g + FileSize <= used'
  <2>1. \A g \in firm : g \in Int /\ g + FileSize <= call[t].end
    BY <1>1 DEF FirmBelow, TypeOK, Addr
  <2> QED
    BY <2>1, <1>1, <1>2 DEF FileSize, Addr
<1>7. call'[t] = c /\ \A v \in Threads : v # t => call'[v] = call[v]
  BY <1>4, OneCall
<1>8. \A g \in FilePtr : g # f => handle'[g] = handle[g]
  BY <1>3 DEF TypeOK
<1>9. ASSUME ~raced
      PROVE  /\ bound[f] = NoFile /\ holders[f] = 0
             /\ \A u \in Threads : InCall(u) => call[u].stream # f
             /\ \A u \in Threads : u # t => ~Allocating(u)
  <2>1. bound[f] = NoFile /\ ~(holders[f] > 0)
    BY <1>2, <1>6, <1>9 DEF Calm, FilesFirm
  <2>2. holders[f] \in Nat
    BY <1>2, Pointers DEF TypeOK
  <2>3. \A u \in Threads : InCall(u) => OnFirm(call[u])
    BY <1>9 DEF Calm, FilesFirm
  <2>4. \A u \in Threads : InCall(u) => call[u].stream # f
    BY <2>3, <1>2, <1>6, Pointers DEF OnFirm
  <2> QED
    BY <2>1, <2>2, <2>4, <1>1, <1>9 DEF Calm, OneAllocates
<1>10. TypeOK'
  <2>1. h \in Int
    OBVIOUS
  <2>2. handle' \in [FilePtr -> Int]
    BY <2>1, <1>3 DEF TypeOK
  <2>3. firm' \subseteq Addr
    BY <1>2, <1>4 DEF TypeOK
  <2> QED
    BY <1>2, <1>4, <1>5, <2>2, <2>3 DEF TypeOK
<1>11. CallsKnown'
  BY <1>4, <1>5, KnownStep
<1>12. InitProgress'
  BY <1>2, <1>4, <1>5, <1>8, Pointers, FarStep
<1>13. FirmBelow'
  <2>1. CASE raced
    BY <2>1, <1>4, <1>5, <1>6, BelowStep
  <2>2. CASE ~raced
    <3>1. \A u \in Threads : ~Allocating(u)'
      BY <2>2, <1>5, <1>7, <1>9 DEF Allocating, At, InCall
    <3> QED
      BY <2>2, <3>1, <1>2, <1>4, <1>6 DEF FirmBelow, FileSize, Addr
  <2> QED
    BY <2>1, <2>2
<1>14. OneOwner'
  <2>1. CASE raced
    <3>1. MayFollow(t, c)
      BY <1>5, <1>6 DEF MayFollow
    <3> QED
      BY <2>1, <3>1, <1>4, OwnerStep
  <2>2. CASE ~raced
    <3> SUFFICES ASSUME NEW g \in firm'
                 PROVE  /\ holders[g] <= 1
                        /\ \A v, u \in Threads :
                             Owning(v, g)' =>
                               holders[g] = 0 /\ (u # v /\ InCall(u)' => call'[u].stream # g)
      BY <1>4 DEF OneOwner
    <3>1. CASE g = f
      <4>1. \A v \in Threads : v # t => (InCall(v)' => call'[v].stream # f)
        BY <2>2, <1>7, <1>9 DEF InCall
      <4>2. \A v \in Threads : Owning(v, f)' => v = t
        BY <4>1 DEF Owning
      <4> QED
        BY <3>1, <4>1, <4>2, <2>2, <1>9
    <3>2. CASE g # f
      <4>1. g \in firm
        BY <3>2, <1>4
      <4>2. \A v \in Threads : InCall(v)' /\ call'[v].stream = g =>
              InCall(v) /\ call'[v] = call[v]
        BY <3>2, <1>5, <1>7 DEF InCall
      <4>3. \A v \in Threads : Owning(v, g)' => Owning(v, g)
        BY <4>2 DEF Owning
      <4> QED
        BY <4>1, <4>2, <4>3 DEF OneOwner
    <3> QED
      BY <3>1, <3>2
  <2> QED
    BY <2>1, <2>2
<1>15. ASSUME ~raced' PROVE Calm'
  <2>1. ~raced /\ Calm /\ firm' = firm \cup {f}
    BY <1>4, <1>15
  <2>2. StdStay' /\ OneAllocates'
    <3>1. \A u \in Threads : ~Allocating(u)'
      BY <2>1, <1>5, <1>7, <1>9 DEF Allocating, At, InCall
    <3> QED
      BY <2>1, <3>1, <1>4 DEF Calm, StdStay, OneAllocates
  <2>3. FilesFirm'
    <3>1. ASSUME NEW u \in Threads, call'[u] # NoCall PROVE OnFirm(call[u])'
      <4>1. CASE u = t
        BY <4>1, <1>4, <1>5, <1>7, <1>9, <2>1 DEF OnFirm
      <4>2. CASE u # t
        <5>1. call'[u] = call[u] /\ OnFirm(call[u])
          BY <3>1, <4>2, <1>7, <2>1 DEF Calm, FilesFirm, InCall
        <5> QED
          BY <5>1, <1>4, <2>1 DEF OnFirm
      <4> QED
        BY <4>1, <4>2
    <3> QED
      BY <3>1, <2>1, <1>4 DEF Calm, FilesFirm, InCall
  <2> QED
    BY <2>2, <2>3 DEF Calm
<1>16. DescriptorsOwned'
  <2>1. ~raced' => ~raced /\ \A g \in Opened : handle'[g] = handle[g]
    BY <1>4, <1>8, <1>9, Pointers DEF Opened
  <2> QED
    BY <2>1, <1>4, OwnedStep
<1> QED
  BY <1>10, <1>11, <1>12, <1>13, <1>14, <1>15, <1>16

(* The copy of a path lies above every firm File. *)
LEMMA CopyKeeps ==
  ASSUME StreamInv, NEW t \in Threads, CopyPath(t)
  PROVE  /\ StreamInv'
         /\ \A f \in firm : handle'[f] = handle[f]
<1> USE DEF StreamInv
<1> DEFINE c == Moved(t, call[t].stream, "opening", call[t].first, 0)
<1>1. /\ At(t, "copying") /\ InCall(t) /\ call[t] \in Call /\ Known(call[t])
      /\ call[t].end \in 0..BufLen /\ Allocating(t)
  BY CallRecord DEF CopyPath, At, Allocating
<1>2. PathBytes(t) \in Nat
  <2>1. call[t].name \in Names
    BY <1>1 DEF Known, At
  <2> QED
    BY <2>1 DEF PathBytes
<1>3. /\ AdjustedIndex(call[t].end, AlignOfU8) \in Nat
      /\ AdjustedIndex(call[t].end, AlignOfU8) >= call[t].end
      /\ used' = AdjustedIndex(call[t].end, AlignOfU8) + PathBytes(t)
      /\ used' \in 0..BufLen
  BY <1>1, <1>2, Bump DEF CopyPath, AlignOfU8
<1>4. used' >= call[t].end
  BY <1>1, <1>2, <1>3
<1>5. PICK h \in [Overwritten(t) -> UndefHandles] :
        handle' = [f \in FilePtr |-> IF f \in Overwritten(t) THEN h[f] ELSE handle[f]]
  BY DEF CopyPath
<1>6. /\ call' = [call EXCEPT ![t] = c]
      /\ UNCHANGED <<resolved, fdt, bound, holders, raced, firm>>
  BY DEF CopyPath, Goto
<1>7. /\ c \in Call /\ c.op = call[t].op /\ c.stream = call[t].stream
      /\ c.name = call[t].name /\ c.at = "opening" /\ Known(c)
  BY <1>1 DEF Moved, Call, Point, Known, At
<1> HIDE DEF c
<1>8. \A f \in firm : f \in Int /\ f + FileSize <= call[t].end
  BY <1>1 DEF FirmBelow, TypeOK, Addr
<1>9. \A f \in firm : f \notin Overwritten(t)
  BY <1>1, <1>3, <1>8 DEF Overwritten, FileSize
<1>10. \A f \in FilePtr : f \notin Overwritten(t) => handle'[f] = handle[f]
  BY <1>5
<1>11. \A f \in firm : handle'[f] = handle[f]
  BY <1>9, <1>10, Pointers DEF TypeOK
<1>12. \A s \in Std : handle'[s] = handle[s]
  BY <1>10, Pointers DEF Overwritten
<1>13. TypeOK'
  <2>1. \A f \in Overwritten(t) : h[f] \in Int
    BY <1>5
  <2>2. handle' \in [FilePtr -> Int]
    BY <2>1, <1>5 DEF TypeOK
  <2> QED
    BY <1>3, <1>6, <1>7, <2>2 DEF TypeOK
<1>14. CallsKnown' /\ InitProgress'
  BY <1>6, <1>7, <1>12, KnownStep, FarStep
<1>15. FirmBelow'
  <2>1. \A f \in firm : f + FileSize <= used'
    BY <1>1, <1>3, <1>4, <1>8 DEF FileSize
  <2> QED
    BY <2>1, <1>6, <1>7, BelowStep
<1>16. OneOwner'
  <2>1. MayFollow(t, c)
    BY <1>1, <1>7 DEF MayFollow
  <2> QED
    BY <2>1, <1>6, OwnerStep
<1>17. ASSUME ~raced' PROVE Calm'
  <2>1. Calm
    BY <1>6, <1>17
  <2>2. call'[t] = c /\ \A v \in Threads : v # t => call'[v] = call[v]
    BY <1>6, OneCall
  <2>3. StdStay' /\ OneAllocates'
    <3>1. \A u \in Threads : u # t => ~Allocating(u)
      BY <2>1, <1>1 DEF Calm, OneAllocates
    <3>2. \A u \in Threads : ~Allocating(u)'
      BY <3>1, <2>2, <1>7 DEF Allocating, At, InCall
    <3> QED
      BY <2>1, <3>2, <1>6 DEF Calm, StdStay, OneAllocates
  <2>4. OnFirm(call[t])
    BY <2>1, <1>1 DEF Calm, FilesFirm
  <2>5. OnFirm(c)
    BY <2>4, <1>1, <1>7 DEF OnFirm, At
  <2>6. FilesFirm'
    <3>1. ASSUME NEW u \in Threads, call'[u] # NoCall PROVE OnFirm(call'[u])
      <4>1. CASE u = t
        BY <4>1, <2>2, <2>5
      <4>2. CASE u # t
        BY <3>1, <4>2, <2>1, <2>2 DEF Calm, FilesFirm, InCall
      <4> QED
        BY <4>1, <4>2
    <3> QED
      BY <3>1, <2>1, <1>6 DEF Calm, FilesFirm, OnFirm, InCall
  <2> QED
    BY <2>3, <2>6 DEF Calm
<1>18. DescriptorsOwned'
  <2>1. ~raced' => ~raced /\ \A f \in Opened : handle'[f] = handle[f]
    BY <1>6, <1>11 DEF Opened, Calm, FilesFirm
  <2> QED
    BY <2>1, <1>6, OwnedStep
<1> QED
  BY <1>11, <1>13, <1>14, <1>15, <1>16, <1>17, <1>18

(* What a call on a firm File, or any call before an overlap, may rely on: while
   it closes, reopens or makes its stream nobody else has the File. *)
LEMMA OwnersAlone ==
  ASSUME StreamInv, NEW t \in Threads, InCall(t), call[t].op # "io", call[t].stream \in Addr,
         call[t].stream \in firm \/ ~raced
  PROVE  /\ call[t].stream \in firm
         /\ holders[call[t].stream] = 0
         /\ \A u \in Threads : u # t /\ InCall(u) => call[u].stream # call[t].stream
<1>1. call[t].stream \in firm
  BY Pointers DEF StreamInv, Calm, FilesFirm, OnFirm
<1>2. Owning(t, call[t].stream)
  BY DEF Owning
<1> QED
  BY <1>1, <1>2 DEF StreamInv, OneOwner

(* Closing a stream from fopen frees its own descriptor and nobody else's, unless
   calls have overlapped. *)
LEMMA CloseKeeps ==
  ASSUME StreamInv, NEW t \in Threads, Close(t)
  PROVE  StreamInv'
<1> USE DEF StreamInv
<1>1. /\ At(t, "act") /\ InCall(t) /\ Closing(t) /\ call[t] \in Call /\ Known(call[t])
  BY CallRecord DEF Close, At
<1>2. PICK f \in Addr : f = call[t].stream
  BY <1>1 DEF Known, Closing
<1> DEFINE c == IF call[t].op = "fclose" THEN NoCall
                ELSE Moved(t, call[t].stream, "open", call[t].first, 0)
<1>3. PICK h \in UndefHandles : handle' = [handle EXCEPT ![f] = h]
  BY <1>2 DEF Close
<1>4. /\ fdt' = [d \in Fds |-> IF d = handle[f] THEN NoFile ELSE fdt[d]]
      /\ bound' = [bound EXCEPT ![f] = NoFile]
      /\ call' = [call EXCEPT ![t] = c]
      /\ UNCHANGED <<resolved, used, holders, raced, firm>>
  BY <1>2 DEF Close, Return, Goto
<1>5. /\ c \in Call \cup {NoCall}
      /\ c # NoCall => /\ c.op = "freopen" /\ c.op = call[t].op /\ c.stream = f /\ c.at = "open"
                      /\ Known(c)
  BY <1>1, <1>2 DEF Moved, Call, Point, Closing, Known, At
<1> HIDE DEF c
<1>6. call'[t] = c /\ \A v \in Threads : v # t => call'[v] = call[v]
  BY <1>4, OneCall
<1>7. /\ f \in FilePtr /\ f \notin Std /\ f # NoFile
      /\ bound'[f] = NoFile
      /\ \A g \in FilePtr : g # f => bound'[g] = bound[g] /\ handle'[g] = handle[g]
  BY <1>3, <1>4, Pointers DEF TypeOK
<1>8. TypeOK'
  <2>1. h \in Int
    OBVIOUS
  <2>2. handle' \in [FilePtr -> Int]
    BY <2>1, <1>3 DEF TypeOK
  <2>3. fdt' \in [Fds -> Names \cup Std \cup {NoFile}]
    BY <1>4 DEF TypeOK
  <2>4. bound' \in [FilePtr -> Names \cup Std \cup {NoFile}]
    BY <1>4 DEF TypeOK
  <2> QED
    BY <1>4, <1>5, <2>2, <2>3, <2>4 DEF TypeOK
<1>9. CallsKnown' /\ InitProgress'
  <2>1. \A s \in Std : handle'[s] = handle[s]
    BY <1>7, Pointers
  <2> QED
    BY <2>1, <1>4, <1>5, KnownStep, FarStep
<1>10. FirmBelow'
  BY <1>4, <1>5, BelowStep DEF FirmBelow
<1>11. OneOwner'
  <2>1. c # NoCall => MayFollow(t, c)
    BY <1>1, <1>2, <1>5 DEF MayFollow
  <2> QED
    BY <2>1, <1>4, OwnerStep
<1>12. ASSUME ~raced
       PROVE  /\ f \in Opened /\ f \in firm /\ holders[f] = 0
              /\ \A u \in Threads : u # t /\ InCall(u) => call[u].stream # f
              /\ \A s \in Std : StdFd[s] # handle[f] /\ StdFd[s] \in Fds
  <2>1. OnFirm(call[t])
    BY <1>1, <1>12 DEF Calm, FilesFirm
  <2>2. f \in Opened
    BY <2>1, <1>1, <1>2, <1>7 DEF OnFirm, At, Opened
  <2>3. \A s \in Std : StdFd[s] # handle[f] /\ StdFd[s] \in Fds
    BY <2>2, <1>12, StdFds DEF DescriptorsOwned
  <2> QED
    BY <2>2, <2>3, <1>1, <1>2, <1>12, OwnersAlone DEF Closing
<1>13. ASSUME ~raced' PROVE Calm'
  <2>1. ~raced /\ Calm
    BY <1>4, <1>13
  <2>2. StdStay'
    BY <2>1, <1>4, <1>7, <1>12, Pointers DEF Calm, StdStay
  <2>3. OneAllocates'
    <3>1. \A u \in Threads : u # t => (Allocating(u)' <=> Allocating(u))
      BY <1>6 DEF Allocating, At, InCall
    <3>2. ~Allocating(t)'
      BY <1>5, <1>6 DEF Allocating, At, InCall
    <3> QED
      BY <2>1, <3>1, <3>2, <1>4, <1>6 DEF Calm, OneAllocates
  <2>4. ASSUME NEW u \in Threads, InCall(u)' PROVE OnFirm(call[u])'
    <3>1. CASE u = t
      BY <2>1, <2>4, <3>1, <1>4, <1>5, <1>6, <1>7, <1>12 DEF OnFirm, InCall
    <3>2. CASE u # t
      <4>1. call'[u] = call[u] /\ InCall(u) /\ call[u].stream # f
        BY <2>1, <2>4, <3>2, <1>6, <1>12 DEF InCall
      <4>2. OnFirm(call[u]) /\ call[u] \in Call
        BY <2>1, <4>1, CallRecord DEF Calm, FilesFirm
      <4>3. call[u].stream # NoFile => bound'[call[u].stream] = bound[call[u].stream]
        BY <4>1, <4>2, <1>7 DEF Call
      <4> QED
        BY <4>1, <4>2, <4>3, <1>4 DEF OnFirm
    <3> QED
      BY <3>1, <3>2
  <2>5. FilesFirm'
    <3>1. \A g \in Addr : holders'[g] > 0 \/ bound'[g] # NoFile => g \in firm'
      BY <2>1, <1>4, <1>7, <1>12, Pointers DEF Calm, FilesFirm
    <3>2. \A g \in FilePtr : holders'[g] > 0 => bound'[g] # NoFile
      <4>1. \A g \in FilePtr : g # f => (holders'[g] > 0 => bound'[g] # NoFile)
        BY <2>1, <1>4, <1>7 DEF Calm, FilesFirm
      <4>2. ~(holders'[f] > 0)
        BY <2>1, <1>4, <1>12
      <4> QED
        BY <4>1, <4>2
    <3> QED
      BY <3>1, <3>2, <2>4 DEF FilesFirm
  <2> QED
    BY <2>2, <2>3, <2>5 DEF Calm
<1>14. DescriptorsOwned'
  <2> SUFFICES ASSUME ~raced' PROVE DescriptorsOwned'
    BY DEF DescriptorsOwned
  <2>0. ~raced
    BY <1>4
  <2>1. Opened' = Opened \ {f}
    BY <1>7, Pointers DEF Opened
  <2>2. ASSUME NEW g \in Opened'
        PROVE  /\ g \in Opened /\ handle'[g] = handle[g] /\ bound'[g] = bound[g]
               /\ handle[g] # handle[f]
    BY <2>0, <2>1, <1>7, <1>12, Pointers DEF DescriptorsOwned, Opened
  <2>3. \A g \in Opened' : Denotes(g)' /\ handle'[g] \notin {StdFd[s] : s \in Std}
    BY <2>0, <2>2, <1>4 DEF DescriptorsOwned, Denotes
  <2>4. \A g, k \in Opened' : g # k => handle'[g] # handle'[k]
    BY <2>0, <2>2 DEF DescriptorsOwned
  <2>5. ASSUME NEW d \in Fds, d > 2, fdt'[d] # NoFile
        PROVE  \E g \in Opened' : handle'[g] = d
    <3>1. d # handle[f] /\ fdt[d] # NoFile
      BY <2>5, <1>4
    <3>2. PICK g \in Opened : handle[g] = d
      BY <2>0, <2>5, <3>1 DEF DescriptorsOwned
    <3> QED
      BY <2>1, <3>1, <3>2, <1>7, Pointers DEF Opened
  <2> QED
    BY <2>3, <2>4, <2>5 DEF DescriptorsOwned
<1> QED
  BY <1>8, <1>9, <1>10, <1>11, <1>13, <1>14

(* A new descriptor is none of the standard ones and none of another stream's,
   unless calls have overlapped. *)
LEMMA OpenKeeps ==
  ASSUME StreamInv, NEW t \in Threads, NEW d \in Fds, NEW name \in Names,
         OpenDone(t, d, name)
  PROVE  StreamInv'
<1> USE DEF StreamInv
<1>1. /\ At(t, "opening") /\ InCall(t) /\ call[t] \in Call /\ Known(call[t])
      /\ call[t].op # "io" /\ call[t].name \in Names
  BY CallRecord DEF OpenDone, At, Known
<1>2. PICK f \in Addr : f = call[t].stream
  BY <1>1 DEF Known, At
<1>3. fdt[d] = NoFile /\ name \in PathsRead(t)
  BY DEF OpenDone, FreeFds
<1>4. /\ fdt' = [fdt EXCEPT ![d] = name]
      /\ handle' = [handle EXCEPT ![f] = d]
      /\ bound' = [bound EXCEPT ![f] = call[t].name]
      /\ holders' = [holders EXCEPT ![f] = holders[f] + 1]
      /\ call' = [call EXCEPT ![t] = NoCall]
      /\ UNCHANGED <<resolved, used, raced, firm>>
  BY <1>2 DEF OpenDone, Return
<1>5. call'[t] = NoCall /\ \A v \in Threads : v # t => call'[v] = call[v]
  BY <1>4, OneCall
<1>6. /\ f \in FilePtr /\ f \notin Std /\ f # NoFile
      /\ bound'[f] = call[t].name /\ call[t].name # NoFile /\ handle'[f] = d /\ fdt'[d] = name
      /\ holders'[f] = holders[f] + 1
      /\ \A g \in FilePtr : g # f =>
           bound'[g] = bound[g] /\ handle'[g] = handle[g] /\ holders'[g] = holders[g]
      /\ \A e \in Fds : e # d => fdt'[e] = fdt[e]
  BY <1>1, <1>4, Pointers DEF TypeOK
<1>7. TypeOK'
  <2>1. d \in Int
    BY DEF Fds
  <2>2. handle' \in [FilePtr -> Int]
    BY <2>1, <1>4 DEF TypeOK
  <2>3. fdt' \in [Fds -> Names \cup Std \cup {NoFile}]
    BY <1>4 DEF TypeOK
  <2>4. bound' \in [FilePtr -> Names \cup Std \cup {NoFile}]
    BY <1>1, <1>4 DEF TypeOK
  <2>5. holders' \in [FilePtr -> Nat]
    BY <1>4, <1>6 DEF TypeOK
  <2> QED
    BY <1>4, <2>2, <2>3, <2>4, <2>5 DEF TypeOK
<1>8. CallsKnown' /\ InitProgress'
  <2>1. \A s \in Std : handle'[s] = handle[s]
    BY <1>6, Pointers
  <2> QED
    BY <2>1, <1>4, KnownStep, FarStep
<1>9. FirmBelow'
  BY <1>4, BelowStep DEF FirmBelow
<1>10. OneOwner'
  <2> SUFFICES ASSUME NEW g \in firm
               PROVE  /\ holders'[g] <= 1
                      /\ \A v, u \in Threads :
                           Owning(v, g)' =>
                             holders'[g] = 0 /\ (u # v /\ InCall(u)' => call'[u].stream # g)
    BY <1>4 DEF OneOwner
  <2>1. g \in FilePtr
    BY Pointers DEF TypeOK
  <2>2. \A v \in Threads : InCall(v)' => v # t /\ InCall(v) /\ call'[v] = call[v]
    BY <1>5 DEF InCall
  <2>3. CASE g = f
    <3>1. holders[f] = 0 /\ \A u \in Threads : u # t /\ InCall(u) => call[u].stream # f
      BY <2>3, <1>1, <1>2, OwnersAlone
    <3>2. \A v \in Threads : ~Owning(v, f)'
      BY <2>2, <3>1 DEF Owning
    <3> QED
      BY <2>3, <3>1, <3>2, <1>6
  <2>4. CASE g # f
    <3>1. holders'[g] = holders[g]
      BY <2>1, <2>4, <1>6
    <3>2. \A v \in Threads : Owning(v, g)' => Owning(v, g)
      BY <2>2 DEF Owning
    <3> QED
      BY <2>2, <3>1, <3>2 DEF OneOwner
  <2> QED
    BY <2>3, <2>4
<1>11. ASSUME ~raced
       PROVE  /\ f \in firm /\ bound[f] = NoFile /\ name = call[t].name
              /\ \A u \in Threads : u # t /\ InCall(u) => call[u].stream # f
              /\ \A s \in Std : StdFd[s] # d /\ StdFd[s] \in Fds
  <2>1. OnFirm(call[t])
    BY <1>1, <1>11 DEF Calm, FilesFirm
  <2>2. bound[f] = NoFile
    BY <2>1, <1>1, <1>2, <1>6 DEF OnFirm, At
  <2>3. \A s \in Std : StdFd[s] # d /\ StdFd[s] \in Fds
    BY <1>3, <1>11, StdFds, Pointers DEF Calm, StdStay
  <2>4. name = call[t].name
    BY <1>3, <1>11 DEF PathsRead
  <2> QED
    BY <2>2, <2>3, <2>4, <1>1, <1>2, <1>11, OwnersAlone
<1>12. ASSUME ~raced' PROVE Calm'
  <2>1. ~raced /\ Calm
    BY <1>4, <1>12
  <2>2. StdStay'
    BY <2>1, <1>6, <1>11, Pointers DEF Calm, StdStay
  <2>3. OneAllocates'
    <3>1. \A u \in Threads : Allocating(u)' => Allocating(u) /\ call'[u] = call[u]
      BY <1>5 DEF Allocating, At, InCall
    <3> QED
      BY <2>1, <3>1, <1>4 DEF Calm, OneAllocates
  <2>4. ASSUME NEW u \in Threads, InCall(u)' PROVE OnFirm(call[u])'
    <3>1. u # t /\ call'[u] = call[u] /\ InCall(u) /\ call[u].stream # f
      BY <2>1, <2>4, <1>5, <1>11 DEF InCall
    <3>2. OnFirm(call[u]) /\ call[u] \in Call
      BY <2>1, <3>1, CallRecord DEF Calm, FilesFirm
    <3>3. call[u].stream # NoFile => bound'[call[u].stream] = bound[call[u].stream]
      BY <3>1, <3>2, <1>6 DEF Call
    <3> QED
      BY <3>1, <3>2, <3>3, <1>4 DEF OnFirm
  <2>5. FilesFirm'
    <3>1. \A g \in Addr : holders'[g] > 0 \/ bound'[g] # NoFile => g \in firm'
      BY <2>1, <1>4, <1>6, <1>11, Pointers DEF Calm, FilesFirm
    <3>2. \A g \in FilePtr : holders'[g] > 0 => bound'[g] # NoFile
      BY <2>1, <1>6 DEF Calm, FilesFirm
    <3> QED
      BY <3>1, <3>2, <2>4 DEF FilesFirm
  <2> QED
    BY <2>2, <2>3, <2>5 DEF Calm
<1>13. DescriptorsOwned'
  <2> SUFFICES ASSUME ~raced' PROVE DescriptorsOwned'
    BY DEF DescriptorsOwned
  <2>0. ~raced
    BY <1>4
  <2>1. Opened' = Opened \cup {f}
    BY <1>6, Pointers DEF Opened
  <2>2. ASSUME NEW g \in Opened
        PROVE  /\ g # f /\ handle'[g] = handle[g] /\ bound'[g] = bound[g]
               /\ handle[g] # d /\ handle[g] \in Fds /\ fdt[handle[g]] = bound[g]
    BY <2>0, <1>3, <1>6, <1>11, Pointers DEF DescriptorsOwned, Denotes, Opened
  <2>3. \A g \in Opened' : Denotes(g)' /\ handle'[g] \notin {StdFd[s] : s \in Std}
    BY <2>0, <2>1, <2>2, <1>6, <1>11 DEF DescriptorsOwned, Denotes
  <2>4. \A g, k \in Opened' : g # k => handle'[g] # handle'[k]
    BY <2>0, <2>1, <2>2, <1>6 DEF DescriptorsOwned
  <2>5. ASSUME NEW e \in Fds, e > 2, fdt'[e] # NoFile
        PROVE  \E g \in Opened' : handle'[g] = e
    BY <2>0, <2>1, <2>2, <2>5, <1>6 DEF DescriptorsOwned
  <2> QED
    BY <2>3, <2>4, <2>5 DEF DescriptorsOwned
<1> QED
  BY <1>7, <1>8, <1>9, <1>10, <1>12, <1>13

LEMMA NextStreamInv ==
  ASSUME StreamInv, Closable = {}, [Next]_vars
  PROVE  StreamInv'
<1>1. CASE UNCHANGED vars
  <2>1. Opened' = Opened
    BY <1>1 DEF Opened, vars
  <2>2. TypeOK' /\ CallsKnown' /\ InitProgress' /\ FirmBelow' /\ OneOwner'
    BY <1>1 DEF vars, StreamInv, TypeOK, CallsKnown, Known, InitProgress, Far, Initialised,
                FirmBelow, OneOwner, Owning, Allocating, At, InCall
  <2>3. ~raced' => Calm'
    BY <1>1 DEF vars, StreamInv, Calm, StdStay, FilesFirm, OnFirm, OneAllocates,
                Allocating, At, InCall
  <2>4. DescriptorsOwned'
    BY <1>1, <2>1 DEF vars, StreamInv, DescriptorsOwned, Denotes
  <2> QED
    BY <2>2, <2>3, <2>4 DEF StreamInv
<1>2. ASSUME NEW t \in Threads, Calls(t) \/ Step(t) PROVE StreamInv'
  BY <1>2, CallsKeep, PlainStepsKeep, LoadKeeps, CreateKeeps, CopyKeeps, InitStreamKeeps,
     CloseKeeps, OpenKeeps
     DEF Step
<1> QED
  BY <1>1, <1>2 DEF Next

LEMMA StreamInvariant ==
  ASSUME Closable = {}
  PROVE  Spec => []StreamInv
<1>1. StreamInv /\ [Next]_vars => StreamInv'
  BY NextStreamInv
<1> QED
  BY <1>1, InitStreamInv, PTL DEF Spec

-----------------------------------------------------------------------------
(* fopen, freopen and fclose by any number of threads, while others run
   initStreams: as long as no two calls of the unlocked allocator have overlapped
   and the standard streams are left open (Closable is empty), every open stream
   has a descriptor of its own, open on its file, and none is left over. *)
THEOREM StreamsDescriptorsOwned ==
  ASSUME Closable = {}
  PROVE  Spec => []DescriptorsOwned
<1>1. StreamInv => DescriptorsOwned
  BY DEF StreamInv
<1> QED
  BY <1>1, StreamInvariant, PTL

(* Whoever does not win the compare-and-swap of readOpaqueHandle works on an
   initialised File, however the threads inside initStreams interleave. *)
THEOREM StreamsOthersInitialised ==
  ASSUME Closable = {}
  PROVE  Spec => []OthersInitialised
<1>1. StreamInv => OthersInitialised
  <2> SUFFICES ASSUME StreamInv, NEW t \in Threads, At(t, "act"), ~call[t].first
               PROVE  /\ call[t].stream \in Std => Initialised(call[t].stream)
                      /\ ~raced => Denotes(call[t].stream)
    BY DEF OthersInitialised
  <2>1. InCall(t) /\ call[t].stream \in FilePtr /\ Far(call[t])
    BY CallRecord DEF At, Known, StreamInv, InitProgress
  <2>2. call[t].stream \in Std => Initialised(call[t].stream)
    BY <2>1 DEF Far, At
  <2>3. ASSUME ~raced PROVE Denotes(call[t].stream)
    <3>1. OnFirm(call[t])
      BY <2>1, <2>3 DEF StreamInv, Calm, FilesFirm
    <3>2. bound[call[t].stream] # NoFile
      BY <2>1, <3>1, Pointers DEF OnFirm, At
    <3>3. CASE call[t].stream \in Addr
      BY <2>3, <3>2, <3>3 DEF StreamInv, DescriptorsOwned, Opened
    <3>4. CASE call[t].stream \in Std
      BY <2>2, <2>3, <3>4, StdFds DEF StreamInv, Calm, StdStay, Denotes, Initialised
    <3> QED
      BY <2>1, <3>3, <3>4 DEF FilePtr
  <2> QED
    BY <2>2, <2>3
<1> QED
  BY <1>1, StreamInvariant, PTL

(* A File that fopen made before the first overlap of allocator calls has one
   owner for ever, whatever calls overlap later. *)
THEOREM StreamsOneOwner ==
  ASSUME Closable = {}
  PROVE  Spec => []OneOwner
<1>1. StreamInv => OneOwner
  BY DEF StreamInv
<1> QED
  BY <1>1, StreamInvariant, PTL

(* Only a call on such a File changes the descriptor number in it. *)
THEOREM StreamsFirmHandles ==
  ASSUME Closable = {}
  PROVE  Spec => FirmHandles
<1> DEFINE Kept == \A f \in firm : handle'[f] # handle[f] =>
                     \E t \in Threads : Owning(t, f) /\ call'[t] # call[t]
<1>1. ASSUME StreamInv, [Next]_vars PROVE [Kept]_vars
  <2> SUFFICES ASSUME NEW t \in Threads, Calls(t) \/ Step(t),
                      NEW f \in firm, handle'[f] # handle[f]
               PROVE  \E u \in Threads : Owning(u, f) /\ call'[u] # call[u]
    BY <1>1 DEF Next
  <2>1. f \in Addr /\ f \in FilePtr /\ f \notin Std
    BY <1>1, Pointers DEF StreamInv, TypeOK
  <2>2. ASSUME InCall(t), call[t].op # "io", call'[t] # call[t],
               handle' # handle => \A g \in FilePtr : g # call[t].stream => handle'[g] = handle[g]
        PROVE  \E u \in Threads : Owning(u, f) /\ call'[u] # call[u]
    BY <2>1, <2>2 DEF Owning
  <2>3. CASE \E d \in Fds, name \in Names : OpenDone(t, d, name)
    <3>1. PICK d \in Fds, name \in Names : OpenDone(t, d, name)
      BY <2>3
    <3>2. InCall(t) /\ call[t].op # "io" /\ Known(call[t])
      BY <1>1, <3>1, CallRecord DEF OpenDone, At, StreamInv, Known
    <3>3. call'[t] = NoCall /\ call'[t] # call[t]
      BY <1>1, <3>1, <3>2, OneCall DEF OpenDone, Return, StreamInv, InCall
    <3>4. \A g \in FilePtr : g # call[t].stream => handle'[g] = handle[g]
      BY <1>1, <3>1 DEF OpenDone, StreamInv, TypeOK
    <3> QED
      BY <2>2, <3>2, <3>3, <3>4
  <2>4. CASE Close(t)
    <3>1. InCall(t) /\ call[t].op # "io" /\ call[t].at = "act"
      BY <2>4 DEF Close, Closing, At
    <3>2. call'[t] # call[t]
      <4>1. CASE call[t].op = "fclose"
        BY <1>1, <2>4, <3>1, <4>1, OneCall DEF Close, Return, StreamInv, InCall
      <4>2. CASE call[t].op # "fclose"
        <5>1. call' = [call EXCEPT ![t] = Moved(t, call[t].stream, "open", call[t].first, 0)]
          BY <2>4, <4>2 DEF Close, Goto
        <5>2. call'[t] = Moved(t, call[t].stream, "open", call[t].first, 0)
          BY <1>1, <5>1, OneCall DEF StreamInv
        <5> QED
          BY <3>1, <5>2 DEF Moved
      <4> QED
        BY <4>1, <4>2
    <3>3. \A g \in FilePtr : g # call[t].stream => handle'[g] = handle[g]
      BY <1>1, <2>4 DEF Close, StreamInv, TypeOK
    <3> QED
      BY <2>2, <3>1, <3>2, <3>3
  <2>5. CASE CreateFile(t)
    <3>1. At(t, "creating") /\ InCall(t) /\ Allocating(t) /\ call[t].end \in 0..BufLen
      BY <1>1, <2>5, CallRecord DEF CreateFile, At, Allocating, StreamInv
    <3>2. f + FileSize <= call[t].end
      BY <1>1, <3>1 DEF StreamInv, FirmBelow
    <3>3. /\ AdjustedIndex(call[t].end, FileAlign) \in Nat
          /\ AdjustedIndex(call[t].end, FileAlign) >= call[t].end
      BY <2>5, <3>1, Bump DEF CreateFile, FileAlign, FileSize
    <3>4. f # AdjustedIndex(call[t].end, FileAlign)
      BY <2>1, <3>1, <3>2, <3>3 DEF FileSize, Addr
    <3> QED
      BY <1>1, <2>1, <2>5, <3>4 DEF CreateFile, StreamInv, TypeOK
  <2>6. CASE CopyPath(t)
    BY <1>1, <2>6, CopyKeeps
  <2>7. CASE InitStreams(t)
    BY <1>1, <2>1, <2>7 DEF InitStreams, InitStream, StreamInv, TypeOK, Std
  <2>8. CASE Calls(t)
    BY <2>8 DEF Calls, Fopen, IoCall, Fclose, Freopen, FreopenNull, Enter
  <2>9. CASE LoadForFile(t) \/ LoadForPath(t) \/ CreateRefused(t) \/ OpenNoMemory(t)
               \/ OpenRefused(t) \/ Cas(t) \/ Io(t) \/ IoPanics(t)
    BY <2>9 DEF LoadForFile, LoadForPath, LoadEnd, CreateRefused, OpenNoMemory, OpenRefused,
                Cas, Io, IoPanics
  <2> QED
    BY <2>3, <2>4, <2>5, <2>6, <2>7, <2>8, <2>9 DEF Step
<1>2. []StreamInv /\ [][Next]_vars => [][Kept]_vars
  BY <1>1, PTL
<1> QED
  BY <1>2, StreamInvariant, PTL DEF Spec, FirmHandles

(* The module's state keeps its type: the heap index under it never passes the
   buffer, whatever calls overlap. *)
THEOREM StreamsTypes ==
  ASSUME Closable = {}
  PROVE  Spec => []TypeOK
<1>1. StreamInv => TypeOK
  BY DEF StreamInv
<1> QED
  BY <1>1, StreamInvariant, PTL
=============================================================================
