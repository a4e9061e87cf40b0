------------------------------- MODULE Files -------------------------------
(***************************************************************************)
(* Named files as a program sees them through src/stdio.zig: fopen,        *)
(* freopen, fclose, fread, fwrite, fseek, ftell, rewind, rename and        *)
(* remove, called one after the other on streams of fopen.                 *)
(*                                                                         *)
(* The library keeps nothing but the descriptor of a stream; positions,    *)
(* contents and names are the system's, modelled from the calls the code   *)
(* makes.  Every name that goes to the system is first copied into the     *)
(* fixed buffer, from which nothing is ever given back, so that the buffer *)
(* bounds the names a program can use in its life.                         *)
(*                                                                         *)
(* A byte is named by the stream that wrote it and its number among those  *)
(* the stream wrote since it was opened; Hole is a byte nobody wrote.  The *)
(* bytes of streams that seek or share their file are not told apart.      *)
(***************************************************************************)
EXTENDS FixedBuffer, Sequences

CONSTANTS
  Names,       \* file names
  PathLen,     \* length of each name
  Modes,       \* modes passed to fopen and freopen
  Counts,      \* bytes passed to fwrite
  Offsets,     \* offsets passed to fseek
  MaxSize,     \* bound: no position is beyond
  Closed,      \* a stream that is not open
  NoIno        \* a name that denotes no file

ASSUME FilesAssumption ==
  /\ PathLen \in [Names -> Nat]
  /\ MaxSize \in Nat
  /\ Counts \subseteq Nat \ {0} /\ Offsets \subseteq Int
  /\ NoIno \notin Nat

VARIABLES
  dir,     \* the file (index of data) each name denotes
  data,    \* the contents of every file, empty once the file is gone
  open,    \* the streams of fopen, in the order of their creation
  used,    \* fixed.end_index
  last     \* how the last call ended

vars == <<dir, data, open, used, last>>

FileSize  == 4   \* sizeof(File)
FileAlign == 4
AlignOfU8 == 1

Hole == [by |-> 0, nth |-> 0]
Some == [by |-> 0, nth |-> 1]
Byte == [by: Nat, nth: Nat]

(* An open stream: its file and its position.  alone says that it never seeked and
   that nobody else was open on the file since it was opened; as long as that is
   so, put counts the bytes it wrote. *)
Stream == [ino: Nat, pos: 0..MaxSize, put: Nat, alone: BOOLEAN]

(* How a call ended: "done", or the name of the call that failed or panicked; the
   mode it was given and whether it threw bytes of its file away. *)
Calls ==
  {"fopen", "freopen", "fread", "fwrite", "fseek", "ftell", "rewind", "rename", "remove"}
Result ==
  [end: Calls \cup {"done"}, mode: Modes \cup {"none"}, lost: BOOLEAN, panicked: BOOLEAN]

Done ==
  last' = [end |-> "done", mode |-> "none", lost |-> FALSE, panicked |-> FALSE]
Fails(op) ==
  last' = [end |-> op, mode |-> "none", lost |-> FALSE, panicked |-> FALSE]
Panics(op) ==
  last' = [end |-> op, mode |-> "none", lost |-> FALSE, panicked |-> TRUE]

Init ==
  /\ dir = [n \in Names |-> NoIno]
  /\ data = <<>>
  /\ open = <<>>
  /\ used = 0
  /\ last = [end |-> "done", mode |-> "none", lost |-> FALSE, panicked |-> FALSE]

IsOpen(s) == s \in DOMAIN open /\ open[s] # Closed

(* The system drops a file that has lost its last name and its last stream. *)
InUse(ino) ==
  (\E n \in Names : dir[n] = ino) \/ (\E s \in DOMAIN open : IsOpen(s) /\ open[s].ino = ino)

Drop(contents) == data' = [i \in DOMAIN contents |-> IF InUse(i)' THEN contents[i] ELSE <<>>]

-----------------------------------------------------------------------------
(* File.openWrite of the standard library: O_WRONLY | O_CREAT | O_TRUNC, whatever
   the mode.  What the streams of ss are after stream s was opened on name. *)
InoOf(name) == IF dir[name] = NoIno THEN Len(data) + 1 ELSE dir[name]

Truncated(name) ==
  IF dir[name] = NoIno THEN Append(data, <<>>) ELSE [data EXCEPT ![dir[name]] = <<>>]

Loses(name) == dir[name] # NoIno /\ data[dir[name]] # <<>>

Shared(ss, s, ino) == \E r \in DOMAIN ss : r # s /\ ss[r] # Closed /\ ss[r].ino = ino

Opened(ss, s, ino) ==
  [r \in DOMAIN ss \cup {s} |->
     IF r = s THEN [ino |-> ino, pos |-> 0, put |-> 0, alone |-> ~Shared(ss, s, ino)]
     ELSE IF ss[r] # Closed /\ ss[r].ino = ino THEN [ss[r] EXCEPT !.alone = FALSE, !.put = 0]
     ELSE ss[r]]

OpenWrite(s, name, mode) ==
  /\ dir' = [dir EXCEPT ![name] = InoOf(name)]
  /\ open' = Opened(open, s, InoOf(name))
  /\ Drop(Truncated(name))
  /\ last' = [end |-> "done", mode |-> mode, lost |-> Loses(name), panicked |-> FALSE]

PathFits(end, name) == ~OutOfMemory(end, PathLen[name] + 1, AlignOfU8)
PathEnd(end, name)  == NewEndIndex(end, PathLen[name] + 1, AlignOfU8)

CreateFits == ~OutOfMemory(used, FileSize, FileAlign)
CreateEnd  == NewEndIndex(used, FileSize, FileAlign)

(* Names that can still be passed to the system. *)
Room == \E name \in Names : PathFits(used, name)

Fopen(name, mode) ==
  /\ CreateFits
  /\ PathFits(CreateEnd, name)
  /\ used' = PathEnd(CreateEnd, name)
  /\ OpenWrite(Len(open) + 1, name, mode)

(* NULL: no room for the File, none for the name, or the system refuses; what was
   taken from the heap before stays taken. *)
FopenFails(name) ==
  /\ used' \in IF ~CreateFits THEN {used}
               ELSE IF ~PathFits(CreateEnd, name) THEN {CreateEnd}
               ELSE {PathEnd(CreateEnd, name)}
  /\ Fails("fopen")
  /\ UNCHANGED <<dir, data, open>>

(* MUTANT: the position of the stream survives. *)
FreopenInPlace(s, name, mode) ==
  /\ IsOpen(s)
  /\ PathFits(used, name)
  /\ used' = PathEnd(used, name)
  /\ dir' = [dir EXCEPT ![name] = InoOf(name)]
  /\ data' = Truncated(name)
  /\ open' = [Opened(open, s, InoOf(name)) EXCEPT ![s].pos = open[s].pos]
  /\ last' = [end |-> "done", mode |-> mode, lost |-> Loses(name), panicked |-> FALSE]

(* MUTANT: that there is no room for the name is not noticed. *)
FreopenUnchecked(s, name, mode) ==
  /\ IsOpen(s)
  /\ used' = PathEnd(used, name)
  /\ OpenWrite(s, name, mode)

(* freopen with a name: close, then openWrite into the same File. *)
Freopen(s, name, mode) ==
  /\ IsOpen(s)
  /\ PathFits(used, name)
  /\ used' = PathEnd(used, name)
  /\ OpenWrite(s, name, mode)

(* The stream is closed all the same. *)
FreopenFails(s, name) ==
  /\ IsOpen(s)
  /\ used' = IF PathFits(used, name) THEN PathEnd(used, name) ELSE used
  /\ open' = [open EXCEPT ![s] = Closed]
  /\ Fails("freopen")
  /\ UNCHANGED dir
  /\ Drop(data)

(* freopen without a name: @panic. *)
FreopenNull(s) ==
  /\ IsOpen(s)
  /\ Panics("freopen")
  /\ UNCHANGED <<dir, data, open, used>>

(* MUTANT: the heap starts afresh when the last stream is closed. *)
FcloseGivesBack(s) ==
  /\ IsOpen(s)
  /\ open' = [open EXCEPT ![s] = Closed]
  /\ used' = IF \A r \in DOMAIN open : r # s => ~IsOpen(r) THEN 0 ELSE used
  /\ Done
  /\ UNCHANGED dir
  /\ Drop(data)

(* close; the File stays in the heap. *)
Fclose(s) ==
  /\ IsOpen(s)
  /\ open' = [open EXCEPT ![s] = Closed]
  /\ Done
  /\ UNCHANGED <<dir, used>>
  /\ Drop(data)

-----------------------------------------------------------------------------
(* Contents with the next count bytes of stream s at its position; what was
   skipped reads as a hole. *)
Written(s, count) ==
  LET o == open[s]
      old == data[o.ino]
      size == IF o.pos + count > Len(old) THEN o.pos + count ELSE Len(old)
  IN  [k \in 1..size |->
         IF k > o.pos /\ k <= o.pos + count
         THEN IF o.alone THEN [by |-> s, nth |-> o.put + k - o.pos] ELSE Some
         ELSE IF k <= Len(old) THEN old[k] ELSE Hole]

(* count > 0 bytes of stream s reach the system. *)
Put(s, count) ==
  /\ data' = [data EXCEPT ![open[s].ino] = Written(s, count)]
  /\ open' = LET o == open[s]
             IN  [open EXCEPT ![s] = [o EXCEPT !.pos = o.pos + count,
                                               !.put = IF o.alone THEN o.put + count ELSE 0]]

(* fwrite: all count bytes, or 0 when the system fails, after some of them. *)
Fwrite(s, count) ==
  /\ IsOpen(s)
  /\ open[s].pos + count <= MaxSize
  /\ Put(s, count)
  /\ Done
  /\ UNCHANGED <<dir, used>>

FwriteFails(s, count, done) ==
  /\ IsOpen(s)
  /\ open[s].pos + count <= MaxSize
  /\ IF done = 0 THEN UNCHANGED <<data, open>> ELSE Put(s, done)
  /\ Fails("fwrite")
  /\ UNCHANGED <<dir, used>>

(* fread: the descriptor is open for writing only, so read fails and fread returns
   0, whatever the mode. *)
Fread(s) ==
  /\ IsOpen(s)
  /\ Fails("fread")
  /\ UNCHANGED <<dir, data, open, used>>

(* The stream at another position. *)
SeekTo(s, pos) == open' = [open EXCEPT ![s] = [open[s] EXCEPT !.pos = pos, !.put = 0, !.alone = FALSE]]

(* fseek from the start; @intCast(usize, offset) panics below 0. *)
FseekSet(s, offset) ==
  /\ IsOpen(s)
  /\ offset <= MaxSize
  /\ IF offset < 0
     THEN Panics("fseek") /\ UNCHANGED open
     ELSE Done /\ SeekTo(s, offset)
  /\ UNCHANGED <<dir, data, used>>

(* fseek from the current position; the system refuses to go below 0. *)
FseekCur(s, offset) ==
  /\ IsOpen(s)
  /\ open[s].pos + offset <= MaxSize
  /\ IF open[s].pos + offset < 0
     THEN Fails("fseek") /\ UNCHANGED open
     ELSE Done /\ SeekTo(s, open[s].pos + offset)
  /\ UNCHANGED <<dir, data, used>>

(* fseek from the end: @panic. *)
FseekEnd(s) ==
  /\ IsOpen(s)
  /\ Panics("fseek")
  /\ UNCHANGED <<dir, data, open, used>>

(* -1: the system refuses to seek in what the name denotes. *)
FseekFails(s) ==
  /\ IsOpen(s)
  /\ Fails("fseek")
  /\ UNCHANGED <<dir, data, open, used>>

Rewind(s) ==
  /\ IsOpen(s)
  /\ SeekTo(s, 0)
  /\ Done
  /\ UNCHANGED <<dir, data, used>>

(* rewind has no error to return: @panic. *)
RewindFails(s) ==
  /\ IsOpen(s)
  /\ Panics("rewind")
  /\ UNCHANGED <<dir, data, open, used>>

Ftell(s) ==
  /\ IsOpen(s)
  /\ Done
  /\ UNCHANGED <<dir, data, open, used>>

(* EOF. *)
FtellFails(s) ==
  /\ IsOpen(s)
  /\ Fails("ftell")
  /\ UNCHANGED <<dir, data, open, used>>

-----------------------------------------------------------------------------
(* rename copies both names, one behind the other. *)
PairBytes(old, new) == PathLen[old] + PathLen[new] + 2
PairFits(old, new)  == ~OutOfMemory(used, PairBytes(old, new), AlignOfU8)
PairEnd(old, new)   == NewEndIndex(used, PairBytes(old, new), AlignOfU8)

Rename(old, new) ==
  /\ PairFits(old, new)
  /\ dir[old] # NoIno
  /\ used' = PairEnd(old, new)
  /\ dir' = [n \in Names |-> IF n = new THEN dir[old] ELSE IF n = old THEN NoIno ELSE dir[n]]
  /\ Done
  /\ UNCHANGED open
  /\ Drop(data)

(* MUTANT: the new name is removed before the system is asked. *)
RenameFailsLate(old, new) ==
  /\ used' = IF PairFits(old, new) THEN PairEnd(old, new) ELSE used
  /\ dir' = IF PairFits(old, new) THEN [dir EXCEPT ![new] = NoIno] ELSE dir
  /\ Fails("rename")
  /\ UNCHANGED <<data, open>>

(* -1: no room for the names, no such file, or the system refuses. *)
RenameFails(old, new) ==
  /\ used' = IF PairFits(old, new) THEN PairEnd(old, new) ELSE used
  /\ Fails("rename")
  /\ UNCHANGED <<dir, data, open>>

(* A file that is open lives on without a name. *)
Remove(name) ==
  /\ PathFits(used, name)
  /\ dir[name] # NoIno
  /\ used' = PathEnd(used, name)
  /\ dir' = [dir EXCEPT ![name] = NoIno]
  /\ Done
  /\ UNCHANGED open
  /\ Drop(data)

RemoveFails(name) ==
  /\ used' = IF PathFits(used, name) THEN PathEnd(used, name) ELSE used
  /\ Fails("remove")
  /\ UNCHANGED <<dir, data, open>>

-----------------------------------------------------------------------------
Naming(name) ==
  \/ FopenFails(name)
  \/ Remove(name)
  \/ RemoveFails(name)
  \/ \E mode \in Modes : Fopen(name, mode)
  \/ \E new \in Names : Rename(name, new) \/ RenameFails(name, new)

Reopening(s) ==
  \/ FreopenNull(s)
  \/ \E name \in Names :
       FreopenFails(s, name) \/ \E mode \in Modes : Freopen(s, name, mode)

Moving(s) ==
  \/ Fclose(s) \/ Fread(s) \/ FseekEnd(s) \/ Rewind(s) \/ Ftell(s)
  \/ FseekFails(s) \/ RewindFails(s) \/ FtellFails(s)
  \/ \E count \in Counts : Fwrite(s, count) \/ \E done \in 0..(count - 1) : FwriteFails(s, count, done)
  \/ \E offset \in Offsets : FseekSet(s, offset)
  \/ \E offset \in Offsets : FseekCur(s, offset)

(* A panic is an endless loop: nothing happens after it. *)
Next ==
  /\ ~last.panicked
  /\ \/ \E name \in Names : Naming(name)
     \/ \E s \in DOMAIN open : Reopening(s) \/ Moving(s)

Spec == Init /\ [][Next]_vars

-----------------------------------------------------------------------------
TypeOK ==
  /\ dir \in [Names -> DOMAIN data \cup {NoIno}]
  /\ data \in Seq(Seq(Byte))
  /\ open \in Seq(Stream \cup {Closed})
  /\ used \in 0..BufLen
  /\ last \in Result

(* A stream that was opened by fopen or freopen, has not seeked and shared its file
   with nobody since, has written the file: its bytes in the order of fwrite,
   from the start, none missing or left over from before, those of a failing
   fwrite included, and ftell says how many.  Renaming and removing the file, and
   whatever happens to other streams, make no difference. *)
WritesInOrder ==
  \A s \in DOMAIN open : IsOpen(s) /\ open[s].alone =>
    /\ open[s].pos = open[s].put
    /\ data[open[s].ino] = [k \in 1..open[s].put |-> [by |-> s, nth |-> k]]

(* A call that fails leaves names, the contents of named files and streams as they
   were; except that fwrite may have written a part, and that freopen has closed
   its stream. *)
FailureHarmless ==
  [][last'.end # "done" =>
       /\ dir' = dir
       /\ last'.end # "fwrite" =>
            \A n \in Names : dir[n] # NoIno => data'[dir[n]] = data[dir[n]]
       /\ last'.end \notin {"fwrite", "freopen"} => open' = open]_vars

(* Once the fixed buffer has no room for a name there never will be, whatever is
   closed or removed, and names are frozen for the rest of the program: no file is
   created, renamed or removed. *)
NamesFreeze == [][~Room => dir' = dir /\ ~Room']_vars

(* Opening a file for reading keeps what is in it. *)
ReadKeeps == last.mode = "r" => ~last.lost
=============================================================================
