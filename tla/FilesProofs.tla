---------------------------- MODULE FilesProofs ----------------------------
(***************************************************************************)
(* Named files and their streams, for every set of names and modes, every  *)
(* buffer and any number of streams.                                       *)
(***************************************************************************)
EXTENDS Files, SequenceTheorems, TLAPS

USE BufferAssumption, FilesAssumption

(* The file of an open stream exists. *)
Placed == \A s \in DOMAIN open : IsOpen(s) => open[s].ino \in DOMAIN data

(* A stream that is alone shares its file with no open stream. *)
Sole ==
  \A s, r \in DOMAIN open :
    IsOpen(s) /\ IsOpen(r) /\ s # r /\ open[s].ino = open[r].ino => ~open[s].alone

FilesInv == TypeOK /\ Placed /\ Sole /\ WritesInOrder

-----------------------------------------------------------------------------
(* What a name takes from the fixed buffer: its bytes and the 0 behind them. *)
LEMMA PathRoom ==
  ASSUME NEW end \in Nat, NEW name \in Names
  PROVE  /\ PathLen[name] \in Nat
         /\ PathEnd(end, name) = end + PathLen[name] + 1
         /\ PathFits(end, name) <=> end + PathLen[name] + 1 <= BufLen
<1>1. PathLen[name] \in Nat
  OBVIOUS
<1>2. AdjustedIndex(end, 1) = end
  BY DEF AdjustedIndex
<1> QED
  BY <1>1, <1>2 DEF PathEnd, PathFits, OutOfMemory, NewEndIndex, AlignOfU8

(* fopen's File: rounded up to a multiple of 4. *)
LEMMA CreateRoom ==
  ASSUME used \in Nat
  PROVE  /\ CreateEnd \in Nat /\ CreateEnd >= used
         /\ CreateFits <=> CreateEnd <= BufLen
<1>1. (BufBase + used) % 4 \in 0..3
  OBVIOUS
<1>2. AdjustedIndex(used, 4) \in Nat /\ AdjustedIndex(used, 4) >= used
  BY <1>1 DEF AdjustedIndex
<1>3. CreateEnd = AdjustedIndex(used, 4) + 4
  BY DEF CreateEnd, NewEndIndex, FileSize, FileAlign
<1> QED
  BY <1>2, <1>3 DEF CreateFits, CreateEnd, OutOfMemory

(* rename's two names, one behind the other. *)
LEMMA PairRoom ==
  ASSUME used \in Nat, NEW old \in Names, NEW new \in Names
  PROVE  /\ PathLen[old] \in Nat /\ PathLen[new] \in Nat
         /\ PairEnd(old, new) = used + PathLen[old] + PathLen[new] + 2
         /\ PairFits(old, new) <=> used + PathLen[old] + PathLen[new] + 2 <= BufLen
<1>1. PathLen[old] \in Nat /\ PathLen[new] \in Nat
  OBVIOUS
<1>2. AdjustedIndex(used, 1) = used
  BY DEF AdjustedIndex
<1> QED
  BY <1>1, <1>2 DEF PairEnd, PairFits, PairBytes, OutOfMemory, NewEndIndex, AlignOfU8

(* Drop empties what nobody uses and leaves the rest. *)
LEMMA Dropped ==
  ASSUME NEW contents \in Seq(Seq(Byte)), Drop(contents)
  PROVE  /\ data' \in Seq(Seq(Byte)) /\ DOMAIN data' = DOMAIN contents
         /\ \A s \in DOMAIN open' : open'[s] # Closed /\ open'[s].ino \in DOMAIN contents
              => data'[open'[s].ino] = contents[open'[s].ino]
         /\ \A n \in Names : dir'[n] \in DOMAIN contents => data'[dir'[n]] = contents[dir'[n]]
<1>1. Len(contents) \in Nat /\ DOMAIN contents = 1..Len(contents)
  OBVIOUS
<1>2. data' = [i \in DOMAIN contents |-> IF InUse(i)' THEN contents[i] ELSE <<>>]
  BY DEF Drop
<1>3. \A i \in DOMAIN contents : (IF InUse(i)' THEN contents[i] ELSE <<>>) \in Seq(Byte)
  BY <1>1
<1>4. data' \in Seq(Seq(Byte)) /\ DOMAIN data' = DOMAIN contents
  BY <1>1, <1>2, <1>3
<1>5. ASSUME NEW s \in DOMAIN open', open'[s] # Closed, open'[s].ino \in DOMAIN contents
      PROVE  data'[open'[s].ino] = contents[open'[s].ino]
  BY <1>2, <1>5 DEF InUse, IsOpen
<1>6. ASSUME NEW n \in Names, dir'[n] \in DOMAIN contents
      PROVE  data'[dir'[n]] = contents[dir'[n]]
  BY <1>2, <1>6 DEF InUse
<1> QED
  BY <1>4, <1>5, <1>6

-----------------------------------------------------------------------------
LEMMA InitFiles == Init => FilesInv
<1> SUFFICES ASSUME Init PROVE FilesInv
  OBVIOUS
<1>1. DOMAIN open = {}
  BY DEF Init
<1>2. TypeOK
  <2>1. last \in Result
    BY DEF Init, Result
  <2> QED
    BY <2>1 DEF Init, TypeOK
<1> QED
  BY <1>1, <1>2 DEF FilesInv, Placed, Sole, WritesInOrder

(* Names move, streams are closed: the contents of open streams stay. *)
LEMMA ClosingKeeps ==
  ASSUME FilesInv, Drop(data), DOMAIN open' = DOMAIN open,
         \A r \in DOMAIN open : open'[r] = open[r] \/ open'[r] = Closed
  PROVE  /\ data' \in Seq(Seq(Byte)) /\ DOMAIN data' = DOMAIN data
         /\ Placed' /\ Sole' /\ WritesInOrder'
<1>1. data \in Seq(Seq(Byte)) /\ Placed /\ Sole /\ WritesInOrder
  BY DEF FilesInv, TypeOK
<1>2. /\ data' \in Seq(Seq(Byte)) /\ DOMAIN data' = DOMAIN data
      /\ \A s \in DOMAIN open' : open'[s] # Closed /\ open'[s].ino \in DOMAIN data
           => data'[open'[s].ino] = data[open'[s].ino]
  BY <1>1, Dropped
<1>3. \A r \in DOMAIN open : open'[r] # Closed => open'[r] = open[r] /\ open[r] # Closed
  OBVIOUS
<1>4. Placed'
  BY <1>1, <1>2, <1>3 DEF Placed, IsOpen
<1>5. Sole'
  BY <1>1, <1>3 DEF Sole, IsOpen
<1>6. WritesInOrder'
  <2> SUFFICES ASSUME NEW s \in DOMAIN open', IsOpen(s)', open'[s].alone
               PROVE  /\ open'[s].pos = open'[s].put
                      /\ data'[open'[s].ino] = [k \in 1..open'[s].put |-> [by |-> s, nth |-> k]]
    BY DEF WritesInOrder
  <2>1. open'[s] = open[s] /\ open[s] # Closed /\ s \in DOMAIN open
    BY <1>3 DEF IsOpen
  <2>2. open[s].ino \in DOMAIN data
    BY <1>1, <2>1 DEF Placed, IsOpen
  <2>3. data'[open'[s].ino] = data[open[s].ino]
    BY <1>2, <2>1, <2>2
  <2>4. /\ open[s].pos = open[s].put
        /\ data[open[s].ino] = [k \in 1..open[s].put |-> [by |-> s, nth |-> k]]
    BY <1>1, <2>1 DEF WritesInOrder, IsOpen
  <2> QED
    BY <2>1, <2>3, <2>4
<1> QED
  BY <1>2, <1>4, <1>5, <1>6

(* An open stream and its fields. *)
LEMMA StreamFields ==
  ASSUME TypeOK, NEW s \in DOMAIN open, open[s] # Closed
  PROVE  /\ s \in Nat \ {0} /\ open[s] \in Stream
         /\ open[s].ino \in Nat /\ open[s].pos \in 0..MaxSize /\ open[s].put \in Nat
         /\ open[s].alone \in BOOLEAN
<1>1. open \in Seq(Stream \cup {Closed})
  BY DEF TypeOK
<1>2. s \in Nat \ {0} /\ open[s] \in Stream \cup {Closed}
  BY <1>1
<1>3. open[s] \in Stream
  BY <1>2
<1> QED
  BY <1>2, <1>3 DEF Stream

(* A stream that seeks is no longer one whose bytes are told apart. *)
LEMMA SeekKeeps ==
  ASSUME FilesInv, NEW s \in DOMAIN open, IsOpen(s), NEW pos \in 0..MaxSize, SeekTo(s, pos),
         data' = data
  PROVE  open' \in Seq(Stream \cup {Closed}) /\ Placed' /\ Sole' /\ WritesInOrder'
<1>1. TypeOK /\ Placed /\ Sole /\ WritesInOrder /\ open[s] # Closed
  BY DEF FilesInv, IsOpen
<1>2. open \in Seq(Stream \cup {Closed}) /\ open[s] \in Stream
  BY <1>1, StreamFields DEF TypeOK
<1> DEFINE o == [open[s] EXCEPT !.pos = pos, !.put = 0, !.alone = FALSE]
<1>3. o \in Stream
  BY <1>2 DEF Stream
<1>4. open' = [open EXCEPT ![s] = o]
  BY DEF SeekTo
<1>5. o.ino = open[s].ino /\ ~o.alone
  BY <1>2 DEF Stream
<1> HIDE DEF o
<1>6. open' \in Seq(Stream \cup {Closed}) /\ DOMAIN open' = DOMAIN open
  BY <1>2, <1>3, <1>4
<1>7. open'[s] = o /\ \A r \in DOMAIN open : r # s => open'[r] = open[r]
  BY <1>2, <1>4
<1>8. Placed'
  BY <1>1, <1>5, <1>6, <1>7 DEF Placed, IsOpen
<1>9. Sole'
  BY <1>1, <1>5, <1>6, <1>7 DEF Sole, IsOpen
<1>10. WritesInOrder'
  <2> SUFFICES ASSUME NEW r \in DOMAIN open', IsOpen(r)', open'[r].alone
               PROVE  /\ open'[r].pos = open'[r].put
                      /\ data'[open'[r].ino] = [k \in 1..open'[r].put |-> [by |-> r, nth |-> k]]
    BY DEF WritesInOrder
  <2>1. r # s /\ open'[r] = open[r] /\ r \in DOMAIN open /\ open[r] # Closed
    BY <1>5, <1>6, <1>7 DEF IsOpen
  <2>2. /\ open[r].pos = open[r].put
        /\ data[open[r].ino] = [k \in 1..open[r].put |-> [by |-> r, nth |-> k]]
    BY <1>1, <2>1 DEF WritesInOrder, IsOpen
  <2> QED
    BY <2>1, <2>2
<1> QED
  BY <1>6, <1>8, <1>9, <1>10

(* Contents stay bytes; those of a stream that is alone stay its bytes in order. *)
LEMMA WrittenBytes ==
  ASSUME FilesInv, NEW s \in DOMAIN open, open[s] # Closed, NEW count \in Nat
  PROVE  /\ Written(s, count) \in Seq(Byte)
         /\ open[s].alone =>
              Written(s, count) = [k \in 1..(open[s].put + count) |-> [by |-> s, nth |-> k]]
<1> DEFINE o == open[s]
           old == data[o.ino]
           size == IF o.pos + count > Len(old) THEN o.pos + count ELSE Len(old)
           new(k) == IF k > o.pos /\ k <= o.pos + count
                     THEN IF o.alone THEN [by |-> s, nth |-> o.put + k - o.pos] ELSE Some
                     ELSE IF k <= Len(old) THEN old[k] ELSE Hole
<1>1. /\ s \in Nat \ {0} /\ o.pos \in Nat /\ o.put \in Nat /\ o.alone \in BOOLEAN
  BY StreamFields DEF FilesInv
<1>2. old \in Seq(Byte)
  <2>1. data \in Seq(Seq(Byte)) /\ o.ino \in DOMAIN data
    BY DEF FilesInv, TypeOK, Placed, IsOpen
  <2> QED
    BY <2>1
<1>3. Written(s, count) = [k \in 1..size |-> new(k)]
  BY DEF Written
<1>4. Len(old) \in Nat /\ \A k \in 1..Len(old) : old[k] \in Byte
  BY <1>2
<1> HIDE DEF o, old
<1>5. size \in Nat /\ \A k \in 1..size : k \in Nat \ {0}
  BY <1>1, <1>4
<1>6. ASSUME NEW k \in 1..size PROVE new(k) \in Byte
  <2>1. Some \in Byte /\ Hole \in Byte
    BY DEF Some, Hole, Byte
  <2>2. CASE k > o.pos
    <3>1. o.put + k - o.pos \in Nat
      BY <1>1, <1>5, <2>2
    <3>2. [by |-> s, nth |-> o.put + k - o.pos] \in Byte
      BY <1>1, <3>1 DEF Byte
    <3>3. k <= Len(old) => k \in 1..Len(old)
      BY <1>4, <1>5
    <3> HIDE DEF size
    <3> QED
      BY <1>4, <2>1, <3>2, <3>3
  <2>3. CASE ~(k > o.pos)
    <3>1. k <= Len(old) => k \in 1..Len(old)
      BY <1>4, <1>5
    <3> HIDE DEF size
    <3> QED
      BY <1>4, <2>1, <2>3, <3>1
  <2> QED
    BY <2>2, <2>3
<1>7. [k \in 1..size |-> new(k)] \in Seq(Byte)
  <2> HIDE DEF size, new
  <2> QED
    BY <1>5, <1>6
<1>8. ASSUME o.alone
      PROVE  [k \in 1..size |-> new(k)] = [k \in 1..(o.put + count) |-> [by |-> s, nth |-> k]]
  <2>1. o.pos = o.put /\ old = [k \in 1..o.put |-> [by |-> s, nth |-> k]]
    BY <1>8 DEF FilesInv, WritesInOrder, IsOpen, o, old
  <2>2. Len(old) = o.put
    BY <1>1, <2>1
  <2>3. size = o.put + count
    BY <1>1, <2>1, <2>2
  <2>4. ASSUME NEW k \in 1..(o.put + count) PROVE new(k) = [by |-> s, nth |-> k]
    <3>1. CASE k > o.put
      <4>1. o.put + k - o.pos = k /\ k > o.pos /\ k <= o.pos + count
        BY <1>1, <2>1, <3>1
      <4> QED
        BY <1>8, <4>1
    <3>2. CASE k <= o.put
      <4>1. ~(k > o.pos) /\ k <= Len(old) /\ k \in 1..o.put
        BY <1>1, <2>1, <2>2, <3>2
      <4>2. old[k] = [by |-> s, nth |-> k]
        BY <2>1, <4>1
      <4> QED
        BY <4>1, <4>2
    <3> QED
      BY <1>1, <3>1, <3>2
  <2> HIDE DEF size, new
  <2> QED
    BY <2>3, <2>4
<1> QED
  BY <1>3, <1>7, <1>8 DEF o

(* Writing moves one stream and changes one file; another stream on that file is
   not alone. *)
LEMMA PutKeeps ==
  ASSUME FilesInv, NEW s \in DOMAIN open, IsOpen(s), NEW count \in Nat,
         open[s].pos + count <= MaxSize, Put(s, count)
  PROVE  /\ data' \in Seq(Seq(Byte)) /\ DOMAIN data' = DOMAIN data
         /\ open' \in Seq(Stream \cup {Closed}) /\ Placed' /\ Sole' /\ WritesInOrder'
<1> DEFINE ino == open[s].ino
           W == Written(s, count)
           put == IF open[s].alone THEN open[s].put + count ELSE 0
           o == [open[s] EXCEPT !.pos = open[s].pos + count, !.put = put]
<1>1. TypeOK /\ Placed /\ Sole /\ WritesInOrder /\ open[s] # Closed
  BY DEF FilesInv, IsOpen
<1>2. /\ open \in Seq(Stream \cup {Closed}) /\ open[s] \in Stream /\ data \in Seq(Seq(Byte))
      /\ open[s].pos \in Nat /\ open[s].put \in Nat
  BY <1>1, StreamFields DEF TypeOK
<1>3. ino \in DOMAIN data
  BY <1>1 DEF Placed, IsOpen
<1>4. W \in Seq(Byte) /\ (open[s].alone => W = [k \in 1..(open[s].put + count) |-> [by |-> s, nth |-> k]])
  BY <1>1, WrittenBytes
<1>5. data' = [data EXCEPT ![ino] = W]
  BY DEF Put
<1>6. open' = [open EXCEPT ![s] = o]
  BY DEF Put
<1>7. o \in Stream
  <2>1. put \in Nat /\ open[s].pos + count \in 0..MaxSize
    BY <1>2
  <2> HIDE DEF put
  <2> QED
    BY <1>2, <2>1 DEF Stream
<1>8. o.ino = ino /\ o.alone = open[s].alone /\ o.pos = open[s].pos + count /\ o.put = put
  <2> HIDE DEF put
  <2> QED
    BY <1>2 DEF Stream
<1> HIDE DEF o, W
<1>9. data' \in Seq(Seq(Byte)) /\ DOMAIN data' = DOMAIN data
  BY <1>2, <1>3, <1>4, <1>5
<1>10. data'[ino] = W /\ \A j \in DOMAIN data : j # ino => data'[j] = data[j]
  BY <1>2, <1>3, <1>5
<1>11. open' \in Seq(Stream \cup {Closed}) /\ DOMAIN open' = DOMAIN open
  BY <1>2, <1>6, <1>7
<1>12. open'[s] = o /\ \A r \in DOMAIN open : r # s => open'[r] = open[r]
  BY <1>2, <1>6
<1>13. Placed'
  BY <1>1, <1>8, <1>9, <1>11, <1>12 DEF Placed, IsOpen
<1>14. Sole'
  BY <1>1, <1>8, <1>11, <1>12 DEF Sole, IsOpen
<1>15. WritesInOrder'
  <2> SUFFICES ASSUME NEW r \in DOMAIN open', IsOpen(r)', open'[r].alone
               PROVE  /\ open'[r].pos = open'[r].put
                      /\ data'[open'[r].ino] = [k \in 1..open'[r].put |-> [by |-> r, nth |-> k]]
    BY DEF WritesInOrder
  <2>1. CASE r = s
    <3>1. open[s].alone /\ open'[r] = o
      BY <1>8, <1>12, <2>1
    <3>2. open[s].pos = open[s].put
      BY <1>1, <3>1 DEF WritesInOrder, IsOpen
    <3>3. o.put = open[s].put + count
      BY <1>8, <3>1
    <3> QED
      BY <1>4, <1>8, <1>10, <2>1, <3>1, <3>2, <3>3
  <2>2. CASE r # s
    <3>1. open'[r] = open[r] /\ r \in DOMAIN open /\ open[r] # Closed
      BY <1>11, <1>12, <2>2 DEF IsOpen
    <3>2. /\ open[r].pos = open[r].put
          /\ data[open[r].ino] = [k \in 1..open[r].put |-> [by |-> r, nth |-> k]]
      BY <1>1, <3>1 DEF WritesInOrder, IsOpen
    <3>3. open[r].ino \in DOMAIN data /\ open[r].ino # ino
      BY <1>1, <2>2, <3>1 DEF Placed, Sole, IsOpen
    <3> QED
      BY <1>10, <3>1, <3>2, <3>3
  <2> QED
    BY <2>1, <2>2
<1> QED
  BY <1>9, <1>11, <1>13, <1>14, <1>15

(* openWrite: the file is empty, whoever else has it open is no longer alone. *)
LEMMA OpenKeeps ==
  ASSUME FilesInv, NEW name \in Names, NEW mode \in Modes,
         NEW s \in DOMAIN open \cup {Len(open) + 1}, OpenWrite(s, name, mode)
  PROVE  /\ dir' \in [Names -> DOMAIN data' \cup {NoIno}] /\ data' \in Seq(Seq(Byte))
         /\ open' \in Seq(Stream \cup {Closed}) /\ last' \in Result
         /\ Placed' /\ Sole' /\ WritesInOrder'
<1> DEFINE ino == InoOf(name)
           T == Truncated(name)
           fresh == [ino |-> ino, pos |-> 0, put |-> 0, alone |-> ~Shared(open, s, ino)]
           loses(x) == [x EXCEPT !.alone = FALSE, !.put = 0]
<1>1. TypeOK /\ Placed /\ Sole /\ WritesInOrder
  BY DEF FilesInv
<1>2. /\ open \in Seq(Stream \cup {Closed}) /\ data \in Seq(Seq(Byte))
      /\ dir \in [Names -> DOMAIN data \cup {NoIno}]
      /\ DOMAIN open = 1..Len(open) /\ Len(open) \in Nat
      /\ DOMAIN data = 1..Len(data) /\ Len(data) \in Nat
  BY <1>1 DEF TypeOK
<1>3. /\ T \in Seq(Seq(Byte)) /\ ino \in DOMAIN T /\ T[ino] = <<>> /\ DOMAIN data \subseteq DOMAIN T
      /\ \A j \in DOMAIN data : j # ino => T[j] = data[j]
      /\ ino \in Nat
  <2>1. CASE dir[name] = NoIno
    <3>1. T = Append(data, <<>>) /\ ino = Len(data) + 1
      BY <2>1 DEF Truncated, InoOf
    <3>2. <<>> \in Seq(Byte)
      OBVIOUS
    <3> HIDE DEF T, ino
    <3>3. T \in Seq(Seq(Byte)) /\ Len(T) = Len(data) + 1 /\ T[Len(data) + 1] = <<>>
          /\ \A j \in 1..Len(data) : T[j] = data[j]
      BY <1>2, <3>1, <3>2, AppendProperties
    <3>4. DOMAIN T = 1..(Len(data) + 1)
      BY <1>2, <3>3
    <3> QED
      BY <1>2, <3>1, <3>3, <3>4
  <2>2. CASE dir[name] # NoIno
    <3>1. T = [data EXCEPT ![ino] = <<>>] /\ ino = dir[name]
      BY <2>2 DEF Truncated, InoOf
    <3>2. ino \in DOMAIN data
      BY <1>2, <2>2, <3>1
    <3> HIDE DEF T, ino
    <3> QED
      BY <1>2, <3>1, <3>2
  <2> QED
    BY <2>1, <2>2
<1>4. /\ dir' = [dir EXCEPT ![name] = ino] /\ open' = Opened(open, s, ino) /\ Drop(T)
      /\ last' = [end |-> "done", mode |-> mode, lost |-> Loses(name), panicked |-> FALSE]
  BY DEF OpenWrite
<1>5. Loses(name) \in BOOLEAN
  BY DEF Loses
<1> HIDE DEF T, ino
<1>6. /\ data' \in Seq(Seq(Byte)) /\ DOMAIN data' = DOMAIN T
      /\ \A r \in DOMAIN open' : open'[r] # Closed /\ open'[r].ino \in DOMAIN T
           => data'[open'[r].ino] = T[open'[r].ino]
  BY <1>3, <1>4, Dropped
<1>7. dir' \in [Names -> DOMAIN data' \cup {NoIno}]
  BY <1>2, <1>3, <1>4, <1>6
<1>8. last' \in Result
  BY <1>4, <1>5 DEF Result
<1>9. /\ DOMAIN open' = DOMAIN open \cup {s} /\ open'[s] = fresh
      /\ \A r \in DOMAIN open : r # s =>
           open'[r] = IF open[r] # Closed /\ open[r].ino = ino THEN loses(open[r]) ELSE open[r]
  BY <1>4 DEF Opened
<1>10. fresh \in Stream /\ fresh.ino = ino /\ fresh.pos = 0 /\ fresh.put = 0
       /\ fresh.alone = ~Shared(open, s, ino)
  <2>1. Shared(open, s, ino) \in BOOLEAN
    BY DEF Shared
  <2> QED
    BY <1>3, <2>1 DEF Stream
<1>11. \A x \in Stream : loses(x) \in Stream /\ loses(x).ino = x.ino /\ ~loses(x).alone
  BY DEF Stream
<1> HIDE DEF fresh, loses
(* The streams that were open before. *)
<1>12. ASSUME NEW r \in DOMAIN open', r # s, open'[r] # Closed
       PROVE  /\ r \in DOMAIN open /\ open[r] # Closed /\ open'[r].ino = open[r].ino
              /\ open'[r].ino \in DOMAIN data
              /\ open'[r].alone => open'[r] = open[r] /\ open[r].ino # ino
  <2>1. r \in DOMAIN open
    BY <1>9, <1>12
  <2>2. open[r] # Closed
    BY <1>9, <1>12, <2>1
  <2>3. open[r] \in Stream
    BY <1>1, <2>1, <2>2, StreamFields
  <2>4. open[r].ino \in DOMAIN data
    BY <1>1, <2>1, <2>2 DEF Placed, IsOpen
  <2>5. CASE open[r].ino = ino
    BY <1>9, <1>11, <1>12, <2>1, <2>2, <2>3, <2>4, <2>5
  <2>6. CASE open[r].ino # ino
    BY <1>9, <1>12, <2>1, <2>2, <2>4, <2>6
  <2> QED
    BY <2>5, <2>6
<1>13. open' \in Seq(Stream \cup {Closed})
  <2>1. PICK n \in Nat : DOMAIN open' = 1..n
    <3>1. CASE s \in DOMAIN open
      BY <1>2, <1>9, <3>1
    <3>2. CASE s = Len(open) + 1
      <4>1. 1..Len(open) \cup {Len(open) + 1} = 1..(Len(open) + 1)
        BY <1>2
      <4> QED
        BY <1>2, <1>9, <3>2, <4>1
    <3> QED
      BY <3>1, <3>2
  <2>2. ASSUME NEW r \in 1..n PROVE open'[r] \in Stream \cup {Closed}
    <3>1. CASE r = s
      BY <1>9, <1>10, <3>1
    <3>2. CASE r # s
      <4>1. r \in DOMAIN open /\ open[r] \in Stream \cup {Closed}
        <5>1. r \in DOMAIN open
          BY <1>9, <2>1, <3>2
        <5> QED
          BY <1>2, <5>1
      <4>2. CASE open[r] # Closed /\ open[r].ino = ino
        <5>1. open[r] \in Stream /\ open'[r] = loses(open[r])
          BY <1>9, <3>2, <4>1, <4>2
        <5> QED
          BY <1>11, <5>1
      <4>3. CASE ~(open[r] # Closed /\ open[r].ino = ino)
        <5>1. open'[r] = open[r]
          BY <1>9, <3>2, <4>1, <4>3
        <5> QED
          BY <4>1, <5>1
      <4> QED
        BY <4>2, <4>3
    <3> QED
      BY <3>1, <3>2
  <2>3. open' = [r \in 1..n |-> open'[r]]
    BY <1>4, <2>1 DEF Opened
  <2> QED
    BY <2>2, <2>3
<1>14. Placed'
  BY <1>3, <1>6, <1>9, <1>10, <1>12 DEF Placed, IsOpen
<1>15. Sole'
  <2> SUFFICES ASSUME NEW r \in DOMAIN open', NEW q \in DOMAIN open', IsOpen(r)', IsOpen(q)', r # q,
                      open'[r].ino = open'[q].ino, open'[r].alone
               PROVE  FALSE
    BY DEF Sole
  <2>1. open'[r] # Closed /\ open'[q] # Closed
    BY DEF IsOpen
  <2>2. CASE r = s
    <3>1. q # s /\ q \in DOMAIN open /\ open[q] # Closed /\ open[q].ino = ino
      BY <1>9, <1>10, <1>12, <2>1, <2>2
    <3>2. Shared(open, s, ino)
      BY <3>1 DEF Shared
    <3> QED
      BY <1>9, <1>10, <2>2, <3>2
  <2>3. CASE r # s
    <3>1. open'[r] = open[r] /\ open[r].ino # ino /\ r \in DOMAIN open /\ open[r] # Closed
      BY <1>12, <2>1, <2>3
    <3>2. q # s
      BY <1>9, <1>10, <3>1
    <3>3. q \in DOMAIN open /\ open[q] # Closed /\ open[q].ino = open[r].ino
      BY <1>12, <2>1, <3>1, <3>2
    <3> QED
      BY <1>1, <3>1, <3>3 DEF Sole, IsOpen
  <2> QED
    BY <2>2, <2>3
<1>16. WritesInOrder'
  <2> SUFFICES ASSUME NEW r \in DOMAIN open', IsOpen(r)', open'[r].alone
               PROVE  /\ open'[r].pos = open'[r].put
                      /\ data'[open'[r].ino] = [k \in 1..open'[r].put |-> [by |-> r, nth |-> k]]
    BY DEF WritesInOrder
  <2>1. open'[r] # Closed
    BY DEF IsOpen
  <2>2. CASE r = s
    <3>1. open'[r].pos = 0 /\ open'[r].put = 0 /\ open'[r].ino = ino
      BY <1>9, <1>10, <2>2
    <3>2. data'[ino] = <<>>
      BY <1>3, <1>6, <2>1, <3>1
    <3>3. <<>> = [k \in 1..0 |-> [by |-> r, nth |-> k]]
      OBVIOUS
    <3> QED
      BY <3>1, <3>2, <3>3
  <2>3. CASE r # s
    <3>1. /\ open'[r] = open[r] /\ open[r].ino # ino /\ r \in DOMAIN open /\ open[r] # Closed
          /\ open[r].ino \in DOMAIN data
      BY <1>12, <2>1, <2>3
    <3>2. /\ open[r].pos = open[r].put
          /\ data[open[r].ino] = [k \in 1..open[r].put |-> [by |-> r, nth |-> k]]
      BY <1>1, <3>1 DEF WritesInOrder, IsOpen
    <3>3. data'[open[r].ino] = data[open[r].ino]
      BY <1>3, <1>6, <2>1, <3>1
    <3> QED
      BY <3>1, <3>2, <3>3
  <2> QED
    BY <2>2, <2>3
<1> QED
  BY <1>6, <1>7, <1>8, <1>13, <1>14, <1>15, <1>16

-----------------------------------------------------------------------------
(* No call takes more from the buffer than it has. *)
LEMMA UsedInside ==
  ASSUME used \in 0..BufLen, NEW name \in Names
  PROVE  /\ PathFits(used, name) => PathEnd(used, name) \in 0..BufLen
         /\ CreateFits => CreateEnd \in 0..BufLen
         /\ CreateFits /\ PathFits(CreateEnd, name) => PathEnd(CreateEnd, name) \in 0..BufLen
         /\ \A new \in Names : PairFits(name, new) => PairEnd(name, new) \in 0..BufLen
<1>1. used \in Nat
  OBVIOUS
<1>2. PathFits(used, name) => PathEnd(used, name) \in 0..BufLen
  BY <1>1, PathRoom
<1>3. CreateEnd \in Nat /\ (CreateFits => CreateEnd \in 0..BufLen)
  BY <1>1, CreateRoom
<1>4. PathFits(CreateEnd, name) => PathEnd(CreateEnd, name) \in 0..BufLen
  <2>1. PICK e \in Nat : e = CreateEnd
    BY <1>3
  <2>2. PathFits(e, name) => PathEnd(e, name) \in 0..BufLen
    BY PathRoom
  <2> QED
    BY <2>1, <2>2
<1>5. \A new \in Names : PairFits(name, new) => PairEnd(name, new) \in 0..BufLen
  BY <1>1, PairRoom
<1> QED
  BY <1>2, <1>3, <1>4, <1>5

(* How calls end. *)
LEMMA Ends ==
  ASSUME NEW op \in Calls
  PROVE  /\ Done => last' \in Result
         /\ Fails(op) => last' \in Result
         /\ Panics(op) => last' \in Result
<1>1. Done => last' \in Result
  BY DEF Done, Result
<1>2. Fails(op) => last' \in Result
  BY DEF Fails, Result
<1>3. Panics(op) => last' \in Result
  BY DEF Panics, Result
<1> QED
  BY <1>1, <1>2, <1>3

(* Calls that leave files and streams alone. *)
LEMMA IdleKeeps ==
  ASSUME FilesInv, UNCHANGED <<dir, data, open>>, used' \in 0..BufLen, last' \in Result
  PROVE  FilesInv'
<1>1. TypeOK'
  BY DEF FilesInv, TypeOK
<1>2. Placed' /\ Sole' /\ WritesInOrder'
  BY DEF FilesInv, Placed, Sole, WritesInOrder, IsOpen
<1> QED
  BY <1>1, <1>2 DEF FilesInv

LEMMA NamingKeeps == ASSUME FilesInv, NEW name \in Names, Naming(name) PROVE FilesInv'
<1>1. TypeOK /\ used \in 0..BufLen /\ open \in Seq(Stream \cup {Closed})
      /\ dir \in [Names -> DOMAIN data \cup {NoIno}] /\ data \in Seq(Seq(Byte))
  BY DEF FilesInv, TypeOK
<1>2. ASSUME FopenFails(name) PROVE FilesInv'
  <2>1. used' \in 0..BufLen
    BY <1>1, <1>2, UsedInside DEF FopenFails
  <2>2. last' \in Result
    BY <1>2, Ends DEF FopenFails, Calls
  <2> QED
    BY <1>2, <2>1, <2>2, IdleKeeps DEF FopenFails
<1>3. ASSUME Remove(name) PROVE FilesInv'
  <2>1. used' \in 0..BufLen
    BY <1>1, <1>3, UsedInside DEF Remove
  <2>2. last' \in Result
    BY <1>3 DEF Remove, Done, Result
  <2>3. open' = open /\ Drop(data) /\ dir' = [dir EXCEPT ![name] = NoIno]
    BY <1>3 DEF Remove
  <2>4. /\ data' \in Seq(Seq(Byte)) /\ DOMAIN data' = DOMAIN data
        /\ Placed' /\ Sole' /\ WritesInOrder'
    BY <2>3, ClosingKeeps
  <2>5. dir' \in [Names -> DOMAIN data' \cup {NoIno}]
    BY <1>1, <2>3, <2>4
  <2> QED
    BY <1>1, <2>1, <2>2, <2>3, <2>4, <2>5 DEF FilesInv, TypeOK
<1>4. ASSUME RemoveFails(name) PROVE FilesInv'
  <2>1. used' \in 0..BufLen
    BY <1>1, <1>4, UsedInside DEF RemoveFails
  <2>2. last' \in Result
    BY <1>4, Ends DEF RemoveFails, Calls
  <2> QED
    BY <1>4, <2>1, <2>2, IdleKeeps DEF RemoveFails
<1>5. ASSUME NEW mode \in Modes, Fopen(name, mode) PROVE FilesInv'
  <2>1. used' \in 0..BufLen
    BY <1>1, <1>5, UsedInside DEF Fopen
  <2>2. OpenWrite(Len(open) + 1, name, mode)
    BY <1>5 DEF Fopen
  <2>3. /\ dir' \in [Names -> DOMAIN data' \cup {NoIno}] /\ data' \in Seq(Seq(Byte))
        /\ open' \in Seq(Stream \cup {Closed}) /\ last' \in Result
        /\ Placed' /\ Sole' /\ WritesInOrder'
    BY <2>2, OpenKeeps
  <2> QED
    BY <2>1, <2>3 DEF FilesInv, TypeOK
<1>6. ASSUME NEW new \in Names, Rename(name, new) PROVE FilesInv'
  <2>1. used' \in 0..BufLen
    BY <1>1, <1>6, UsedInside DEF Rename
  <2>2. last' \in Result
    BY <1>6 DEF Rename, Done, Result
  <2>3. /\ open' = open /\ Drop(data)
        /\ dir' = [n \in Names |-> IF n = new THEN dir[name] ELSE IF n = name THEN NoIno ELSE dir[n]]
    BY <1>6 DEF Rename
  <2>4. /\ data' \in Seq(Seq(Byte)) /\ DOMAIN data' = DOMAIN data
        /\ Placed' /\ Sole' /\ WritesInOrder'
    BY <2>3, ClosingKeeps
  <2>5. dir' \in [Names -> DOMAIN data' \cup {NoIno}]
    BY <1>1, <2>3, <2>4
  <2> QED
    BY <1>1, <2>1, <2>2, <2>3, <2>4, <2>5 DEF FilesInv, TypeOK
<1>7. ASSUME NEW new \in Names, RenameFails(name, new) PROVE FilesInv'
  <2>1. used' \in 0..BufLen
    BY <1>1, <1>7, UsedInside DEF RenameFails
  <2>2. last' \in Result
    BY <1>7, Ends DEF RenameFails, Calls
  <2> QED
    BY <1>7, <2>1, <2>2, IdleKeeps DEF RenameFails
<1> QED
  BY <1>2, <1>3, <1>4, <1>5, <1>6, <1>7 DEF Naming

(* A stream is closed. *)
LEMMA CloseKeeps ==
  ASSUME FilesInv, NEW s \in DOMAIN open, open' = [open EXCEPT ![s] = Closed], dir' = dir,
         Drop(data), used' \in 0..BufLen, last' \in Result
  PROVE  FilesInv'
<1>1. open \in Seq(Stream \cup {Closed}) /\ dir \in [Names -> DOMAIN data \cup {NoIno}]
  BY DEF FilesInv, TypeOK
<1>2. /\ open' \in Seq(Stream \cup {Closed}) /\ DOMAIN open' = DOMAIN open
      /\ \A r \in DOMAIN open : open'[r] = open[r] \/ open'[r] = Closed
  BY <1>1
<1>3. /\ data' \in Seq(Seq(Byte)) /\ DOMAIN data' = DOMAIN data
      /\ Placed' /\ Sole' /\ WritesInOrder'
  BY <1>2, ClosingKeeps
<1> QED
  BY <1>1, <1>2, <1>3 DEF FilesInv, TypeOK

LEMMA ReopeningKeeps == ASSUME FilesInv, NEW s \in DOMAIN open, Reopening(s) PROVE FilesInv'
<1>1. TypeOK /\ used \in 0..BufLen
  BY DEF FilesInv, TypeOK
<1>2. ASSUME FreopenNull(s) PROVE FilesInv'
  <2>1. last' \in Result
    BY <1>2, Ends DEF FreopenNull, Calls
  <2> QED
    BY <1>1, <1>2, <2>1, IdleKeeps DEF FreopenNull
<1>3. ASSUME NEW name \in Names, FreopenFails(s, name) PROVE FilesInv'
  <2>1. used' \in 0..BufLen
    BY <1>1, <1>3, UsedInside DEF FreopenFails
  <2>2. last' \in Result
    BY <1>3, Ends DEF FreopenFails, Calls
  <2> QED
    BY <1>3, <2>1, <2>2, CloseKeeps DEF FreopenFails
<1>4. ASSUME NEW name \in Names, NEW mode \in Modes, Freopen(s, name, mode) PROVE FilesInv'
  <2>1. used' \in 0..BufLen
    BY <1>1, <1>4, UsedInside DEF Freopen
  <2>2. OpenWrite(s, name, mode)
    BY <1>4 DEF Freopen
  <2>3. /\ dir' \in [Names -> DOMAIN data' \cup {NoIno}] /\ data' \in Seq(Seq(Byte))
        /\ open' \in Seq(Stream \cup {Closed}) /\ last' \in Result
        /\ Placed' /\ Sole' /\ WritesInOrder'
    BY <2>2, OpenKeeps
  <2> QED
    BY <2>1, <2>3 DEF FilesInv, TypeOK
<1> QED
  BY <1>2, <1>3, <1>4 DEF Reopening

LEMMA MovingKeeps == ASSUME FilesInv, NEW s \in DOMAIN open, Moving(s) PROVE FilesInv'
<1>1. TypeOK /\ used \in 0..BufLen
  BY DEF FilesInv, TypeOK
<1>2. ASSUME Fclose(s) PROVE FilesInv'
  <2>1. last' \in Result
    BY <1>2 DEF Fclose, Done, Result
  <2> QED
    BY <1>1, <1>2, <2>1, CloseKeeps DEF Fclose
<1>3. ASSUME \/ Fread(s) \/ FseekEnd(s) \/ Ftell(s)
             \/ FseekFails(s) \/ RewindFails(s) \/ FtellFails(s)
      PROVE  FilesInv'
  <2>1. UNCHANGED <<dir, data, open>> /\ used' = used
    BY <1>3 DEF Fread, FseekEnd, Ftell, FseekFails, RewindFails, FtellFails
  <2>2. last' \in Result
    <3>1. "fread" \in Calls /\ "fseek" \in Calls /\ "rewind" \in Calls /\ "ftell" \in Calls
      BY DEF Calls
    <3>2. \/ Done \/ Fails("fread") \/ Panics("fseek") \/ Fails("fseek")
          \/ Panics("rewind") \/ Fails("ftell")
      BY <1>3 DEF Fread, FseekEnd, Ftell, FseekFails, RewindFails, FtellFails
    <3> QED
      BY <3>1, <3>2, Ends
  <2> QED
    BY <1>1, <2>1, <2>2, IdleKeeps
(* A stream moves, with or without writing. *)
<1>4. ASSUME data' \in Seq(Seq(Byte)), DOMAIN data' = DOMAIN data, UNCHANGED <<dir, used>>,
             open' \in Seq(Stream \cup {Closed}), Placed', Sole', WritesInOrder', last' \in Result
      PROVE  FilesInv'
  BY <1>1, <1>4 DEF FilesInv, TypeOK
<1>5. ASSUME NEW pos \in 0..MaxSize, IsOpen(s), SeekTo(s, pos), UNCHANGED <<dir, data, used>>,
             last' \in Result
      PROVE  FilesInv'
  <2>1. open' \in Seq(Stream \cup {Closed}) /\ Placed' /\ Sole' /\ WritesInOrder'
    BY <1>5, SeekKeeps
  <2>2. data' \in Seq(Seq(Byte)) /\ DOMAIN data' = DOMAIN data
    BY <1>1, <1>5 DEF TypeOK
  <2> QED
    BY <1>4, <1>5, <2>1, <2>2
<1>6. ASSUME Rewind(s) PROVE FilesInv'
  <2>1. last' \in Result /\ 0 \in 0..MaxSize
    BY <1>6 DEF Rewind, Done, Result
  <2> QED
    BY <1>5, <1>6, <2>1 DEF Rewind
<1>7. ASSUME NEW count \in Nat, IsOpen(s), open[s].pos + count <= MaxSize, Put(s, count),
             UNCHANGED <<dir, used>>, last' \in Result
      PROVE  FilesInv'
  BY <1>4, <1>7, PutKeeps
<1>8. ASSUME NEW count \in Counts, Fwrite(s, count) PROVE FilesInv'
  <2>1. last' \in Result /\ count \in Nat
    BY <1>8 DEF Fwrite, Done, Result
  <2> QED
    BY <1>7, <1>8, <2>1 DEF Fwrite
<1>9. ASSUME NEW count \in Counts, NEW done \in 0..(count - 1), FwriteFails(s, count, done)
      PROVE  FilesInv'
  <2>1. last' \in Result
    BY <1>9, Ends DEF FwriteFails, Calls
  <2>2. CASE done = 0
    <3>1. UNCHANGED <<dir, data, open>> /\ used' = used
      BY <1>9, <2>2 DEF FwriteFails
    <3> QED
      BY <1>1, <2>1, <3>1, IdleKeeps
  <2>3. CASE done # 0
    <3>1. IsOpen(s) /\ Put(s, done) /\ UNCHANGED <<dir, used>> /\ open[s].pos + count <= MaxSize
      BY <1>9, <2>3 DEF FwriteFails
    <3>2. open[s].pos \in Nat
      BY <1>1, <3>1, StreamFields DEF IsOpen
    <3>3. done \in Nat /\ open[s].pos + done <= MaxSize
      BY <3>1, <3>2
    <3> QED
      BY <1>7, <2>1, <3>1, <3>3
  <2> QED
    BY <2>2, <2>3
<1>10. ASSUME NEW offset \in Offsets, FseekSet(s, offset) PROVE FilesInv'
  <2>1. last' \in Result
    <3>1. "fseek" \in Calls
      BY DEF Calls
    <3> QED
      BY <1>10, <3>1, Ends DEF FseekSet
  <2>2. CASE offset < 0
    <3>1. UNCHANGED <<dir, data, open>> /\ used' = used
      BY <1>10, <2>2 DEF FseekSet
    <3> QED
      BY <1>1, <2>1, <3>1, IdleKeeps
  <2>3. CASE ~(offset < 0)
    <3>1. offset \in 0..MaxSize
      BY <1>10, <2>3 DEF FseekSet
    <3> QED
      BY <1>5, <1>10, <2>1, <2>3, <3>1 DEF FseekSet
  <2> QED
    BY <2>2, <2>3
<1>11. ASSUME NEW offset \in Offsets, FseekCur(s, offset) PROVE FilesInv'
  <2>1. last' \in Result
    <3>1. "fseek" \in Calls
      BY DEF Calls
    <3> QED
      BY <1>11, <3>1, Ends DEF FseekCur
  <2>2. CASE open[s].pos + offset < 0
    <3>1. UNCHANGED <<dir, data, open>> /\ used' = used
      BY <1>11, <2>2 DEF FseekCur
    <3> QED
      BY <1>1, <2>1, <3>1, IdleKeeps
  <2>3. CASE ~(open[s].pos + offset < 0)
    <3>1. open[s].pos \in 0..MaxSize
      BY <1>1, <1>11, StreamFields DEF FseekCur, IsOpen
    <3>2. open[s].pos + offset \in 0..MaxSize
      <4>1. offset \in Int /\ open[s].pos + offset <= MaxSize
        BY <1>11 DEF FseekCur
      <4> QED
        BY <2>3, <3>1, <4>1
    <3> QED
      BY <1>5, <1>11, <2>1, <2>3, <3>2 DEF FseekCur
  <2> QED
    BY <2>2, <2>3
<1> QED
  BY <1>2, <1>3, <1>6, <1>8, <1>9, <1>10, <1>11 DEF Moving

LEMMA StepFiles == FilesInv /\ [Next]_vars => FilesInv'
<1> SUFFICES ASSUME FilesInv, [Next]_vars PROVE FilesInv'
  OBVIOUS
<1>1. CASE UNCHANGED vars
  <2>1. UNCHANGED <<dir, data, open>> /\ used' \in 0..BufLen /\ last' \in Result
    BY <1>1 DEF vars, FilesInv, TypeOK
  <2> QED
    BY <2>1, IdleKeeps
<1> QED
  BY <1>1, NamingKeeps, ReopeningKeeps, MovingKeeps DEF Next

LEMMA FilesAlways == Spec => []FilesInv
  BY InitFiles, StepFiles, PTL DEF Spec

-----------------------------------------------------------------------------
(* Names denote existing files, streams stay well formed and the fixed buffer is
   never overrun by the names and Files copied into it. *)
THEOREM FilesTypeCorrect == Spec => []TypeOK
<1>1. FilesInv => TypeOK
  BY DEF FilesInv
<1> QED
  BY <1>1, FilesAlways, PTL

(* The file of a stream that was opened, never seeked and never shared its file
   holds exactly the bytes it wrote, in order, through failing writes, renames,
   removals and whatever other streams do. *)
THEOREM WritesStayInOrder == Spec => []WritesInOrder
<1>1. FilesInv => WritesInOrder
  BY DEF FilesInv
<1> QED
  BY <1>1, FilesAlways, PTL

(* A step whose call failed is one of the failing calls. *)
LEMMA FailingSteps ==
  ASSUME Next, last'.end # "done"
  PROVE  \/ UNCHANGED <<dir, data, open>>
         \/ dir' = dir /\ last'.end = "fwrite"
         \/ dir' = dir /\ last'.end = "freopen" /\ Drop(data)
<1>1. ~Done
  BY DEF Done
<1>2. ASSUME NEW name \in Names, Naming(name) PROVE UNCHANGED <<dir, data, open>>
  <2>1. \A new \in Names : ~Rename(name, new)
    BY <1>1 DEF Rename
  <2>2. ~Remove(name)
    BY <1>1 DEF Remove
  <2>3. \A mode \in Modes : ~Fopen(name, mode)
    BY DEF Fopen, OpenWrite
  <2> QED
    BY <1>2, <2>1, <2>2, <2>3 DEF Naming, FopenFails, RemoveFails, RenameFails
<1>3. ASSUME NEW s \in DOMAIN open, Reopening(s)
      PROVE  \/ UNCHANGED <<dir, data, open>>
             \/ dir' = dir /\ last'.end = "freopen" /\ Drop(data)
  <2>1. \A name \in Names, mode \in Modes : ~Freopen(s, name, mode)
    BY DEF Freopen, OpenWrite
  <2>2. ASSUME NEW name \in Names, FreopenFails(s, name)
        PROVE  dir' = dir /\ last'.end = "freopen" /\ Drop(data)
    BY <2>2 DEF FreopenFails, Fails
  <2>3. FreopenNull(s) => UNCHANGED <<dir, data, open>>
    BY DEF FreopenNull
  <2> QED
    BY <1>3, <2>1, <2>2, <2>3 DEF Reopening
<1>4. ASSUME NEW s \in DOMAIN open, Moving(s)
      PROVE  UNCHANGED <<dir, data, open>> \/ (dir' = dir /\ last'.end = "fwrite")
  <2>1. ~Fclose(s) /\ ~Rewind(s) /\ ~Ftell(s) /\ \A count \in Counts : ~Fwrite(s, count)
    BY <1>1 DEF Fclose, Rewind, Ftell, Fwrite
  <2>2. ASSUME NEW count \in Counts, NEW done \in 0..(count - 1), FwriteFails(s, count, done)
        PROVE  dir' = dir /\ last'.end = "fwrite"
    BY <2>2 DEF FwriteFails, Fails
  <2>3. Fread(s) \/ FseekEnd(s) \/ FseekFails(s) \/ RewindFails(s) \/ FtellFails(s)
          => UNCHANGED <<dir, data, open>>
    BY DEF Fread, FseekEnd, FseekFails, RewindFails, FtellFails
  <2>4. \A offset \in Offsets : FseekSet(s, offset) \/ FseekCur(s, offset) => UNCHANGED <<dir, data, open>>
    BY <1>1 DEF FseekSet, FseekCur
  <2> QED
    BY <1>4, <2>1, <2>2, <2>3, <2>4 DEF Moving
<1> QED
  BY <1>2, <1>3, <1>4 DEF Next

(* A failing call changes no name and no contents of a named file and closes no
   stream, but for the part fwrite wrote and the stream freopen closed. *)
THEOREM FailuresAreHarmless == Spec => FailureHarmless
<1> DEFINE Harmless ==
             last'.end # "done" =>
               /\ dir' = dir
               /\ last'.end # "fwrite" =>
                    \A n \in Names : dir[n] # NoIno => data'[dir[n]] = data[dir[n]]
               /\ last'.end \notin {"fwrite", "freopen"} => open' = open
<1>1. ASSUME FilesInv, Next PROVE Harmless
  <2> SUFFICES ASSUME last'.end # "done"
               PROVE  /\ dir' = dir
                      /\ last'.end # "fwrite" =>
                           \A n \in Names : dir[n] # NoIno => data'[dir[n]] = data[dir[n]]
                      /\ last'.end \notin {"fwrite", "freopen"} => open' = open
    OBVIOUS
  <2>1. CASE UNCHANGED <<dir, data, open>>
    BY <2>1
  <2>2. CASE dir' = dir /\ last'.end = "fwrite"
    BY <2>2
  <2>3. CASE dir' = dir /\ last'.end = "freopen" /\ Drop(data)
    <3>1. data \in Seq(Seq(Byte)) /\ dir \in [Names -> DOMAIN data \cup {NoIno}]
      BY <1>1 DEF FilesInv, TypeOK
    <3>2. \A n \in Names : dir'[n] \in DOMAIN data => data'[dir'[n]] = data[dir'[n]]
      BY <2>3, <3>1, Dropped
    <3>3. \A n \in Names : dir[n] # NoIno => data'[dir[n]] = data[dir[n]]
      BY <2>3, <3>1, <3>2
    <3> QED
      BY <2>3, <3>3
  <2> QED
    BY <1>1, <2>1, <2>2, <2>3, FailingSteps
<1>2. FilesInv /\ [Next]_vars => [Harmless]_vars
  BY <1>1
<1> HIDE DEF Harmless
<1>3. Spec => [][Harmless]_vars
  BY <1>2, FilesAlways, PTL DEF Spec
<1> QED
  BY <1>3 DEF FailureHarmless, Harmless

(* Nothing is ever given back to the fixed buffer. *)
LEMMA UsedGrows == ASSUME FilesInv, Next PROVE used' \in Nat /\ used <= used'
<1>1. used \in Nat
  BY DEF FilesInv, TypeOK
<1>2. CreateEnd \in Nat /\ used <= CreateEnd
  BY <1>1, CreateRoom
<1>3. ASSUME NEW name \in Names
      PROVE  /\ PathEnd(used, name) \in Nat /\ used <= PathEnd(used, name)
             /\ PathEnd(CreateEnd, name) \in Nat /\ used <= PathEnd(CreateEnd, name)
             /\ \A new \in Names : PairEnd(name, new) \in Nat /\ used <= PairEnd(name, new)
  <2>1. PathEnd(used, name) \in Nat /\ used <= PathEnd(used, name)
    BY <1>1, PathRoom
  <2>2. PICK e \in Nat : e = CreateEnd /\ used <= e
    BY <1>2
  <2>3. PathEnd(e, name) \in Nat /\ used <= PathEnd(e, name)
    BY <1>1, <2>2, PathRoom
  <2>4. \A new \in Names : PairEnd(name, new) \in Nat /\ used <= PairEnd(name, new)
    BY <1>1, PairRoom
  <2> QED
    BY <2>1, <2>2, <2>3, <2>4
<1>4. ASSUME NEW name \in Names, Naming(name) PROVE used' \in Nat /\ used <= used'
  <2>1. \/ used' \in {used, CreateEnd, PathEnd(used, name), PathEnd(CreateEnd, name)}
        \/ \E new \in Names : used' = PairEnd(name, new)
    BY <1>4 DEF Naming, FopenFails, Remove, RemoveFails, Fopen, Rename, RenameFails
  <2> QED
    BY <1>1, <1>2, <1>3, <2>1
<1>5. ASSUME NEW s \in DOMAIN open, Reopening(s) PROVE used' \in Nat /\ used <= used'
  <2>1. used' = used \/ \E name \in Names : used' = PathEnd(used, name)
    BY <1>5 DEF Reopening, FreopenNull, FreopenFails, Freopen
  <2> QED
    BY <1>1, <1>3, <2>1
<1>6. ASSUME NEW s \in DOMAIN open, Moving(s) PROVE used' \in Nat /\ used <= used'
  <2>1. used' = used
    BY <1>6 DEF Moving, Fclose, Fread, FseekEnd, Rewind, Ftell, FseekFails, RewindFails, FtellFails,
                Fwrite, FwriteFails, FseekSet, FseekCur
  <2> QED
    BY <1>1, <2>1
<1> QED
  BY <1>4, <1>5, <1>6 DEF Next

(* Once no name fits into what is left of the fixed buffer, none ever will, and from
   then on no file is created, renamed or removed. *)
THEOREM NamesStayFrozen == Spec => NamesFreeze /\ [](~Room => [][dir' = dir]_vars)
<1> DEFINE Frozen == ~Room => dir' = dir /\ ~Room'
<1>1. ASSUME FilesInv, Next PROVE Frozen
  <2> SUFFICES ASSUME ~Room PROVE dir' = dir /\ ~Room'
    OBVIOUS
  <2>1. used \in Nat /\ used' \in Nat /\ used <= used'
    BY <1>1, UsedGrows DEF FilesInv, TypeOK
  <2>2. \A name \in Names : PathLen[name] \in Nat /\ ~(used + PathLen[name] + 1 <= BufLen)
    BY <2>1, PathRoom DEF Room
  <2>3. ~Room'
    <3> SUFFICES ASSUME NEW name \in Names PROVE ~PathFits(used', name)
      BY DEF Room, PathFits
    <3>1. PathFits(used', name) <=> used' + PathLen[name] + 1 <= BufLen
      BY <2>1, PathRoom
    <3> QED
      BY <2>1, <2>2, <3>1
  <2>4. ASSUME NEW name \in Names, Naming(name) PROVE dir' = dir
    <3>1. \A mode \in Modes : ~Fopen(name, mode)
      <4>1. ~PathFits(CreateEnd, name)
        <5>1. PICK e \in Nat : e = CreateEnd /\ e >= used
          BY <2>1, CreateRoom
        <5>2. PathFits(e, name) => e + PathLen[name] + 1 <= BufLen
          BY PathRoom
        <5>3. ~PathFits(e, name)
          BY <2>1, <2>2, <5>1, <5>2
        <5> QED
          BY <5>1, <5>3
      <4> QED
        BY <4>1 DEF Fopen
    <3>2. \A new \in Names : ~Rename(name, new)
      <4> SUFFICES ASSUME NEW new \in Names PROVE ~PairFits(name, new)
        BY DEF Rename
      <4>1. PairFits(name, new) => used + PathLen[name] + PathLen[new] + 2 <= BufLen
        BY <2>1, PairRoom
      <4> QED
        BY <2>1, <2>2, <4>1
    <3>3. ~Remove(name)
      BY DEF Remove, Room
    <3> QED
      BY <2>4, <3>1, <3>2, <3>3 DEF Naming, FopenFails, RemoveFails, RenameFails
  <2>5. ASSUME NEW s \in DOMAIN open, Reopening(s) PROVE dir' = dir
    BY <2>5 DEF Reopening, Freopen, FreopenFails, FreopenNull, Room
  <2>6. ASSUME NEW s \in DOMAIN open, Moving(s) PROVE dir' = dir
    BY <2>6 DEF Moving, Fclose, Fread, FseekEnd, Rewind, Ftell, FseekFails, RewindFails, FtellFails,
                Fwrite, FwriteFails, FseekSet, FseekCur
  <2> QED
    BY <1>1, <2>3, <2>4, <2>5, <2>6 DEF Next
<1>2. FilesInv /\ [Next]_vars => [Frozen]_vars
  BY <1>1
<1>3. [Frozen]_vars /\ ~Room => ~Room' /\ [dir' = dir]_vars
  BY DEF vars, Room, PathFits
<1> HIDE DEF Frozen
<1>4. Spec => [][Frozen]_vars
  BY <1>2, FilesAlways, PTL DEF Spec
<1>5. Spec => [](~Room => [][dir' = dir]_vars)
  BY <1>3, <1>4, PTL
<1> QED
  BY <1>4, <1>5 DEF NamesFreeze, Frozen
=============================================================================
