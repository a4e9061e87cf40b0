--------------------------- MODULE FprintfProofs ---------------------------
(***************************************************************************)
(* The scan of test_fprintf, for format strings of any length.             *)
(***************************************************************************)
EXTENDS Fprintf, TLAPS

USE FprintfAssumption

ScanInv ==
  /\ fmt \in Seq(FmtChars)
  /\ i \in Nat
  /\ pc \in {"scan", "convert", "done"}
  /\ ReadsInside

LEMMA InitScan == Init => ScanInv
<1> SUFFICES ASSUME Init PROVE ScanInv
  OBVIOUS
<1>1. PICK k \in 0..MaxLen : fmt \in [1..k -> FmtChars]
  BY DEF Init, Formats
<1>2. fmt \in Seq(FmtChars)
  BY <1>1
<1> QED
  BY <1>2 DEF Init, ScanInv, ReadsInside

LEMMA ScanAlways == Spec => []ScanInv
<1>1. ScanInv /\ [Next]_vars => ScanInv'
  <2> SUFFICES ASSUME ScanInv, [Next]_vars PROVE ScanInv'
    OBVIOUS
  <2>1. CASE Scan
    BY <2>1 DEF Scan, Put, FmtAt, ScanInv, ReadsInside
  <2>2. CASE Convert
    BY <2>2 DEF Convert, Put, FmtAt, ScanInv, ReadsInside
  <2>3. CASE UNCHANGED vars
    BY <2>3 DEF vars, ScanInv, ReadsInside
  <2> QED
    BY <2>1, <2>2, <2>3 DEF Next
<1> QED
  BY <1>1, InitScan, PTL DEF Spec

(* The scan never reads behind the terminator, for format strings of any length. *)
THEOREM FprintfReadsInside == Spec => []ReadsInside
<1>1. ScanInv => ReadsInside
  BY DEF ScanInv
<1> QED
  BY <1>1, ScanAlways, PTL

-----------------------------------------------------------------------------
(* len percent signs, and no more, come right before position k. *)
RunBefore(k, len) ==
  /\ len \in 0..(k - 1)
  /\ \A m \in (k - len)..(k - 1) : fmt[m] = Percent
  /\ k - len - 1 = 0 \/ fmt[k - len - 1] # Percent

(* The inductive invariant of the pieces.  The scan is inside a conversion exactly
   after an odd run of percent signs, which is where one begins, and has written
   the pieces of what it has read.  The length of the run is carried along because
   Begins speaks of the whole run, not of one step. *)
PieceInv ==
  /\ pc # "done" =>
       /\ \E len \in 0..i : RunBefore(i + 1, len) /\ (pc = "convert" <=> len % 2 = 1)
       /\ pc = "convert" <=> i \in Begins
  /\ pc = "done" => i >= Len(fmt)
  /\ out \in Seq({"char", "conv", "unknown"} \X FmtChars)
  /\ Lists(Shown \cap (1..i))

(* There is one run before a position. *)
LEMMA OneRun ==
  ASSUME NEW k \in Nat, NEW m \in Nat, NEW n \in Nat, RunBefore(k, m), RunBefore(k, n)
  PROVE  m = n
<1>1. ASSUME NEW a \in Nat, NEW b \in Nat, RunBefore(k, a), RunBefore(k, b), a < b PROVE FALSE
  <2>1. k - a - 1 \in (k - b)..(k - 1) /\ k - a - 1 # 0
    BY <1>1 DEF RunBefore
  <2> QED
    BY <1>1, <2>1 DEF RunBefore
<1> QED
  BY <1>1

(* A conversion begins at a percent sign behind an even run of them. *)
LEMMA BeginsAfter ==
  ASSUME ScanInv, NEW k \in 1..Len(fmt), NEW len \in Nat, RunBefore(k, len)
  PROVE  k \in Begins <=> fmt[k] = Percent /\ len % 2 = 0
<1>1. k \in Begins <=> fmt[k] = Percent /\ \E l \in 0..(k - 1) : l % 2 = 0 /\ RunBefore(k, l)
  BY DEF Begins, RunBefore
<1>2. \A l \in 0..(k - 1) : RunBefore(k, l) => l = len
  BY OneRun DEF ScanInv
<1>3. len \in 0..(k - 1)
  BY DEF RunBefore
<1> QED
  BY <1>1, <1>2, <1>3

(* The run before the next position, from the character just read. *)
LEMMA NextRun ==
  ASSUME NEW k \in Nat \ {0}, NEW len \in Nat, RunBefore(k, len)
  PROVE  /\ fmt[k] = Percent => RunBefore(k + 1, len + 1)
         /\ fmt[k] # Percent => RunBefore(k + 1, 0)
<1>1. len \in 0..(k - 1)
  BY DEF RunBefore
<1>2. ASSUME fmt[k] = Percent PROVE RunBefore(k + 1, len + 1)
  <2>1. len + 1 \in 0..((k + 1) - 1)
    BY <1>1
  <2>2. ASSUME NEW m \in ((k + 1) - (len + 1))..((k + 1) - 1) PROVE fmt[m] = Percent
    <3>1. m = k \/ m \in (k - len)..(k - 1)
      BY <1>1
    <3> QED
      BY <1>2, <3>1 DEF RunBefore
  <2>3. (k + 1) - (len + 1) - 1 = k - len - 1
    BY <1>1
  <2> QED
    BY <2>1, <2>2, <2>3 DEF RunBefore
<1>3. ASSUME fmt[k] # Percent PROVE RunBefore(k + 1, 0)
  <2>1. 0 \in 0..((k + 1) - 1) /\ (k + 1) - 0 - 1 = k /\ ((k + 1) - 0)..((k + 1) - 1) = {}
    OBVIOUS
  <2> QED
    BY <1>3, <2>1 DEF RunBefore
<1> QED
  BY <1>2, <1>3

-----------------------------------------------------------------------------
(* The format does not change, and with it nothing that is said about it. *)
LEMMA SameFormat ==
  ASSUME fmt' = fmt
  PROVE  /\ Begins' = Begins /\ Shown' = Shown
         /\ \A k : Piece(k)' = Piece(k)
         /\ \A k, len : RunBefore(k, len)' = RunBefore(k, len)
<1>1. Begins' = Begins
  BY DEF Begins
<1> QED
  BY <1>1 DEF Shown, Piece, RunBefore

(* Nothing is written and no position that prints was passed. *)
LEMMA ListsStay ==
  ASSUME fmt' = fmt, out' = out, Lists(Shown \cap (1..i)), Shown \cap (1..i') = Shown \cap (1..i)
  PROVE  Lists(Shown \cap (1..i))'
<1> DEFINE ks == Shown \cap (1..i)
<1>1. (Shown \cap (1..i))' = ks
  BY SameFormat
<1>2. PICK at \in [1..Len(out) -> ks] :
        /\ \A m, n \in 1..Len(out) : m < n => at[m] < at[n]
        /\ \A k \in ks : \E n \in 1..Len(out) : at[n] = k
        /\ \A n \in 1..Len(out) : out[n] = Piece(at[n])
  BY DEF Lists
<1>3. \A n \in 1..Len(out') : out'[n] = Piece(at[n])'
  BY <1>2, SameFormat
<1> HIDE DEF ks
<1> QED
  BY <1>1, <1>2, <1>3 DEF Lists

(* The next position prints and its piece is written. *)
LEMMA ListsGrow ==
  ASSUME ScanInv, fmt' = fmt, i' = i + 1, NEW S, out \in Seq(S), Piece(i + 1) \in S,
         i + 1 \in Shown, out' = Append(out, Piece(i + 1)), Lists(Shown \cap (1..i))
  PROVE  Lists(Shown \cap (1..i))'
<1> DEFINE ks == Shown \cap (1..i)
           ls == Shown \cap (1..(i + 1))
           N == Len(out)
<1>1. (Shown \cap (1..i))' = ls
  BY SameFormat
<1>2. i \in Nat /\ N \in Nat
  BY DEF ScanInv
<1>3. PICK at \in [1..N -> ks] :
        /\ \A m, n \in 1..N : m < n => at[m] < at[n]
        /\ \A k \in ks : \E n \in 1..N : at[n] = k
        /\ \A n \in 1..N : out[n] = Piece(at[n])
  BY DEF Lists
<1>4. ls = ks \cup {i + 1} /\ \A k \in ks : k \in Nat /\ k < i + 1
  <2>1. \A k : k \in 1..(i + 1) <=> k \in 1..i \/ k = i + 1
    BY <1>2
  <2>2. \A k \in 1..i : k \in Nat /\ k < i + 1
    BY <1>2
  <2> QED
    BY <2>1, <2>2
<1>5. Len(out') = N + 1 /\ out'[N + 1] = Piece(i + 1) /\ \A n \in 1..N : out'[n] = out[n]
  OBVIOUS
<1>6. \A n \in 1..(N + 1) : n \in 1..N \/ n = N + 1
  BY <1>2
<1>7. N + 1 \notin 1..N /\ N + 1 \in 1..(N + 1) /\ \A n \in 1..N : n \in 1..(N + 1)
  BY <1>2
<1> HIDE DEF ks, ls, N
<1>8. \A n \in 1..N : at[n] \in ks
  BY <1>3
<1>9. PICK bt \in [1..(N + 1) -> ls] :
        bt[N + 1] = i + 1 /\ \A n \in 1..N : bt[n] = at[n]
  <2> DEFINE f == [n \in 1..(N + 1) |-> IF n = N + 1 THEN i + 1 ELSE at[n]]
  <2>1. f[N + 1] = i + 1 /\ \A n \in 1..N : f[n] = at[n]
    BY <1>7
  <2>2. f \in [1..(N + 1) -> ls]
    BY <1>4, <1>6, <1>8
  <2> HIDE DEF f
  <2> QED
    BY <2>1, <2>2
<1>10. ASSUME NEW m \in 1..(N + 1), NEW n \in 1..(N + 1), m < n PROVE bt[m] < bt[n]
  <2>1. m \in 1..N
    BY <1>2, <1>10
  <2>2. CASE n \in 1..N
    BY <1>3, <1>9, <1>10, <2>1, <2>2
  <2>3. CASE n = N + 1
    BY <1>4, <1>8, <1>9, <2>1, <2>3
  <2> QED
    BY <1>6, <2>2, <2>3
<1>11. ASSUME NEW k \in ls PROVE \E n \in 1..(N + 1) : bt[n] = k
  <2>1. CASE k = i + 1
    BY <1>7, <1>9, <2>1
  <2>2. CASE k \in ks
    BY <1>3, <1>7, <1>9, <2>2
  <2> QED
    BY <1>4, <2>1, <2>2
<1>12. ASSUME NEW n \in 1..(N + 1) PROVE out'[n] = Piece(bt[n])'
  <2>1. CASE n \in 1..N
    <3>1. out'[n] = Piece(bt[n])
      BY <1>3, <1>5, <1>9, <2>1
    <3> QED
      BY <3>1, SameFormat
  <2>2. CASE n = N + 1
    <3>1. out'[n] = Piece(bt[n])
      BY <1>5, <1>9, <2>2
    <3> QED
      BY <3>1, SameFormat
  <2> QED
    BY <1>6, <2>1, <2>2
<1>13. \E ct \in [1..Len(out') -> ls] :
         /\ \A m, n \in 1..Len(out') : m < n => ct[m] < ct[n]
         /\ \A k \in ls : \E n \in 1..Len(out') : ct[n] = k
         /\ \A n \in 1..Len(out') : out'[n] = Piece(ct[n])'
  <2>1. Len(out') = N + 1
    BY <1>5
  <2>2. bt \in [1..Len(out') -> ls]
    BY <1>9, <2>1
  <2>3. \A m, n \in 1..Len(out') : m < n => bt[m] < bt[n]
    BY <1>10, <2>1
  <2>4. \A k \in ls : \E n \in 1..Len(out') : bt[n] = k
    BY <1>11, <2>1
  <2>5. \A n \in 1..Len(out') : out'[n] = Piece(bt[n])'
    BY <1>12, <2>1
  <2> QED
    BY <2>2, <2>3, <2>4, <2>5
<1>14. Lists(Shown \cap (1..i))' <=>
         \E ct \in [1..Len(out') -> (Shown \cap (1..i))'] :
         /\ \A m, n \in 1..Len(out') : m < n => ct[m] < ct[n]
         /\ \A k \in (Shown \cap (1..i))' : \E n \in 1..Len(out') : ct[n] = k
         /\ \A n \in 1..Len(out') : out'[n] = Piece(ct[n])'
  BY Zenon DEF Lists
<1> QED
  BY <1>1, <1>13, <1>14, Zenon

LEMMA InitPieces == Init => PieceInv
<1> SUFFICES ASSUME Init PROVE PieceInv
  OBVIOUS
<1>1. i = 0 /\ out = <<>> /\ pc = "scan"
  BY DEF Init
<1>2. Shown \cap (1..0) = {} /\ 0 \notin Begins
  BY DEF Begins
<1>3. Lists({})
  <2>1. Len(out) = 0 /\ 1..0 = {}
    BY <1>1
  <2>2. [n \in 1..0 |-> 0] \in [1..Len(out) -> {}]
    BY <2>1
  <2> QED
    BY <2>1, <2>2 DEF Lists
<1>4. RunBefore(1, 0) /\ 0 \in 0..0 /\ 0 % 2 # 1
  BY DEF RunBefore
<1>5. out \in Seq({"char", "conv", "unknown"} \X FmtChars)
  BY <1>1
<1>6. 0 + 1 = 1
  OBVIOUS
<1> QED
  BY <1>1, <1>2, <1>3, <1>4, <1>5, <1>6 DEF PieceInv

-----------------------------------------------------------------------------
(* What FmtAt reads: the terminator exactly when the format is used up. *)
LEMMA ReadNext ==
  ASSUME ScanInv
  PROVE  /\ FmtAt(i) = End => i >= Len(fmt)
         /\ FmtAt(i) # End => /\ i + 1 \in 1..Len(fmt) /\ FmtAt(i) = fmt[i + 1]
                              /\ fmt[i + 1] \in FmtChars
<1>1. Len(fmt) \in Nat /\ i \in Nat
  BY DEF ScanInv
<1>2. CASE i < Len(fmt)
  <2>1. i + 1 \in 1..Len(fmt)
    BY <1>1, <1>2
  <2>2. fmt[i + 1] \in FmtChars
    BY <2>1 DEF ScanInv
  <2>3. End \notin FmtChars
    BY DEF FmtChars
  <2> QED
    BY <1>2, <2>1, <2>2, <2>3 DEF FmtAt
<1>3. CASE ~(i < Len(fmt))
  BY <1>1, <1>3 DEF FmtAt
<1> QED
  BY <1>2, <1>3

(* The terminator: every position that prints has been passed. *)
LEMMA EndPieces ==
  ASSUME ScanInv, PieceInv, fmt' = fmt, out' = out, pc' = "done", i >= Len(fmt),
         i' = i \/ i' = i + 1
  PROVE  PieceInv'
<1>1. i \in Nat /\ i' \in Nat /\ Len(fmt) \in Nat
  BY DEF ScanInv
<1>2. i' >= Len(fmt)
  BY <1>1
<1>3. Shown \cap (1..i') = Shown \cap (1..i)
  <2>1. \A k \in Shown : k \in 1..i' /\ k \in 1..i
    BY <1>1, <1>2 DEF Shown
  <2> QED
    BY <2>1
<1>4. Lists(Shown \cap (1..i))'
  BY <1>3, ListsStay DEF PieceInv
<1> QED
  BY <1>2, <1>4 DEF PieceInv

(* A position that prints: its piece is written and the scan goes on. *)
LEMMA WritePieces ==
  ASSUME ScanInv, PieceInv, fmt' = fmt, i' = i + 1, i + 1 \in Shown,
         out' = Append(out, Piece(i + 1)), pc' = "scan",
         NEW len \in Nat, len % 2 = 0, RunBefore(i + 2, len)
  PROVE  PieceInv'
<1> DEFINE S == {"char", "conv", "unknown"} \X FmtChars
<1>1. i \in Nat /\ i' + 1 = i + 2
  BY DEF ScanInv
<1>2. fmt[i + 1] \in FmtChars
  BY DEF ScanInv, Shown
<1>3. Piece(i + 1) \in S
  BY <1>2 DEF Piece
<1>4. out \in Seq(S)
  BY DEF PieceInv
<1> HIDE DEF S
<1>5. Lists(Shown \cap (1..i))'
  <2>1. Lists(Shown \cap (1..i))
    BY DEF PieceInv
  <2> QED
    BY <1>3, <1>4, <2>1, ListsGrow
<1>6. out' \in Seq(S)
  BY <1>3, <1>4
<1>7. i' \notin Begins'
  BY SameFormat DEF Shown
<1>8. len \in 0..i' /\ len % 2 # 1
  BY <1>1 DEF RunBefore
<1>9. RunBefore(i + 1, len)'
  BY <1>1, SameFormat
<1>10. \E l \in 0..i' : RunBefore(i + 1, l)' /\ (pc' = "convert" <=> l % 2 = 1)
  BY <1>8, <1>9
<1> QED
  BY <1>5, <1>6, <1>7, <1>10 DEF PieceInv, S

LEMMA ScanPieces ==
  ASSUME ScanInv, PieceInv, Scan
  PROVE  PieceInv'
<1>1. fmt' = fmt /\ ch' = FmtAt(i) /\ pc = "scan" /\ i \in Nat
  BY DEF Scan, ScanInv
<1>2. PICK len \in 0..i : RunBefore(i + 1, len) /\ len % 2 # 1
  BY <1>1 DEF PieceInv
<1>3. i \notin Begins /\ len \in Nat /\ len % 2 = 0 /\ i + 1 \in Nat \ {0}
  BY <1>1, <1>2 DEF PieceInv
<1>4. CASE ch' = End
  BY <1>1, <1>4, ReadNext, EndPieces DEF Scan
<1>5. CASE ch' # End
  <2>1. i' = i + 1 /\ i + 1 \in 1..Len(fmt) /\ ch' = fmt[i + 1]
    BY <1>1, <1>5, ReadNext DEF Scan
  <2>2. i + 1 \in Begins <=> fmt[i + 1] = Percent
    BY <1>2, <1>3, <2>1, BeginsAfter
  <2>3. (i + 1) + 1 = i + 2 /\ (i + 1) - 1 = i
    BY <1>1
  <2>4. CASE ch' # Percent
    <3>1. out' = Append(out, <<"char", fmt[i + 1]>>) /\ pc' = "scan"
      BY <1>1, <1>5, <2>1, <2>4 DEF Scan, Put
    <3>2. Piece(i + 1) = <<"char", fmt[i + 1]>>
      BY <1>3, <2>3 DEF Piece
    <3>3. RunBefore(i + 2, 0)
      BY <1>2, <1>3, <2>1, <2>3, <2>4, NextRun
    <3>4. i + 1 \in Shown
      BY <2>1, <2>2, <2>4 DEF Shown
    <3>5. 0 \in Nat /\ 0 % 2 = 0
      OBVIOUS
    <3> QED
      BY <1>1, <2>1, <3>1, <3>2, <3>3, <3>4, <3>5, WritePieces
  <2>5. CASE ch' = Percent
    <3>1. out' = out /\ pc' = "convert"
      BY <1>5, <2>5 DEF Scan
    <3>2. i + 1 \in Begins
      BY <2>1, <2>2, <2>5
    <3>3. Shown \cap (1..i') = Shown \cap (1..i)
      <4>1. \A k : k \in 1..(i + 1) <=> k \in 1..i \/ k = i + 1
        BY <1>1
      <4> QED
        BY <2>1, <3>2, <4>1 DEF Shown
    <3>4. Lists(Shown \cap (1..i))'
      BY <1>1, <3>1, <3>3, ListsStay DEF PieceInv
    <3>5. RunBefore(i + 2, len + 1)
      BY <1>2, <1>3, <2>1, <2>3, <2>5, NextRun
    <3>6. len + 1 \in 0..i' /\ (len + 1) % 2 = 1 /\ i' + 1 = i + 2
      BY <1>1, <1>2, <1>3, <2>1
    <3>7. RunBefore(i + 1, len + 1)'
      <4>1. RunBefore(i' + 1, len + 1)
        BY <3>5, <3>6
      <4> QED
        BY <1>1, <4>1, SameFormat
    <3>8. i' \in Begins'
      BY <1>1, <2>1, <3>2, SameFormat
    <3>9. \E l \in 0..i' : RunBefore(i + 1, l)' /\ (pc' = "convert" <=> l % 2 = 1)
      BY <3>1, <3>6, <3>7
    <3> QED
      BY <3>1, <3>4, <3>8, <3>9 DEF PieceInv
  <2> QED
    BY <2>4, <2>5
<1> QED
  BY <1>4, <1>5

LEMMA ConvertPieces ==
  ASSUME ScanInv, PieceInv, Convert
  PROVE  PieceInv'
<1>1. fmt' = fmt /\ ch' = FmtAt(i) /\ i' = i + 1 /\ pc = "convert" /\ i \in Nat
  BY DEF Convert, ScanInv
<1>2. PICK len \in 0..i : RunBefore(i + 1, len) /\ len % 2 = 1
  BY <1>1 DEF PieceInv
<1>3. i \in Begins /\ len \in Nat /\ i + 1 \in Nat \ {0}
  BY <1>1, <1>2 DEF PieceInv
<1>4. CASE ch' = End
  BY <1>1, <1>4, ReadNext, EndPieces DEF Convert
<1>5. CASE ch' # End
  <2>1. i + 1 \in 1..Len(fmt) /\ ch' = fmt[i + 1] /\ (i + 1) - 1 = i /\ (i + 1) + 1 = i + 2
    BY <1>1, <1>5, ReadNext
  <2>2. i + 1 \in Shown
    <3>1. i + 1 \in Begins <=> fmt[i + 1] = Percent /\ len % 2 = 0
      BY <1>2, <1>3, <2>1, BeginsAfter
    <3> QED
      BY <1>2, <2>1, <3>1 DEF Shown
  <2>3. pc' = "scan"
    BY <1>5 DEF Convert
  <2>4. out' = Append(out, Piece(i + 1))
    <3>1. Percent \notin Letters
      OBVIOUS
    <3>2. out' = Append(out, <<IF fmt[i + 1] \in Letters THEN "conv"
                              ELSE IF fmt[i + 1] = Percent THEN "char" ELSE "unknown", fmt[i + 1]>>)
      BY <1>5, <2>1 DEF Convert, Put
    <3> QED
      BY <1>3, <2>1, <3>1, <3>2 DEF Piece
  <2>5. \E l \in Nat : l % 2 = 0 /\ RunBefore(i + 2, l)
    <3>1. CASE fmt[i + 1] = Percent
      <4>1. len + 1 \in Nat /\ (len + 1) % 2 = 0
        BY <1>2, <1>3
      <4>2. RunBefore(i + 2, len + 1)
        BY <1>2, <1>3, <2>1, <3>1, NextRun
      <4> QED
        BY <4>1, <4>2
    <3>2. CASE fmt[i + 1] # Percent
      <4>1. 0 \in Nat /\ 0 % 2 = 0
        OBVIOUS
      <4>2. RunBefore(i + 2, 0)
        BY <1>2, <1>3, <2>1, <3>2, NextRun
      <4> QED
        BY <4>1, <4>2
    <3> QED
      BY <3>1, <3>2
  <2> QED
    BY <1>1, <2>2, <2>3, <2>4, <2>5, WritePieces
<1> QED
  BY <1>4, <1>5

(* When the scan of a format of any length is done it has written one piece for
   every literal character and every conversion, in the order of the format. *)
THEOREM FprintfPiecesComplete == Spec => []PiecesComplete
<1>1. ScanInv /\ PieceInv /\ [Next]_vars => PieceInv'
  <2> SUFFICES ASSUME ScanInv, PieceInv, [Next]_vars PROVE PieceInv'
    OBVIOUS
  <2>1. CASE UNCHANGED vars
    <3>1. fmt' = fmt /\ i' = i /\ out' = out /\ pc' = pc
      BY <2>1 DEF vars
    <3>2. Lists(Shown \cap (1..i))'
      BY <3>1, ListsStay DEF PieceInv
    <3>3. \A l : RunBefore(i + 1, l)' = RunBefore(i + 1, l)
      BY <3>1, SameFormat
    <3>4. Begins' = Begins
      BY <3>1, SameFormat
    <3> QED
      BY <3>1, <3>2, <3>3, <3>4 DEF PieceInv
  <2> QED
    BY <2>1, ScanPieces, ConvertPieces DEF Next
<1>2. ScanInv /\ PieceInv => PiecesComplete
  <2> SUFFICES ASSUME ScanInv, PieceInv, pc = "done" PROVE Lists(Shown)
    BY DEF PiecesComplete
  <2>1. i \in Nat /\ Len(fmt) \in Nat /\ i >= Len(fmt)
    BY DEF ScanInv, PieceInv
  <2>2. Shown \cap (1..i) = Shown
    BY <2>1 DEF Shown
  <2> QED
    BY <2>2 DEF PieceInv
<1> QED
  BY <1>1, <1>2, InitPieces, ScanAlways, PTL DEF Spec
=============================================================================
