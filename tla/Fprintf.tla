------------------------------ MODULE Fprintf ------------------------------
(***************************************************************************)
(* test_fprintf of src/stdio.zig: the scan over a format string.  Its      *)
(* arguments are constants in the code, so a conversion writes one piece   *)
(* that depends on its letter only.                                        *)
(***************************************************************************)
EXTENDS Integers, Sequences

CONSTANTS
  Letters,   \* characters with a conversion of their own: d i u x X e E f F c s p
  Others,    \* characters without one; all but 0 and the percent sign
  Percent,
  MaxLen,    \* the longest format string tried
  End        \* the terminator

ASSUME FprintfAssumption ==
  /\ Percent \notin Letters \cup Others /\ End \notin Letters \cup Others \cup {Percent}
  /\ Letters \cap Others = {}
  /\ MaxLen \in Nat

FmtChars == Letters \cup Others \cup {Percent}
Formats == UNION {[1..k -> FmtChars] : k \in 0..MaxLen}

VARIABLES
  fmt,   \* the format string
  i,     \* the next character to read
  ch,    \* the character last read
  out,   \* what has been written: <<"char", c>>, <<"conv", c>> or <<"unknown", c>>
  pc

vars == <<fmt, i, ch, out, pc>>

Init ==
  /\ fmt \in Formats
  /\ i = 0 /\ ch = End /\ out = <<>> /\ pc = "scan"

(* fmt[k], counted from 0. *)
FmtAt(k) == IF k < Len(fmt) THEN fmt[k + 1] ELSE End

Put(piece) == out' = Append(out, piece)

(* The top of the loop: a literal character is written, a percent sign makes the
   next round of the switch, the terminator ends it. *)
Scan ==
  /\ pc = "scan"
  /\ ch' = FmtAt(i)
  /\ IF ch' = End
     THEN pc' = "done" /\ UNCHANGED <<i, out>>
     ELSE /\ i' = i + 1
          /\ IF ch' # Percent THEN Put(<<"char", ch'>>) /\ UNCHANGED pc
             ELSE pc' = "convert" /\ UNCHANGED out
  /\ UNCHANGED fmt

(* MUTANT: a percent sign before the terminator goes on scanning. *)
ConvertOn ==
  /\ pc = "convert"
  /\ ch' = FmtAt(i) /\ i' = i + 1
  /\ pc' = "scan"
  /\ Put(<<IF ch' \in Letters THEN "conv" ELSE IF ch' = Percent THEN "char" ELSE "unknown", ch'>>)
  /\ UNCHANGED fmt

(* MUTANT: at the terminator it waits. *)
ConvertWaiting ==
  /\ pc = "convert"
  /\ IF FmtAt(i) = End
     THEN UNCHANGED <<ch, i, pc, out>>
     ELSE /\ ch' = FmtAt(i) /\ i' = i + 1 /\ pc' = "scan"
          /\ Put(<<IF ch' \in Letters THEN "conv"
                   ELSE IF ch' = Percent THEN "char" ELSE "unknown", ch'>>)
  /\ UNCHANGED fmt

(* MUTANT: an escaped percent sign writes nothing. *)
ConvertSilent ==
  /\ pc = "convert"
  /\ ch' = FmtAt(i) /\ i' = i + 1
  /\ IF ch' = End
     THEN pc' = "done" /\ UNCHANGED out
     ELSE /\ pc' = "scan"
          /\ IF ch' = Percent THEN UNCHANGED out
             ELSE Put(<<IF ch' \in Letters THEN "conv" ELSE "unknown", ch'>>)
  /\ UNCHANGED fmt

(* The switch on the character behind a percent sign; at the terminator it breaks
   out of the loop, with i already behind it. *)
Convert ==
  /\ pc = "convert"
  /\ ch' = FmtAt(i) /\ i' = i + 1
  /\ IF ch' = End
     THEN pc' = "done" /\ UNCHANGED out
     ELSE /\ pc' = "scan"
          /\ Put(<<IF ch' \in Letters THEN "conv"
                   ELSE IF ch' = Percent THEN "char" ELSE "unknown", ch'>>)
  /\ UNCHANGED fmt

Next == Scan \/ Convert

Spec == Init /\ [][Next]_vars
FairSpec == Spec /\ WF_vars(Next)

-----------------------------------------------------------------------------
(* No character behind the terminator is read, also when the format ends in a
   percent sign. *)
ReadsInside == pc # "done" => i <= Len(fmt)

(* The positions at which a conversion begins: percent signs with an even number
   of percent signs right before them. *)
Begins == {k \in 1..Len(fmt) :
             fmt[k] = Percent
             /\ \E len \in 0..(k - 1) :
                  /\ len % 2 = 0
                  /\ \A m \in (k - len)..(k - 1) : fmt[m] = Percent
                  /\ k - len - 1 = 0 \/ fmt[k - len - 1] # Percent}

(* The positions that print, and what each prints. *)
Shown == (1..Len(fmt)) \ Begins

Piece(k) ==
  <<IF k - 1 \notin Begins \/ fmt[k] = Percent THEN "char"
    ELSE IF fmt[k] \in Letters THEN "conv" ELSE "unknown", fmt[k]>>

(* out is the pieces of the positions ks, each once and in their order. *)
Lists(ks) ==
  \E at \in [1..Len(out) -> ks] :
    /\ \A m, n \in 1..Len(out) : m < n => at[m] < at[n]
    /\ \A k \in ks : \E n \in 1..Len(out) : at[n] = k
    /\ \A n \in 1..Len(out) : out[n] = Piece(at[n])

(* One piece comes out for every literal character and every conversion, in the
   order of the format, and nothing for a percent sign at its end. *)
PiecesComplete == pc = "done" => Lists(Shown)

(* The scan ends. *)
ScanEnds == <>(pc = "done")
=============================================================================
