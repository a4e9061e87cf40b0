------------------------------ MODULE HeapSpec ------------------------------
(***************************************************************************)
(* What <stdlib.h> promises the owners of memory: each has bytes of its    *)
(* own, and nobody else changes what is in them.                           *)
(*                                                                         *)
(* own maps a block to its bytes, as the function from their addresses to  *)
(* their contents.  Where a block goes, how long it is and what a fresh    *)
(* one holds is left open.                                                 *)
(***************************************************************************)

VARIABLE own

Init == own = [i \in {} |-> <<>>]

(* The blocks of keep are as they were. *)
Kept(keep) == \A j \in keep : j \in DOMAIN own' /\ own'[j] = own[j]

(* Block i has at least one byte and shares none with the blocks of keep. *)
Apart(i, keep) ==
  /\ DOMAIN own'[i] # {}
  /\ \A j \in keep : DOMAIN own[j] \cap DOMAIN own'[i] = {}

(* The blocks of keep stay and one more is handed out. *)
HandOut(keep) ==
  \E i \in DOMAIN own' :
    /\ i \notin DOMAIN own
    /\ DOMAIN own' = keep \cup {i}
    /\ Kept(keep)
    /\ Apart(i, keep)

Allocate == HandOut(DOMAIN own)

(* A block is replaced by a new one; its own bytes may be used again. *)
Reallocate == \E o \in DOMAIN own : HandOut(DOMAIN own \ {o})

Release ==
  \E o \in DOMAIN own :
    /\ DOMAIN own' = DOMAIN own \ {o}
    /\ Kept(DOMAIN own')

(* The owner of a block stores into it. *)
Store ==
  \E o \in DOMAIN own :
    /\ DOMAIN own' = DOMAIN own
    /\ Kept(DOMAIN own \ {o})
    /\ DOMAIN own'[o] = DOMAIN own[o]

Next == Allocate \/ Reallocate \/ Release \/ Store

Spec == Init /\ [][Next]_own
=============================================================================
