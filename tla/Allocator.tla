----------------------------- MODULE Allocator -----------------------------
(***************************************************************************)
(* What a caller expects of malloc() and free(): pieces of memory that are *)
(* not shared, each his own until he gives it back.                        *)
(***************************************************************************)
EXTENDS Naturals

CONSTANT Words     \* the addresses of the heap
VARIABLE pieces    \* the pieces in use: sets of addresses

AInit == pieces = {}

Give(p) ==
    /\ p \in SUBSET Words \ {{}}
    /\ \A q \in pieces : p \cap q = {}
    /\ pieces' = pieces \cup {p}

TakeBack(p) ==
    /\ p \in pieces
    /\ pieces' = pieces \ {p}

(* A step gives one piece or takes one back; no other piece is moved, cut  *)
(* or lost.                                                                *)
ANext ==
    \/ \E p \in pieces' \ pieces : Give(p)
    \/ \E p \in pieces \ pieces' : TakeBack(p)

ASpec == AInit /\ [][ANext]_pieces
============================================================================
