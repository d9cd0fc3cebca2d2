---------------------------- MODULE ReplayWindow ----------------------------
(***************************************************************************)
(* The anti-replay window of the crate.  The code holds it twice, once in  *)
(* ReplayWindowChannel (ensure_sequence_is_new, mark_seen) and once, per   *)
(* peer, in ChronoMeshNode (PeerReplayState::check, ::record); both copies *)
(* compute the operators below.                                            *)
(*                                                                         *)
(* A window is the pair (highest_seen, seen_bitmap).  The u128 bitmap is   *)
(* the set of the positions of its one bits: position d stands for the     *)
(* sequence number highest_seen - d.  Bits is the width of that integer    *)
(* (128 in the code) and Window the accepted distance.                     *)
(***************************************************************************)
EXTENDS Integers, FiniteSets

CONSTANTS Window, Bits

\* new_with_context refuses window = 0 and window > MAX_WINDOW.
ASSUME WindowAssumption == Bits \in Nat \ {0} /\ Window \in 1 .. Bits

NoneSeen == -1          \* highest_seen = None

Fresh == [highest |-> NoneSeen, bitmap |-> {}]

WindowState(seqs) ==
    [highest : seqs \cup {NoneSeen}, bitmap : SUBSET (0 .. Window - 1)]

-----------------------------------------------------------------------------
(* The error of a sequence number that the window refuses, or "Ok".        *)

CheckOffByOne(w, seq) ==
    IF w.highest = NoneSeen \/ seq > w.highest THEN "Ok"
    ELSE IF w.highest - seq > Window THEN "FueraDeOrden"
    ELSE IF w.highest - seq \in w.bitmap THEN "Repetido"
    ELSE "Ok"

Check(w, seq) ==
    IF w.highest = NoneSeen \/ seq > w.highest THEN "Ok"
    ELSE IF w.highest - seq >= Window THEN "FueraDeOrden"
    ELSE IF w.highest - seq \in w.bitmap THEN "Repetido"
    ELSE "Ok"

(* The window after an authentic packet with a sequence number that Check  *)
(* let through.  Bits shifted past the top of the integer are dropped, and *)
(* the mask keeps the lowest Window bits.                                  *)

ShiftLeft(bitmap, shift) == {d + shift : d \in bitmap} \cap (0 .. Bits - 1)

Mask(bitmap) == bitmap \cap (0 .. Window - 1)

RecordUnmasked(w, seq) ==
    IF w.highest = NoneSeen \/ seq > w.highest
    THEN [highest |-> seq,
          bitmap |-> ShiftLeft(w.bitmap, seq - w.highest) \cup {0}]
    ELSE [w EXCEPT !.bitmap = @ \cup {w.highest - seq}]

RecordKeepsBitmap(w, seq) ==
    IF w.highest = NoneSeen \/ seq > w.highest
    THEN [highest |-> seq, bitmap |-> Mask(w.bitmap \cup {0})]
    ELSE [w EXCEPT !.bitmap = @ \cup {w.highest - seq}]

Record(w, seq) ==
    IF w.highest = NoneSeen
    THEN [highest |-> seq, bitmap |-> {0}]
    ELSE IF seq > w.highest
    THEN LET shift   == seq - w.highest
             shifted == IF shift >= Bits THEN {} ELSE ShiftLeft(w.bitmap, shift)
         IN  [highest |-> seq, bitmap |-> Mask(shifted \cup {0})]
    ELSE [w EXCEPT !.bitmap = @ \cup {w.highest - seq}]

-----------------------------------------------------------------------------
(* What a window must say about the set of sequence numbers it recorded.   *)
Exact(w, accepted) ==
    /\ w.highest = NoneSeen <=> accepted = {}
    /\ w.highest # NoneSeen => w.highest \in accepted
    /\ \A s \in accepted : s <= w.highest
    /\ \A d \in 0 .. Bits - 1 :
          d \in w.bitmap <=> d < Window /\ w.highest - d \in accepted
=============================================================================
