-------------------------------- MODULE Slots --------------------------------
(***************************************************************************)
(* The DualSlotContainer as a value: two slots with their generations, how *)
(* a commit chooses the slot it overwrites, which payload is recovered,    *)
(* and what is left of the container's bytes when they are cut short.      *)
(*                                                                         *)
(* A slot decrypts only under the generation it was sealed with.           *)
(***************************************************************************)
EXTENDS Naturals

CONSTANT GenMax         \* u64::MAX, for generations

ASSUME GenAssumption == GenMax \in Nat

Gens == 0 .. GenMax

NoBytes == <<>>         \* of an empty slot

Slot(Payload) == {NoBytes} \cup [gen : Gens, payload : Payload]

Container(Payload) ==
    [generation_a : Gens, slot_a : Slot(Payload),
     generation_b : Gens, slot_b : Slot(Payload)]

Unreadable == <<>>      \* from_bytes fails with PaqueteCorrupto

NewContainer ==
    [generation_a |-> 0, slot_a |-> NoBytes, generation_b |-> 0, slot_b |-> NoBytes]

-----------------------------------------------------------------------------
NextGen(c) ==
    1 + (IF c.generation_a > c.generation_b THEN c.generation_a ELSE c.generation_b)

GenFitsAlways(gen) == TRUE      \* mutant: checked_add is left out
GenFits(gen) == gen <= GenMax

NewerIsA(c) == c.generation_a > c.generation_b      \* mutant: the newer slot

OlderIsA(c) == c.generation_a <= c.generation_b

\* The container after commit_state.
Committed(c, payload) ==
    LET g      == NextGen(c)
        sealed == [gen |-> g, payload |-> payload]
    IN  IF OlderIsA(c) THEN [c EXCEPT !.slot_a = sealed, !.generation_a = g]
                       ELSE [c EXCEPT !.slot_b = sealed, !.generation_b = g]

ValidIn(slot, gen) == slot # NoBytes /\ gen > 0 /\ slot.gen = gen

\* Mutant: slot A is tried first, whichever is newer.
LatestAFirst(c) ==
    IF ValidIn(c.slot_a, c.generation_a) THEN c.slot_a
    ELSE IF ValidIn(c.slot_b, c.generation_b) THEN c.slot_b
    ELSE NoBytes

\* recover_latest_valid: the slot whose payload it returns, NoBytes for an error
LatestValid(c) ==
    LET a == ValidIn(c.slot_a, c.generation_a)
        b == ValidIn(c.slot_b, c.generation_b)
    IN  IF a /\ (c.generation_a >= c.generation_b \/ ~b) THEN c.slot_a
        ELSE IF b THEN c.slot_b
        ELSE NoBytes

\* from_bytes of the bytes of c that end in the part named by cut
FromBytes(c, cut) ==
    CASE cut = "slotA" -> Unreadable
      [] cut = "headB" -> [c EXCEPT !.generation_b = 0, !.slot_b = NoBytes]
      [] cut = "slotB" -> [c EXCEPT !.slot_b = NoBytes]
=============================================================================
