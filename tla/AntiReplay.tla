----------------------------- MODULE AntiReplay -----------------------------
(***************************************************************************)
(* What a sliding anti-replay window promises, without a bitmap: the       *)
(* receiver remembers every sequence number it accepted since it was       *)
(* built, accepts each one once, and refuses a sequence number only when   *)
(* it was accepted before, when it is Window or more behind one that was,  *)
(* or when the packet is not authentic; a packet of another wire version   *)
(* is refused before its sequence number is looked at.                     *)
(***************************************************************************)
EXTENDS Integers

CONSTANTS Window, Seqs

VARIABLES accepted,     \* sequence numbers accepted since construction
          answer        \* what the last call of open returned

NoAnswer == [seq |-> -1, verdict |-> "None"]

TooOld(s) == \E h \in accepted : h - s >= Window

Verdict(s, authentic) ==
    IF TooOld(s) THEN "FueraDeOrden"
    ELSE IF s \in accepted THEN "Repetido"
    ELSE IF ~authentic THEN "Autenticacion"
    ELSE "Ok"

Init == accepted = {} /\ answer = NoAnswer

Open(s, authentic) ==
    /\ answer' = [seq |-> s, verdict |-> Verdict(s, authentic)]
    /\ accepted' = IF Verdict(s, authentic) = "Ok" THEN accepted \cup {s}
                                                   ELSE accepted

Unsupported(s) ==
    /\ answer' = [seq |-> s, verdict |-> "VersionNoSoportada"]
    /\ UNCHANGED accepted

Restart == accepted' = {} /\ answer' = NoAnswer

Next ==
    \/ Restart
    \/ \E s \in Seqs : Unsupported(s) \/ \E authentic \in BOOLEAN : Open(s, authentic)

vars == <<accepted, answer>>

Spec == Init /\ [][Next]_vars
=============================================================================
