----------------------------- MODULE MCFfiHandle -----------------------------
(* An instance of FfiHandle for TLC: two packets of one epoch of a node, a *)
(* late one of another epoch, and damaged bytes of the second.             *)
EXTENDS FfiHandle

MCAad(seq) == IF seq = 1 THEN <<>> ELSE <<Byte(7)>>

Remote(epoch, seq, ts) == PacketToBytes(SealV3(9, epoch, seq, ts, MCAad(seq), 5))

MCSent == {"first", "second", "late"}

Cut(raw, n) == SubSeq(raw, 1, n)
Changed(raw, at, b) == [raw EXCEPT ![at] = Byte(b)]

MCArriving ==
    LET second == Remote(2, 1, 6) IN
    [first |-> Remote(2, 0, 6), second |-> second, late |-> Remote(3, 0, 1),
     cut30 |-> Cut(second, 30), cut50 |-> Cut(second, 50), cut58 |-> Cut(second, 58),
     version1 |-> Changed(second, 1, 1), version2 |-> Changed(second, 1, 2),
     flags |-> Changed(second, 2, 2), epoch |-> Changed(second, 14, 3)]
=============================================================================
