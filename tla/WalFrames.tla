------------------------------ MODULE WalFrames ------------------------------
(***************************************************************************)
(* The frames of a ChronoWalJournal and what recover_from_bytes makes of   *)
(* them.  A chain hash is the sequence of the packets hashed into it; a    *)
(* frame carries the hash before it (prev) and its packet, and is torn     *)
(* when only part of its bytes are there.                                  *)
(***************************************************************************)
EXTENDS Naturals, Sequences

NewHead == <<>>         \* ChronoWalJournal::new

Hash(prev, packet) == Append(prev, packet)

PacketsOf(frames) == [i \in DOMAIN frames |-> frames[i].packet]

Chained(frames, i) ==
    ~frames[i].torn /\ frames[i].prev = PacketsOf(SubSeq(frames, 1, i - 1))

\* How many frames from the first on are complete and chained.
Intact(frames) ==
    CHOOSE n \in 0 .. Len(frames) :
        /\ \A i \in 1 .. n : Chained(frames, i)
        /\ n < Len(frames) => ~Chained(frames, n + 1)

\* Mutant: an incomplete tail is taken for a corrupt record.
EndingsTailIsCorrupt(frames) ==
    IF Intact(frames) = Len(frames) THEN {"complete"}
    ELSE {"corrupt"}

\* A torn frame at the very end is an incomplete tail.  One with bytes after
\* it takes them for its own: the hash or the magic does not fit (an error:
\* IntegridadContextoCorrupta or PaqueteCorrupto), or its length, which may be
\* read from those bytes, runs past the end.
Endings(frames) ==
    LET n == Intact(frames) IN
    IF n = Len(frames) THEN {"complete"}
    ELSE IF ~frames[n + 1].torn THEN {"corrupt"}
    ELSE IF n + 1 = Len(frames) THEN {"tail"}
    ELSE {"corrupt", "tail"}

Returned(frames) == PacketsOf(SubSeq(frames, 1, Intact(frames)))
=============================================================================
