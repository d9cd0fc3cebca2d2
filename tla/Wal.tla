--------------------------------- MODULE Wal ---------------------------------
(***************************************************************************)
(* ChronoWalJournal: frames chained by SHA-256 and appended to a file, and *)
(* the recovery that scans the file after a power cut, cuts an incomplete  *)
(* tail off and resumes from the last frame.                               *)
(*                                                                         *)
(* The packets are 1, 2, ... in the order they are handed to the journal.  *)
(***************************************************************************)
EXTENDS WalFrames, SequencesExt

CONSTANTS
    MaxPackets,     \* bound: packets handed to the journal
    MaxCuts,        \* bound: power cuts
    MaxErrors,      \* bound: appends that end in Error::Io
    RecoverAfterError   \* whether the application then recovers the journal

ASSUME WalAssumption ==
    /\ MaxPackets \in Nat \ {0}
    /\ {MaxCuts, MaxErrors} \subseteq Nat
    /\ RecoverAfterError \in BOOLEAN

Packets == 1 .. MaxPackets
Chain == Seq(Packets)

VARIABLES
    at,         \* what the process does
    head,       \* head_sha256 of the running journal
    frames_count,   \* frames_count of the running journal
    frame,      \* the frame being appended
    cache,      \* what was written to the file and not synced
    disk,       \* what is on the disk for certain
    handed,     \* how many packets were handed to the journal
    acked,      \* ghost: packets whose append returned Ok, in order
    cuts,       \* power cuts so far
    errors      \* failed appends so far

vars == <<at, head, frames_count, frame, cache, disk, handed, acked, cuts, errors>>

Frame == [prev : Chain, packet : Packets, torn : BOOLEAN]

NoFrame == [prev |-> <<>>, packet |-> 1, torn |-> TRUE]

TypeOK ==
    /\ at \in {"ready", "writing", "syncing", "down", "repairing", "failed"}
    /\ head \in Chain
    /\ frames_count \in 0 .. MaxPackets
    /\ frame \in Frame
    /\ cache \in Seq(Frame)
    /\ disk \in Seq(Frame)
    /\ handed \in 0 .. MaxPackets
    /\ acked \in Chain
    /\ cuts \in 0 .. MaxCuts
    /\ errors \in 0 .. MaxErrors

Init ==
    /\ at = "ready"
    /\ head = NewHead
    /\ frames_count = 0
    /\ frame = NoFrame
    /\ cache = <<>>
    /\ disk = <<>>
    /\ handed = 0
    /\ acked = <<>>
    /\ cuts = 0
    /\ errors = 0

-----------------------------------------------------------------------------
(* append_to_file                                                          *)

\* The packet that the application hands over.
NextPacket == handed + 1

\* encode_append_frame moves the head before the file is opened.  (Its addition
\* saturates, at a count no journal reaches.)
Encode ==
    /\ at = "ready"
    /\ handed < MaxPackets
    /\ handed' = handed + 1
    /\ frame' = [prev |-> head, packet |-> NextPacket, torn |-> FALSE]
    /\ head' = Hash(head, NextPacket)
    /\ frames_count' = frames_count + 1
    /\ at' = "writing"
    /\ UNCHANGED <<cache, disk, acked, cuts, errors>>

Write ==
    /\ at = "writing"
    /\ cache' = Append(cache, frame)
    /\ at' = "syncing"
    /\ UNCHANGED <<head, frames_count, frame, disk, handed, acked, cuts, errors>>

SyncData ==
    /\ at = "syncing"
    /\ disk' = disk \o cache
    /\ cache' = <<>>
    /\ acked' = Append(acked, frame.packet)
    /\ frame' = NoFrame
    /\ at' = "ready"
    /\ UNCHANGED <<head, frames_count, handed, cuts, errors>>

\* What a write that does not complete may leave behind.
Remains(f) == {<<>>, <<[f EXCEPT !.torn = TRUE]>>}

\* open, write_all or sync_data fails: the caller gets Error::Io, and what was
\* written stays in the cache until a later sync.
IoError ==
    /\ errors < MaxErrors
    /\ errors' = errors + 1
    /\ \/ at = "writing" /\ \E rest \in Remains(frame) : cache' = cache \o rest
       \/ at = "syncing" /\ UNCHANGED cache
    /\ frame' = NoFrame
    /\ at' = IF RecoverAfterError THEN "down" ELSE "ready"
    /\ UNCHANGED <<head, frames_count, disk, handed, acked, cuts>>

-----------------------------------------------------------------------------
\* Unsynced frames reach the disk up to some point, the next one perhaps in part.
PowerCut ==
    LET volatile == IF at = "writing" THEN Append(cache, frame) ELSE cache
    IN
    /\ cuts < MaxCuts
    /\ at # "failed"
    /\ cuts' = cuts + 1
    /\ \E n \in 0 .. Len(volatile) :
          \E rest \in IF n < Len(volatile) THEN Remains(volatile[n + 1]) ELSE {<<>>} :
              disk' = disk \o SubSeq(volatile, 1, n) \o rest
    /\ cache' = <<>>
    /\ frame' = NoFrame
    /\ head' = NewHead
    /\ frames_count' = 0
    /\ at' = "down"
    /\ UNCHANGED <<handed, acked, errors>>

-----------------------------------------------------------------------------
(* recover_from_file                                                       *)

\* fs::read sees what was written, synced or not.
File == disk \o cache

\* The frames up to valid_bytes_len, and the journal of from_head.  Mutants: the
\* tail is left in the file, the last frame goes with it, the head is new.
LeftWithTail(frames) == frames
LeftOneShort(frames) == SubSeq(frames, 1, Intact(frames) - 1)
Left(frames) == SubSeq(frames, 1, Intact(frames))

HeadOfNew(frames) == <<>>
HeadOf(frames) == Returned(frames)

\* Mutant: the count goes one further than the packets.
CountOfNext(frames) == Len(Returned(frames)) + 1
CountOf(frames) == Len(Returned(frames))

Scan ==
    /\ at = "down"
    /\ \E ending \in Endings(File) :
          at' = CASE ending = "complete" -> "ready"
                  [] ending = "tail" -> "repairing"
                  [] ending = "corrupt" -> "failed"
    /\ IF at' = "ready"
       THEN head' = HeadOf(File) /\ frames_count' = CountOf(File)
       ELSE UNCHANGED <<head, frames_count>>
    /\ UNCHANGED <<frame, cache, disk, handed, acked, cuts, errors>>

\* set_len and sync_all, then from_head.
Truncate ==
    /\ at = "repairing"
    /\ disk' = Left(File)
    /\ cache' = <<>>
    /\ head' = HeadOf(File)
    /\ frames_count' = CountOf(File)
    /\ at' = "ready"
    /\ UNCHANGED <<frame, handed, acked, cuts, errors>>

Next == Encode \/ Write \/ SyncData \/ IoError \/ PowerCut \/ Scan \/ Truncate

\* A process that was started recovers the file.
Fairness == WF_vars(Scan) /\ WF_vars(Truncate)

Spec == Init /\ [][Next]_vars /\ Fairness

-----------------------------------------------------------------------------
\* Packets are numbered in the order they are handed to the journal.
InOrder(packets) ==
    \A i, j \in DOMAIN packets : i < j => packets[i] < packets[j]

\* append_to_file promises a durable append, resilient to power cuts, and
\* recovery to rescue every complete record (persistence.rs:20-23, 506-507):
\* what recovery would return holds every acknowledged packet, and nothing
\* twice or out of the order in which it was handed to the journal.
AckedIsRecovered ==
    /\ "corrupt" \notin Endings(disk)
    /\ Range(acked) \subseteq Range(Returned(disk))
    /\ InOrder(Returned(disk)) /\ InOrder(acked)

\* A running journal that appends next continues the chain of the file, so
\* that its frame is one recovery takes over, and has counted its frames.
HeadContinuesFile ==
    at = "ready" =>
        head = Returned(File) /\ frames_count = Len(Returned(File))

\* Packets that recovery would return are only ever added, and at the end,
\* and only a packet that is the last of them is acknowledged.
Log == INSTANCE DurableLog
    WITH log <- Returned(disk)

NothingRecoveredIsLost == Log!Spec

\* After a power cut the journal is usable again.
ComesBack == at = "down" ~> at = "ready"
=============================================================================
