------------------------------ MODULE Wal_proofs ------------------------------
(***************************************************************************)
(* For every number of packets, power cuts and failed appends: when the    *)
(* application recovers the journal after a failed append, no acknowledged *)
(* packet is lost, and the journal is an append-only log.  (The run        *)
(* WalIoError shows what an application that appends on meets.)            *)
(***************************************************************************)
EXTENDS Wal, SequenceTheorems, TLAPS

USE WalAssumption

-----------------------------------------------------------------------------
(* Frames, by their numbers.                                               *)

\* The packets of the first k frames.
FirstPackets(frames, k) == [i \in 1 .. k |-> frames[i].packet]

Whole(frames) == \A i \in 1 .. Len(frames) : Chained(frames, i)

\* Only the last frame may be torn.
Sound(frames) ==
    \A i \in 1 .. Len(frames) :
        Chained(frames, i) \/ (i = Len(frames) /\ frames[i].torn)

LEMMA PacketsOfFirst ==
    ASSUME NEW fs \in Seq(Frame), NEW k \in 0 .. Len(fs)
    PROVE  /\ PacketsOf(SubSeq(fs, 1, k)) = FirstPackets(fs, k)
           /\ FirstPackets(fs, k) \in Chain
           /\ Len(FirstPackets(fs, k)) = k
<1>1. SubSeq(fs, 1, k) \in Seq(Frame) /\ Len(SubSeq(fs, 1, k)) = k
  OBVIOUS
<1>2. \A i \in 1 .. k : SubSeq(fs, 1, k)[i] = fs[i] /\ fs[i].packet \in Packets
  <2>1. \A i \in 1 .. k : SubSeq(fs, 1, k)[i] = fs[i] /\ fs[i] \in Frame
    OBVIOUS
  <2> QED BY <2>1 DEF Frame
<1> QED BY <1>1, <1>2 DEF PacketsOf, FirstPackets, Chain

LEMMA ChainedIs ==
    ASSUME NEW fs \in Seq(Frame), NEW i \in 1 .. Len(fs)
    PROVE  Chained(fs, i) <=> ~fs[i].torn /\ fs[i].prev = FirstPackets(fs, i - 1)
<1>1. PacketsOf(SubSeq(fs, 1, i - 1)) = FirstPackets(fs, i - 1)
  BY PacketsOfFirst
<1> QED BY <1>1 DEF Chained

\* Whether a frame is chained depends on the frames up to it.
LEMMA ChainedAlike ==
    ASSUME NEW fs \in Seq(Frame), NEW gs \in Seq(Frame),
           NEW i \in 1 .. Len(fs), i <= Len(gs), \A j \in 1 .. i : fs[j] = gs[j]
    PROVE  Chained(fs, i) <=> Chained(gs, i)
<1>1. FirstPackets(fs, i - 1) = FirstPackets(gs, i - 1)
  BY DEF FirstPackets
<1> QED BY <1>1, ChainedIs

LEMMA IntactIs ==
    ASSUME NEW fs \in Seq(Frame), NEW n \in 0 .. Len(fs),
           \A i \in 1 .. n : Chained(fs, i),
           n < Len(fs) => ~Chained(fs, n + 1)
    PROVE  Intact(fs) = n
<1> DEFINE P(m) == /\ \A i \in 1 .. m : Chained(fs, i)
                   /\ m < Len(fs) => ~Chained(fs, m + 1)
<1>1. P(n)
  OBVIOUS
<1>2. ASSUME NEW m \in 0 .. Len(fs), P(m) PROVE m = n
  <2>1. CASE m < n
    BY <1>2, <2>1
  <2>2. CASE n < m
    BY <1>2, <2>2
  <2> QED BY <2>1, <2>2
<1> HIDE DEF P
<1>3. \E m \in 0 .. Len(fs) : P(m)
  BY <1>1
<1>4. (CHOOSE m \in 0 .. Len(fs) : P(m)) \in 0 .. Len(fs) /\ P(CHOOSE m \in 0 .. Len(fs) : P(m))
  BY <1>3
<1>5. (CHOOSE m \in 0 .. Len(fs) : P(m)) = n
  BY <1>2, <1>4
<1> QED BY <1>5 DEF Intact, P

\* What recovery makes of a file whose last frame alone may be torn.
LEMMA SoundRecovers ==
    ASSUME NEW fs \in Seq(Frame), Sound(fs)
    PROVE  /\ Intact(fs) = Len(fs) \/ (Intact(fs) = Len(fs) - 1 /\ fs # <<>>)
           /\ Whole(fs) <=> Intact(fs) = Len(fs)
           /\ Intact(fs) \in 0 .. Len(fs)
           /\ Endings(fs) = IF Whole(fs) THEN {"complete"} ELSE {"tail"}
           /\ Returned(fs) = FirstPackets(fs, Intact(fs))
<1>1. CASE Whole(fs)
  <2>1. Intact(fs) = Len(fs)
    BY <1>1, IntactIs DEF Whole
  <2> QED BY <1>1, <2>1, PacketsOfFirst DEF Endings, Returned
<1>2. CASE ~Whole(fs)
  <2>1. /\ Len(fs) > 0 /\ ~Chained(fs, Len(fs)) /\ fs[Len(fs)].torn
        /\ \A i \in 1 .. Len(fs) - 1 : Chained(fs, i)
    BY <1>2 DEF Whole, Sound
  <2>2. Intact(fs) = Len(fs) - 1
    BY <2>1, IntactIs
  <2>3. Endings(fs) = {"tail"}
    BY <2>1, <2>2 DEF Endings
  <2> QED BY <1>2, <2>1, <2>2, <2>3, PacketsOfFirst DEF Returned
<1> QED BY <1>1, <1>2

LEMMA WholeReturns ==
    ASSUME NEW fs \in Seq(Frame), Whole(fs)
    PROVE  /\ Sound(fs) /\ Intact(fs) = Len(fs) /\ Returned(fs) = PacketsOf(fs)
           /\ PacketsOf(fs) = FirstPackets(fs, Len(fs))
<1>1. Sound(fs)
  BY DEF Whole, Sound
<1>2. PacketsOf(fs) = FirstPackets(fs, Len(fs))
  BY DEF PacketsOf, FirstPackets
<1> QED BY <1>1, <1>2, SoundRecovers

\* A chained beginning stays recoverable whatever follows it.
LEMMA IntactCovers ==
    ASSUME NEW fs \in Seq(Frame), Sound(fs), NEW k \in 0 .. Len(fs),
           \A i \in 1 .. k : Chained(fs, i)
    PROVE  k <= Intact(fs)
<1>1. CASE Whole(fs)
  BY <1>1, WholeReturns
<1>2. CASE ~Whole(fs)
  <2>1. Intact(fs) = Len(fs) - 1 /\ Len(fs) > 0 /\ ~Chained(fs, Len(fs))
    BY <1>2, SoundRecovers DEF Whole, Sound
  <2> QED BY <2>1
<1> QED BY <1>1, <1>2

LEMMA ChainedUpToIntact ==
    ASSUME NEW fs \in Seq(Frame), Sound(fs)
    PROVE  \A i \in 1 .. Intact(fs) : Chained(fs, i)
<1>1. CASE Whole(fs)
  BY <1>1, WholeReturns DEF Whole
<1>2. CASE ~Whole(fs)
  BY <1>2, SoundRecovers DEF Sound
<1> QED BY <1>1, <1>2

LEMMA Concat ==
    ASSUME NEW s \in Seq(Frame), NEW t \in Seq(Frame)
    PROVE  /\ s \o t \in Seq(Frame) /\ Len(s \o t) = Len(s) + Len(t)
           /\ \A i \in 1 .. Len(s) : (s \o t)[i] = s[i]
           /\ \A i \in 1 .. Len(t) : (s \o t)[Len(s) + i] = t[i]
           /\ \A i \in Len(s) + 1 .. Len(s \o t) : (s \o t)[i] = t[i - Len(s)]
<1> QED OBVIOUS

LEMMA AppendAt ==
    ASSUME NEW fs \in Seq(Frame), NEW f \in Frame
    PROVE  /\ Append(fs, f) \in Seq(Frame) /\ Len(Append(fs, f)) = Len(fs) + 1
           /\ \A i \in 1 .. Len(fs) : Append(fs, f)[i] = fs[i]
           /\ Append(fs, f)[Len(fs) + 1] = f
<1> QED OBVIOUS

\* A frame that carries the hash of a whole file continues it.
LEMMA AppendWhole ==
    ASSUME NEW fs \in Seq(Frame), Whole(fs), NEW f \in Frame,
           f.prev = PacketsOf(fs), ~f.torn
    PROVE  /\ Whole(Append(fs, f))
           /\ PacketsOf(Append(fs, f)) = Append(PacketsOf(fs), f.packet)
<1> DEFINE gs == Append(fs, f)
<1>1. gs \in Seq(Frame) /\ Len(gs) = Len(fs) + 1
      /\ (\A i \in 1 .. Len(fs) : gs[i] = fs[i]) /\ gs[Len(fs) + 1] = f
  BY AppendAt
<1> HIDE DEF gs
<1>2. ASSUME NEW i \in 1 .. Len(fs) PROVE Chained(gs, i)
  <2>1. i \in 1 .. Len(gs) /\ \A j \in 1 .. i : gs[j] = fs[j]
    BY <1>1
  <2>2. Chained(fs, i)
    BY DEF Whole
  <2> QED BY <1>1, <2>1, <2>2, ChainedAlike
<1>3. FirstPackets(gs, Len(fs)) = PacketsOf(fs)
  BY <1>1, WholeReturns DEF FirstPackets
<1>4. Chained(gs, Len(fs) + 1)
  BY <1>1, <1>3, ChainedIs
<1>5. Whole(gs)
  BY <1>1, <1>2, <1>4 DEF Whole
<1>6. PacketsOf(gs) = Append(PacketsOf(fs), f.packet)
  <2>1. /\ PacketsOf(gs) = FirstPackets(gs, Len(fs) + 1)
        /\ PacketsOf(fs) = FirstPackets(fs, Len(fs))
    BY <1>1, <1>5, WholeReturns
  <2>2. /\ FirstPackets(gs, Len(fs) + 1) \in Chain
        /\ Len(FirstPackets(gs, Len(fs) + 1)) = Len(fs) + 1
        /\ FirstPackets(fs, Len(fs)) \in Chain
        /\ Len(FirstPackets(fs, Len(fs))) = Len(fs)
    BY <1>1, PacketsOfFirst
  <2>3. \A i \in 1 .. Len(fs) + 1 :
           FirstPackets(gs, Len(fs) + 1)[i] = Append(FirstPackets(fs, Len(fs)), f.packet)[i]
    BY <1>1, <2>2 DEF FirstPackets
  <2>4. /\ Append(FirstPackets(fs, Len(fs)), f.packet) \in Chain
        /\ Len(Append(FirstPackets(fs, Len(fs)), f.packet)) = Len(fs) + 1
    BY <2>2 DEF Frame, Chain
  <2> QED BY <2>1, <2>2, <2>3, <2>4, SeqEqual DEF Chain
<1> QED BY <1>5, <1>6 DEF gs

LEMMA AppendTorn ==
    ASSUME NEW fs \in Seq(Frame), Whole(fs), NEW f \in Frame, f.torn
    PROVE  Sound(Append(fs, f))
<1> DEFINE gs == Append(fs, f)
<1>1. gs \in Seq(Frame) /\ Len(gs) = Len(fs) + 1
      /\ (\A i \in 1 .. Len(fs) : gs[i] = fs[i]) /\ gs[Len(fs) + 1] = f
  BY AppendAt
<1> HIDE DEF gs
<1>2. ASSUME NEW i \in 1 .. Len(fs) PROVE Chained(gs, i)
  <2>1. i \in 1 .. Len(gs) /\ \A j \in 1 .. i : gs[j] = fs[j]
    BY <1>1
  <2>2. Chained(fs, i)
    BY DEF Whole
  <2> QED BY <1>1, <2>1, <2>2, ChainedAlike
<1>3. Sound(gs)
  BY <1>1, <1>2 DEF Sound
<1> QED BY <1>3 DEF gs

-----------------------------------------------------------------------------
(* The inductive invariant.                                                *)

\* Frames come in the order their packets were handed over.
FramesInOrder(frames, last) ==
    /\ \A i \in 1 .. Len(frames) : frames[i].packet <= last
    /\ \A i, j \in 1 .. Len(frames) : i < j => frames[i].packet < frames[j].packet

\* What the file holds and what the journal knows of it, at each of its places.
FileFits ==
    /\ at # "failed"
    /\ Sound(File) /\ FramesInOrder(File, handed)
    /\ cache # <<>> => Whole(disk)
    /\ at = "ready" => Whole(File) /\ head = PacketsOf(File)
    /\ at = "writing" =>
          /\ Whole(File) /\ FramesInOrder(File, handed - 1) /\ handed > 0
          /\ frame = [prev |-> PacketsOf(File), packet |-> handed, torn |-> FALSE]
          /\ head = Append(PacketsOf(File), handed)
    /\ at = "syncing" =>
          /\ Whole(File) /\ head = PacketsOf(File)
          /\ cache # <<>> /\ cache[Len(cache)] = frame

AckedFits ==
    /\ InOrder(acked)
    /\ \A i \in 1 .. Len(acked) :
          \E j \in 1 .. Intact(disk) : acked[i] = disk[j].packet

\* The count follows the frames of the file, which the packets handed over bound.
CountFits ==
    /\ frames_count \in 0 .. handed
    /\ Len(File) <= IF at = "writing" THEN handed - 1 ELSE handed
    /\ at \in {"ready", "syncing"} => frames_count = Len(File)
    /\ at = "writing" => frames_count = Len(File) + 1

IInv == TypeOK /\ FileFits /\ AckedFits /\ CountFits

LEMMA InOrderLater ==
    ASSUME NEW fs \in Seq(Frame), NEW n \in Nat, FramesInOrder(fs, n)
    PROVE  FramesInOrder(fs, n + 1)
<1>1. \A i \in 1 .. Len(fs) : fs[i] \in Frame
  OBVIOUS
<1>2. \A i \in 1 .. Len(fs) : fs[i].packet \in Nat
  BY <1>1 DEF Frame, Packets
<1> QED BY <1>2 DEF FramesInOrder

LEMMA InOrderAppended ==
    ASSUME NEW fs \in Seq(Frame), NEW n \in Nat, FramesInOrder(fs, n),
           NEW f \in Frame, f.packet = n + 1
    PROVE  FramesInOrder(Append(fs, f), n + 1)
<1> DEFINE gs == Append(fs, f)
<1>1. /\ Len(gs) = Len(fs) + 1 /\ Len(fs) \in Nat
      /\ (\A i \in 1 .. Len(fs) : gs[i] = fs[i]) /\ gs[Len(fs) + 1] = f
  BY AppendAt
<1>2. \A i \in 1 .. Len(fs) : fs[i] \in Frame
  OBVIOUS
<1>3. \A i \in 1 .. Len(fs) : fs[i].packet \in Nat
  BY <1>2 DEF Frame, Packets
<1> HIDE DEF gs
<1>4. \A i \in 1 .. Len(fs) : gs[i].packet \in Nat /\ gs[i].packet <= n
  BY <1>1, <1>3 DEF FramesInOrder
<1>5. ASSUME NEW i \in 1 .. Len(gs) PROVE gs[i].packet <= n + 1
  <2>1. i \in 1 .. Len(fs) \/ i = Len(fs) + 1
    BY <1>1
  <2> QED BY <1>1, <1>4, <2>1
<1>6. ASSUME NEW i \in 1 .. Len(gs), NEW j \in 1 .. Len(gs), i < j
      PROVE  gs[i].packet < gs[j].packet
  <2>1. i \in 1 .. Len(fs) /\ (j \in 1 .. Len(fs) \/ j = Len(fs) + 1)
    BY <1>1, <1>6
  <2>2. CASE j \in 1 .. Len(fs)
    BY <1>1, <1>6, <2>1, <2>2 DEF FramesInOrder
  <2>3. CASE j = Len(fs) + 1
    BY <1>1, <1>4, <2>1, <2>3
  <2> QED BY <2>1, <2>2, <2>3
<1>7. FramesInOrder(gs, n + 1)
  BY <1>5, <1>6 DEF FramesInOrder
<1> QED BY <1>7 DEF gs

\* A beginning of chained frames is whole.
LEMMA WholeBeginning ==
    ASSUME NEW fs \in Seq(Frame), NEW gs \in Seq(Frame), Len(gs) <= Len(fs),
           \A i \in 1 .. Len(gs) : gs[i] = fs[i] /\ Chained(fs, i)
    PROVE  Whole(gs)
<1> SUFFICES ASSUME NEW i \in 1 .. Len(gs) PROVE Chained(gs, i)
  BY DEF Whole
<1>1. i <= Len(fs) /\ \A j \in 1 .. i : gs[j] = fs[j]
  OBVIOUS
<1> QED BY <1>1, ChainedAlike

LEMMA Facts ==
    ASSUME IInv
    PROVE  /\ disk \in Seq(Frame) /\ cache \in Seq(Frame) /\ File \in Seq(Frame)
           /\ frame \in Frame /\ handed \in Nat /\ handed <= MaxPackets
           /\ frames_count \in Nat /\ frames_count <= handed
           /\ head \in Chain /\ acked \in Chain
           /\ Len(File) = Len(disk) + Len(cache)
           /\ \A i \in 1 .. Len(disk) : File[i] = disk[i]
           /\ \A i \in 1 .. Len(cache) : File[Len(disk) + i] = cache[i]
           /\ Sound(File) /\ Sound(disk) /\ Intact(disk) \in 0 .. Len(disk)
           /\ Intact(File) \in 0 .. Len(File)
           /\ cache = <<>> => File = disk
<1>1. /\ disk \in Seq(Frame) /\ cache \in Seq(Frame) /\ frame \in Frame
      /\ handed \in Nat /\ handed <= MaxPackets /\ head \in Chain /\ acked \in Chain
      /\ frames_count \in Nat /\ frames_count <= handed
  BY DEF IInv, TypeOK, CountFits
<1>2. /\ File \in Seq(Frame) /\ Len(File) = Len(disk) + Len(cache)
      /\ \A i \in 1 .. Len(disk) : File[i] = disk[i]
      /\ \A i \in 1 .. Len(cache) : File[Len(disk) + i] = cache[i]
  BY <1>1, Concat DEF File
<1>3. cache = <<>> => File = disk
  BY <1>1, <1>2, SeqEqual
<1>4. Sound(File)
  BY DEF IInv, FileFits
<1>5. Sound(disk)
  BY <1>1, <1>3, <1>4, WholeReturns DEF IInv, FileFits
<1> QED BY <1>1, <1>2, <1>3, <1>4, <1>5, SoundRecovers

LEMMA InitIInv == Init => IInv
<1> SUFFICES ASSUME Init PROVE IInv
  OBVIOUS
<1>1. TypeOK
  BY DEF Init, TypeOK, NewHead, NoFrame, Frame, Chain, Packets
<1>2. File = <<>> /\ Len(File) = 0 /\ PacketsOf(File) = <<>>
  BY DEF Init, File, PacketsOf
<1>3. FileFits
  BY <1>2 DEF Init, FileFits, Sound, Whole, FramesInOrder, NewHead
<1>4. AckedFits
  BY DEF Init, AckedFits, InOrder
<1>5. CountFits
  BY <1>2 DEF Init, CountFits
<1> QED BY <1>1, <1>3, <1>4, <1>5 DEF IInv

\* The disk keeps what recovery returns of it, and may get more.
DiskGrows ==
    /\ disk' \in Seq(Frame) /\ Sound(disk')
    /\ Intact(disk) <= Intact(disk')
    /\ \A i \in 1 .. Intact(disk) : disk'[i] = disk[i]

LEMMA AckedKept ==
    ASSUME IInv, DiskGrows, acked' = acked
    PROVE  AckedFits'
<1>1. Intact(disk) \in Nat /\ Intact(disk') \in Nat
  BY Facts, SoundRecovers DEF DiskGrows
<1>2. InOrder(acked)'
  BY DEF IInv, AckedFits
<1>3. ASSUME NEW i \in 1 .. Len(acked)
      PROVE  \E j \in 1 .. Intact(disk') : acked[i] = disk'[j].packet
  <2>1. PICK j \in 1 .. Intact(disk) : acked[i] = disk[j].packet
    BY DEF IInv, AckedFits
  <2>2. j \in 1 .. Intact(disk') /\ disk'[j] = disk[j]
    BY <1>1, <2>1 DEF DiskGrows
  <2> QED BY <2>1, <2>2
<1> QED BY <1>2, <1>3 DEF AckedFits

LEMMA DiskSame ==
    ASSUME IInv, disk' = disk
    PROVE  DiskGrows
<1> QED BY Facts DEF DiskGrows

-----------------------------------------------------------------------------
(* Appending.                                                              *)

LEMMA EncodeKeepsIInv ==
    ASSUME IInv, Encode
    PROVE  IInv'
<1> USE Facts
<1>1. /\ at = "ready" /\ at' = "writing" /\ handed' = handed + 1 /\ handed' \in Packets
      /\ frame' = [prev |-> head, packet |-> handed', torn |-> FALSE]
      /\ head' = Append(head, handed') /\ File' = File
      /\ frames_count' = frames_count + 1
      /\ UNCHANGED <<cache, disk, acked, cuts, errors>>
  BY DEF Encode, NextPacket, Hash, Packets, File
<1>2. TypeOK'
  <2>1. frame' \in Frame /\ head' \in Chain
    BY <1>1 DEF Frame, Chain
  <2>2. frames_count' \in 0 .. MaxPackets /\ handed' \in 0 .. MaxPackets
    BY <1>1 DEF Packets
  <2> QED BY <1>1, <2>1, <2>2 DEF IInv, TypeOK
<1>3. FileFits'
  <2>1. /\ Whole(File) /\ head = PacketsOf(File) /\ FramesInOrder(File, handed)
        /\ cache # <<>> => Whole(disk)
    BY <1>1 DEF IInv, FileFits
  <2>2. FramesInOrder(File, handed + 1)
    BY <2>1, InOrderLater
  <2>3. handed' = handed + 1 /\ handed \in Nat
    BY <1>1
  <2>4. handed' - 1 = handed /\ handed' > 0
    BY ONLY <2>3
  <2> QED BY <1>1, <2>1, <2>2, <2>4 DEF FileFits
<1>4. AckedFits'
  BY <1>1, AckedKept, DiskSame
<1>5. CountFits'
  <2>1. Len(File) <= handed /\ frames_count = Len(File) /\ frames_count \in 0 .. handed
    BY <1>1 DEF IInv, CountFits
  <2>2. handed' = handed + 1 /\ handed \in Nat /\ frames_count' = frames_count + 1
    BY <1>1
  <2>3. handed' - 1 = handed /\ frames_count' \in 0 .. handed'
    BY ONLY <2>1, <2>2
  <2>4. Len(File') <= handed' - 1 /\ frames_count' = Len(File') + 1
    BY <1>1, <2>1, <2>3
  <2> QED BY <1>1, <2>3, <2>4 DEF CountFits
<1> QED BY <1>2, <1>3, <1>4, <1>5 DEF IInv

LEMMA WriteKeepsIInv ==
    ASSUME IInv, Write
    PROVE  IInv'
<1> USE Facts
<1>1. /\ at = "writing" /\ at' = "syncing" /\ cache' = Append(cache, frame)
      /\ UNCHANGED <<head, frames_count, frame, disk, handed, acked, cuts, errors>>
  BY DEF Write
<1>2. /\ Whole(File) /\ FramesInOrder(File, handed - 1) /\ handed > 0
      /\ frame.prev = PacketsOf(File) /\ frame.packet = handed /\ ~frame.torn
      /\ head = Append(PacketsOf(File), handed)
  BY <1>1 DEF IInv, FileFits
<1>3. File' = Append(File, frame)
  BY <1>1 DEF File
<1>4. Whole(File') /\ PacketsOf(File') = head'
  BY <1>1, <1>2, <1>3, AppendWhole
<1>5. FramesInOrder(File', handed)
  BY <1>2, <1>3, InOrderAppended
<1>6. cache' \in Seq(Frame) /\ cache' # <<>> /\ cache'[Len(cache')] = frame
  <2>1. /\ cache' \in Seq(Frame) /\ Len(cache') = Len(cache) + 1
        /\ cache'[Len(cache) + 1] = frame /\ Len(cache) \in Nat
    BY <1>1, AppendAt
  <2> QED BY <2>1
<1>7. File' \in Seq(Frame) /\ Sound(File')
  BY <1>3, <1>4, AppendAt, WholeReturns
<1>8. Whole(disk)
  <2>1. Len(disk) <= Len(File) /\ \A i \in 1 .. Len(disk) : disk[i] = File[i] /\ Chained(File, i)
    BY <1>2 DEF Whole
  <2> QED BY <2>1, WholeBeginning
<1>9. TypeOK'
  BY <1>1, <1>6 DEF IInv, TypeOK
<1>10. FileFits'
  BY <1>1, <1>4, <1>5, <1>6, <1>7, <1>8 DEF FileFits
<1>11. AckedFits'
  BY <1>1, AckedKept, DiskSame
<1>12. CountFits'
  <2>1. Len(File') = Len(File) + 1 /\ Len(File) <= handed - 1 /\ frames_count = Len(File) + 1
    BY <1>1, <1>3, AppendAt DEF IInv, CountFits
  <2> QED BY <1>1, <2>1 DEF CountFits
<1> QED BY <1>9, <1>10, <1>11, <1>12 DEF IInv

\* The disk gets the whole file, which is what the process had written.
LEMMA SyncDataGrows ==
    ASSUME IInv, SyncData
    PROVE  /\ DiskGrows /\ disk' = File /\ Whole(File)
           /\ Intact(disk') = Len(File) /\ Len(disk) < Len(File)
           /\ File[Len(File)] = frame /\ Intact(disk) = Len(disk)
           /\ Returned(disk') = PacketsOf(File) /\ Returned(disk) = FirstPackets(File, Len(disk))
<1>1. /\ Whole(File) /\ Whole(disk) /\ disk' = File
      /\ cache # <<>> /\ cache[Len(cache)] = frame
  BY DEF SyncData, File, IInv, FileFits
<1>2. Len(cache) \in Nat /\ Len(cache) > 0 /\ Len(disk) \in Nat
  BY <1>1, Facts
<1>3. Len(disk) < Len(File) /\ File[Len(File)] = frame
  <2>1. Len(File) = Len(disk) + Len(cache) /\ Len(cache) \in 1 .. Len(cache)
    BY <1>2, Facts
  <2>2. File[Len(disk) + Len(cache)] = cache[Len(cache)]
    BY <2>1, Facts
  <2> QED BY <1>1, <1>2, <2>1, <2>2
<1>4. Intact(disk) = Len(disk) /\ Returned(disk) = FirstPackets(disk, Len(disk))
  BY <1>1, Facts, WholeReturns
<1>5. Intact(File) = Len(File) /\ Returned(File) = PacketsOf(File)
  BY <1>1, Facts, WholeReturns
<1>6. FirstPackets(disk, Len(disk)) = FirstPackets(File, Len(disk))
  BY Facts DEF FirstPackets
<1>7. DiskGrows
  BY <1>1, <1>3, <1>4, <1>5, Facts DEF DiskGrows
<1> QED BY <1>1, <1>3, <1>4, <1>5, <1>6, <1>7

LEMMA SyncDataKeepsIInv ==
    ASSUME IInv, SyncData
    PROVE  IInv'
<1>1. /\ at = "syncing" /\ at' = "ready" /\ cache' = <<>> /\ frame' = NoFrame
      /\ acked' = Append(acked, frame.packet) /\ disk' = File
      /\ UNCHANGED <<head, frames_count, handed, cuts, errors>>
  BY DEF SyncData, File
<1>2. disk' \in Seq(Frame) /\ File' \in Seq(Frame) /\ File' = File
  <2>1. disk' \in Seq(Frame)
    BY <1>1, Facts
  <2>2. Len(disk' \o <<>>) = Len(disk') /\ \A i \in 1 .. Len(disk') : (disk' \o <<>>)[i] = disk'[i]
    BY <2>1
  <2>3. disk' \o <<>> \in Seq(Frame)
    BY <2>1
  <2>4. disk' \o <<>> = disk'
    BY <2>1, <2>2, <2>3, SeqEqual
  <2> QED BY <1>1, <2>1, <2>4 DEF File
<1>3. frame.packet \in Packets
  BY Facts DEF Frame
<1>4. TypeOK'
  <2>1. acked' \in Chain /\ frame' \in Frame
    BY <1>1, <1>3, Facts DEF Chain, NoFrame, Frame, Packets
  <2> QED BY <1>1, <1>2, <2>1 DEF IInv, TypeOK
<1>5. FileFits'
  <2>1. Whole(File) /\ Sound(File) /\ head = PacketsOf(File) /\ FramesInOrder(File, handed)
    BY <1>1 DEF IInv, FileFits
  <2> QED BY <1>1, <1>2, <2>1 DEF FileFits
<1>6. Len(acked') = Len(acked) + 1 /\ Len(acked) \in Nat /\ acked'[Len(acked) + 1] = frame.packet
      /\ \A i \in 1 .. Len(acked) : acked'[i] = acked[i]
  BY <1>1, <1>3, Facts DEF Chain
<1>7. /\ Len(disk) < Len(File) /\ File[Len(File)] = frame /\ Intact(disk') = Len(File)
      /\ Intact(disk) = Len(disk) /\ Len(File) \in Nat /\ Len(disk) \in Nat
  BY SyncDataGrows, Facts
<1>8. ASSUME NEW i \in 1 .. Len(acked)
      PROVE  /\ acked[i] < frame.packet /\ acked[i] \in Nat
             /\ \E j \in 1 .. Len(File) : acked[i] = File[j].packet
  <2>1. PICK j \in 1 .. Len(disk) : acked[i] = disk[j].packet
    BY <1>7 DEF IInv, AckedFits
  <2>2. File[j] = disk[j] /\ j < Len(File) /\ j \in 1 .. Len(File)
    BY <1>7, <2>1, Facts
  <2>3. File[j].packet < File[Len(File)].packet
    BY <1>7, <2>2 DEF IInv, FileFits, FramesInOrder
  <2>4. acked[i] \in Nat
    BY Facts, SMTT(30) DEF Chain, Packets
  <2> QED BY <1>7, <2>1, <2>2, <2>3, <2>4
<1>9. AckedFits'
  <2>1. ASSUME NEW i \in 1 .. Len(acked')
        PROVE  \E j \in 1 .. Intact(disk') : acked'[i] = disk'[j].packet
    <3>1. CASE i \in 1 .. Len(acked)
      BY <1>1, <1>6, <1>7, <1>8, <3>1
    <3>2. CASE i = Len(acked) + 1
      BY <1>1, <1>6, <1>7, <3>2
    <3> QED BY <1>6, <3>1, <3>2
  <2>2. ASSUME NEW i \in 1 .. Len(acked'), NEW j \in 1 .. Len(acked'), i < j
        PROVE  acked'[i] < acked'[j]
    <3>1. i \in 1 .. Len(acked) /\ (j \in 1 .. Len(acked) \/ j = Len(acked) + 1)
      BY <1>6, <2>2
    <3>2. CASE j \in 1 .. Len(acked)
      <4>1. i \in DOMAIN acked /\ j \in DOMAIN acked
        BY <3>1, <3>2, Facts DEF Chain
      <4> QED BY <1>6, <2>2, <3>1, <3>2, <4>1 DEF IInv, AckedFits, InOrder
    <3>3. CASE j = Len(acked) + 1
      BY <1>6, <1>8, <3>1, <3>3
    <3> QED BY <3>1, <3>2, <3>3
  <2>3. DOMAIN acked' = 1 .. Len(acked')
    BY <1>1, <1>3, Facts DEF Chain
  <2> QED BY <2>1, <2>2, <2>3 DEF AckedFits, InOrder
<1>10. CountFits'
  BY <1>1, <1>2, Facts DEF IInv, CountFits
<1> QED BY <1>4, <1>5, <1>9, <1>10 DEF IInv

LEMMA TornIsFrame ==
    ASSUME NEW f \in Frame
    PROVE  /\ [f EXCEPT !.torn = TRUE] \in Frame /\ [f EXCEPT !.torn = TRUE].torn
           /\ [f EXCEPT !.torn = TRUE].packet = f.packet
<1> QED BY DEF Frame

LEMMA NoFrameIsFrame == NoFrame \in Frame
<1> QED BY DEF NoFrame, Frame, Chain, Packets

\* After a failed append the journal is recovered before it goes on.
LEMMA IoErrorKeepsIInv ==
    ASSUME RecoverAfterError, IInv, IoError
    PROVE  IInv'
<1>1. /\ at \in {"writing", "syncing"} /\ at' = "down" /\ frame' = NoFrame
      /\ errors' \in 0 .. MaxErrors
      /\ UNCHANGED <<head, frames_count, disk, handed, acked, cuts>>
  BY DEF IoError, IInv, TypeOK
<1>2. Whole(File) /\ FramesInOrder(File, handed) /\ Whole(disk)
  <2>1. Whole(File) /\ FramesInOrder(File, handed)
    BY <1>1 DEF IInv, FileFits
  <2>2. Len(disk) <= Len(File) /\ \A i \in 1 .. Len(disk) : disk[i] = File[i] /\ Chained(File, i)
    BY <2>1, Facts DEF Whole
  <2> QED BY <2>1, <2>2, Facts, WholeBeginning
<1>3. CASE cache' = cache
  <2>1. File' = File
    BY <1>1, <1>3 DEF File
  <2>2. TypeOK'
    BY <1>1, <1>3, NoFrameIsFrame DEF IInv, TypeOK
  <2>3. FileFits'
    BY <1>1, <1>2, <2>1, Facts DEF FileFits
  <2>4. AckedFits'
    BY <1>1, AckedKept, DiskSame
  <2>5. CountFits'
    BY <1>1, <2>1, Facts DEF IInv, CountFits
  <2> QED BY <2>2, <2>3, <2>4, <2>5 DEF IInv
<1>4. CASE at = "writing" /\ cache' = Append(cache, [frame EXCEPT !.torn = TRUE])
  <2> DEFINE f == [frame EXCEPT !.torn = TRUE]
  <2>1. f \in Frame /\ f.torn /\ f.packet = handed /\ FramesInOrder(File, handed - 1) /\ handed > 0
    BY <1>4, Facts, TornIsFrame DEF IInv, FileFits
  <2>2. File' = Append(File, f)
    BY <1>1, <1>4, Facts, SMTT(30) DEF File
  <2> HIDE DEF f
  <2>3. File' \in Seq(Frame) /\ Sound(File')
    BY <1>2, <2>1, <2>2, Facts, AppendTorn, AppendAt
  <2>4. FramesInOrder(File', handed)
    BY <2>1, <2>2, Facts, InOrderAppended
  <2>5. TypeOK'
    <3>1. cache' \in Seq(Frame)
      BY <1>4, <2>1, Facts, AppendAt DEF f
    <3> QED BY <1>1, <3>1, NoFrameIsFrame DEF IInv, TypeOK
  <2>6. FileFits'
    BY <1>1, <1>2, <2>3, <2>4 DEF FileFits
  <2>7. AckedFits'
    BY <1>1, AckedKept, DiskSame
  <2>8. CountFits'
    <3>1. Len(File') = Len(File) + 1 /\ Len(File) <= handed - 1
      BY <1>4, <2>1, <2>2, Facts, AppendAt DEF IInv, CountFits
    <3> QED BY <1>1, <3>1, Facts DEF CountFits
  <2> QED BY <2>5, <2>6, <2>7, <2>8 DEF IInv
<1>5. cache' = cache \/ (at = "writing" /\ cache' = Append(cache, [frame EXCEPT !.torn = TRUE]))
  <2>1. cache \o <<>> = cache
    BY Facts
  <2>2. cache \o <<[frame EXCEPT !.torn = TRUE]>> = Append(cache, [frame EXCEPT !.torn = TRUE])
    BY Facts
  <2> QED BY <2>1, <2>2 DEF IoError, Remains
<1> QED BY <1>3, <1>4, <1>5

-----------------------------------------------------------------------------
(* Power cuts.                                                             *)

Volatile == IF at = "writing" THEN Append(cache, frame) ELSE cache

\* The file as it would be if everything the process wrote, or was writing, got
\* to the disk.
LEMMA VolatileFits ==
    ASSUME IInv
    PROVE  /\ Volatile \in Seq(Frame) /\ disk \o Volatile \in Seq(Frame)
           /\ Sound(disk \o Volatile) /\ FramesInOrder(disk \o Volatile, handed)
           /\ Volatile # <<>> => Whole(disk)
<1>1. CASE at = "writing"
  <2>1. /\ Whole(File) /\ FramesInOrder(File, handed - 1) /\ handed > 0
        /\ frame.prev = PacketsOf(File) /\ frame.packet = handed /\ ~frame.torn
    BY <1>1 DEF IInv, FileFits
  <2>2. disk \o Volatile = Append(File, frame)
    BY <1>1, Facts DEF Volatile, File
  <2>3. Whole(Append(File, frame)) /\ Append(File, frame) \in Seq(Frame)
    BY <2>1, Facts, AppendWhole, AppendAt
  <2>4. Sound(Append(File, frame))
    BY <2>3, WholeReturns
  <2>5. FramesInOrder(Append(File, frame), handed)
    BY <2>1, Facts, InOrderAppended
  <2>6. Whole(disk)
    <3>1. Len(disk) <= Len(File) /\ \A i \in 1 .. Len(disk) : disk[i] = File[i] /\ Chained(File, i)
      BY <2>1, Facts DEF Whole
    <3> QED BY <3>1, Facts, WholeBeginning
  <2>7. Volatile \in Seq(Frame)
    BY <1>1, Facts, AppendAt DEF Volatile
  <2> QED BY <2>2, <2>3, <2>4, <2>5, <2>6, <2>7
<1>2. CASE at # "writing"
  BY <1>2, Facts DEF IInv, FileFits, Volatile, File
<1> QED BY <1>1, <1>2

LEMMA InOrderBeginning ==
    ASSUME NEW fs \in Seq(Frame), NEW gs \in Seq(Frame), NEW n \in Nat,
           FramesInOrder(fs, n), Len(gs) <= Len(fs),
           \A i \in 1 .. Len(gs) : gs[i].packet = fs[i].packet
    PROVE  FramesInOrder(gs, n)
<1>1. ASSUME NEW i \in 1 .. Len(gs) PROVE gs[i].packet <= n /\ i \in 1 .. Len(fs)
  <2>1. i \in 1 .. Len(fs) /\ gs[i].packet = fs[i].packet
    OBVIOUS
  <2> QED BY <2>1 DEF FramesInOrder
<1>2. ASSUME NEW i \in 1 .. Len(gs), NEW j \in 1 .. Len(gs), i < j
      PROVE  gs[i].packet < gs[j].packet
  <2>1. fs[i].packet < fs[j].packet
    BY <1>1, <1>2 DEF FramesInOrder
  <2> QED BY <2>1
<1> QED BY <1>1, <1>2 DEF FramesInOrder

LEMMA ConcatOne ==
    ASSUME NEW s \in Seq(Frame), NEW f \in Frame
    PROVE  s \o <<f>> = Append(s, f)
<1> QED OBVIOUS

\* A file that is cut at a frame, or within one.
LEMMA CutFits ==
    ASSUME NEW fs \in Seq(Frame), Sound(fs), FramesInOrder(fs, handed), handed \in Nat,
           NEW m \in 0 .. Len(fs),
           NEW gs, \/ gs = SubSeq(fs, 1, m)
                   \/ /\ m < Len(fs)
                      /\ gs = Append(SubSeq(fs, 1, m), [fs[m + 1] EXCEPT !.torn = TRUE])
    PROVE  /\ gs \in Seq(Frame) /\ Sound(gs) /\ FramesInOrder(gs, handed)
           /\ Len(gs) \in m .. Len(fs) /\ \A i \in 1 .. m : gs[i] = fs[i]
<1> DEFINE ps == SubSeq(fs, 1, m)
<1>1. ps \in Seq(Frame) /\ Len(ps) = m /\ \A i \in 1 .. m : ps[i] = fs[i]
  OBVIOUS
<1>2. \A i \in 1 .. Len(fs) : fs[i] \in Frame /\ fs[i].packet \in Nat
  <2>1. \A i \in 1 .. Len(fs) : fs[i] \in Frame
    OBVIOUS
  <2> QED BY <2>1 DEF Frame, Packets
<1> HIDE DEF ps
<1>3. \A i \in 1 .. m : Chained(ps, i) <=> Chained(fs, i)
  <2> SUFFICES ASSUME NEW i \in 1 .. m PROVE Chained(ps, i) <=> Chained(fs, i)
    OBVIOUS
  <2>1. i \in 1 .. Len(ps) /\ i <= Len(fs) /\ \A j \in 1 .. i : ps[j] = fs[j]
    BY <1>1
  <2> QED BY <1>1, <2>1, ChainedAlike
<1>4. CASE gs = ps
  <2>1. Sound(ps)
    BY <1>1, <1>3 DEF Sound
  <2>2. FramesInOrder(ps, handed)
    BY <1>1, InOrderBeginning
  <2> QED BY <1>1, <1>4, <2>1, <2>2
<1>5. CASE m < Len(fs) /\ gs = Append(ps, [fs[m + 1] EXCEPT !.torn = TRUE])
  <2> DEFINE f == [fs[m + 1] EXCEPT !.torn = TRUE]
  <2>1. f \in Frame /\ f.torn /\ f.packet = fs[m + 1].packet
    BY <1>2, <1>5, TornIsFrame
  <2> HIDE DEF f
  <2>2. Whole(ps)
    BY <1>1, <1>3, <1>5 DEF Sound, Whole
  <2>3. gs = Append(ps, f)
    BY <1>5 DEF f
  <2>4. Sound(gs)
    BY <1>1, <2>1, <2>2, <2>3, AppendTorn
  <2>5. /\ gs \in Seq(Frame) /\ Len(gs) = m + 1 /\ gs[m + 1] = f
        /\ \A i \in 1 .. m : gs[i] = fs[i]
    BY <1>1, <2>1, <2>3, AppendAt
  <2>6. \A i \in 1 .. m + 1 : gs[i].packet = fs[i].packet
    BY <2>1, <2>5
  <2>7. FramesInOrder(gs, handed)
    <3>1. Len(gs) <= Len(fs) /\ \A i \in 1 .. Len(gs) : gs[i].packet = fs[i].packet
      BY <1>5, <2>5, <2>6
    <3> QED BY <2>5, <3>1, InOrderBeginning
  <2> QED BY <2>4, <2>5, <2>7
<1> QED BY <1>4, <1>5 DEF ps

LEMMA PowerCutLeaves ==
    ASSUME IInv, PowerCut
    PROVE  DiskGrows /\ FramesInOrder(disk', handed) /\ Len(disk') <= handed
<1> DEFINE all == disk \o Volatile
<1>1. PICK n \in 0 .. Len(Volatile) :
         \E rest \in IF n < Len(Volatile) THEN Remains(Volatile[n + 1]) ELSE {<<>>} :
            disk' = disk \o SubSeq(Volatile, 1, n) \o rest
  BY DEF PowerCut, Volatile
<1>2. Volatile \in Seq(Frame) /\ all \in Seq(Frame) /\ Len(all) = Len(disk) + Len(Volatile)
      /\ Sound(all) /\ FramesInOrder(all, handed) /\ (Volatile # <<>> => Whole(disk))
      /\ (\A i \in 1 .. Len(disk) : all[i] = disk[i])
      /\ \A i \in 1 .. Len(Volatile) : all[Len(disk) + i] = Volatile[i]
  BY VolatileFits, Facts, Concat
<1> DEFINE m == Len(disk) + n
<1>3. m \in 0 .. Len(all) /\ m >= Len(disk)
  BY <1>2, Facts
<1>4. disk \o SubSeq(Volatile, 1, n) = SubSeq(all, 1, m)
  <2>1. SubSeq(Volatile, 1, n) \in Seq(Frame) /\ Len(SubSeq(Volatile, 1, n)) = n
        /\ \A i \in 1 .. n : SubSeq(Volatile, 1, n)[i] = Volatile[i]
    BY <1>2
  <2>2. /\ disk \o SubSeq(Volatile, 1, n) \in Seq(Frame)
        /\ Len(disk \o SubSeq(Volatile, 1, n)) = m
    BY <2>1, Facts, Concat
  <2>3. SubSeq(all, 1, m) \in Seq(Frame) /\ Len(SubSeq(all, 1, m)) = m
        /\ \A i \in 1 .. m : SubSeq(all, 1, m)[i] = all[i]
    BY <1>2, <1>3
  <2>4. ASSUME NEW i \in 1 .. m PROVE (disk \o SubSeq(Volatile, 1, n))[i] = all[i]
    <3>1. CASE i \in 1 .. Len(disk)
      BY <1>2, <2>1, <3>1, Facts, Concat
    <3>2. CASE i > Len(disk)
      <4>1. i - Len(disk) \in 1 .. n /\ i = Len(disk) + (i - Len(disk))
        BY <3>2, Facts
      <4>2. (disk \o SubSeq(Volatile, 1, n))[i] = Volatile[i - Len(disk)]
        BY <2>1, <2>2, <4>1, Facts, Concat
      <4>3. all[i] = Volatile[i - Len(disk)]
        BY <1>2, <4>1
      <4> QED BY <4>2, <4>3
    <3> QED BY <3>1, <3>2, Facts
  <2> QED BY <2>2, <2>3, <2>4, SeqEqual
<1>5. \/ disk' = SubSeq(all, 1, m)
      \/ m < Len(all) /\ disk' = Append(SubSeq(all, 1, m), [all[m + 1] EXCEPT !.torn = TRUE])
  <2>1. SubSeq(all, 1, m) \in Seq(Frame)
    BY <1>2, <1>3
  <2>2. PICK rest \in IF n < Len(Volatile) THEN Remains(Volatile[n + 1]) ELSE {<<>>} :
           disk' = SubSeq(all, 1, m) \o rest
    BY <1>1, <1>4
  <2>3. CASE rest = <<>>
    <3>1. SubSeq(all, 1, m) \o <<>> = SubSeq(all, 1, m)
      BY <2>1
    <3> QED BY <2>2, <2>3, <3>1
  <2>4. CASE rest # <<>>
    <3>1. n < Len(Volatile) /\ rest = <<[Volatile[n + 1] EXCEPT !.torn = TRUE]>>
      BY <2>2, <2>4 DEF Remains
    <3>2. m < Len(all) /\ all[m + 1] = Volatile[n + 1]
      BY <1>2, <3>1, Facts, SMTT(30)
    <3>3. [Volatile[n + 1] EXCEPT !.torn = TRUE] \in Frame
      <4>1. Volatile[n + 1] \in Frame
        BY <1>2, <3>1
      <4> QED BY <4>1, TornIsFrame
    <3>4. disk' = Append(SubSeq(all, 1, m), [Volatile[n + 1] EXCEPT !.torn = TRUE])
      BY <2>1, <2>2, <3>1, <3>3, ConcatOne
    <3> QED BY <3>2, <3>4
  <2> QED BY <2>3, <2>4
<1> HIDE DEF all, m
<1>6. disk' \in Seq(Frame) /\ Sound(disk') /\ FramesInOrder(disk', handed)
      /\ Len(disk') \in m .. Len(all) /\ \A i \in 1 .. m : disk'[i] = all[i]
  <2>1. all \in Seq(Frame) /\ Sound(all) /\ FramesInOrder(all, handed) /\ handed \in Nat
    BY <1>2, Facts
  <2> QED BY <1>3, <1>5, <2>1, CutFits
<1>7. Len(disk') >= Len(disk) /\ \A i \in 1 .. Len(disk) : disk'[i] = disk[i]
  BY <1>2, <1>3, <1>6, Facts, SMTT(30)
<1>8. Intact(disk) <= Intact(disk')
  <2>1. \A i \in 1 .. Intact(disk) : Chained(disk, i)
    BY Facts, ChainedUpToIntact
  <2>2. ASSUME NEW i \in 1 .. Intact(disk) PROVE Chained(disk', i)
    <3>1. i \in 1 .. Len(disk) /\ i <= Len(disk') /\ \A j \in 1 .. i : disk'[j] = disk[j]
      BY <1>6, <1>7, Facts
    <3> QED BY <1>6, <2>1, <3>1, Facts, ChainedAlike
  <2>3. Intact(disk) \in 0 .. Len(disk')
    BY <1>6, <1>7, Facts
  <2> QED BY <1>6, <2>2, <2>3, IntactCovers
<1>9. Len(disk') <= handed
  <2>1. Len(Volatile) = IF at = "writing" THEN Len(cache) + 1 ELSE Len(cache)
    BY Facts, AppendAt DEF Volatile
  <2>2. Len(File) <= IF at = "writing" THEN handed - 1 ELSE handed
    BY DEF IInv, CountFits
  <2>3. Len(File) = Len(disk) + Len(cache) /\ Len(disk) \in Nat /\ Len(cache) \in Nat /\ handed \in Nat
    BY Facts
  <2>4. Len(all) <= handed
    BY <1>2, <2>1, <2>2, <2>3
  <2> QED BY <1>6, <2>3, <2>4, <1>3
<1> QED BY <1>6, <1>7, <1>8, <1>9, Facts DEF DiskGrows

\* What is on the disk is all that recovery reads then.
LEMMA AllSynced ==
    ASSUME disk' \in Seq(Frame), cache' = <<>>
    PROVE  File' = disk' /\ cache' \in Seq(Frame)
<1>1. /\ disk' \o <<>> \in Seq(Frame) /\ Len(disk' \o <<>>) = Len(disk')
      /\ \A i \in 1 .. Len(disk') : (disk' \o <<>>)[i] = disk'[i]
  OBVIOUS
<1> QED BY <1>1, SeqEqual DEF File

LEMMA PowerCutKeepsIInv ==
    ASSUME IInv, PowerCut
    PROVE  IInv'
<1>1. /\ at # "failed" /\ at' = "down" /\ cache' = <<>> /\ frame' = NoFrame /\ head' = NewHead
      /\ cuts < MaxCuts /\ cuts' = cuts + 1 /\ frames_count' = 0 /\ UNCHANGED <<handed, acked, errors>>
  BY DEF PowerCut
<1>2. /\ DiskGrows /\ FramesInOrder(disk', handed) /\ disk' \in Seq(Frame) /\ Sound(disk')
      /\ Len(disk') <= handed
  BY PowerCutLeaves DEF DiskGrows
<1>3. File' = disk' /\ cache' \in Seq(Frame)
  BY <1>1, <1>2, AllSynced
<1>4. TypeOK'
  <2>1. cuts' \in 0 .. MaxCuts /\ head' \in Chain /\ frames_count' \in 0 .. MaxPackets
    BY <1>1 DEF IInv, TypeOK, NewHead, Chain
  <2> QED BY <1>1, <1>2, <1>3, <2>1, NoFrameIsFrame DEF IInv, TypeOK
<1>5. FileFits'
  BY <1>1, <1>2, <1>3 DEF FileFits
<1>6. AckedFits'
  BY <1>1, <1>2, AckedKept
<1>7. CountFits'
  BY <1>1, <1>2, <1>3, Facts DEF CountFits
<1> QED BY <1>4, <1>5, <1>6, <1>7 DEF IInv

-----------------------------------------------------------------------------
(* Recovery.                                                               *)

\* Recovery never meets a frame that it refuses.
LEMMA ScanKeepsIInv ==
    ASSUME IInv, Scan
    PROVE  IInv'
<1>1. UNCHANGED <<frame, cache, disk, handed, acked, cuts, errors>> /\ File' = File
  BY DEF Scan, File
<1>2. \/ /\ Whole(File) /\ at' = "ready" /\ head' = PacketsOf(File)
         /\ frames_count' = Len(PacketsOf(File))
      \/ /\ ~Whole(File) /\ at' = "repairing" /\ head' = head
         /\ frames_count' = frames_count
  <2>1. File \in Seq(Frame) /\ Endings(File) = IF Whole(File) THEN {"complete"} ELSE {"tail"}
    BY Facts, SoundRecovers
  <2>2. CASE Whole(File)
    BY <2>1, <2>2, WholeReturns DEF Scan, HeadOf, CountOf
  <2>3. CASE ~Whole(File)
    BY <2>1, <2>3 DEF Scan
  <2> QED BY <2>2, <2>3
<1>3. Whole(File) => PacketsOf(File) \in Chain /\ Len(PacketsOf(File)) = Len(File)
  BY Facts, WholeReturns, PacketsOfFirst
<1>4. CountFits'
  <2>1. at = "down" /\ Len(File) <= handed /\ frames_count \in 0 .. handed
    BY DEF Scan, IInv, CountFits
  <2> QED BY <1>1, <1>2, <1>3, <2>1, Facts DEF CountFits
<1>5. TypeOK'
  <2>1. head' \in Chain
    BY <1>2, <1>3, Facts
  <2>2. frames_count' \in 0 .. MaxPackets
    BY <1>1, <1>4, Facts DEF CountFits
  <2> QED BY <1>1, <1>2, <2>1, <2>2 DEF IInv, TypeOK
<1>6. FileFits'
  <2>1. Sound(File) /\ FramesInOrder(File, handed) /\ (cache # <<>> => Whole(disk))
    BY DEF IInv, FileFits
  <2> QED BY <1>1, <1>2, <2>1 DEF FileFits
<1>7. AckedFits'
  BY <1>1, AckedKept, DiskSame
<1> QED BY <1>4, <1>5, <1>6, <1>7 DEF IInv

LEMMA TruncateGrows ==
    ASSUME IInv, Truncate
    PROVE  /\ DiskGrows /\ Whole(disk') /\ FramesInOrder(disk', handed)
           /\ head' = PacketsOf(disk') /\ head' \in Chain
           /\ frames_count' = Len(disk') /\ Len(disk') \in 0 .. Len(File)
<1> DEFINE k == Intact(File)
<1>1. disk' = SubSeq(File, 1, k) /\ head' = Returned(File) /\ k \in 0 .. Len(File)
  BY Facts DEF Truncate, Left, HeadOf
<1>2. File \in Seq(Frame) /\ Sound(File) /\ FramesInOrder(File, handed) /\ handed \in Nat
      /\ \A i \in 1 .. k : Chained(File, i)
  BY Facts, ChainedUpToIntact DEF IInv, FileFits
<1>3. disk' \in Seq(Frame) /\ Len(disk') = k /\ \A i \in 1 .. k : disk'[i] = File[i]
  BY <1>1, <1>2
<1>4. Intact(disk) <= k /\ Intact(disk) \in 0 .. Len(disk)
  <2>1. Intact(disk) \in 0 .. Len(File) /\ Intact(disk) \in 0 .. Len(disk)
    BY Facts
  <2>2. ASSUME NEW i \in 1 .. Intact(disk) PROVE Chained(File, i)
    <3>1. i \in 1 .. Len(disk) /\ i <= Len(File)
      BY <2>1, Facts
    <3>2. \A j \in 1 .. i : disk[j] = File[j]
      BY <3>1, Facts
    <3>3. Chained(disk, i)
      BY Facts, ChainedUpToIntact
    <3> QED BY <1>2, <3>1, <3>2, <3>3, Facts, ChainedAlike
  <2> QED BY <1>2, <2>1, <2>2, IntactCovers
<1> HIDE DEF k
<1>5. Whole(disk')
  <2>1. Len(disk') <= Len(File) /\ \A i \in 1 .. Len(disk') : disk'[i] = File[i] /\ Chained(File, i)
    BY <1>1, <1>2, <1>3
  <2> QED BY <1>2, <1>3, <2>1, WholeBeginning
<1>6. FramesInOrder(disk', handed)
  <2>1. /\ Len(disk') <= Len(File)
        /\ \A i \in 1 .. Len(disk') : disk'[i].packet = File[i].packet
    BY <1>1, <1>3
  <2> QED BY <1>2, <1>3, <2>1, InOrderBeginning
<1>7. Sound(disk') /\ Intact(disk') = k
  BY <1>3, <1>5, WholeReturns
<1>8. head' = PacketsOf(disk') /\ head' \in Chain
  <2>1. Returned(File) = FirstPackets(File, k) /\ FirstPackets(File, k) \in Chain
    BY <1>1, <1>2, SoundRecovers, PacketsOfFirst DEF k
  <2>2. PacketsOf(disk') = FirstPackets(disk', k)
    BY <1>3, <1>5, WholeReturns
  <2>3. FirstPackets(disk', k) = FirstPackets(File, k)
    BY <1>3 DEF FirstPackets
  <2> QED BY <1>1, <2>1, <2>2, <2>3
<1>9. frames_count' = Len(disk') /\ Len(disk') \in 0 .. Len(File)
  <2>1. Len(Returned(File)) = k
    BY <1>2, Facts, SoundRecovers, PacketsOfFirst DEF k
  <2> QED BY <1>1, <1>3, <2>1 DEF Truncate, CountOf, k
<1>10. \A i \in 1 .. Intact(disk) : disk'[i] = disk[i]
  BY <1>1, <1>3, <1>4, Facts
<1> QED BY <1>3, <1>4, <1>5, <1>6, <1>7, <1>8, <1>9, <1>10 DEF DiskGrows

LEMMA TruncateKeepsIInv ==
    ASSUME IInv, Truncate
    PROVE  IInv'
<1>1. /\ at' = "ready" /\ cache' = <<>> /\ UNCHANGED <<frame, handed, acked, cuts, errors>>
  BY DEF Truncate
<1>2. /\ Len(File) <= handed /\ Len(File) \in Nat /\ handed \in Nat
      /\ at = "repairing"
  BY Facts DEF Truncate, IInv, CountFits
<1>3. /\ DiskGrows /\ Whole(disk') /\ FramesInOrder(disk', handed) /\ disk' \in Seq(Frame)
      /\ Sound(disk') /\ head' = PacketsOf(disk') /\ head' \in Chain
      /\ frames_count' = Len(disk') /\ Len(disk') \in 0 .. handed
  BY <1>2, TruncateGrows DEF DiskGrows
<1>4. File' = disk' /\ cache' \in Seq(Frame)
  BY <1>1, <1>3, AllSynced
<1>5. TypeOK'
  BY <1>1, <1>3, <1>4 DEF IInv, TypeOK
<1>6. FileFits'
  BY <1>1, <1>3, <1>4 DEF FileFits
<1>7. AckedFits'
  BY <1>1, <1>3, AckedKept
<1>8. CountFits'
  BY <1>1, <1>3, <1>4, Facts DEF CountFits
<1> QED BY <1>5, <1>6, <1>7, <1>8 DEF IInv

-----------------------------------------------------------------------------
(* The invariants.                                                         *)

LEMMA NextIInv ==
    ASSUME RecoverAfterError, IInv, [Next]_vars
    PROVE  IInv'
<1>1. CASE Encode    BY <1>1, EncodeKeepsIInv
<1>2. CASE Write     BY <1>2, WriteKeepsIInv
<1>3. CASE SyncData  BY <1>3, SyncDataKeepsIInv
<1>4. CASE IoError   BY <1>4, IoErrorKeepsIInv
<1>5. CASE PowerCut  BY <1>5, PowerCutKeepsIInv
<1>6. CASE Scan      BY <1>6, ScanKeepsIInv
<1>7. CASE Truncate  BY <1>7, TruncateKeepsIInv
<1>8. CASE UNCHANGED vars
  <2>1. TypeOK'
    BY <1>8 DEF vars, IInv, TypeOK
  <2>2. FileFits'
    BY <1>8 DEF vars, IInv, FileFits, File
  <2>3. AckedFits'
    BY <1>8 DEF vars, IInv, AckedFits
  <2>4. CountFits'
    BY <1>8 DEF vars, IInv, CountFits, File
  <2> QED BY <2>1, <2>2, <2>3, <2>4 DEF IInv
<1> QED BY <1>1, <1>2, <1>3, <1>4, <1>5, <1>6, <1>7, <1>8 DEF Next

LEMMA AlwaysIInv ==
    ASSUME RecoverAfterError
    PROVE  Spec => []IInv
<1>1. IInv /\ [Next]_vars => IInv'
  BY NextIInv
<1> QED BY <1>1, InitIInv, PTL DEF Spec

\* The journal's variables keep their types: the file is frames, and the heads
\* are chain hashes of the packets handed over.
THEOREM TypesHold ==
    ASSUME RecoverAfterError
    PROVE  Spec => []TypeOK
<1>1. IInv => TypeOK
  BY DEF IInv
<1> QED BY <1>1, AlwaysIInv, PTL

\* What recovery returns holds every packet whose append returned Ok, in the
\* order in which the packets were handed over and none twice, and recovery
\* never refuses the file, whatever was cut off or failed to be written.
THEOREM AckedSurvive ==
    ASSUME RecoverAfterError
    PROVE  Spec => []AckedIsRecovered
<1>1. ASSUME IInv PROVE AckedIsRecovered
  <2>1. /\ disk \in Seq(Frame) /\ Sound(disk) /\ Intact(disk) \in 0 .. Len(disk)
        /\ acked \in Chain /\ (\A i \in 1 .. Len(disk) : File[i] = disk[i] /\ i \in 1 .. Len(File))
    BY <1>1, Facts
  <2>2. /\ Endings(disk) = IF Whole(disk) THEN {"complete"} ELSE {"tail"}
        /\ Returned(disk) = FirstPackets(disk, Intact(disk))
    BY <2>1, SoundRecovers
  <2>3. DOMAIN FirstPackets(disk, Intact(disk)) = 1 .. Intact(disk)
        /\ DOMAIN acked = 1 .. Len(acked)
    BY <2>1 DEF FirstPackets, Chain
  <2>4. Range(acked) \subseteq Range(Returned(disk))
    BY <1>1, <2>2, <2>3 DEF Range, FirstPackets, IInv, AckedFits
  <2>5. InOrder(Returned(disk))
    <3>1. \A i, j \in 1 .. Intact(disk) : i < j => disk[i].packet < disk[j].packet
      BY <1>1, <2>1 DEF IInv, FileFits, FramesInOrder
    <3> QED BY <2>2, <2>3, <3>1 DEF InOrder, FirstPackets
  <2>6. InOrder(acked)
    BY <1>1 DEF IInv, AckedFits
  <2> QED BY <2>2, <2>4, <2>5, <2>6 DEF AckedIsRecovered
<1> QED BY <1>1, AlwaysIInv, PTL

\* A journal that is about to append continues the chain of its file, so that
\* recovery takes over the frame it writes, and has counted the file's frames.
THEOREM HeadContinues ==
    ASSUME RecoverAfterError
    PROVE  Spec => []HeadContinuesFile
<1>1. ASSUME IInv PROVE HeadContinuesFile
  <2>1. at = "ready" =>
           /\ Whole(File) /\ head = PacketsOf(File) /\ File \in Seq(Frame)
           /\ frames_count = Len(File)
    BY <1>1, Facts DEF IInv, FileFits, CountFits
  <2>2. File \in Seq(Frame) /\ Len(File) \in 0 .. Len(File)
    BY <1>1, Facts
  <2> QED BY <2>1, <2>2, WholeReturns, PacketsOfFirst DEF HeadContinuesFile
<1> QED BY <1>1, AlwaysIInv, PTL

-----------------------------------------------------------------------------
(* The journal is an append-only log.                                      *)

LEMMA DiskReturns ==
    ASSUME IInv
    PROVE  /\ Returned(disk) = FirstPackets(disk, Intact(disk))
           /\ Returned(disk) \in Chain /\ Len(Returned(disk)) = Intact(disk)
<1> QED BY Facts, SoundRecovers, PacketsOfFirst

LEMMA LogGrows ==
    ASSUME IInv, DiskGrows
    PROVE  IsPrefix(Returned(disk), Returned(disk'))
<1> DEFINE log == Returned(disk)
           new == Returned(disk')
<1>1. /\ log = FirstPackets(disk, Intact(disk))
      /\ log \in Chain /\ Len(log) = Intact(disk)
  BY DiskReturns
<1>2. /\ new = FirstPackets(disk', Intact(disk'))
      /\ new \in Chain /\ Len(new) = Intact(disk') /\ Intact(disk') \in Nat
  BY SoundRecovers, PacketsOfFirst DEF DiskGrows
<1>3. Len(log) <= Len(new) /\ Len(log) \in Nat
  BY <1>1, <1>2, Facts DEF DiskGrows
<1>4. \A i \in 1 .. Len(log) : log[i] = new[i]
  <2> SUFFICES ASSUME NEW i \in 1 .. Len(log) PROVE log[i] = new[i]
    OBVIOUS
  <2>1. disk'[i] = disk[i] /\ i \in 1 .. Intact(disk) /\ i \in 1 .. Intact(disk')
    BY <1>1, <1>2, <1>3 DEF DiskGrows
  <2> QED BY <1>1, <1>2, <2>1 DEF FirstPackets
<1> HIDE DEF log, new
<1>5. SubSeq(log, 1, Len(log)) = SubSeq(new, 1, Len(log))
  <2>1. /\ SubSeq(log, 1, Len(log)) \in Seq(Packets) /\ SubSeq(new, 1, Len(log)) \in Seq(Packets)
        /\ Len(SubSeq(log, 1, Len(log))) = Len(log) /\ Len(SubSeq(new, 1, Len(log))) = Len(log)
        /\ \A i \in 1 .. Len(log) :
              SubSeq(log, 1, Len(log))[i] = log[i] /\ SubSeq(new, 1, Len(log))[i] = new[i]
    BY <1>1, <1>2, <1>3 DEF Chain
  <2> QED BY <1>4, <2>1, SeqEqual
<1> QED BY <1>3, <1>5 DEF IsPrefix, log, new

LEMMA GrowingIsLogged ==
    ASSUME IInv, DiskGrows, acked' = acked
    PROVE  Log!Next
<1> QED BY LogGrows DEF Log!Next, Log!Grow, Log!IsPrefix, IsPrefix

LEMMA LogAcknowledges ==
    ASSUME IInv, SyncData
    PROVE  Log!Acknowledge
<1> DEFINE new == Returned(disk')
<1>1. DiskGrows /\ acked' = Append(acked, frame.packet)
  BY SyncDataGrows DEF SyncData
<1>2. /\ new = FirstPackets(File, Len(File)) /\ Len(File) \in Nat /\ Len(File) > 0
      /\ File[Len(File)] = frame
  BY SyncDataGrows, WholeReturns, Facts
<1>3. new \in Chain /\ Len(new) = Len(File)
  BY <1>2, Facts, PacketsOfFirst
<1>4. new # <<>> /\ Last(new) = frame.packet
  BY <1>2, <1>3 DEF FirstPackets, Last, Chain
<1>5. IsPrefix(Returned(disk), new)
  BY <1>1, LogGrows
<1> QED BY <1>1, <1>4, <1>5 DEF Log!Acknowledge, Log!IsPrefix, IsPrefix, Log!Last, Last

\* Packets that recovery would return are only ever added, and at the end, and
\* only the packet that is the last of them is acknowledged: every step of the
\* journal is a step of DurableLog, or none.
THEOREM JournalIsALog ==
    ASSUME RecoverAfterError
    PROVE  Spec => NothingRecoveredIsLost
<1>1. Init => Log!Init
  <2> SUFFICES ASSUME Init PROVE Log!Init
    OBVIOUS
  <2>1. IInv /\ disk = <<>> /\ Len(disk) = 0 /\ acked = <<>>
    BY InitIInv DEF Init
  <2>2. Returned(disk) \in Chain /\ Len(Returned(disk)) = 0
    BY <2>1, DiskReturns, Facts
  <2> QED BY <2>1, <2>2 DEF Log!Init, Chain
<1>2. ASSUME IInv, [Next]_vars
      PROVE  [Log!Next]_<<Returned(disk), acked>>
  <2> USE <1>2
  <2>1. CASE SyncData
    BY <2>1, LogAcknowledges DEF Log!Next
  <2>2. CASE PowerCut
    BY <2>2, PowerCutLeaves, GrowingIsLogged DEF PowerCut
  <2>3. CASE Truncate
    BY <2>3, TruncateGrows, GrowingIsLogged DEF Truncate
  <2>4. CASE Encode \/ Write \/ IoError \/ Scan \/ UNCHANGED vars
    BY <2>4 DEF Encode, Write, IoError, Scan, vars
  <2> QED BY <2>1, <2>2, <2>3, <2>4 DEF Next
<1>3. IInv /\ [Next]_vars => [Log!Next]_<<Returned(disk), acked>>
  BY <1>2
<1> QED BY <1>1, <1>3, AlwaysIInv, PTL DEF Spec, NothingRecoveredIsLost, Log!Spec
=============================================================================
