------------------------ MODULE OrderedChannel_proofs ------------------------
(***************************************************************************)
(* For every number of packets, epochs and resumptions: when an end takes  *)
(* no snapshot while a packet is on the way to it, nor a second one before *)
(* its peer heard of the first (Careful, which nothing in the code asks of *)
(* its caller), the next packet in order can always be opened, and each    *)
(* direction is a FIFO channel.  (The run OrderedTwoSnapshots shows what   *)
(* an application that does not wait meets.)                               *)
(***************************************************************************)
EXTENDS OrderedChannel, TLAPS

USE OrderedAssumption

-----------------------------------------------------------------------------
(* The inductive invariant.                                                *)

\* Each ratchet step, number and transcript entry of a direction goes with the
\* others, and the receiver is behind the sender.
InStep ==
    \A e \in Ends :
        /\ chan[e].tx_key = chan[e].tx_seq /\ chan[e].rx_key = chan[e].rx_seq
        /\ Len(chan[e].tx_transcript) = chan[e].tx_seq
        /\ Len(chan[e].rx_transcript) = chan[e].rx_seq
        /\ chan[e].rx_seq <= chan[Peer(e)].tx_seq

HashedAs(p) == [epoch |-> p.epoch, seq |-> p.seq, msg |-> p.msg]

\* A packet is what its sender's transcript says of its number.
WireIsHashed ==
    \A p \in wire :
        /\ p.seq < chan[p.from].tx_seq
        /\ p.key = p.seq
        /\ chan[p.from].tx_transcript[p.seq + 1] = HashedAs(p)

\* What its receiver has still to open.
OnTheWay(p) == p.seq >= chan[Peer(p.from)].rx_seq

\* The ends are at most one epoch apart; the one ahead has opened everything
\* sealed for it; and what is on the way leads, in order, from the receiver's
\* epoch to the sender's.
EpochsMeet ==
    /\ \A e \in Ends : /\ chan[e].epoch <= chan[Peer(e)].epoch + 1
                       /\ chan[e].epoch > chan[Peer(e)].epoch =>
                             chan[e].rx_seq = chan[Peer(e)].tx_seq
    /\ \A p \in wire : OnTheWay(p) =>
          chan[Peer(p.from)].epoch <= p.epoch /\ p.epoch <= chan[p.from].epoch
    /\ \A p, r \in wire : OnTheWay(p) /\ p.from = r.from /\ p.seq < r.seq =>
          p.epoch <= r.epoch

IInv == TypeOK /\ InStep /\ WireIsHashed /\ EpochsMeet

LEMMA InitIInv == Init => IInv
<1> SUFFICES ASSUME Init PROVE IInv
  OBVIOUS
<1>1. NewChannel \in Channel
  BY DEF NewChannel, Channel, Seqs, Epochs
<1>2. TypeOK
  BY <1>1 DEF Init, TypeOK
<1>3. InStep
  BY DEF Init, InStep, NewChannel, Ends, Peer
<1>4. WireIsHashed
  BY DEF Init, WireIsHashed
<1>5. EpochsMeet
  BY DEF Init, EpochsMeet, NewChannel, Ends, Peer
<1> QED BY <1>2, <1>3, <1>4, <1>5 DEF IInv

LEMMA PeerIsTheOther ==
    ASSUME NEW e \in Ends
    PROVE  /\ Peer(e) \in Ends /\ Peer(e) # e /\ Peer(Peer(e)) = e
           /\ \A o \in Ends : o = e \/ o = Peer(e)
<1> QED BY DEF Ends, Peer

\* The types of what the actions compute with.
LEMMA Fields ==
    ASSUME TypeOK, NEW e \in Ends
    PROVE  /\ chan[e] \in Channel
           /\ chan[e].tx_seq \in Nat /\ chan[e].rx_seq \in Nat
           /\ chan[e].tx_key \in Nat /\ chan[e].rx_key \in Nat /\ chan[e].epoch \in Nat
           /\ chan[e].tx_transcript \in Seq(Entry) /\ chan[e].rx_transcript \in Seq(Entry)
<1> QED BY DEF TypeOK, Channel, Seqs, Epochs

LEMMA PacketFields ==
    ASSUME TypeOK, NEW p \in wire
    PROVE  /\ p.from \in Ends /\ p.seq \in Nat /\ p.epoch \in Nat /\ p.key \in Nat
           /\ p.epoch \in Epochs /\ HashedAs(p) \in Entry
<1> QED BY DEF TypeOK, Packet, Seqs, Epochs, HashedAs, Entry

-----------------------------------------------------------------------------
(* What each action does to the channel of its end.                        *)

NextEntry(e) == [epoch |-> chan[e].epoch, seq |-> chan[e].tx_seq, msg |-> sealed[e] + 1]

LEMMA SealDoes ==
    ASSUME TypeOK, NEW e \in Ends, Seal(e)
    PROVE  /\ chan' = [chan EXCEPT ![e] = chan'[e]] /\ chan'[e] \in Channel
           /\ NextEntry(e) \in Entry
           /\ chan'[e].tx_transcript = Append(chan[e].tx_transcript, NextEntry(e))
           /\ chan'[e].tx_key = chan[e].tx_key + 1
           /\ chan'[e].tx_seq = chan[e].tx_seq + 1
           /\ chan'[e].rx_transcript = chan[e].rx_transcript
           /\ chan'[e].rx_key = chan[e].rx_key
           /\ chan'[e].rx_seq = chan[e].rx_seq
           /\ chan'[e].epoch = chan[e].epoch
           /\ wire' = wire \cup {[from |-> e, seq |-> chan[e].tx_seq, epoch |-> chan[e].epoch,
                                  key |-> chan[e].tx_key, msg |-> sealed[e] + 1]}
           /\ snap' = snap /\ sealed' \in [Ends -> 0 .. MaxSeals] /\ wire' \subseteq Packet
<1> DEFINE entry == NextEntry(e)
           c == chan[e]
           d == [c EXCEPT !.tx_transcript = Append(@, entry), !.tx_key = Ratchet(@), !.tx_seq = @ + 1]
<1>1. sealed[e] + 1 \in Msgs /\ sealed[e] \in Nat
  BY DEF TypeOK, Seal, Msgs
<1>2. entry \in Entry
  BY <1>1, Fields DEF NextEntry, Entry, TypeOK, Channel
<1>3. chan' = [chan EXCEPT ![e] = d] /\ c \in Channel /\ chan \in [Ends -> Channel]
  BY Fields DEF Seal, TypeOK, NextEntry
<1>4. chan'[e] = d /\ chan' = [chan EXCEPT ![e] = chan'[e]]
  BY <1>3
<1>5. /\ Append(c.tx_transcript, entry) \in Seq(Entry) /\ Ratchet(c.tx_key) = c.tx_key + 1
      /\ c.tx_key + 1 \in Nat /\ c.tx_seq + 1 \in Seqs
  BY <1>2, Fields DEF Ratchet, Seal, HasNext, Seqs
<1>6. /\ d \in Channel /\ d.tx_transcript = Append(c.tx_transcript, entry)
      /\ d.tx_key = c.tx_key + 1 /\ d.tx_seq = c.tx_seq + 1
      /\ d.rx_transcript = c.rx_transcript /\ d.rx_key = c.rx_key /\ d.rx_seq = c.rx_seq
      /\ d.epoch = c.epoch
  BY <1>3, <1>5 DEF Channel
<1>7. sealed' \in [Ends -> 0 .. MaxSeals]
  BY <1>1 DEF Seal, TypeOK, Msgs
<1>8. wire' \subseteq Packet
  <2>1. c.tx_seq \in Seqs /\ c.epoch \in Epochs /\ c.tx_key \in Nat
    BY <1>3 DEF Channel
  <2> QED BY <1>1, <2>1 DEF Seal, TypeOK, Packet
<1> QED BY <1>2, <1>4, <1>6, <1>7, <1>8 DEF Seal

LEMMA OpenDoes ==
    ASSUME TypeOK, NEW e \in Ends, NEW p \in wire, Open(e, p)
    PROVE  /\ chan' = [chan EXCEPT ![e] = chan'[e]] /\ chan'[e] \in Channel
           /\ chan'[e].rx_transcript = Append(chan[e].rx_transcript, HashedAs(p))
           /\ chan'[e].rx_key = chan[e].rx_key + 1
           /\ chan'[e].rx_seq = chan[e].rx_seq + 1
           /\ chan'[e].tx_transcript = chan[e].tx_transcript
           /\ chan'[e].tx_key = chan[e].tx_key
           /\ chan'[e].tx_seq = chan[e].tx_seq
           /\ chan'[e].epoch = p.epoch
           /\ p.from = Peer(e) /\ p.seq = chan[e].rx_seq
<1> DEFINE c == chan[e]
           d == [c EXCEPT !.rx_transcript = Append(@, HashedAs(p)), !.rx_key = Ratchet(@),
                          !.rx_seq = @ + 1, !.epoch = p.epoch]
<1>1. p.from = Peer(e) /\ p.seq = chan[e].rx_seq /\ HasNext(p.seq)
  BY DEF Open, Accepts
<1>2. chan' = [chan EXCEPT ![e] = d] /\ c \in Channel /\ chan \in [Ends -> Channel]
  BY Fields DEF Open, TypeOK, HashedAs, HashedEpoch
<1>3. chan'[e] = d /\ chan' = [chan EXCEPT ![e] = chan'[e]]
  BY <1>2
<1>4. /\ Append(c.rx_transcript, HashedAs(p)) \in Seq(Entry)
      /\ Ratchet(c.rx_key) = c.rx_key + 1
      /\ c.rx_key + 1 \in Nat /\ c.rx_seq + 1 \in Seqs /\ p.epoch \in Epochs
  BY <1>1, Fields, PacketFields DEF Ratchet, HasNext, Seqs
<1>5. /\ d \in Channel /\ d.rx_transcript = Append(c.rx_transcript, HashedAs(p))
      /\ d.rx_key = c.rx_key + 1 /\ d.rx_seq = c.rx_seq + 1
      /\ d.tx_transcript = c.tx_transcript /\ d.tx_key = c.tx_key /\ d.tx_seq = c.tx_seq
      /\ d.epoch = p.epoch
  BY <1>2, <1>4 DEF Channel
<1> QED BY <1>1, <1>3, <1>5

\* Stopping and resuming moves the epoch alone.
Resumption(e) == ExportState(e) \/ ImportState(e) \/ MarkResumed(e)

LEMMA ResumptionDoes ==
    ASSUME Careful, TypeOK, NEW e \in Ends, Resumption(e)
    PROVE  /\ chan' = [chan EXCEPT ![e] = chan'[e]] /\ chan'[e] \in Channel
           /\ chan'[e].rx_transcript = chan[e].rx_transcript
           /\ chan'[e].rx_key = chan[e].rx_key
           /\ chan'[e].rx_seq = chan[e].rx_seq
           /\ chan'[e].tx_transcript = chan[e].tx_transcript
           /\ chan'[e].tx_key = chan[e].tx_key
           /\ chan'[e].tx_seq = chan[e].tx_seq
           /\ \/ chan'[e].epoch = chan[e].epoch
              \/ chan'[e].epoch = chan[e].epoch + 1 /\ MaySnapshot(e)
           /\ snap' \in [Ends -> SUBSET Channel] /\ wire' = wire /\ sealed' = sealed
<1> chan[e] \in Channel /\ chan \in [Ends -> Channel] /\ snap \in [Ends -> SUBSET Channel]
  BY Fields DEF TypeOK
<1>1. CASE ExportState(e)
  <2>1. chan[e].epoch + 1 \in Epochs
    BY <1>1, Fields DEF ExportState, Epochs
  <2>2. chan' = [chan EXCEPT ![e] = [chan[e] EXCEPT !.epoch = @ + 1]]
    BY <1>1 DEF ExportState
  <2>3. chan'[e] = [chan[e] EXCEPT !.epoch = @ + 1]
    BY <2>2
  <2>4. chan'[e] \in Channel
    BY <2>1, <2>3 DEF Channel
  <2> QED BY <1>1, <2>2, <2>3, <2>4 DEF ExportState, Channel
<1>2. CASE ImportState(e)
  <2>1. PICK s \in snap[e] : /\ Current(e, s)
                            /\ chan' = [chan EXCEPT ![e] = [s EXCEPT !.requires_resume_ack = TRUE]]
                            /\ UNCHANGED <<snap, wire, sealed>>
    BY <1>2 DEF ImportState
  <2>2. s \in Channel /\ s = [chan[e] EXCEPT !.requires_resume_ack = s.requires_resume_ack]
    BY <2>1 DEF Current
  <2>3. chan'[e] = [s EXCEPT !.requires_resume_ack = TRUE] /\ chan'[e] \in Channel
    BY <2>1, <2>2 DEF Channel
  <2> QED BY <2>1, <2>2, <2>3 DEF Channel
<1>3. CASE MarkResumed(e)
  <2>1. chan' = [chan EXCEPT ![e] = [chan[e] EXCEPT !.requires_resume_ack = FALSE]]
    BY <1>3 DEF MarkResumed
  <2> QED BY <1>3, <2>1 DEF MarkResumed, Channel
<1> QED BY <1>1, <1>2, <1>3 DEF Resumption

-----------------------------------------------------------------------------
(* Every action keeps the invariant.                                       *)

\* What the invariant says of an end and its peer.
LEMMA BothEnds ==
    ASSUME IInv, NEW e \in Ends
    PROVE  /\ TypeOK /\ Peer(e) \in Ends /\ Peer(e) # e /\ Peer(Peer(e)) = e
           /\ chan[e] \in Channel /\ chan[Peer(e)] \in Channel
           /\ chan[e].tx_seq \in Nat /\ chan[e].rx_seq \in Nat /\ chan[e].epoch \in Nat
           /\ chan[Peer(e)].tx_seq \in Nat /\ chan[Peer(e)].rx_seq \in Nat
           /\ chan[Peer(e)].epoch \in Nat
           /\ chan[e].tx_transcript \in Seq(Entry) /\ chan[e].rx_transcript \in Seq(Entry)
           /\ chan[e].tx_key = chan[e].tx_seq /\ chan[e].rx_key = chan[e].rx_seq
           /\ Len(chan[e].tx_transcript) = chan[e].tx_seq
           /\ Len(chan[e].rx_transcript) = chan[e].rx_seq
           /\ chan[e].rx_seq <= chan[Peer(e)].tx_seq
           /\ chan[Peer(e)].rx_seq <= chan[e].tx_seq
           /\ chan[e].epoch <= chan[Peer(e)].epoch + 1
           /\ chan[Peer(e)].epoch <= chan[e].epoch + 1
           /\ chan[e].epoch > chan[Peer(e)].epoch => chan[e].rx_seq = chan[Peer(e)].tx_seq
           /\ chan[Peer(e)].epoch > chan[e].epoch => chan[Peer(e)].rx_seq = chan[e].tx_seq
<1>1. Peer(e) \in Ends /\ Peer(e) # e /\ Peer(Peer(e)) = e /\ TypeOK
  BY PeerIsTheOther DEF IInv
<1>2. chan[e] \in Channel /\ chan[Peer(e)] \in Channel
  BY <1>1, Fields
<1> QED BY <1>1, <1>2, Fields DEF IInv, InStep, EpochsMeet

LEMMA SealKeepsIInv ==
    ASSUME Careful, IInv, NEW e \in Ends, Seal(e)
    PROVE  IInv'
<1> DEFINE new == [from |-> e, seq |-> chan[e].tx_seq, epoch |-> chan[e].epoch,
                   key |-> chan[e].tx_key, msg |-> sealed[e] + 1]
           c == chan[e]
           d == chan'[e]
           q == chan[Peer(e)]
<1>0. TypeOK
  BY DEF IInv
<1>1. /\ d \in Channel /\ chan' = [chan EXCEPT ![e] = d]
      /\ NextEntry(e) \in Entry
      /\ d.tx_transcript = Append(c.tx_transcript, NextEntry(e))
      /\ d.tx_key = c.tx_key + 1 /\ d.tx_seq = c.tx_seq + 1
      /\ d.rx_transcript = c.rx_transcript /\ d.rx_key = c.rx_key /\ d.rx_seq = c.rx_seq
      /\ d.epoch = c.epoch
      /\ wire' = wire \cup {new} /\ wire' \subseteq Packet
      /\ snap' = snap /\ sealed' \in [Ends -> 0 .. MaxSeals]
  BY <1>0, SealDoes
<1>2. /\ chan'[Peer(e)] = q /\ chan' \in [Ends -> Channel]
      /\ \A o \in Ends : o = e \/ o = Peer(e)
      /\ c.epoch >= q.epoch
  BY <1>0, <1>1, PeerIsTheOther DEF TypeOK, Seal, MaySpeak
<1>3. Len(Append(c.tx_transcript, NextEntry(e))) = Len(c.tx_transcript) + 1
  BY <1>1, BothEnds
<1> HIDE DEF d, new
<1>4. TypeOK'
  BY <1>0, <1>1, <1>2 DEF TypeOK
<1>5. InStep'
  <2>1. /\ d.tx_key = d.tx_seq /\ d.rx_key = d.rx_seq
        /\ Len(d.tx_transcript) = d.tx_seq /\ Len(d.rx_transcript) = d.rx_seq
        /\ d.rx_seq <= q.tx_seq /\ q.rx_seq <= d.tx_seq
    BY <1>1, <1>3, BothEnds, SMTT(30)
  <2> QED BY <1>2, <2>1, BothEnds, SMTT(30) DEF IInv, InStep, d
<1>6. WireIsHashed'
  <2> SUFFICES ASSUME NEW p \in wire'
               PROVE  /\ p.seq < chan'[p.from].tx_seq /\ p.key = p.seq
                      /\ chan'[p.from].tx_transcript[p.seq + 1] = HashedAs(p)
    BY DEF WireIsHashed
  <2>1. CASE p = new
    <3>1. Append(c.tx_transcript, NextEntry(e))[c.tx_seq + 1] = NextEntry(e)
      BY BothEnds
    <3>2. p.from = e /\ p.seq = c.tx_seq /\ p.key = c.tx_key /\ HashedAs(p) = NextEntry(e)
      BY <2>1 DEF new, HashedAs, NextEntry
    <3>3. c.tx_seq < d.tx_seq /\ c.tx_key = c.tx_seq
      BY <1>1, BothEnds
    <3> QED BY <1>1, <3>1, <3>2, <3>3 DEF d
  <2>2. CASE p \in wire /\ p.from = e
    <3>1. p.seq < c.tx_seq /\ p.key = p.seq /\ c.tx_transcript[p.seq + 1] = HashedAs(p)
      BY <2>2 DEF IInv, WireIsHashed
    <3>2. p.seq \in Nat
      BY <1>0, <2>2, PacketFields
    <3>3. Append(c.tx_transcript, NextEntry(e))[p.seq + 1] = c.tx_transcript[p.seq + 1]
      BY <3>1, <3>2, BothEnds
    <3>4. p.seq < d.tx_seq
      BY <1>1, <3>1, <3>2, BothEnds
    <3> QED BY <1>1, <2>2, <3>1, <3>3, <3>4 DEF d
  <2>3. CASE p \in wire /\ p.from = Peer(e)
    BY <1>2, <2>3 DEF IInv, WireIsHashed
  <2>4. p = new \/ (p \in wire /\ p.from \in Ends)
    BY <1>0, <1>1, PacketFields
  <2> QED BY <1>2, <2>1, <2>2, <2>3, <2>4
<1>7. EpochsMeet'
  <2>1. /\ d.epoch <= q.epoch + 1 /\ q.epoch <= d.epoch + 1
        /\ d.epoch > q.epoch => d.rx_seq = q.tx_seq
        /\ ~(q.epoch > d.epoch)
    BY <1>1, <1>2, BothEnds
  <2>2. ASSUME NEW p \in wire, OnTheWay(p)'
        PROVE  /\ p.from \in Ends /\ p.seq \in Nat /\ p.epoch \in Nat /\ OnTheWay(p)
               /\ chan'[Peer(p.from)].epoch <= p.epoch /\ p.epoch <= chan'[p.from].epoch
    <3>1. p.from \in Ends /\ p.seq \in Nat /\ p.epoch \in Nat
      BY <1>0, PacketFields
    <3>2. \A o \in Ends : chan'[o].rx_seq = chan[o].rx_seq /\ chan'[o].epoch = chan[o].epoch
      BY <1>1, <1>2 DEF d
    <3> QED BY <2>2, <3>1, <3>2, PeerIsTheOther DEF IInv, EpochsMeet, OnTheWay
  <2>3. /\ new.from = e /\ new.seq = c.tx_seq /\ new.epoch = c.epoch
        /\ chan'[Peer(e)].epoch <= c.epoch /\ c.epoch <= chan'[e].epoch
    BY <1>1, <1>2, BothEnds DEF d, new
  <2>4. ASSUME NEW p \in wire', OnTheWay(p)'
        PROVE  chan'[Peer(p.from)].epoch <= p.epoch /\ p.epoch <= chan'[p.from].epoch
    BY <1>1, <2>2, <2>3, <2>4
  <2>5. ASSUME NEW p \in wire', NEW r \in wire', OnTheWay(p)', p.from = r.from, p.seq < r.seq
        PROVE  p.epoch <= r.epoch
    <3>1. CASE p \in wire /\ r \in wire
      BY <2>2, <2>5, <3>1 DEF IInv, EpochsMeet
    <3>2. CASE p \in wire /\ r = new
      BY <1>1, <2>2, <2>3, <2>5, <3>2 DEF d
    <3>3. CASE p = new /\ r = new
      BY <2>3, <2>5, <3>3, BothEnds
    <3>4. CASE p = new /\ r \in wire
      <4>1. r.from = e /\ r.seq < c.tx_seq /\ r.seq \in Nat
        BY <1>0, <2>3, <2>5, <3>4, PacketFields DEF IInv, WireIsHashed
      <4> QED BY <2>3, <2>5, <3>4, <4>1, BothEnds
    <3> QED BY <1>1, <3>1, <3>2, <3>3, <3>4
  <2>6. \A o \in Ends : /\ chan'[o].epoch <= chan'[Peer(o)].epoch + 1
                        /\ chan'[o].epoch > chan'[Peer(o)].epoch =>
                              chan'[o].rx_seq = chan'[Peer(o)].tx_seq
    BY <1>2, <2>1, BothEnds, SMTT(30) DEF d
  <2> QED BY <2>4, <2>5, <2>6 DEF EpochsMeet
<1> QED BY <1>4, <1>5, <1>6, <1>7 DEF IInv

\* The next packet in order is sealed with the key the end has now.
LEMMA NextIsOpened == IInv => NextPacketOpens
<1> SUFFICES ASSUME IInv, NEW e \in Ends, NEW p \in Due(e) PROVE Accepts(e, p)
  BY DEF NextPacketOpens
<1>1. /\ p \in wire /\ p.from = Peer(e) /\ p.seq = chan[e].rx_seq
      /\ p.key = p.seq /\ p.seq < chan[Peer(e)].tx_seq
  BY DEF Due, IInv, WireIsHashed
<1>2. HasNext(p.seq)
  <2>1. chan[Peer(e)].tx_seq <= SeqMax
    BY BothEnds DEF Channel, Seqs
  <2> QED BY <1>1, <2>1, BothEnds DEF HasNext
<1>3. p.epoch \in EpochCandidates(chan[e])
  <2>1. chan[e].epoch <= p.epoch /\ p.epoch <= chan[Peer(e)].epoch /\ p.epoch \in Nat
    BY <1>1, BothEnds, PacketFields DEF IInv, EpochsMeet, OnTheWay
  <2>2. chan[Peer(e)].epoch <= chan[e].epoch + 1
    BY BothEnds
  <2>3. chan[Peer(e)].epoch <= EpochMax
    BY BothEnds DEF Channel, Epochs
  <2> QED BY <2>1, <2>2, <2>3, BothEnds DEF EpochCandidates
<1> QED BY <1>1, <1>2, <1>3, BothEnds DEF Accepts

\* Opening a packet takes its epoch, and what follows it is of no earlier one.
LEMMA OpenKeepsIInv ==
    ASSUME IInv, NEW e \in Ends, NEW p \in wire, Open(e, p)
    PROVE  IInv'
<1> DEFINE c == chan[e]
           d == chan'[e]
           q == chan[Peer(e)]
<1>0. TypeOK /\ UNCHANGED <<snap, wire, sealed>>
  BY DEF IInv, Open
<1>1. /\ d \in Channel /\ chan' = [chan EXCEPT ![e] = d]
      /\ d.rx_transcript = Append(c.rx_transcript, HashedAs(p)) /\ HashedAs(p) \in Entry
      /\ d.rx_key = c.rx_key + 1 /\ d.rx_seq = c.rx_seq + 1
      /\ d.tx_transcript = c.tx_transcript /\ d.tx_key = c.tx_key /\ d.tx_seq = c.tx_seq
      /\ d.epoch = p.epoch /\ p.from = Peer(e) /\ p.seq = c.rx_seq
  BY <1>0, OpenDoes, PacketFields
<1>2. /\ chan'[Peer(e)] = q /\ chan' \in [Ends -> Channel]
      /\ \A o \in Ends : o = e \/ o = Peer(e)
  BY <1>0, <1>1, PeerIsTheOther DEF TypeOK
<1>3. /\ Len(Append(c.rx_transcript, HashedAs(p))) = Len(c.rx_transcript) + 1
      /\ p.seq < q.tx_seq /\ p.seq \in Nat /\ p.epoch \in Nat
      /\ c.epoch <= p.epoch /\ p.epoch <= q.epoch
  <2>1. p.seq < q.tx_seq
    BY <1>1 DEF IInv, WireIsHashed
  <2>2. c.epoch <= p.epoch /\ p.epoch <= q.epoch
    BY <1>1, BothEnds, SMTT(30) DEF IInv, EpochsMeet, OnTheWay
  <2> QED BY <1>0, <1>1, <2>1, <2>2, BothEnds, PacketFields
<1> HIDE DEF d
<1>4. TypeOK'
  BY <1>0, <1>1, <1>2 DEF TypeOK
<1>5. InStep'
  <2>1. /\ d.tx_key = d.tx_seq /\ d.rx_key = d.rx_seq
        /\ Len(d.tx_transcript) = d.tx_seq /\ Len(d.rx_transcript) = d.rx_seq
    BY <1>1, <1>3, BothEnds
  <2>2. c.rx_seq \in Nat /\ q.tx_seq \in Nat /\ c.rx_seq < q.tx_seq /\ q.rx_seq <= c.tx_seq
    BY <1>1, <1>3, BothEnds
  <2>3. d.rx_seq <= q.tx_seq /\ q.rx_seq <= d.tx_seq
    BY <1>1, <2>2
  <2> QED BY <1>2, <2>1, <2>3, BothEnds DEF IInv, InStep, d
<1>6. WireIsHashed'
  <2>1. \A o \in Ends : /\ chan'[o].tx_seq = chan[o].tx_seq
                        /\ chan'[o].tx_transcript = chan[o].tx_transcript
    BY <1>1, <1>2 DEF d
  <2> QED BY <1>0, <2>1, PacketFields DEF IInv, WireIsHashed
<1>7. EpochsMeet'
  <2>1. /\ c.epoch <= d.epoch /\ d.epoch <= q.epoch /\ q.epoch <= d.epoch + 1
        /\ q.epoch > d.epoch => q.rx_seq = d.tx_seq
        /\ ~(d.epoch > q.epoch) /\ d.epoch <= q.epoch + 1
    <3>1. /\ c.epoch \in Nat /\ q.epoch \in Nat /\ q.epoch <= c.epoch + 1
          /\ q.epoch > c.epoch => q.rx_seq = c.tx_seq
      BY BothEnds
    <3>2. d.epoch = p.epoch /\ d.tx_seq = c.tx_seq
      BY <1>1
    <3>3. p.epoch \in Nat /\ c.epoch <= p.epoch /\ p.epoch <= q.epoch
      BY <1>3
    <3>4. /\ c.epoch <= p.epoch /\ p.epoch <= q.epoch /\ q.epoch <= p.epoch + 1
          /\ ~(p.epoch > q.epoch) /\ p.epoch <= q.epoch + 1
          /\ q.epoch > p.epoch => q.epoch > c.epoch
      BY ONLY <3>1, <3>3
    <3> QED BY <3>1, <3>2, <3>4
  <2>2. ASSUME NEW r \in wire, OnTheWay(r)'
        PROVE  OnTheWay(r) /\ r.from \in Ends /\ (r.from = Peer(e) => p.seq < r.seq)
    <3>1. r.from \in Ends /\ r.seq \in Nat
      BY <1>0, PacketFields
    <3>2. CASE r.from = Peer(e)
      BY <1>1, <2>2, <3>1, <3>2, BothEnds DEF d, OnTheWay
    <3>3. CASE r.from = e
      BY <1>2, <2>2, <3>1, <3>3, BothEnds DEF OnTheWay
    <3> QED BY <1>2, <3>1, <3>2, <3>3
  <2>3. ASSUME NEW r \in wire, OnTheWay(r)'
        PROVE  chan'[Peer(r.from)].epoch <= r.epoch /\ r.epoch <= chan'[r.from].epoch
    <3>1. /\ OnTheWay(r) /\ r.epoch \in Nat
          /\ chan[Peer(r.from)].epoch <= r.epoch /\ r.epoch <= chan[r.from].epoch
      BY <1>0, <2>2, <2>3, PacketFields DEF IInv, EpochsMeet
    <3>2. CASE r.from = Peer(e)
      <4>1. OnTheWay(p) /\ p.seq < r.seq
        BY <1>1, <2>2, <2>3, <3>2, BothEnds DEF OnTheWay
      <4>2. p.epoch <= r.epoch
        BY <1>1, <3>2, <4>1 DEF IInv, EpochsMeet
      <4> QED BY <1>1, <1>2, <3>1, <3>2, <4>2, BothEnds DEF d
    <3>3. CASE r.from = e
      <4>1. /\ q.epoch <= r.epoch /\ r.epoch <= c.epoch
            /\ c.epoch \in Nat /\ q.epoch \in Nat
        BY <3>1, <3>3, BothEnds
      <4>2. p.epoch \in Nat /\ c.epoch <= p.epoch
        BY <1>3
      <4>3. r.epoch <= p.epoch
        BY ONLY <3>1, <4>1, <4>2
      <4>4. d.epoch = p.epoch
        BY <1>1
      <4> QED BY <1>2, <3>3, <4>1, <4>3, <4>4 DEF d
    <3> QED BY <1>2, <2>2, <2>3, <3>2, <3>3
  <2>4. ASSUME NEW r \in wire, NEW t \in wire, OnTheWay(r)', r.from = t.from, r.seq < t.seq
        PROVE  r.epoch <= t.epoch
    BY <2>2, <2>4 DEF IInv, EpochsMeet
  <2>5. \A o \in Ends : /\ chan'[o].epoch <= chan'[Peer(o)].epoch + 1
                        /\ chan'[o].epoch > chan'[Peer(o)].epoch =>
                              chan'[o].rx_seq = chan'[Peer(o)].tx_seq
    <3>1. chan'[e] = d /\ chan'[Peer(e)] = q /\ Peer(Peer(e)) = e
      BY <1>2, PeerIsTheOther DEF d
    <3>2. ASSUME NEW o \in Ends
          PROVE  /\ chan'[o].epoch <= chan'[Peer(o)].epoch + 1
                 /\ chan'[o].epoch > chan'[Peer(o)].epoch =>
                       chan'[o].rx_seq = chan'[Peer(o)].tx_seq
      BY <1>2, <2>1, <3>1
    <3> QED BY <3>2
  <2> QED BY <1>0, <2>3, <2>4, <2>5 DEF EpochsMeet
<1> QED BY <1>4, <1>5, <1>6, <1>7 DEF IInv

\* A new epoch begins when nothing is on the way to its end.
LEMMA ResumptionKeepsIInv ==
    ASSUME Careful, IInv, NEW e \in Ends, Resumption(e)
    PROVE  IInv'
<1> DEFINE c == chan[e]
           d == chan'[e]
           q == chan[Peer(e)]
<1>0. TypeOK
  BY DEF IInv
<1>1. /\ d \in Channel /\ chan' = [chan EXCEPT ![e] = d]
      /\ d.rx_transcript = c.rx_transcript /\ d.rx_key = c.rx_key /\ d.rx_seq = c.rx_seq
      /\ d.tx_transcript = c.tx_transcript /\ d.tx_key = c.tx_key /\ d.tx_seq = c.tx_seq
      /\ d.epoch = c.epoch \/ (d.epoch = c.epoch + 1 /\ MaySnapshot(e))
      /\ snap' \in [Ends -> SUBSET Channel] /\ wire' = wire /\ sealed' = sealed
  BY <1>0, ResumptionDoes
<1>2. /\ chan'[Peer(e)] = q /\ chan' \in [Ends -> Channel]
      /\ \A o \in Ends : o = e \/ o = Peer(e)
  BY <1>0, <1>1, PeerIsTheOther DEF TypeOK
<1> HIDE DEF d
<1>4. TypeOK'
  BY <1>0, <1>1, <1>2 DEF TypeOK
<1>5. InStep'
  <2>1. /\ d.tx_key = d.tx_seq /\ d.rx_key = d.rx_seq
        /\ Len(d.tx_transcript) = d.tx_seq /\ Len(d.rx_transcript) = d.rx_seq
        /\ d.rx_seq <= q.tx_seq /\ q.rx_seq <= d.tx_seq
    BY <1>1, BothEnds
  <2> QED BY <1>2, <2>1, BothEnds, SMTT(30) DEF IInv, InStep, d
<1>6. \A o \in Ends : /\ chan'[o].tx_seq = chan[o].tx_seq /\ chan'[o].rx_seq = chan[o].rx_seq
                      /\ chan'[o].tx_transcript = chan[o].tx_transcript
  BY <1>1, <1>2 DEF d
<1>7. WireIsHashed'
  BY <1>0, <1>1, <1>6, PacketFields DEF IInv, WireIsHashed
<1>8. EpochsMeet'
  <2>1. CASE d.epoch = c.epoch
    <3>1. \A o \in Ends : chan'[o].epoch = chan[o].epoch
      BY <1>2, <2>1 DEF d
    <3> QED BY <1>0, <1>1, <1>6, <3>1, PacketFields, PeerIsTheOther DEF IInv, EpochsMeet, OnTheWay
  <2>2. CASE d.epoch = c.epoch + 1 /\ MaySnapshot(e)
    <3>1. c.epoch = q.epoch /\ d.rx_seq = q.tx_seq
      BY <1>1, <2>2 DEF MaySnapshot
    <3>2. ASSUME NEW p \in wire, OnTheWay(p)'
          PROVE  OnTheWay(p) /\ p.from = e /\ p.epoch \in Nat
      <4>1. /\ p.from = e \/ p.from = Peer(e)
            /\ p.epoch \in Nat /\ p.seq \in Nat /\ p.seq < chan[p.from].tx_seq
        BY <1>0, <1>2, PacketFields DEF IInv, WireIsHashed
      <4>2. OnTheWay(p)
        BY <1>6, <3>2, <4>1, PeerIsTheOther DEF OnTheWay
      <4>3. ASSUME p.from = Peer(e) PROVE FALSE
        <5>1. p.seq < q.tx_seq /\ p.seq >= c.rx_seq /\ q.tx_seq = c.rx_seq
          BY <1>1, <3>1, <4>1, <4>2, <4>3, BothEnds DEF OnTheWay
        <5> QED BY <4>1, <5>1, BothEnds
      <4> QED BY <4>1, <4>2, <4>3
    <3>3. ASSUME NEW p \in wire, OnTheWay(p)'
          PROVE  chan'[Peer(p.from)].epoch <= p.epoch /\ p.epoch <= chan'[p.from].epoch
      <4>1. p.from = e /\ p.epoch \in Nat /\ q.epoch <= p.epoch /\ p.epoch <= c.epoch
        BY <3>2, <3>3 DEF IInv, EpochsMeet
      <4> QED BY <1>2, <2>2, <4>1, BothEnds DEF d
    <3>4. ASSUME NEW p \in wire, NEW r \in wire, OnTheWay(p)', p.from = r.from, p.seq < r.seq
          PROVE  p.epoch <= r.epoch
      BY <3>2, <3>4 DEF IInv, EpochsMeet
    <3>5. \A o \in Ends : /\ chan'[o].epoch <= chan'[Peer(o)].epoch + 1
                          /\ chan'[o].epoch > chan'[Peer(o)].epoch =>
                                chan'[o].rx_seq = chan'[Peer(o)].tx_seq
      BY <1>1, <1>2, <2>2, <3>1, BothEnds, SMTT(30) DEF d
    <3> QED BY <1>1, <3>3, <3>4, <3>5 DEF EpochsMeet
  <2> QED BY <1>1, <2>1, <2>2
<1> QED BY <1>4, <1>5, <1>7, <1>8 DEF IInv

LEMMA NextCases ==
    ASSUME [Next]_vars
    PROVE  \/ \E e \in Ends : Seal(e)
           \/ \E e \in Ends : \E p \in wire : Open(e, p)
           \/ \E e \in Ends : Resumption(e)
           \/ UNCHANGED vars
<1> QED BY DEF Next, Resumption

LEMMA NextIInv == Careful /\ IInv /\ [Next]_vars => IInv'
<1> SUFFICES ASSUME Careful, IInv, [Next]_vars PROVE IInv'
  OBVIOUS
<1>1. CASE UNCHANGED vars
  BY <1>1 DEF vars, IInv, TypeOK, InStep, WireIsHashed, EpochsMeet, OnTheWay
<1> QED BY <1>1, NextCases, SealKeepsIInv, OpenKeepsIInv, ResumptionKeepsIInv

LEMMA AlwaysIInv == ASSUME Careful PROVE Spec => []IInv
<1>1. IInv /\ [Next]_vars => IInv'
  BY NextIInv
<1> QED BY <1>1, InitIInv, PTL DEF Spec

-----------------------------------------------------------------------------
(* One direction, from the transcripts of its two ends.                    *)

Idles(sent, heard, sent_next, heard_next) == sent_next = sent /\ heard_next = heard

Sends(sent, heard, sent_next, heard_next) ==
    heard_next = heard /\ \E m \in Entry : sent_next = Append(sent, m)

Delivers(sent, heard, sent_next, heard_next) ==
    /\ Len(heard) < Len(sent) /\ sent_next = sent
    /\ heard_next = Append(heard, sent[Len(heard) + 1])

FifoStep(sent, heard, sent_next, heard_next) ==
    \/ Idles(sent, heard, sent_next, heard_next)
    \/ Sends(sent, heard, sent_next, heard_next)
    \/ Delivers(sent, heard, sent_next, heard_next)

LEMMA EveryStepIsFifo ==
    ASSUME Careful, IInv, [Next]_vars, NEW e \in Ends
    PROVE  FifoStep(chan[e].tx_transcript, chan[Peer(e)].rx_transcript,
                    chan'[e].tx_transcript, chan'[Peer(e)].rx_transcript)
<1>0. TypeOK /\ chan \in [Ends -> Channel]
  BY DEF IInv, TypeOK
<1>1. ASSUME NEW o \in Ends, Seal(o)
      PROVE  FifoStep(chan[e].tx_transcript, chan[Peer(e)].rx_transcript,
                      chan'[e].tx_transcript, chan'[Peer(e)].rx_transcript)
  <2>1. /\ chan' = [chan EXCEPT ![o] = chan'[o]] /\ NextEntry(o) \in Entry
        /\ chan'[o].tx_transcript = Append(chan[o].tx_transcript, NextEntry(o))
        /\ chan'[o].rx_transcript = chan[o].rx_transcript
    BY <1>0, <1>1, SealDoes
  <2>2. CASE o = e
    BY <1>0, <2>1, <2>2, PeerIsTheOther DEF FifoStep, Sends
  <2>3. CASE o = Peer(e)
    BY <1>0, <2>1, <2>3, PeerIsTheOther DEF FifoStep, Idles
  <2> QED BY <2>2, <2>3, PeerIsTheOther
<1>2. ASSUME NEW o \in Ends, NEW p \in wire, Open(o, p)
      PROVE  FifoStep(chan[e].tx_transcript, chan[Peer(e)].rx_transcript,
                      chan'[e].tx_transcript, chan'[Peer(e)].rx_transcript)
  <2>1. /\ chan' = [chan EXCEPT ![o] = chan'[o]]
        /\ chan'[o].rx_transcript = Append(chan[o].rx_transcript, HashedAs(p))
        /\ chan'[o].tx_transcript = chan[o].tx_transcript
        /\ p.from = Peer(o) /\ p.seq = chan[o].rx_seq
    BY <1>0, <1>2, OpenDoes
  <2>2. CASE o = e
    BY <1>0, <2>1, <2>2, PeerIsTheOther DEF FifoStep, Idles
  <2>3. CASE o = Peer(e)
    <3>1. p.from = e /\ Len(chan[o].rx_transcript) = p.seq
      BY <2>1, <2>3, BothEnds, PeerIsTheOther
    <3>2. /\ p.seq < Len(chan[e].tx_transcript)
          /\ chan[e].tx_transcript[p.seq + 1] = HashedAs(p)
      BY <3>1, BothEnds DEF IInv, WireIsHashed
    <3>3. chan'[e] = chan[e]
      BY <1>0, <2>1, <2>3, PeerIsTheOther
    <3> QED BY <2>1, <2>3, <3>1, <3>2, <3>3 DEF FifoStep, Delivers
  <2> QED BY <2>2, <2>3, PeerIsTheOther
<1>3. ASSUME NEW o \in Ends, Resumption(o)
      PROVE  FifoStep(chan[e].tx_transcript, chan[Peer(e)].rx_transcript,
                      chan'[e].tx_transcript, chan'[Peer(e)].rx_transcript)
  <2>1. /\ chan' = [chan EXCEPT ![o] = chan'[o]]
        /\ chan'[o].rx_transcript = chan[o].rx_transcript
        /\ chan'[o].tx_transcript = chan[o].tx_transcript
    BY <1>0, <1>3, ResumptionDoes
  <2> QED BY <1>0, <2>1, PeerIsTheOther DEF FifoStep, Idles
<1>4. CASE UNCHANGED vars
  BY <1>4 DEF vars, FifoStep, Idles
<1> QED BY <1>1, <1>2, <1>3, <1>4, NextCases

-----------------------------------------------------------------------------
\* Channel objects, snapshots and packets stay within their types.
THEOREM TypesHold == ASSUME Careful PROVE Spec => []TypeOK
<1>1. IInv => TypeOK
  BY DEF IInv
<1> QED BY <1>1, AlwaysIInv, PTL

\* The packet that is next in order is accepted, whatever is reordered, repeated
\* or on the way to the peer, and however often the ends are stopped and resumed:
\* as long as no end takes a snapshot while a packet is on the way to it, or a
\* second one before its peer heard of the first; that peer seals nothing until
\* it heard of it; and an end resumes from a current snapshot.  The code asks for
\* none of this.
THEOREM NextInOrderOpens == ASSUME Careful PROVE Spec => []NextPacketOpens
<1>1. IInv => NextPacketOpens
  BY NextIsOpened
<1> QED BY <1>1, AlwaysIInv, PTL

\* What the initiator sealed is opened by the responder in order, each packet
\* once and none skipped; its transcript is a prefix of the initiator's.
THEOREM ResponderHearsInOrder == ASSUME Careful PROVE Spec => InitiatorIsHeardInOrder
<1>1. Init => ToResponder!Init
  BY DEF Init, ToResponder!Init, NewChannel, Ends
<1>2. IInv /\ [Next]_vars =>
         [ToResponder!Next]_<<chan["Initiator"].tx_transcript, chan["Responder"].rx_transcript>>
  <2> SUFFICES ASSUME IInv, [Next]_vars
               PROVE  [ToResponder!Next]_<<chan["Initiator"].tx_transcript,
                                           chan["Responder"].rx_transcript>>
    OBVIOUS
  <2>1. FifoStep(chan["Initiator"].tx_transcript, chan["Responder"].rx_transcript,
                 chan'["Initiator"].tx_transcript, chan'["Responder"].rx_transcript)
    BY EveryStepIsFifo DEF Ends, Peer
  <2> QED BY <2>1 DEF FifoStep, Idles, Sends, Delivers,
                      ToResponder!Next, ToResponder!Send, ToResponder!Deliver
<1> QED BY <1>1, <1>2, AlwaysIInv, PTL DEF Spec, InitiatorIsHeardInOrder, ToResponder!Spec

\* The same of what the responder sealed.
THEOREM InitiatorHearsInOrder == ASSUME Careful PROVE Spec => ResponderIsHeardInOrder
<1>1. Init => ToInitiator!Init
  BY DEF Init, ToInitiator!Init, NewChannel, Ends
<1>2. IInv /\ [Next]_vars =>
         [ToInitiator!Next]_<<chan["Responder"].tx_transcript, chan["Initiator"].rx_transcript>>
  <2> SUFFICES ASSUME IInv, [Next]_vars
               PROVE  [ToInitiator!Next]_<<chan["Responder"].tx_transcript,
                                           chan["Initiator"].rx_transcript>>
    OBVIOUS
  <2>1. FifoStep(chan["Responder"].tx_transcript, chan["Initiator"].rx_transcript,
                 chan'["Responder"].tx_transcript, chan'["Initiator"].rx_transcript)
    BY EveryStepIsFifo DEF Ends, Peer
  <2> QED BY <2>1 DEF FifoStep, Idles, Sends, Delivers,
                      ToInitiator!Next, ToInitiator!Send, ToInitiator!Deliver
<1> QED BY <1>1, <1>2, AlwaysIInv, PTL DEF Spec, ResponderIsHeardInOrder, ToInitiator!Spec
=============================================================================
