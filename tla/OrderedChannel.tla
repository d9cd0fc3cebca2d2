---------------------------- MODULE OrderedChannel ----------------------------
(***************************************************************************)
(* CryptoNugget, the ordered ratcheting channel, with its two ends, and    *)
(* the snapshots by which an end is stopped and resumed (export_state,     *)
(* import_state, mark_resumed).                                            *)
(*                                                                         *)
(* A key is the number of times it was ratcheted, a transcript hash is the *)
(* sequence of what was hashed into it.  The wire loses nothing and may    *)
(* reorder and repeat; a refused packet changes nothing and is not a step. *)
(*                                                                         *)
(* Careful is an assumption about the application that neither the code    *)
(* nor its comments state: an end takes a snapshot only when nothing is on *)
(* the way to it and its peer has heard of the snapshot before, and an end *)
(* that is behind by a snapshot waits to be spoken to.  Without it an end  *)
(* does whatever the API allows.                                           *)
(***************************************************************************)
EXTENDS Naturals, Sequences

CONSTANTS
    SeqMax,         \* u64::MAX, for sequence numbers
    EpochMax,       \* u64::MAX, for epochs
    MaxSeals,       \* bound: packets an end seals, over all its resumptions
    Careful

ASSUME OrderedAssumption ==
    /\ {SeqMax, EpochMax, MaxSeals} \subseteq Nat
    /\ Careful \in BOOLEAN

Ends == {"Initiator", "Responder"}
Peer(e) == IF e = "Initiator" THEN "Responder" ELSE "Initiator"

Seqs   == 0 .. SeqMax
Epochs == 0 .. EpochMax
Msgs   == 1 .. MaxSeals

VARIABLES
    chan,       \* the channel object of each end
    snap,       \* the newest snapshot of each end, a set of at most one
    wire,       \* every packet ever sealed
    sealed      \* how many packets each end sealed; names the messages

vars == <<chan, snap, wire, sealed>>

\* The tag covers epoch and seq; key is the one it was computed with.
Packet == [from : Ends, seq : Seqs, epoch : Epochs, key : Nat, msg : Msgs]

Entry == [epoch : Epochs, seq : Seqs, msg : Msgs]

Channel == [tx_seq : Seqs, rx_seq : Seqs, tx_key : Nat, rx_key : Nat,
            epoch : Epochs, requires_resume_ack : BOOLEAN,
            tx_transcript : Seq(Entry), rx_transcript : Seq(Entry)]

TypeOK ==
    /\ chan \in [Ends -> Channel]
    /\ snap \in [Ends -> SUBSET Channel]
    /\ wire \subseteq Packet
    /\ sealed \in [Ends -> 0 .. MaxSeals]

NewChannel == [tx_seq |-> 0, rx_seq |-> 0, tx_key |-> 0, rx_key |-> 0,
               epoch |-> 0, requires_resume_ack |-> FALSE,
               tx_transcript |-> <<>>, rx_transcript |-> <<>>]

Init ==
    /\ chan = [e \in Ends |-> NewChannel]
    /\ snap = [e \in Ends |-> {}]
    /\ wire = {}
    /\ sealed = [e \in Ends |-> 0]

-----------------------------------------------------------------------------
(* What a careful application waits for.                                   *)

\* Nothing is on the way to the end, which would find it an epoch ahead (and
\* no candidate is an earlier epoch), and the peer knows of the last snapshot.
MaySnapshot(e) ==
    /\ chan[Peer(e)].tx_seq = chan[e].rx_seq
    /\ chan[e].epoch = chan[Peer(e)].epoch

\* A peer that took a snapshot speaks first.
MaySpeak(e) == chan[e].epoch >= chan[Peer(e)].epoch

\* Nothing was sealed or opened since the snapshot.
Current(e, s) == s = [chan[e] EXCEPT !.requires_resume_ack = s.requires_resume_ack]

-----------------------------------------------------------------------------
\* mutar_clave
Ratchet(key) == key + 1

HasNextUnchecked(seq) == TRUE         \* mutant: checked_add is left out
HasNext(seq) == seq < SeqMax

\* cifrar_bytes_with_aad
Seal(e) ==
    LET c == chan[e]
        m == sealed[e] + 1
    IN
    /\ ~c.requires_resume_ack
    /\ HasNext(c.tx_seq)
    /\ sealed[e] < MaxSeals
    /\ Careful => MaySpeak(e)
    /\ wire' = wire \cup {[from |-> e, seq |-> c.tx_seq, epoch |-> c.epoch,
                           key |-> c.tx_key, msg |-> m]}
    /\ chan' = [chan EXCEPT
          ![e].tx_transcript = Append(@, [epoch |-> c.epoch, seq |-> c.tx_seq, msg |-> m]),
          ![e].tx_key = Ratchet(@),
          ![e].tx_seq = @ + 1]
    /\ sealed' = [sealed EXCEPT ![e] = m]
    /\ UNCHANGED snap

\* Mutant: the transition is only tried from epoch 0 (the bug of ordered.rs:234).
EpochCandidatesFromZero(c) == IF c.epoch = 0 THEN {0, 1} ELSE {c.epoch}

EpochCandidates(c) == {c.epoch, IF c.epoch = EpochMax THEN EpochMax ELSE c.epoch + 1}

Accepts(e, p) ==
    /\ p.from = Peer(e)
    /\ p.seq = chan[e].rx_seq
    /\ HasNext(p.seq)
    /\ p.key = chan[e].rx_key
    /\ p.epoch \in EpochCandidates(chan[e])

HashedEpochOfChannel(e, p) == chan[e].epoch     \* mutant: not the packet's
HashedEpoch(e, p) == p.epoch

\* descifrar_bytes_with_aad, of a packet it accepts
Open(e, p) ==
    /\ ~chan[e].requires_resume_ack
    /\ Accepts(e, p)
    /\ chan' = [chan EXCEPT
          ![e].rx_transcript =
              Append(@, [epoch |-> HashedEpoch(e, p), seq |-> p.seq, msg |-> p.msg]),
          ![e].rx_key = Ratchet(@),
          ![e].rx_seq = @ + 1,
          ![e].epoch = p.epoch]
    /\ UNCHANGED <<snap, wire, sealed>>

\* The channel object lives on after export_state, in the new epoch.
ExportState(e) ==
    /\ chan[e].epoch < EpochMax
    /\ Careful => MaySnapshot(e)
    /\ chan' = [chan EXCEPT ![e].epoch = @ + 1]
    /\ snap' = [snap EXCEPT ![e] = {chan'[e]}]
    /\ UNCHANGED <<wire, sealed>>

\* The process starts again from its newest snapshot.
ImportState(e) ==
    \E s \in snap[e] :
        /\ Careful => Current(e, s)
        /\ chan' = [chan EXCEPT ![e] = [s EXCEPT !.requires_resume_ack = TRUE]]
        /\ UNCHANGED <<snap, wire, sealed>>

MarkResumed(e) ==
    /\ chan' = [chan EXCEPT ![e].requires_resume_ack = FALSE]
    /\ UNCHANGED <<snap, wire, sealed>>

Next == \E e \in Ends :
    \/ Seal(e)
    \/ \E p \in wire : Open(e, p)
    \/ ExportState(e)
    \/ ImportState(e)
    \/ MarkResumed(e)

\* A packet that can be opened is opened; an operator who restarts an end
\* acknowledges it.
Fairness == \A e \in Ends :
    WF_vars(\E p \in wire : Open(e, p)) /\ WF_vars(MarkResumed(e))

Spec == Init /\ [][Next]_vars /\ Fairness

-----------------------------------------------------------------------------
Due(e) == {p \in wire : p.from = Peer(e) /\ p.seq = chan[e].rx_seq}

\* A packet that is next in order can be opened: neither end is ever more
\* than one epoch, or one key, away from what its peer sealed.
NextPacketOpens == \A e \in Ends : \A p \in Due(e) : Accepts(e, p)

\* Each direction delivers in order, once and without a gap, and the two
\* transcripts agree entry by entry, whatever is reordered or repeated.
ToResponder == INSTANCE FifoChannel
    WITH Msgs <- Entry, sent <- chan["Initiator"].tx_transcript,
         delivered <- chan["Responder"].rx_transcript

ToInitiator == INSTANCE FifoChannel
    WITH Msgs <- Entry, sent <- chan["Responder"].tx_transcript,
         delivered <- chan["Initiator"].rx_transcript

InitiatorIsHeardInOrder == ToResponder!Spec
ResponderIsHeardInOrder == ToInitiator!Spec

\* Everything sealed is opened in the end, across stops and resumptions.
AllDelivered ==
    \A e \in Ends : \A k \in 1 .. SeqMax :
        chan[e].tx_seq >= k ~> chan[Peer(e)].rx_seq >= k

\* ordered.rs:5 promises transitions N -> N+1 for every N, and that a second
\* snapshot no longer blocks the channel: the next packet of an end that took
\* snapshots, sealed with the key its peer expects, is opened.
SnapshotsNeverBlock ==
    \A e \in Ends : \A p \in Due(e) :
        p.key = chan[e].rx_key /\ chan[e].epoch <= p.epoch => Accepts(e, p)
=============================================================================
