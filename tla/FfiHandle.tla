------------------------------ MODULE FfiHandle ------------------------------
(***************************************************************************)
(* CnMeshHandle behind its C interface: a mesh node, a dual-slot container *)
(* and a journal, called by one thread of a host that is stopped and       *)
(* started again.  Every function does all its work before write_output    *)
(* finds the caller's buffer too small; the host tries again with the      *)
(* length it was told.                                                     *)
(*                                                                         *)
(* The host keeps to this: it imports the file it has, then saves before   *)
(* it seals; it opens as a record what is refused in real time; it starts  *)
(* a journal with each handle; and it gives a handle up when a frame got   *)
(* lost or the sequence numbers ran out.  What this leaves to the code is  *)
(* what the properties say.                                                *)
(***************************************************************************)
EXTENDS ReplayWindow, Slots, WalFrames, PacketCodec

CONSTANTS
    Arriving,       \* bytes that arrive, any number of times each, by name
    Sent,           \* the names of those that are as another node sealed them
    AgreedAad(_),   \* the associated data agreed on for a sequence number
    Now, MaxDrift,  \* the clock, and max_time_drift_ms
    BootEpoch,      \* boot_epoch of every start
    SeqMax,         \* u64::MAX, for sequence numbers
    EpochMax,       \* u64::MAX, for epochs
    FirstCap,       \* size of the buffer the host first saves with
    Cuts,           \* where a power cut may truncate the host's write
    MaxSeals,       \* bound: packets sealed
    MaxSaves,       \* bound: exports that the host could leave out
    MaxStops        \* bound: times the host is stopped

ASSUME HandleAssumption ==
    /\ {Now, MaxDrift, BootEpoch, SeqMax, EpochMax, FirstCap} \subseteq Nat
    /\ {MaxSeals, MaxSaves, MaxStops} \subseteq Nat
    /\ BootEpoch <= EpochMax
    /\ Sent \subseteq DOMAIN Arriving
    /\ Cuts \subseteq {"slotA", "headB", "slotB"}

Seqs   == 0 .. SeqMax
Epochs == 0 .. EpochMax

\* What from_bytes makes of all that arrives.
Got == [m \in DOMAIN Arriving |-> PacketFromBytes(Arriving[m])]
Inbox == {m \in DOMAIN Got : Got[m] # Corrupt}

\* The names of the packets that open_persisted_record decrypts.
Genuine == {m \in Inbox :
    Got[m].version = 3 /\ Authentic(Got[m], AgreedAad(Got[m].sequence))}

\* A sequence number on the wire is a u64.
ASSUME WireAssumption == \A m \in Genuine : Got[m].sequence \in Seqs

\* Nobody else can compute a tag: each byte of one that arrives comes from a
\* packet that another node sealed.  Equal bytes have one name.
Octets == UNION {{Arriving[m][i] : i \in DOMAIN Arriving[m]} : m \in DOMAIN Arriving}
PlainBytes == [byte : 0 .. 255]
ASSUME InboxAssumption ==
    /\ \A m \in DOMAIN Arriving : Arriving[m] \in Seq(Octets)
    /\ \A b \in Octets : DOMAIN b = {"byte"} => b \in PlainBytes
    /\ \A b \in Octets : "tag" \in DOMAIN b =>
          \E s \in Sent : \E i \in DOMAIN Got[s].ciphertext : b = Got[s].ciphertext[i]
    /\ \A s \in Sent : LET p == Got[s] IN
          /\ p = SealV3(p.node_id, p.epoch, p.sequence, p.timestamp_ms,
                        AgreedAad(p.sequence), p.ciphertext[1].byte)
          /\ {p.node_id, p.epoch, p.sequence, p.timestamp_ms} \subseteq 0 .. 255
          /\ AgreedAad(p.sequence) \in Seq(PlainBytes)
    /\ \A s \in Sent, m \in DOMAIN Arriving : Arriving[s] = Arriving[m] => s = m

KeyOf(m) == <<Got[m].node_id, Got[m].epoch>>
Keys == {KeyOf(m) : m \in Genuine}
Peers == UNION {[ks -> WindowState(Seqs)] : ks \in SUBSET Keys}

\* known is a ghost: the packets that this state recorded.
Node == [epoch : Epochs, tx_seq : Seqs, peers : Peers, known : SUBSET Inbox]

VARIABLES
    phase,      \* where the host is
    node,       \* the ChronoMeshNode
    dual_slot,  \* the DualSlotContainer
    wal,        \* head_sha256 of the ChronoWalJournal
    cap,        \* size of the host's buffer for exports
    blob,       \* an exported container the host has not written yet
    file,       \* the container in the host's file
    journal,    \* the frames the host has of this handle
    read,       \* packets whose plaintext the host has
    issued,     \* ghost: (epoch, sequence) of every packet sealed
    safe,       \* ghost: packets that a completed save covers
    seals, saves, stops

memory == <<node, dual_slot, wal, cap, blob, journal>>
counts == <<seals, saves, stops>>
vars == <<phase, memory, file, read, issued, safe, counts>>

NoBlob == <<>>
NoFile == [exists |-> FALSE]
Live == {"unsaved", "serving", "spent"}

TypeOK ==
    /\ phase \in {"down", "new"} \cup Live
    /\ node \in Node
    /\ dual_slot \in Container(Node)
    /\ wal \in Seq(Epochs \X Seqs)
    /\ cap \in Nat
    /\ blob \in {NoBlob} \cup Container(Node)
    /\ file \in {NoFile, Unreadable} \cup Container(Node)
    /\ \A i \in DOMAIN journal : journal[i].prev \in Seq(Epochs \X Seqs)
    /\ {read, safe} \subseteq SUBSET Inbox
    /\ issued \subseteq Epochs \X Seqs
    /\ seals \in 0 .. MaxSeals /\ saves \in 0 .. MaxSaves /\ stops \in 0 .. MaxStops

-----------------------------------------------------------------------------
NewNode == [epoch |-> BootEpoch, tx_seq |-> 0, peers |-> <<>>, known |-> {}]

Emptied ==
    /\ node' = NewNode
    /\ dual_slot' = NewContainer
    /\ wal' = NewHead
    /\ cap' = FirstCap
    /\ blob' = NoBlob
    /\ journal' = <<>>

Init ==
    /\ phase = "down"
    /\ node = NewNode
    /\ dual_slot = NewContainer
    /\ wal = NewHead
    /\ cap = FirstCap
    /\ blob = NoBlob
    /\ journal = <<>>
    /\ file = NoFile
    /\ read = {}
    /\ issued = {}
    /\ safe = {}
    /\ seals = 0 /\ saves = 0 /\ stops = 0

\* cn_mesh_new
New ==
    /\ phase = "down"
    /\ Emptied
    /\ phase' = "new"
    /\ UNCHANGED <<file, read, issued, safe, counts>>

\* cn_mesh_free, or the host dies, at any time.
Free ==
    /\ phase # "down" /\ stops < MaxStops
    /\ Emptied
    /\ phase' = "down"
    /\ stops' = stops + 1
    /\ UNCHANGED <<file, read, issued, safe, seals, saves>>

-----------------------------------------------------------------------------
(* cn_mesh_import_dualslot_state                                           *)

Later(e) == IF e = EpochMax THEN EpochMax ELSE e + 1

\* Mutants: the epoch stays, the windows stay.
SameEpoch(n, saved) == [saved EXCEPT !.epoch = n.epoch]
SamePeers(n, saved) == [saved EXCEPT !.epoch = Later(@), !.peers = n.peers]

\* restore_checkpoint.  No packet has the number that stands for None.
Restored(n, saved) ==
    [saved EXCEPT !.epoch = IF n.epoch > Later(@) THEN n.epoch ELSE Later(@)]

\* A file that does not import leaves the host where it is.
Import ==
    /\ phase = "new"
    /\ file \notin {NoFile, Unreadable}
    /\ LatestValid(file) # NoBytes
    /\ node' = Restored(node, LatestValid(file).payload)
    /\ dual_slot' = file
    /\ phase' = "unsaved"
    /\ UNCHANGED <<wal, cap, blob, journal, file, read, issued, safe, counts>>

NothingToImport ==
    /\ phase = "new" /\ file = NoFile
    /\ phase' = "unsaved"
    /\ UNCHANGED <<memory, file, read, issued, safe, counts>>

-----------------------------------------------------------------------------
(* cn_mesh_export_dualslot_state                                           *)

\* In units of a peer's entry; the rest of a checkpoint is one unit.
SlotSize(slot) ==
    IF slot = NoBytes THEN 0 ELSE 1 + Cardinality(DOMAIN slot.payload.peers)
Size(c) == SlotSize(c.slot_a) + SlotSize(c.slot_b)

\* write_output: whether size bytes fit, and the length that is told.
WriteOutputLate(size, room) ==              \* mutant: the length is told on success
    [ok |-> size <= room, out_len |-> IF size <= room THEN size ELSE 0]
WriteOutput(size, room) == [ok |-> size <= room, out_len |-> size]

\* The commit stands whether or not the bytes fit.
Export ==
    LET committed == Committed(dual_slot, node)
        out       == WriteOutput(Size(committed), cap)
    IN
    /\ phase \in Live /\ blob = NoBlob
    /\ phase = "unsaved" \/ saves < MaxSaves
    /\ saves' = IF phase = "unsaved" THEN saves ELSE saves + 1
    /\ GenFits(NextGen(dual_slot))
    /\ dual_slot' = committed
    /\ blob' = IF out.ok THEN committed ELSE NoBlob
    /\ cap' = IF out.ok THEN cap ELSE out.out_len
    /\ UNCHANGED <<phase, node, wal, journal, file, read, issued, safe, seals, stops>>

\* The host writes the bytes to its file.
WriteBlob ==
    /\ blob # NoBlob
    /\ file' = blob
    /\ blob' = NoBlob
    /\ safe' = safe \cup LatestValid(blob).payload.known
    /\ phase' = IF phase = "unsaved" THEN "serving" ELSE phase
    /\ UNCHANGED <<node, dual_slot, wal, cap, journal, read, issued, counts>>

\* Power fails while it does.
CutInWrite(cut) ==
    /\ blob # NoBlob /\ stops < MaxStops
    /\ file' = FromBytes(blob, cut)
    /\ Emptied
    /\ phase' = "down"
    /\ stops' = stops + 1
    /\ UNCHANGED <<read, issued, safe, seals, saves>>

-----------------------------------------------------------------------------
(* cn_mesh_seal_realtime and cn_mesh_seal_wal_frame                        *)

\* seal_realtime: fetch_add wraps, and the call that takes the last number fails.
NextSeq(seq) == (seq + 1) % (SeqMax + 1)

TakesLast == node.tx_seq = SeqMax
Identity == <<node.epoch, node.tx_seq>>

Seal ==
    /\ phase = "serving" /\ (seals < MaxSeals \/ TakesLast)
    /\ seals' = IF TakesLast THEN seals ELSE seals + 1
    /\ node' = [node EXCEPT !.tx_seq = NextSeq(@)]
    /\ issued' = IF TakesLast THEN issued ELSE issued \cup {Identity}

\* A packet that does not fit is sealed and lost.
SealRealtime ==
    /\ Seal
    /\ phase' = IF TakesLast THEN "spent" ELSE phase
    /\ UNCHANGED <<dual_slot, wal, cap, blob, journal, file, read, safe, saves, stops>>

\* Mutant: the frame carries the hash that includes it.
FrameAfter == [prev |-> Hash(wal, Identity), packet |-> Identity, torn |-> FALSE]
Frame == [prev |-> wal, packet |-> Identity, torn |-> FALSE]

\* A frame that does not fit is in the chain and lost.
SealWalFrame(fits) ==
    /\ Seal
    /\ phase' = IF TakesLast \/ ~fits THEN "spent" ELSE phase
    /\ wal' = IF TakesLast THEN wal ELSE Hash(wal, Identity)
    /\ journal' = IF TakesLast \/ ~fits THEN journal ELSE Append(journal, Frame)
    /\ UNCHANGED <<dual_slot, cap, blob, file, read, safe, saves, stops>>

-----------------------------------------------------------------------------
(* cn_mesh_open_realtime and cn_mesh_open_persisted                        *)

Apart(s, t) == IF s > t THEN s - t ELSE t - s
Expired(m) == Apart(Now, Got[m].timestamp_ms) > MaxDrift

InWindow(n, m) ==
    KeyOf(m) \in DOMAIN n.peers => Check(n.peers[KeyOf(m)], Got[m].sequence) = "Ok"

AcceptsNow(n, m) == ~Expired(m) /\ InWindow(n, m) /\ m \in Genuine

AcceptsRecordInWindow(n, m) == AcceptsNow(n, m)     \* mutant
AcceptsRecord(n, m) == m \in Genuine

WindowOf(n, m) == IF KeyOf(m) \in DOMAIN n.peers THEN n.peers[KeyOf(m)] ELSE Fresh

\* insert of a BTreeMap
Inserted(map, k, w) ==
    [j \in {k} \cup DOMAIN map |-> IF j = k THEN w ELSE map[j]]

Recorded(n, m) ==
    [n EXCEPT
        !.peers = Inserted(@, KeyOf(m), Record(WindowOf(n, m), Got[m].sequence)),
        !.known = @ \cup {m}]

\* The packet is recorded whether or not the plaintext fits.
OpenRealtime(m, fits) ==
    /\ phase \in Live
    /\ AcceptsNow(node, m)
    /\ node' = Recorded(node, m)
    /\ read' = IF fits THEN read \cup {m} ELSE read
    /\ UNCHANGED <<phase, dual_slot, wal, cap, blob, journal, file, issued, safe, counts>>

\* The host's way to a packet that cn_mesh_open_realtime refuses.
OpenPersisted(m) ==
    /\ phase \in Live
    /\ m \notin read /\ ~AcceptsNow(node, m)
    /\ AcceptsRecord(node, m)
    /\ read' = read \cup {m}
    /\ UNCHANGED <<phase, memory, file, issued, safe, counts>>

-----------------------------------------------------------------------------
Next ==
    \/ New \/ Free \/ Import \/ NothingToImport
    \/ Export \/ WriteBlob
    \/ \E cut \in Cuts : CutInWrite(cut)
    \/ SealRealtime
    \/ \E fits \in BOOLEAN : SealWalFrame(fits)
    \/ \E m \in Inbox, fits \in BOOLEAN : OpenRealtime(m, fits)
    \/ \E m \in Inbox : OpenPersisted(m)

\* The host starts again, saves before it serves, and opens what arrives.
Fairness ==
    /\ WF_vars(New) /\ WF_vars(Import) /\ WF_vars(NothingToImport)
    /\ WF_vars(phase = "unsaved" /\ Export) /\ WF_vars(WriteBlob)
    /\ \A m \in Sent :
          WF_vars(\E fits \in BOOLEAN : OpenRealtime(m, fits)) /\ WF_vars(OpenPersisted(m))

Spec == Init /\ [][Next]_vars /\ Fairness

-----------------------------------------------------------------------------
\* No two packets are sealed under one epoch and sequence number, over stops,
\* torn writes and the end of the sequence numbers (chrono.rs:446-448).
UniqueIdentity == Cardinality(issued) = seals

\* What a completed save covers is refused in real time for good: whichever
\* slot an import falls back to, its windows know it.
SavedIsRefused ==
    phase \in Live => \A m \in safe : ~InWindow(node, m)

\* The frames of a host that gives its handle up when one got lost are one
\* unbroken chain, so that recovery returns them all.
JournalIsWhole == Intact(journal) = Len(journal)

\* Bytes that were cut short or changed on the way are never taken for a packet.
OnlySealedIsRead == read \cup node.known \subseteq Sent

\* No arrival is lost to a small buffer, a late clock, a window or a stop.
EveryArrivalIsRead == \A m \in Sent : <>(m \in read)

\* A host that was stopped serves again: its file imports, and a save that is
\* tried with the length it was told fits in the end, though each try commits
\* and may make the container larger.
ServesAgain == phase = "down" ~> phase = "serving"
=============================================================================
