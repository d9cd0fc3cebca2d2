------------------------------ MODULE ChronoMesh ------------------------------
(***************************************************************************)
(* ChronoMeshNode: every node of a mesh seals without a lock, from two     *)
(* atomics (epoch, tx_seq), and opens under a mutex (rx_state: the peers'  *)
(* anti-replay windows and the multiset digest of all packets).  The       *)
(* threads of a node share it by reference, so each handler is split at    *)
(* every atomic access and every critical section.                         *)
(*                                                                         *)
(* A call that returns an error before it touches the node (another wire   *)
(* version, a timestamp out of the drift, an undecodable checkpoint) is    *)
(* not a step.  The digest is XORed from packet digests, hence a set under *)
(* symmetric difference.                                                   *)
(***************************************************************************)
EXTENDS ReplayWindow, Sequences

CONSTANTS
    Nodes,
    Threads,
    Home,           \* the node a thread calls
    Duty,           \* the calls a thread makes: seal, open, export, restore
    BootEpoch,      \* the epoch the application passes to new
    SeqMax,         \* u64::MAX, for sequence numbers
    EpochMax,       \* u64::MAX, for epochs
    MaxSeals,       \* bound: sequence numbers taken over all nodes
    MaxExports,     \* bound: checkpoints a node exports
    MaxCrashes      \* bound: crashes over all nodes

ASSUME MeshAssumption ==
    /\ Home \in [Threads -> Nodes]
    /\ Duty \in [Threads -> SUBSET {"seal", "open", "export", "restore"}]
    /\ {SeqMax, EpochMax, MaxSeals, MaxExports, MaxCrashes} \subseteq Nat
    /\ BootEpoch \in 0 .. EpochMax

Seqs   == 0 .. SeqMax
Epochs == 0 .. EpochMax

VARIABLES
    epoch, txSeq,   \* the two atomics of each node
    rx,             \* the mutex content of each node: peers and digest
    call,           \* where each thread is in the call it makes
    wire,           \* every packet a seal returned
    disk,           \* checkpoints each node exported, oldest first
    log,            \* ghost: what each node's digest should stand for
    twice,          \* ghost: packets a node opened though its log has them
    sealed,         \* sequence numbers taken so far; names the packets
    crashes         \* crashes so far

node == <<epoch, txSeq, rx, log, twice>>
vars == <<node, call, wire, disk, sealed, crashes>>

\* msg stands for the plaintext, aad and timestamp: no two calls seal the same.
Packet == [node : Nodes, epoch : Epochs, seq : Seqs, msg : 1 .. MaxSeals]

Keys == Nodes \X Epochs         \* of the BTreeMap; absent keys read as Fresh
KeyOf(p) == <<p.node, p.epoch>>

RxTracker == [peers : [Keys -> WindowState(Seqs)], digest : SUBSET Packet]
Log == [mine : SUBSET Packet, got : SUBSET Packet]
Checkpoint == [epoch : Epochs, seq : Seqs, rx : RxTracker, log : Log]

Idle == [at |-> "Idle"]

Call == {Idle} \cup [at : {"SealTake"}, epoch : Epochs]
    \cup [at : {"SealFold", "OpenFinish"}, packet : Packet]
    \cup [at : {"ExportEpoch"}]
    \cup [at : {"ExportSeq"}, epoch : Epochs]
    \cup [at : {"ExportCopy"}, epoch : Epochs, seq : Seqs]
    \cup [at : {"RestoreEpoch"}, epoch : Epochs, ckpt : Checkpoint]
    \cup [at : {"RestoreSeq", "RestorePeers"}, ckpt : Checkpoint]

TypeOK ==
    /\ epoch \in [Nodes -> Epochs]
    /\ txSeq \in [Nodes -> Seqs]
    /\ rx \in [Nodes -> RxTracker]
    /\ call \in [Threads -> Call]
    /\ wire \subseteq Packet
    /\ disk \in [Nodes -> Seq(Checkpoint)]
    /\ log \in [Nodes -> Log]
    /\ twice \in [Nodes -> SUBSET Packet]
    /\ sealed \in 0 .. MaxSeals
    /\ crashes \in 0 .. MaxCrashes

EmptyRx  == [peers |-> [k \in Keys |-> Fresh], digest |-> {}]
EmptyLog == [mine |-> {}, got |-> {}]

Init ==
    /\ epoch = [n \in Nodes |-> BootEpoch]
    /\ txSeq = [n \in Nodes |-> 0]
    /\ rx = [n \in Nodes |-> EmptyRx]
    /\ call = [t \in Threads |-> Idle]
    /\ wire = {}
    /\ disk = [n \in Nodes |-> <<>>]
    /\ log = [n \in Nodes |-> EmptyLog]
    /\ twice = [n \in Nodes |-> {}]
    /\ sealed = 0
    /\ crashes = 0

-----------------------------------------------------------------------------
SymDiff(A, B) == (A \ B) \cup (B \ A)

\* Mutant: the packet digest leaves nonce and tag out.
FoldIdentity(digest, p) == SymDiff(digest, {[p EXCEPT !.msg = 1]})

\* fold_packet_into_integrity_hash
Fold(digest, p) == SymDiff(digest, {p})

\* restore_checkpoint reads a highest_seen of u64::MAX as None.  (An entry of the
\* map always has one, and what stands for an absent entry is not written.)
DecodedZeroIsNone(w) ==         \* mutant: 0 is read as None
    IF w.highest = 0 THEN [w EXCEPT !.highest = NoneSeen] ELSE w
Decoded(w) == IF w.highest = SeqMax THEN [w EXCEPT !.highest = NoneSeen] ELSE w

At(t, place) == call[t].at = place
Starts(t, duty) == At(t, "Idle") /\ duty \in Duty[t]
Goto(t, c) == call' = [call EXCEPT ![t] = c]

\* Mutant: export_checkpoint reads the atomics after it released the lock.
LockedNever(n) == FALSE

\* export_checkpoint keeps rx_state locked while it reads the atomics.
Locked(n) == \E t \in Threads :
    Home[t] = n /\ call[t].at \in {"ExportEpoch", "ExportSeq", "ExportCopy"}

-----------------------------------------------------------------------------
(* seal_realtime                                                           *)

SealEpoch(t) ==
    /\ Starts(t, "seal")
    /\ Goto(t, [at |-> "SealTake", epoch |-> epoch[Home[t]]])
    /\ UNCHANGED <<node, wire, disk, sealed, crashes>>

\* fetch_add wraps.  The call ends in an error at u64::MAX, or when the aad
\* is too long; the sequence number is spent either way.
SealTake(t, aadFits) ==
    LET n == Home[t] IN
    /\ At(t, "SealTake")
    /\ sealed < MaxSeals
    /\ txSeq' = [txSeq EXCEPT ![n] = (@ + 1) % (SeqMax + 1)]
    /\ sealed' = sealed + 1
    /\ Goto(t, IF txSeq[n] # SeqMax /\ aadFits
               THEN [at |-> "SealFold",
                     packet |-> [node |-> n, epoch |-> call[t].epoch,
                                 seq |-> txSeq[n], msg |-> sealed + 1]]
               ELSE Idle)
    /\ UNCHANGED <<epoch, rx, wire, disk, log, twice, crashes>>

SealFold(t) ==
    LET n == Home[t]
        p == call[t].packet
    IN
    /\ At(t, "SealFold")
    /\ ~Locked(n)
    /\ rx' = [rx EXCEPT ![n].digest = Fold(@, p)]
    /\ log' = [log EXCEPT ![n].mine = @ \cup {p}]
    /\ wire' = wire \cup {p}
    /\ Goto(t, Idle)
    /\ UNCHANGED <<epoch, txSeq, disk, twice, sealed, crashes>>

-----------------------------------------------------------------------------
(* open_realtime                                                           *)

OpenCheck(t, p) ==
    /\ Starts(t, "open")
    /\ ~Locked(Home[t])
    /\ Check(rx[Home[t]].peers[KeyOf(p)], p.seq) = "Ok"
    /\ Goto(t, [at |-> "OpenFinish", packet |-> p])
    /\ UNCHANGED <<node, wire, disk, sealed, crashes>>

\* The nonce or the tag does not verify, for instance under another aad.
OpenUnauthentic(t) ==
    /\ At(t, "OpenFinish")
    /\ Goto(t, Idle)
    /\ UNCHANGED <<node, wire, disk, sealed, crashes>>

RecheckSkipped(n, p) == TRUE     \* mutant: only the first check counts
Recheck(n, p) == Check(rx[n].peers[KeyOf(p)], p.seq) = "Ok"

OpenFinish(t) ==
    LET n == Home[t]
        p == call[t].packet
        k == KeyOf(p)
    IN
    /\ At(t, "OpenFinish")
    /\ ~Locked(n)
    /\ IF Recheck(n, p)
       THEN /\ rx' = [rx EXCEPT ![n].peers[k] = Record(@, p.seq),
                                ![n].digest = Fold(@, p)]
            /\ log' = [log EXCEPT ![n].got = @ \cup {p}]
            /\ twice' = [twice EXCEPT ![n] = @ \cup (log[n].got \cap {p})]
       ELSE UNCHANGED <<rx, log, twice>>
    /\ Goto(t, Idle)
    /\ UNCHANGED <<epoch, txSeq, wire, disk, sealed, crashes>>

-----------------------------------------------------------------------------
(* export_checkpoint                                                       *)

ExportLock(t) ==
    /\ Starts(t, "export")
    /\ ~Locked(Home[t])
    /\ Len(disk[Home[t]]) < MaxExports
    /\ Goto(t, [at |-> "ExportEpoch"])
    /\ UNCHANGED <<node, wire, disk, sealed, crashes>>

ExportEpoch(t) ==
    /\ At(t, "ExportEpoch")
    /\ Goto(t, [at |-> "ExportSeq", epoch |-> epoch[Home[t]]])
    /\ UNCHANGED <<node, wire, disk, sealed, crashes>>

ExportSeq(t) ==
    /\ At(t, "ExportSeq")
    /\ Goto(t, [at |-> "ExportCopy", epoch |-> call[t].epoch, seq |-> txSeq[Home[t]]])
    /\ UNCHANGED <<node, wire, disk, sealed, crashes>>

ExportCopy(t) ==
    LET n == Home[t] IN
    /\ At(t, "ExportCopy")
    /\ disk' = [disk EXCEPT ![n] = Append(@,
          [epoch |-> call[t].epoch, seq |-> call[t].seq, rx |-> rx[n], log |-> log[n]])]
    /\ Goto(t, Idle)
    /\ UNCHANGED <<node, wire, sealed, crashes>>

-----------------------------------------------------------------------------
(* restore_checkpoint                                                      *)

\* saturating_add
SameEpoch(ckpt) == ckpt.epoch       \* mutant: the epoch does not advance
NextEpoch(ckpt) == IF ckpt.epoch = EpochMax THEN EpochMax ELSE ckpt.epoch + 1

RestoreLoad(t, ckpt) ==
    LET n == Home[t] IN
    /\ Starts(t, "restore")
    /\ Goto(t, [at |-> "RestoreEpoch", ckpt |-> ckpt,
                epoch |-> IF epoch[n] > NextEpoch(ckpt) THEN epoch[n]
                                                      ELSE NextEpoch(ckpt)])
    /\ UNCHANGED <<node, wire, disk, sealed, crashes>>

RestoreEpoch(t) ==
    /\ At(t, "RestoreEpoch")
    /\ epoch' = [epoch EXCEPT ![Home[t]] = call[t].epoch]
    /\ Goto(t, [at |-> "RestoreSeq", ckpt |-> call[t].ckpt])
    /\ UNCHANGED <<txSeq, rx, wire, disk, log, twice, sealed, crashes>>

RestoreSeq(t) ==
    /\ At(t, "RestoreSeq")
    /\ txSeq' = [txSeq EXCEPT ![Home[t]] = call[t].ckpt.seq]
    /\ Goto(t, [at |-> "RestorePeers", ckpt |-> call[t].ckpt])
    /\ UNCHANGED <<epoch, rx, wire, disk, log, twice, sealed, crashes>>

RestorePeers(t) ==
    LET n == Home[t]
        c == call[t].ckpt
    IN
    /\ At(t, "RestorePeers")
    /\ ~Locked(n)
    /\ rx' = [rx EXCEPT ![n] =
                [c.rx EXCEPT !.peers = [k \in Keys |-> Decoded(@[k])]]]
    /\ log' = [log EXCEPT ![n] = c.log]
    /\ Goto(t, Idle)
    /\ UNCHANGED <<epoch, txSeq, wire, disk, twice, sealed, crashes>>

-----------------------------------------------------------------------------
\* The process of a node dies and new builds it again: only disk survives.
Crash(n) ==
    /\ crashes < MaxCrashes
    /\ crashes' = crashes + 1
    /\ epoch' = [epoch EXCEPT ![n] = BootEpoch]
    /\ txSeq' = [txSeq EXCEPT ![n] = 0]
    /\ rx' = [rx EXCEPT ![n] = EmptyRx]
    /\ log' = [log EXCEPT ![n] = EmptyLog]
    /\ call' = [t \in Threads |-> IF Home[t] = n THEN Idle ELSE call[t]]
    /\ UNCHANGED <<wire, disk, twice, sealed>>

Seal(t) == SealEpoch(t) \/ (\E aadFits \in BOOLEAN : SealTake(t, aadFits)) \/ SealFold(t)
Open(t) == (\E p \in wire : OpenCheck(t, p)) \/ OpenUnauthentic(t) \/ OpenFinish(t)
Export(t) == ExportLock(t) \/ ExportEpoch(t) \/ ExportSeq(t) \/ ExportCopy(t)

CheckpointsOf(n) == {disk[n][i] : i \in 1 .. Len(disk[n])}

Restore(t) ==
    \/ \E ckpt \in CheckpointsOf(Home[t]) : RestoreLoad(t, ckpt)
    \/ RestoreEpoch(t) \/ RestoreSeq(t) \/ RestorePeers(t)

Next ==
    \/ \E t \in Threads : Seal(t) \/ Open(t) \/ Export(t) \/ Restore(t)
    \/ \E n \in Nodes : Crash(n)

Spec == Init /\ [][Next]_vars

-----------------------------------------------------------------------------
\* Every node's windows say exactly which packets of each peer and epoch it
\* opened, however its threads interleave, and also after a restore.
PeersExact ==
    \A n \in Nodes, k \in Keys :
        Exact(rx[n].peers[k], {p.seq : p \in {q \in log[n].got : KeyOf(q) = k}})

\* current_integrity_sha256 stands for the packets the node sealed and the
\* packets it opened, each folded once.
IntegrityExact ==
    \A n \in Nodes : rx[n].digest = SymDiff(log[n].mine, log[n].got)

\* Two threads that open the same packet at once do not both deliver it,
\* although the first check and the record are separate critical sections.
DeliveredOnce == \A n \in Nodes : twice[n] = {}

\* verify_integrity_checkpoint between two nodes: when no node opened a packet
\* of its own and the digests agree, no packet between the two was lost.
EqualDigestsMeanNoLoss ==
    (\A n \in Nodes : \A p \in log[n].got : p.node # n) =>
    \A a, b \in Nodes :
        rx[a].digest = rx[b].digest =>
            \A p \in log[a].mine : p.node = a /\ a # b => p \in log[b].got

\* The identity (node, epoch, seq) that keys a packet is never given to two
\* packets (chrono.rs:446-448).
UniqueIdentity ==
    \A p, q \in wire :
        p.node = q.node /\ p.epoch = q.epoch /\ p.seq = q.seq => p = q

\* A checkpoint's counter is past every packet of its epoch in its digest, so
\* a node restored from it never takes a number that the digest has already.
CheckpointCoversDigest ==
    \A n \in Nodes : \A c \in CheckpointsOf(n) :
        \A p \in c.log.mine : p.epoch = c.epoch => p.seq < c.seq
=============================================================================
