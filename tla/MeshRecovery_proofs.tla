------------------------- MODULE MeshRecovery_proofs -------------------------
(***************************************************************************)
(* For any number of threads, power cuts and checkpoints: an application   *)
(* that saves before its first seal and after each restore, that seals     *)
(* nothing while it restores, and whose nodes take at most SeqMax numbers  *)
(* altogether, never gives one identity to two packets.  The recovery is a *)
(* way of using ChronoMesh, so what ChronoMesh_proofs shows holds here     *)
(* too.                                                                    *)
(***************************************************************************)
EXTENDS MeshRecovery, ChronoMesh_proofs

-----------------------------------------------------------------------------
(* The inductive invariant.  Packets that a thread is about to fold have   *)
(* their identity already, so they count as issued.  Every epoch a packet  *)
(* was issued in is on disk: a node serves only in the epoch of its newest *)
(* checkpoint, and restores to a later one.                                *)

Exports  == {"ExportEpoch", "ExportSeq", "ExportCopy"}
Restores == {"RestoreEpoch", "RestoreSeq", "RestorePeers"}

Issued == wire \cup {call[t].packet : t \in {u \in Threads : At(u, "SealFold")}}

IssuedUnique ==
    \A p, q \in Issued :
        p.node = q.node /\ p.epoch = q.epoch /\ p.seq = q.seq => p = q

Saved(n) == disk[n] # <<>>

IssuedSaved ==
    \A p \in Issued : Saved(p.node) /\ p.epoch <= Newest(p.node).epoch

Covers(seq, e, packets) == \A p \in packets : p.epoch = e => p.seq < seq

NodeSound(n) ==
    /\ txSeq[n] <= sealed
    /\ \A c \in CheckpointsOf(n) : c.seq <= sealed /\ Covers(c.seq, c.epoch, c.log.mine)
    /\ phase[n] = "serving" =>
          /\ Saved(n) /\ Newest(n).epoch = epoch[n]
          /\ Covers(txSeq[n], epoch[n], {p \in Issued : p.node = n})
    /\ phase[n] = "saving" /\ Saved(n) => Newest(n).epoch < epoch[n]
    /\ phase[n] = "restoring" => Saved(n) /\ Newest(n).epoch < EpochMax

CallSound(t) ==
    LET n == Home[t] IN
    /\ At(t, "SealTake") => phase[n] = "serving" /\ call[t].epoch = epoch[n]
    /\ call[t].at \in Exports => phase[n] # "restoring"
    /\ call[t].at \in {"ExportSeq", "ExportCopy"} => call[t].epoch = epoch[n]
    /\ At(t, "ExportCopy") =>
          call[t].seq <= sealed /\ Covers(call[t].seq, call[t].epoch, log[n].mine)
    /\ call[t].at \in Restores => phase[n] = "restoring" /\ call[t].ckpt = Newest(n)
    /\ At(t, "RestoreEpoch") => call[t].epoch > Newest(n).epoch
    /\ call[t].at \in {"RestoreSeq", "RestorePeers"} => epoch[n] > Newest(n).epoch

OneRestorer ==
    \A t, u \in Threads :
        Home[t] = Home[u] /\ call[t].at \in Restores /\ call[u].at \in Restores => t = u

RecoverySound ==
    /\ phase \in [Nodes -> Phases]
    /\ IssuedUnique
    /\ IssuedSaved
    /\ \A n \in Nodes : NodeSound(n)
    /\ \A t \in Threads : CallSound(t)
    /\ OneRestorer

RInv == IInv /\ RecoverySound

-----------------------------------------------------------------------------
LEMMA RTypes ==
    ASSUME RInv, NEW n \in Nodes
    PROVE  /\ TypeOK /\ phase[n] \in Phases
           /\ epoch[n] \in Int /\ txSeq[n] \in Int /\ sealed \in Int
           /\ disk[n] \in Seq(Checkpoint)
           /\ Saved(n) => /\ Newest(n) \in Checkpoint /\ Newest(n).epoch \in Int
                          /\ Newest(n) \in CheckpointsOf(n)
<1>1. TypeOK /\ phase[n] \in Phases
  BY DEF RInv, RecoverySound, IInv
<1>2. SeqMax \in Nat /\ EpochMax \in Nat /\ MaxSeals \in Nat
  BY MeshAssumption
<1>3. epoch[n] \in Int /\ txSeq[n] \in Int /\ sealed \in Int
  BY <1>1, <1>2 DEF TypeOK, Seqs, Epochs
<1>4. disk[n] \in Seq(Checkpoint)
  BY <1>1 DEF TypeOK
<1>5. ASSUME Saved(n)
      PROVE  /\ Newest(n) \in Checkpoint /\ Newest(n).epoch \in Int
             /\ Newest(n) \in CheckpointsOf(n)
  <2>1. Len(disk[n]) \in 1 .. Len(disk[n])
    BY <1>4, <1>5 DEF Saved
  <2>2. Newest(n) \in Checkpoint /\ Newest(n) \in CheckpointsOf(n)
    BY <1>4, <2>1 DEF Newest, CheckpointsOf
  <2> QED BY <1>2, <2>2 DEF Checkpoint, Epochs
<1> QED BY <1>1, <1>3, <1>4, <1>5

LEMMA IssuedTypes ==
    ASSUME RInv, NEW p \in Issued
    PROVE  p \in Packet /\ p.node \in Nodes /\ p.epoch \in Int /\ p.seq \in Int
<1>1. p \in Packet
  BY CallTypes DEF Issued, RInv, RecoverySound, IInv, TypeOK
<1> QED BY <1>1, MeshAssumption DEF Packet, Seqs, Epochs

\* The calls of the recovery are calls of ChronoMesh.
LEMMA RecoveryStepIsStep ==
    ASSUME RInv, [RecoveryNext]_recoveryVars
    PROVE  [Next]_vars
<1>1. ASSUME NEW t \in Threads, Restoring(t) PROVE Next
  <2>1. Home[t] \in Nodes
    BY CallTypes DEF RInv, RecoverySound, IInv
  <2>2. Newest(Home[t]) \in CheckpointsOf(Home[t])
    BY <1>1, <2>1, RTypes DEF Restoring, RInv, RecoverySound, NodeSound
  <2> QED BY <1>1, <2>2 DEF Restoring, Restore, Next
<1>2. ASSUME NEW t \in Threads, Sealing(t) \/ Opening(t) \/ Saving(t) PROVE Next
  BY <1>2 DEF Sealing, Opening, Saving, Next
<1>3. ASSUME NEW n \in Nodes, PowerCut(n) PROVE Next
  BY <1>3 DEF PowerCut, Next
<1>4. UNCHANGED recoveryVars => UNCHANGED vars
  BY DEF recoveryVars
<1> QED BY <1>1, <1>2, <1>3, <1>4 DEF RecoveryNext

-----------------------------------------------------------------------------
(* What a step that leaves atomics, disk and phases alone cannot disturb.  *)

LEMMA NodesStaySound ==
    ASSUME RInv, Issued' \subseteq Issued,
           UNCHANGED <<epoch, txSeq, disk, phase, sealed>>
    PROVE  /\ phase' \in [Nodes -> Phases]
           /\ IssuedUnique' /\ IssuedSaved'
           /\ \A n \in Nodes : NodeSound(n)'
<1>1. IssuedUnique'
  BY DEF RInv, RecoverySound, IssuedUnique
<1>2. IssuedSaved'
  BY DEF RInv, RecoverySound, IssuedSaved, Saved, Newest
<1>3. ASSUME NEW n \in Nodes PROVE NodeSound(n)'
  <2>1. NodeSound(n)
    BY DEF RInv, RecoverySound
  <2> QED BY <2>1 DEF NodeSound, Saved, Newest, CheckpointsOf, Covers
<1> QED BY <1>1, <1>2, <1>3 DEF RInv, RecoverySound

LEMMA CallStaysSound ==
    ASSUME NEW u \in Threads, CallSound(u), call'[u] = call[u],
           UNCHANGED <<epoch[Home[u]], disk[Home[u]], phase[Home[u]]>>,
           At(u, "ExportCopy") => log'[Home[u]].mine = log[Home[u]].mine,
           sealed <= sealed', sealed \in Int, sealed' \in Int,
           At(u, "ExportCopy") => call[u].seq \in Int
    PROVE  CallSound(u)'
BY DEF CallSound, At, Covers, Newest

\* Thread t moves on to c; no other thread does.
LEMMA MoveKeepsCalls ==
    ASSUME RInv, NEW t \in Threads, NEW c, Goto(t, c),
           UNCHANGED <<epoch, disk, phase>>,
           sealed <= sealed', sealed' \in Int,
           \A u \in Threads \ {t} : At(u, "ExportCopy") => log'[Home[u]].mine = log[Home[u]].mine,
           CallSound(t)',
           c.at \in Restores =>
               \/ call[t].at \in Restores
               \/ \A u \in Threads : Home[u] = Home[t] => call[u].at \notin Restores
    PROVE  OneRestorer' /\ \A u \in Threads : CallSound(u)'
<1>1. \A u \in Threads : call'[u] = IF u = t THEN c ELSE call[u]
  BY DEF Goto, RInv, RecoverySound, IInv, TypeOK
<1>2. ASSUME NEW u \in Threads, u # t PROVE CallSound(u)'
  <2>1. TypeOK /\ Home[u] \in Nodes /\ (At(u, "ExportCopy") => call[u].seq \in Seqs)
    BY CallTypes DEF RInv, RecoverySound, IInv
  <2>2. sealed \in Int /\ (At(u, "ExportCopy") => call[u].seq \in Int)
    BY <2>1, MeshAssumption DEF TypeOK, Seqs
  <2> QED BY <1>1, <1>2, <2>2, CallStaysSound DEF RInv, RecoverySound
<1>3. OneRestorer'
  BY <1>1 DEF RInv, RecoverySound, OneRestorer
<1> QED BY <1>2, <1>3

\* The threads of node n do nothing to the soundness of another node.
LEMMA OtherNodeStaysSound ==
    ASSUME NEW m \in Nodes, NodeSound(m),
           UNCHANGED <<epoch[m], txSeq[m], disk[m], phase[m]>>,
           \A p \in Issued' : p.node = m => p \in Issued,
           sealed <= sealed', sealed \in Int, sealed' \in Int, txSeq[m] \in Int,
           \A c \in CheckpointsOf(m) : c.seq \in Int
    PROVE  NodeSound(m)'
BY DEF NodeSound, Covers, Saved, Newest, CheckpointsOf

\* No packet gets an identity in a step that takes no number.
LEMMA NothingIsIssued ==
    ASSUME RInv, NEW t \in Threads, NEW c, Goto(t, c), c.at # "SealFold",
           wire' = wire \/ (At(t, "SealFold") /\ wire' = wire \cup {call[t].packet})
    PROVE  Issued' \subseteq Issued
<1>1. \A u \in Threads : call'[u] = IF u = t THEN c ELSE call[u]
  BY DEF Goto, RInv, IInv, TypeOK
<1>2. \A u \in Threads : At(u, "SealFold")' => u # t /\ At(u, "SealFold")
  BY <1>1 DEF At
<1>3. ASSUME NEW p \in Issued' PROVE p \in Issued
  <2>1. CASE p \in wire'
    BY <2>1 DEF Issued
  <2>2. CASE p \notin wire'
    <3>1. PICK u \in Threads : At(u, "SealFold")' /\ p = call'[u].packet
      BY <2>2 DEF Issued
    <3> QED BY <1>1, <1>2, <3>1 DEF Issued
  <2> QED BY <2>1, <2>2
<1> QED BY <1>3

\* A step that only moves thread t on, and at most folds a packet.
LEMMA MoveKeepsRecovery ==
    ASSUME RInv, NEW t \in Threads, NEW c, Goto(t, c), c.at # "SealFold",
           wire' = wire \/ (At(t, "SealFold") /\ wire' = wire \cup {call[t].packet}),
           UNCHANGED <<epoch, txSeq, disk, phase, sealed>>,
           \A u \in Threads \ {t} : At(u, "ExportCopy") => log'[Home[u]].mine = log[Home[u]].mine,
           CallSound(t)',
           c.at \in Restores =>
               \/ call[t].at \in Restores
               \/ \A u \in Threads : Home[u] = Home[t] => call[u].at \notin Restores
    PROVE  RecoverySound'
<1>1. sealed \in Int
  BY MeshAssumption DEF RInv, IInv, TypeOK
<1>2. Issued' \subseteq Issued
  BY NothingIsIssued
<1>3. OneRestorer' /\ \A u \in Threads : CallSound(u)'
  BY <1>1, MoveKeepsCalls
<1> QED BY <1>2, <1>3, NodesStaySound DEF RecoverySound

-----------------------------------------------------------------------------
(* One lemma per action.                                                   *)

LEMMA SealEpochKeeps ==
    ASSUME RInv, NEW t \in Threads, phase[Home[t]] = "serving", SealEpoch(t), UNCHANGED phase
    PROVE  RecoverySound'
<1> DEFINE c == [at |-> "SealTake", epoch |-> epoch[Home[t]]]
<1>1. Goto(t, c) /\ c.at = "SealTake" /\ UNCHANGED <<epoch, txSeq, log, wire, disk, sealed>>
  BY DEF SealEpoch, node
<1>2. call'[t] = c
  BY <1>1 DEF Goto, RInv, IInv, TypeOK
<1>3. CallSound(t)'
  BY <1>1, <1>2 DEF CallSound, At, Exports, Restores
<1> QED BY <1>1, <1>3, MoveKeepsRecovery DEF Restores

LEMMA BackToIdleKeeps ==
    ASSUME RInv, NEW t \in Threads, Goto(t, Idle),
           wire' = wire \/ (At(t, "SealFold") /\ wire' = wire \cup {call[t].packet}),
           UNCHANGED <<epoch, txSeq, disk, phase, sealed>>,
           \A u \in Threads \ {t} : At(u, "ExportCopy") => log'[Home[u]].mine = log[Home[u]].mine
    PROVE  RecoverySound'
<1>1. call'[t] = Idle
  BY DEF Goto, RInv, IInv, TypeOK
<1>2. CallSound(t)'
  BY <1>1 DEF CallSound, At, Exports, Restores, Idle
<1> QED BY <1>2, MoveKeepsRecovery DEF Restores, Idle

LEMMA SealFoldKeeps ==
    ASSUME RInv, NEW t \in Threads, SealFold(t), UNCHANGED phase
    PROVE  RecoverySound'
<1>1. ASSUME NEW u \in Threads, At(u, "ExportCopy") PROVE log'[Home[u]] = log[Home[u]]
  <2>1. Home[u] # Home[t]
    BY <1>1 DEF SealFold, Locked, At
  <2>2. log \in [Nodes -> Log] /\ Home[u] \in Nodes
    BY CallTypes DEF RInv, IInv, TypeOK
  <2> QED BY <2>1, <2>2 DEF SealFold
<1> QED BY <1>1, BackToIdleKeeps DEF SealFold

LEMMA OpeningKeeps ==
    ASSUME RInv, NEW t \in Threads, Open(t), UNCHANGED phase
    PROVE  RecoverySound'
<1>1. ASSUME NEW p \in wire, OpenCheck(t, p) PROVE RecoverySound'
  <2> DEFINE c == [at |-> "OpenFinish", packet |-> p]
  <2>1. Goto(t, c) /\ c.at = "OpenFinish" /\ UNCHANGED <<epoch, txSeq, log, wire, disk, sealed>>
    BY <1>1 DEF OpenCheck, node
  <2>2. call'[t] = c
    BY <2>1 DEF Goto, RInv, IInv, TypeOK
  <2>3. CallSound(t)'
    BY <2>1, <2>2 DEF CallSound, At, Exports, Restores
  <2> QED BY <2>1, <2>3, MoveKeepsRecovery DEF Restores
<1>2. CASE OpenUnauthentic(t)
  BY <1>2, BackToIdleKeeps DEF OpenUnauthentic, node
<1>3. CASE OpenFinish(t)
  <2>1. log \in [Nodes -> Log] /\ \A u \in Threads : Home[u] \in Nodes
    BY CallTypes DEF RInv, IInv, TypeOK
  <2>2. \A n \in Nodes : log'[n].mine = log[n].mine
    BY <1>3, <2>1 DEF OpenFinish, Log
  <2> QED BY <1>3, <2>1, <2>2, BackToIdleKeeps DEF OpenFinish
<1> QED BY <1>1, <1>2, <1>3 DEF Open

LEMMA CallNumbers ==
    ASSUME RInv, NEW u \in Threads
    PROVE  /\ Home[u] \in Nodes /\ sealed \in Int
           /\ At(u, "ExportCopy") => call[u].seq \in Int
<1>1. TypeOK /\ Home[u] \in Nodes /\ (At(u, "ExportCopy") => call[u].seq \in Seqs)
  BY CallTypes DEF RInv, IInv
<1> QED BY <1>1, MeshAssumption DEF TypeOK, Seqs

LEMMA CheckpointSeqs ==
    ASSUME RInv, NEW m \in Nodes
    PROVE  \A k \in CheckpointsOf(m) : k.seq \in Int
<1>1. \A k \in CheckpointsOf(m) : k \in Checkpoint
  BY RTypes DEF CheckpointsOf
<1> QED BY <1>1, MeshAssumption DEF Checkpoint, Seqs

\* While a node saves, no packet has its epoch yet; while it serves, its
\* counter is past all that have.
LEMMA CounterCoversEpoch ==
    ASSUME RInv, NEW n \in Nodes, phase[n] # "restoring"
    PROVE  Covers(txSeq[n], epoch[n], {p \in Issued : p.node = n})
<1>1. NodeSound(n) /\ IssuedSaved
  BY DEF RInv, RecoverySound
<1>2. CASE phase[n] = "serving"
  BY <1>1, <1>2 DEF NodeSound
<1>3. CASE phase[n] = "saving"
  <2>1. ASSUME NEW p \in Issued, p.node = n PROVE p.epoch # epoch[n]
    BY <1>1, <1>3, <2>1, RTypes, IssuedTypes DEF NodeSound, IssuedSaved
  <2> QED BY <2>1 DEF Covers
<1> QED BY <1>2, <1>3, RTypes DEF Phases

LEMMA ExportReadsKeep ==
    ASSUME RInv, NEW t \in Threads, phase[Home[t]] # "restoring",
           ExportLock(t) \/ ExportEpoch(t) \/ ExportSeq(t), UNCHANGED phase
    PROVE  RecoverySound'
<1> DEFINE n == Home[t]
<1>0. n \in Nodes /\ call \in [Threads -> Call]
  BY CallTypes DEF RInv, IInv, TypeOK
<1>1. CASE ExportLock(t)
  <2> DEFINE c == [at |-> "ExportEpoch"]
  <2>1. Goto(t, c) /\ c.at = "ExportEpoch" /\ UNCHANGED <<epoch, txSeq, log, wire, disk, sealed>>
    BY <1>1 DEF ExportLock, node
  <2>2. call'[t] = c
    BY <1>0, <2>1 DEF Goto
  <2>3. CallSound(t)'
    BY <2>1, <2>2 DEF CallSound, At, Exports, Restores
  <2> QED BY <2>1, <2>3, MoveKeepsRecovery DEF Restores
<1>2. CASE ExportEpoch(t)
  <2> DEFINE c == [at |-> "ExportSeq", epoch |-> epoch[n]]
  <2>1. Goto(t, c) /\ c.at = "ExportSeq" /\ UNCHANGED <<epoch, txSeq, log, wire, disk, sealed>>
    BY <1>2 DEF ExportEpoch, node
  <2>2. call'[t] = c
    BY <1>0, <2>1 DEF Goto
  <2>3. CallSound(t)'
    BY <2>1, <2>2 DEF CallSound, At, Exports, Restores
  <2> QED BY <2>1, <2>3, MoveKeepsRecovery DEF Restores
<1>3. CASE ExportSeq(t)
  <2> DEFINE c == [at |-> "ExportCopy", epoch |-> call[t].epoch, seq |-> txSeq[n]]
  <2>1. Goto(t, c) /\ c.at = "ExportCopy" /\ UNCHANGED <<epoch, txSeq, log, wire, disk, sealed>>
    BY <1>3 DEF ExportSeq, node
  <2>2. call'[t] = c
    BY <1>0, <2>1 DEF Goto
  <2>3. CallSound(t) /\ NodeSound(n)
    BY <1>0 DEF RInv, RecoverySound
  <2>4. call[t].epoch = epoch[n] /\ txSeq[n] <= sealed
    BY <1>3, <2>3 DEF ExportSeq, At, CallSound, NodeSound
  <2>5. log[n].mine \subseteq {p \in Issued : p.node = n}
    BY <1>0 DEF RInv, IInv, LogSound, Issued
  <2>6. Covers(txSeq[n], epoch[n], log[n].mine)
    BY <1>0, <2>5, CounterCoversEpoch DEF Covers
  <2>7. CallSound(t)'
    BY <2>1, <2>2, <2>4, <2>6 DEF CallSound, At, Exports, Restores
  <2> QED BY <2>1, <2>7, MoveKeepsRecovery DEF Restores
<1> QED BY <1>1, <1>2, <1>3

\* The new checkpoint has the epoch in use, so sealing may begin.
LEMMA ExportCopyKeeps ==
    ASSUME RInv, NEW t \in Threads, phase[Home[t]] # "restoring", ExportCopy(t),
           phase' = [phase EXCEPT ![Home[t]] = "serving"]
    PROVE  RecoverySound'
<1> DEFINE n == Home[t]
           c == [epoch |-> call[t].epoch, seq |-> call[t].seq, rx |-> rx[n], log |-> log[n]]
<1>0. TypeOK /\ n \in Nodes /\ CallSound(t) /\ NodeSound(n) /\ IssuedSaved
  BY CallTypes DEF RInv, IInv, RecoverySound
<1>1. At(t, "ExportCopy") /\ Goto(t, Idle) /\ UNCHANGED <<epoch, txSeq, log, wire, sealed>>
  BY DEF ExportCopy, node
<1>2. disk' = [disk EXCEPT ![n] = Append(@, c)]
  BY DEF ExportCopy
<1>3. \A u \in Threads : call'[u] = IF u = t THEN Idle ELSE call[u]
  BY <1>0, <1>1 DEF Goto, TypeOK
<1>4. \A m \in Nodes : /\ phase'[m] = IF m = n THEN "serving" ELSE phase[m]
                       /\ disk'[m] = IF m = n THEN Append(disk[n], c) ELSE disk[m]
  BY <1>0, <1>2 DEF TypeOK, RInv, RecoverySound
<1>5. phase' \in [Nodes -> Phases]
  BY <1>0 DEF RInv, RecoverySound, Phases
<1>6. Issued' \subseteq Issued
  <2>1. Idle.at # "SealFold"
    BY DEF Idle
  <2> QED BY <1>1, <2>1, NothingIsIssued
<1>7. c.epoch = epoch[n] /\ c.seq <= sealed /\ Covers(c.seq, c.epoch, c.log.mine)
  BY <1>0, <1>1 DEF CallSound, At
<1>8. /\ Saved(n)' /\ Newest(n)' = c
      /\ \A k \in CheckpointsOf(n)' : k = c \/ k \in CheckpointsOf(n)
  <2>1. disk[n] \in Seq(Checkpoint) /\ disk'[n] = Append(disk[n], c)
    BY <1>0, <1>4 DEF TypeOK
  <2>2. /\ Len(disk'[n]) = Len(disk[n]) + 1 /\ disk'[n][Len(disk[n]) + 1] = c
        /\ \A i \in 1 .. Len(disk[n]) : disk'[n][i] = disk[n][i]
        /\ Len(disk[n]) \in Nat
    BY <2>1
  <2>3. \A i \in 1 .. Len(disk'[n]) : i \in 1 .. Len(disk[n]) \/ i = Len(disk[n]) + 1
    BY <2>2
  <2>4. Saved(n)'
    BY <2>1, <2>2 DEF Saved
  <2>5. Newest(n)' = c
    BY <2>2 DEF Newest
  <2> QED BY <2>2, <2>3, <2>4, <2>5 DEF CheckpointsOf
<1>9. \A p \in Issued : p.node = n => p.epoch <= epoch[n]
  <2>1. ASSUME NEW p \in Issued, p.node = n PROVE p.epoch <= epoch[n]
    <3>1. Saved(n) /\ p.epoch <= Newest(n).epoch /\ p.epoch \in Int
      BY <1>0, <2>1, IssuedTypes DEF IssuedSaved
    <3>2. Newest(n).epoch <= epoch[n]
      BY <1>0, <3>1, RTypes DEF NodeSound, Phases
    <3> QED BY <1>0, <3>1, <3>2, RTypes
  <2> QED BY <2>1
<1>10. IssuedUnique'
  BY <1>6 DEF RInv, RecoverySound, IssuedUnique
<1>11. IssuedSaved'
  <2>1. ASSUME NEW p \in Issued' PROVE (Saved(p.node) /\ p.epoch <= Newest(p.node).epoch)'
    <3>1. p \in Issued /\ p.node \in Nodes
      BY <1>6, IssuedTypes
    <3>2. CASE p.node = n
      BY <1>7, <1>8, <1>9, <3>1, <3>2
    <3>3. CASE p.node # n
      BY <1>0, <1>4, <3>1, <3>3 DEF IssuedSaved, Saved, Newest
    <3> QED BY <3>2, <3>3
  <2> QED BY <2>1 DEF IssuedSaved
<1>12. ASSUME NEW m \in Nodes PROVE NodeSound(m)'
  <2>1. NodeSound(m) /\ \A k \in CheckpointsOf(m) : k.seq \in Int
    BY CheckpointSeqs DEF RInv, RecoverySound
  <2>2. CASE m = n
    <3>1. Covers(txSeq[n], epoch[n], {p \in Issued : p.node = n})
      BY <1>0, CounterCoversEpoch
    <3>2. Covers(txSeq[n], epoch[n], {p \in Issued : p.node = n})'
      BY <1>1, <1>6, <3>1 DEF Covers
    <3>3. \A k \in CheckpointsOf(n)' : k.seq <= sealed' /\ Covers(k.seq, k.epoch, k.log.mine)
      BY <1>0, <1>1, <1>7, <1>8 DEF NodeSound
    <3>4. phase'[n] = "serving" /\ txSeq'[n] <= sealed'
      BY <1>0, <1>1, <1>4 DEF NodeSound
    <3> HIDE DEF c
    <3>5. (\A k \in CheckpointsOf(n) : k.seq <= sealed /\ Covers(k.seq, k.epoch, k.log.mine))'
      BY <3>3 DEF Covers
    <3>6. (Saved(n) /\ Newest(n).epoch = epoch[n])'
      BY <1>1, <1>7, <1>8
    <3> QED BY <2>2, <3>2, <3>4, <3>5, <3>6 DEF NodeSound
  <2>3. CASE m # n
    <3>1. UNCHANGED <<epoch[m], txSeq[m], disk[m], phase[m]>>
      BY <1>1, <1>4, <2>3
    <3>2. sealed' = sealed /\ sealed \in Int /\ txSeq[m] \in Int
      BY <1>1, RTypes
    <3> HIDE DEF c, n
    <3> QED BY <1>6, <2>1, <3>1, <3>2, OtherNodeStaysSound
  <2> QED BY <2>2, <2>3
<1>13. ASSUME NEW u \in Threads PROVE CallSound(u)'
  <2>1. CallSound(u) /\ Home[u] \in Nodes /\ sealed \in Int
        /\ (At(u, "ExportCopy") => call[u].seq \in Int)
    <3>1. CallSound(u)
      BY DEF RInv, RecoverySound
    <3> QED BY <3>1, CallNumbers
  <2>2. CASE u = t
    BY <1>3, <2>2 DEF CallSound, At, Idle, Exports, Restores
  <2>3. CASE u # t /\ Home[u] = n
    BY <1>0, <1>1, <1>3, <1>4, <2>1, <2>3 DEF CallSound, At, Covers, Exports, Restores
  <2>4. CASE Home[u] # n
    <3>1. call'[u] = call[u] /\ UNCHANGED <<epoch[Home[u]], disk[Home[u]], phase[Home[u]]>>
      BY <1>1, <1>3, <1>4, <2>1, <2>4
    <3>2. UNCHANGED <<log, sealed>> /\ sealed <= sealed'
      BY <1>1, <2>1
    <3> HIDE DEF c, n
    <3> QED BY <2>1, <3>1, <3>2, CallStaysSound
  <2> QED BY <2>2, <2>3, <2>4
<1>14. OneRestorer'
  BY <1>3 DEF RInv, RecoverySound, OneRestorer, Restores, Idle
<1> QED BY <1>5, <1>10, <1>11, <1>12, <1>13, <1>14 DEF RecoverySound

\* While a node restores, its other threads neither seal, export nor restore.
LEMMA RestorerIsAlone ==
    ASSUME RInv, NEW t \in Threads, call[t].at \in Restores,
           NEW u \in Threads \ {t}, Home[u] = Home[t]
    PROVE  call[u].at \notin {"SealTake"} \cup Exports \cup Restores
<1>1. CallSound(t) /\ CallSound(u) /\ OneRestorer
  BY DEF RInv, RecoverySound
<1>2. phase[Home[t]] = "restoring"
  BY <1>1 DEF CallSound
<1> QED BY <1>1, <1>2 DEF CallSound, OneRestorer, At

LEMMA RestoreLoadKeeps ==
    ASSUME RInv, NEW t \in Threads, phase[Home[t]] = "restoring",
           ~ \E place \in Restores : BusyWith(Home[t], place),
           RestoreLoad(t, Newest(Home[t])), UNCHANGED phase
    PROVE  RecoverySound'
<1> DEFINE n == Home[t]
           ckpt == Newest(n)
           c == [at |-> "RestoreEpoch", ckpt |-> ckpt,
                 epoch |-> IF epoch[n] > NextEpoch(ckpt) THEN epoch[n]
                                                         ELSE NextEpoch(ckpt)]
<1>1. Goto(t, c) /\ c.at = "RestoreEpoch" /\ UNCHANGED <<epoch, txSeq, log, wire, disk, sealed>>
  BY DEF RestoreLoad, node
<1>2. call'[t] = c /\ n \in Nodes
  BY <1>1, CallTypes DEF Goto, RInv, IInv, TypeOK
<1>3. NodeSound(n) /\ ckpt.epoch \in Int /\ epoch[n] \in Int /\ EpochMax \in Int
  <2>1. NodeSound(n)
    BY <1>2 DEF RInv, RecoverySound
  <2>2. Saved(n)
    BY <2>1 DEF NodeSound
  <2> QED BY <1>2, <2>1, <2>2, RTypes, MeshAssumption
<1>4. c.epoch > ckpt.epoch
  BY <1>3 DEF NextEpoch, NodeSound
<1>5. c.ckpt = Newest(n)'
  BY <1>1 DEF Newest
<1>6. CallSound(t)'
  <2>1. call'[t].at = "RestoreEpoch" /\ call'[t].ckpt = Newest(n)' /\ call'[t].epoch > Newest(n)'.epoch
    BY <1>2, <1>4, <1>5
  <2> QED BY <1>1, <2>1 DEF CallSound, At, Exports, Restores
<1>7. \A u \in Threads : Home[u] = Home[t] => call[u].at \notin Restores
  BY DEF BusyWith, At
<1> HIDE DEF c, ckpt, n
<1> QED BY <1>1, <1>6, <1>7, MoveKeepsRecovery

\* The node's atomics and log are stored to while nothing of the node reads
\* them: what its other threads hold stays sound.
LEMMA RestoreStepKeeps ==
    ASSUME RInv, NEW t \in Threads, call[t].at \in Restores,
           NEW c, Goto(t, c), c.at # "SealFold",
           UNCHANGED <<wire, disk, sealed>>,
           \A m \in Nodes \ {Home[t]} :
               UNCHANGED <<epoch[m], txSeq[m], log[m], phase[m]>>,
           phase' \in [Nodes -> Phases],
           NodeSound(Home[t])', CallSound(t)'
    PROVE  RecoverySound'
<1> DEFINE n == Home[t]
<1>1. Issued' \subseteq Issued
  BY NothingIsIssued
<1>2. \A u \in Threads : call'[u] = IF u = t THEN c ELSE call[u]
  BY DEF Goto, RInv, IInv, TypeOK
<1>3. IssuedUnique' /\ IssuedSaved'
  BY <1>1 DEF RInv, RecoverySound, IssuedUnique, IssuedSaved, Saved, Newest
<1>4. ASSUME NEW m \in Nodes, m # n PROVE NodeSound(m)'
  <2>1. NodeSound(m) /\ \A k \in CheckpointsOf(m) : k.seq \in Int
    BY CheckpointSeqs DEF RInv, RecoverySound
  <2>2. sealed' = sealed /\ sealed \in Int /\ txSeq[m] \in Int
    BY RTypes
  <2> QED BY <1>1, <1>4, <2>1, <2>2, OtherNodeStaysSound
<1>5. ASSUME NEW u \in Threads, u # t PROVE CallSound(u)'
  <2>1. CallSound(u) /\ Home[u] \in Nodes /\ sealed \in Int
        /\ (At(u, "ExportCopy") => call[u].seq \in Int)
    <3>1. CallSound(u)
      BY DEF RInv, RecoverySound
    <3> QED BY <3>1, CallNumbers
  <2>2. CASE Home[u] = n
    <3>1. call[u].at \notin {"SealTake"} \cup Exports \cup Restores
      BY <1>5, <2>2, RestorerIsAlone
    <3> QED BY <1>2, <1>5, <3>1 DEF CallSound, At, Exports, Restores
  <2>3. CASE Home[u] # n
    <3>1. /\ UNCHANGED <<epoch[Home[u]], disk[Home[u]], phase[Home[u]], log[Home[u]]>>
          /\ sealed <= sealed' /\ sealed' \in Int /\ call'[u] = call[u]
      BY <1>2, <1>5, <2>1, <2>3
    <3> QED BY <2>1, <3>1, CallStaysSound
  <2> QED BY <2>2, <2>3
<1>6. OneRestorer'
  <2>1. \A u \in Threads : call'[u].at \in Restores => call[u].at \in Restores
    BY <1>2
  <2> QED BY <2>1 DEF RInv, RecoverySound, OneRestorer
<1> QED BY <1>1, <1>3, <1>4, <1>5, <1>6 DEF RecoverySound

LEMMA RestoreStoresKeep ==
    ASSUME RInv, SaveAfterRestore = TRUE, NEW t \in Threads,
           RestoreEpoch(t) \/ RestoreSeq(t) \/ RestorePeers(t),
           phase' = [phase EXCEPT ![Home[t]] =
                        IF ~At(t, "RestorePeers") THEN @ ELSE "saving"]
    PROVE  RecoverySound'
<1> DEFINE n == Home[t]
<1>0. TypeOK /\ n \in Nodes /\ CallSound(t) /\ NodeSound(n)
  BY CallTypes DEF RInv, IInv, RecoverySound
<1>1. /\ \A m \in Nodes : phase'[m] = IF m # n THEN phase[m]
                                      ELSE IF At(t, "RestorePeers") THEN "saving" ELSE phase[m]
      /\ phase' \in [Nodes -> Phases]
  BY <1>0 DEF RInv, RecoverySound, Phases
<1>2. call[t].at \in Restores
  BY DEF RestoreEpoch, RestoreSeq, RestorePeers, At, Restores
<1>3. phase[n] = "restoring" /\ call[t].ckpt = Newest(n) /\ Saved(n)
  BY <1>0, <1>2 DEF CallSound, NodeSound
<1>4. CASE RestoreEpoch(t)
  <2> DEFINE c == [at |-> "RestoreSeq", ckpt |-> call[t].ckpt]
  <2>1. Goto(t, c) /\ c.at = "RestoreSeq" /\ UNCHANGED <<txSeq, log, wire, disk, sealed>>
    BY <1>4 DEF RestoreEpoch
  <2>2. call'[t] = c /\ phase'[n] = "restoring" /\ ~At(t, "RestorePeers")
    BY <1>0, <1>1, <1>3, <1>4, <2>1 DEF Goto, TypeOK, RestoreEpoch, At
  <2>3. \A m \in Nodes : epoch'[m] = IF m = n THEN call[t].epoch ELSE epoch[m]
    BY <1>0, <1>4 DEF RestoreEpoch, TypeOK
  <2>4. call[t].epoch > Newest(n).epoch
    BY <1>0, <1>4 DEF RestoreEpoch, CallSound
  <2>5. NodeSound(n)'
    BY <1>0, <2>1, <2>2 DEF NodeSound, CheckpointsOf, Covers, Saved, Newest
  <2>6. CallSound(t)'
    BY <1>0, <1>3, <2>1, <2>2, <2>3, <2>4 DEF CallSound, At, Exports, Restores, Newest
  <2> QED BY <1>0, <1>1, <1>2, <2>1, <2>2, <2>3, <2>5, <2>6, RestoreStepKeeps
<1>5. CASE RestoreSeq(t)
  <2> DEFINE c == [at |-> "RestorePeers", ckpt |-> call[t].ckpt]
  <2>1. Goto(t, c) /\ c.at = "RestorePeers" /\ UNCHANGED <<epoch, log, wire, disk, sealed>>
    BY <1>5 DEF RestoreSeq
  <2>2. call'[t] = c /\ phase'[n] = "restoring" /\ ~At(t, "RestorePeers")
    BY <1>0, <1>1, <1>3, <1>5, <2>1 DEF Goto, TypeOK, RestoreSeq, At
  <2>3. \A m \in Nodes : txSeq'[m] = IF m = n THEN Newest(n).seq ELSE txSeq[m]
    BY <1>0, <1>3, <1>5 DEF RestoreSeq, TypeOK
  <2>4. epoch[n] > Newest(n).epoch /\ Newest(n) \in CheckpointsOf(n)
    BY <1>0, <1>3, <1>5, RTypes DEF RestoreSeq, CallSound, At
  <2>5. NodeSound(n)'
    BY <1>0, <2>1, <2>2, <2>3, <2>4 DEF NodeSound, CheckpointsOf, Covers, Saved, Newest
  <2>6. CallSound(t)'
    BY <1>0, <1>3, <2>1, <2>2, <2>4 DEF CallSound, At, Exports, Restores, Newest
  <2> QED BY <1>0, <1>1, <1>2, <2>1, <2>2, <2>3, <2>5, <2>6, RestoreStepKeeps
<1>6. CASE RestorePeers(t)
  <2>1. Goto(t, Idle) /\ Idle.at = "Idle" /\ UNCHANGED <<epoch, txSeq, wire, disk, sealed>>
    BY <1>6 DEF RestorePeers, Idle
  <2>2. call'[t] = Idle /\ phase'[n] = "saving" /\ At(t, "RestorePeers")
    BY <1>0, <1>1, <1>6, <2>1 DEF Goto, TypeOK, RestorePeers
  <2>3. \A m \in Nodes : m # n => log'[m] = log[m]
    BY <1>0, <1>6 DEF RestorePeers, TypeOK
  <2>4. epoch[n] > Newest(n).epoch
    BY <1>0, <2>2 DEF CallSound, At
  <2>5. Newest(n).epoch < epoch[n]
    BY <1>0, <1>3, <2>4, RTypes
  <2>6. NodeSound(n)'
    BY <1>0, <2>1, <2>2, <2>5 DEF NodeSound, CheckpointsOf, Covers, Saved, Newest
  <2>7. CallSound(t)'
    BY <2>1, <2>2 DEF CallSound, At, Exports, Restores
  <2> QED BY <1>0, <1>1, <1>2, <2>1, <2>3, <2>6, <2>7, RestoreStepKeeps
<1> QED BY <1>4, <1>5, <1>6

LEMMA PowerCutKeeps ==
    ASSUME RInv, NEW n \in Nodes, PowerCut(n)
    PROVE  RecoverySound'
<1>0. TypeOK /\ NodeSound(n) /\ 0 \in Int /\ sealed \in Int /\ 0 <= sealed
  BY MeshAssumption DEF RInv, IInv, RecoverySound, TypeOK
<1>1. /\ UNCHANGED <<wire, disk, sealed>>
      /\ \A m \in Nodes : /\ epoch'[m] = IF m = n THEN BootEpoch ELSE epoch[m]
                          /\ txSeq'[m] = IF m = n THEN 0 ELSE txSeq[m]
                          /\ m # n => log'[m] = log[m]
  BY <1>0 DEF PowerCut, Crash, TypeOK
<1>2. /\ \A m \in Nodes : phase'[m] = IF m # n THEN phase[m]
                                      ELSE IF disk[n] = <<>> THEN "saving" ELSE "restoring"
      /\ phase' \in [Nodes -> Phases]
  BY DEF PowerCut, RInv, RecoverySound, Phases
<1>3. \A u \in Threads : call'[u] = IF Home[u] = n THEN Idle ELSE call[u]
  BY DEF PowerCut, Crash
<1>4. Issued' \subseteq Issued
  <2>1. \A u \in Threads : At(u, "SealFold")' => At(u, "SealFold") /\ call'[u] = call[u]
    BY <1>3 DEF At, Idle
  <2>2. ASSUME NEW p \in Issued' PROVE p \in Issued
    <3>1. CASE p \in wire'
      BY <1>1, <3>1 DEF Issued
    <3>2. CASE p \notin wire'
      <4>1. PICK u \in Threads : At(u, "SealFold")' /\ p = call'[u].packet
        BY <3>2 DEF Issued
      <4> QED BY <2>1, <4>1 DEF Issued
    <3> QED BY <3>1, <3>2
  <2> QED BY <2>2
<1>5. IssuedUnique' /\ IssuedSaved'
  BY <1>1, <1>4 DEF RInv, RecoverySound, IssuedUnique, IssuedSaved, Saved, Newest
<1>6. ASSUME NEW m \in Nodes PROVE NodeSound(m)'
  <2>1. CASE m = n
    <3>1. txSeq'[n] <= sealed' /\ phase'[n] # "serving"
      BY <1>0, <1>1, <1>2
    <3>2. Saved(n)' => Newest(n)'.epoch < EpochMax /\ phase'[n] # "saving"
      <4>1. ASSUME Saved(n) PROVE Newest(n).epoch < EpochMax
        <5>1. Newest(n).epoch <= epoch[n] \/ Newest(n).epoch < EpochMax
          BY <1>0, <4>1, RTypes DEF NodeSound, Phases
        <5>2. epoch[n] < EpochMax /\ EpochMax \in Int
          BY MeshAssumption DEF PowerCut
        <5> QED BY <4>1, <5>1, <5>2, RTypes
      <4> QED BY <1>1, <1>2, <4>1 DEF Saved, Newest
    <3>3. phase'[n] = "restoring" => Saved(n)'
      BY <1>1, <1>2 DEF Saved
    <3> QED BY <1>0, <1>1, <2>1, <3>1, <3>2, <3>3 DEF NodeSound, CheckpointsOf, Covers, Saved, Newest
  <2>2. CASE m # n
    <3>1. NodeSound(m) /\ \A k \in CheckpointsOf(m) : k.seq \in Int
      BY CheckpointSeqs DEF RInv, RecoverySound
    <3>2. UNCHANGED <<epoch[m], txSeq[m], disk[m], phase[m]>> /\ sealed' = sealed
          /\ txSeq[m] \in Int
      BY <1>1, <1>2, <2>2, RTypes
    <3> QED BY <1>0, <1>4, <3>1, <3>2, OtherNodeStaysSound
  <2> QED BY <2>1, <2>2
<1>7. ASSUME NEW u \in Threads PROVE CallSound(u)'
  <2>1. CASE Home[u] = n
    BY <1>3, <2>1 DEF CallSound, At, Idle, Exports, Restores
  <2>2. CASE Home[u] # n
    <3>1. CallSound(u)
      BY DEF RInv, RecoverySound
    <3>2. Home[u] \in Nodes /\ (At(u, "ExportCopy") => call[u].seq \in Int)
      BY CallNumbers
    <3>3. call'[u] = call[u]
          /\ UNCHANGED <<epoch[Home[u]], disk[Home[u]], phase[Home[u]], log[Home[u]]>>
      BY <1>1, <1>2, <1>3, <2>2, <3>2
    <3> QED BY <1>0, <1>1, <3>1, <3>2, <3>3, CallStaysSound
  <2> QED BY <2>1, <2>2
<1>8. OneRestorer'
  <2>1. \A u \in Threads : call'[u].at \in Restores => call[u].at \in Restores
    BY <1>3 DEF Idle, Restores
  <2> QED BY <2>1 DEF RInv, RecoverySound, OneRestorer
<1> QED BY <1>2, <1>5, <1>6, <1>7, <1>8 DEF RecoverySound

\* fetch_add hands a number out once: the counter of a node that serves is
\* past every number of its epoch, and too few are taken for it to wrap.
LEMMA SealTakeKeeps ==
    ASSUME RInv, MaxSeals <= SeqMax, NEW t \in Threads, NEW aadFits \in BOOLEAN,
           phase[Home[t]] = "serving", SealTake(t, aadFits), UNCHANGED phase
    PROVE  RecoverySound'
<1> DEFINE n == Home[t]
           p == [node |-> n, epoch |-> call[t].epoch, seq |-> txSeq[n], msg |-> sealed + 1]
           c == IF txSeq[n] # SeqMax /\ aadFits
                THEN [at |-> "SealFold", packet |-> p] ELSE Idle
<1>0. TypeOK /\ n \in Nodes /\ CallSound(t) /\ NodeSound(n)
  BY CallTypes DEF RInv, IInv, RecoverySound
<1>1. SeqMax \in Nat /\ MaxSeals \in Nat /\ sealed \in Nat /\ txSeq[n] \in Nat
  BY <1>0, MeshAssumption DEF TypeOK, Seqs
<1>2. Goto(t, c) /\ sealed < MaxSeals /\ sealed' = sealed + 1
      /\ UNCHANGED <<epoch, log, wire, disk>>
  BY DEF SealTake
<1>3. txSeq[n] < SeqMax
  BY <1>0, <1>1, <1>2 DEF NodeSound
<1>4. \A m \in Nodes : txSeq'[m] = IF m = n THEN txSeq[n] + 1 ELSE txSeq[m]
  <2>1. (txSeq[n] + 1) % (SeqMax + 1) = txSeq[n] + 1
    BY <1>1, <1>3
  <2> QED BY <1>0, <2>1 DEF SealTake, TypeOK
<1>5. \A u \in Threads : call'[u] = IF u = t THEN c ELSE call[u]
  BY <1>0, <1>2 DEF Goto, TypeOK
<1>6. call[t].epoch = epoch[n] /\ At(t, "SealTake")
  BY <1>0 DEF SealTake, CallSound
<1>7. p.node = n /\ p.epoch = epoch[n] /\ p.seq = txSeq[n]
  BY <1>6
<1>8. Covers(txSeq[n], epoch[n], {q \in Issued : q.node = n})
  BY <1>0, CounterCoversEpoch
<1> HIDE DEF p
<1>9. ASSUME NEW q \in Issued' PROVE q \in Issued \/ q = p
  <2>1. CASE q \in wire'
    BY <1>2, <2>1 DEF Issued
  <2>2. CASE q \notin wire'
    <3>1. PICK u \in Threads : At(u, "SealFold")' /\ q = call'[u].packet
      BY <2>2 DEF Issued
    <3>2. CASE u = t
      BY <1>5, <3>1, <3>2 DEF At, Idle
    <3>3. CASE u # t
      BY <1>5, <3>1, <3>3 DEF At, Issued
    <3> QED BY <3>2, <3>3
  <2> QED BY <2>1, <2>2
<1>10. IssuedUnique'
  <2>1. \A q \in Issued : q.node = n /\ q.epoch = epoch[n] => q.seq # txSeq[n]
    <3>1. \A q \in Issued : q.node = n /\ q.epoch = epoch[n] => q.seq < txSeq[n] /\ q.seq \in Int
      BY <1>8, IssuedTypes DEF Covers
    <3> QED BY <1>1, <3>1
  <2> QED BY <1>7, <1>9, <2>1 DEF RInv, RecoverySound, IssuedUnique
<1>11. IssuedSaved'
  <2>1. Saved(n) /\ p.epoch <= Newest(n).epoch
    BY <1>0, <1>7, RTypes DEF NodeSound
  <2> QED BY <1>2, <1>7, <1>9, <2>1 DEF RInv, RecoverySound, IssuedSaved, Saved, Newest
<1>12. ASSUME NEW m \in Nodes PROVE NodeSound(m)'
  <2>1. NodeSound(m) /\ \A k \in CheckpointsOf(m) : k.seq \in Int
    BY CheckpointSeqs DEF RInv, RecoverySound
  <2>2. CASE m = n
    <3>1. Covers(txSeq[n], epoch[n], {q \in Issued : q.node = n})'
      <4>1. ASSUME NEW q \in Issued', q.node = n, q.epoch = epoch'[n] PROVE q.seq < txSeq'[n]
        <5>1. CASE q = p
          BY <1>0, <1>1, <1>4, <1>7, <5>1
        <5>2. CASE q \in Issued
          BY <1>0, <1>1, <1>2, <1>4, <1>8, <4>1, <5>2, IssuedTypes DEF Covers
        <5> QED BY <1>9, <5>1, <5>2
      <4> QED BY <4>1 DEF Covers
    <3>2. txSeq'[n] <= sealed'
      BY <1>0, <1>1, <1>2, <1>4 DEF NodeSound
    <3>3. (\A k \in CheckpointsOf(n) : k.seq <= sealed /\ Covers(k.seq, k.epoch, k.log.mine))'
      <4>1. \A k \in CheckpointsOf(n) : k.seq <= sealed + 1 /\ Covers(k.seq, k.epoch, k.log.mine)
        BY <1>1, <2>1, <2>2 DEF NodeSound
      <4> QED BY <1>2, <4>1 DEF CheckpointsOf, Covers
    <3>4. (Saved(n) /\ Newest(n).epoch = epoch[n])' /\ phase'[n] = "serving"
      BY <1>0, <1>2 DEF NodeSound, Saved, Newest
    <3> QED BY <2>2, <3>1, <3>2, <3>3, <3>4 DEF NodeSound
  <2>3. CASE m # n
    <3>1. UNCHANGED <<epoch[m], txSeq[m], disk[m], phase[m]>> /\ txSeq[m] \in Int
          /\ sealed \in Int /\ sealed' \in Int /\ sealed <= sealed'
      BY <1>1, <1>2, <1>4, <2>3, RTypes
    <3>2. \A q \in Issued' : q.node = m => q \in Issued
      BY <1>7, <1>9, <2>3
    <3> QED BY <2>1, <3>1, <3>2, OtherNodeStaysSound
  <2> QED BY <2>2, <2>3
<1>13. OneRestorer' /\ \A u \in Threads : CallSound(u)'
  <2>1. call'[t] = c /\ c.at \in {"SealFold", "Idle"}
    BY <1>5 DEF Idle
  <2>2. CallSound(t)' /\ c.at \notin Restores
    BY <2>1 DEF CallSound, At, Exports, Restores
  <2>3. sealed <= sealed' /\ sealed' \in Int
    BY <1>1, <1>2
  <2> HIDE DEF c
  <2> QED BY <1>2, <2>2, <2>3, MoveKeepsCalls
<1> QED BY <1>10, <1>11, <1>12, <1>13 DEF RInv, RecoverySound

-----------------------------------------------------------------------------
LEMMA InitRInv == RecoveryInit => RInv
<1> SUFFICES ASSUME RecoveryInit PROVE RInv
  OBVIOUS
<1>1. IInv
  BY InitIInv DEF RecoveryInit
<1>2. /\ wire = {} /\ sealed = 0 /\ phase = [n \in Nodes |-> "saving"]
      /\ \A t \in Threads : call[t] = Idle
      /\ \A n \in Nodes : txSeq[n] = 0 /\ disk[n] = <<>>
  BY DEF RecoveryInit, Init
<1>3. Issued = {}
  BY <1>2 DEF Issued, At, Idle
<1>4. phase \in [Nodes -> Phases] /\ IssuedUnique /\ IssuedSaved
  BY <1>2, <1>3 DEF Phases, IssuedUnique, IssuedSaved
<1>5. ASSUME NEW n \in Nodes PROVE NodeSound(n)
  <2>1. CheckpointsOf(n) = {} /\ ~Saved(n)
    BY <1>2 DEF CheckpointsOf, Saved
  <2>2. phase[n] = "saving" /\ txSeq[n] <= sealed
    BY <1>2
  <2> QED BY <2>1, <2>2 DEF NodeSound
<1>6. (\A t \in Threads : CallSound(t)) /\ OneRestorer
  BY <1>2 DEF CallSound, OneRestorer, At, Idle, Exports, Restores
<1> QED BY <1>1, <1>4, <1>5, <1>6 DEF RInv, RecoverySound

LEMMA NextRInv ==
    ASSUME SaveAfterRestore = TRUE, SealersWait = TRUE, MaxSeals <= SeqMax
    PROVE  RInv /\ [RecoveryNext]_recoveryVars => RInv'
<1> SUFFICES ASSUME RInv, [RecoveryNext]_recoveryVars PROVE RInv'
  OBVIOUS
<1>0. IInv'
  BY RecoveryStepIsStep, NextIInv DEF RInv
<1>1. ASSUME NEW t \in Threads, Sealing(t) PROVE RecoverySound'
  BY <1>1, SealEpochKeeps, SealTakeKeeps, SealFoldKeeps DEF Sealing, SealingPhases, Seal
<1>2. ASSUME NEW t \in Threads, Opening(t) PROVE RecoverySound'
  BY <1>2, OpeningKeeps DEF Opening
<1>3. ASSUME NEW t \in Threads, Saving(t) PROVE RecoverySound'
  <2>1. phase \in [Nodes -> Phases]
    BY DEF RInv, RecoverySound
  <2>2. CASE ExportLock(t) \/ ExportEpoch(t) \/ ExportSeq(t)
    <3>1. ~At(t, "ExportCopy")
      BY <2>2 DEF ExportLock, ExportEpoch, ExportSeq, Starts, At
    <3>2. UNCHANGED phase
      BY <1>3, <2>1, <3>1 DEF Saving
    <3> QED BY <1>3, <2>2, <3>2, ExportReadsKeep DEF Saving
  <2>3. CASE ExportCopy(t)
    <3>1. phase' = [phase EXCEPT ![Home[t]] = "serving"]
      BY <1>3, <2>3 DEF Saving, ExportCopy
    <3> QED BY <1>3, <2>3, <3>1, ExportCopyKeeps DEF Saving
  <2> QED BY <1>3, <2>2, <2>3 DEF Saving, Export
<1>4. ASSUME NEW t \in Threads, Restoring(t) PROVE RecoverySound'
  <2>1. phase \in [Nodes -> Phases]
    BY DEF RInv, RecoverySound
  <2>2. phase' = [phase EXCEPT ![Home[t]] =
                     IF ~At(t, "RestorePeers") THEN @ ELSE "saving"]
    BY <1>4 DEF Restoring
  <2>3. CASE RestoreEpoch(t) \/ RestoreSeq(t) \/ RestorePeers(t)
    BY <2>2, <2>3, RestoreStoresKeep
  <2>4. CASE /\ ~ \E place \in Restores : BusyWith(Home[t], place)
             /\ RestoreLoad(t, Newest(Home[t]))
    <3>1. ~At(t, "RestorePeers")
      BY <2>4 DEF RestoreLoad, Starts, At
    <3>2. UNCHANGED phase
      BY <2>1, <2>2, <3>1
    <3> QED BY <1>4, <2>4, <3>2, RestoreLoadKeeps DEF Restoring
  <2> QED BY <1>4, <2>3, <2>4 DEF Restoring, Restores
<1>5. ASSUME NEW n \in Nodes, PowerCut(n) PROVE RecoverySound'
  BY <1>5, PowerCutKeeps
<1>6. ASSUME UNCHANGED recoveryVars PROVE RecoverySound'
  <2>1. UNCHANGED <<epoch, txSeq, log, call, wire, disk, sealed, phase>>
    BY <1>6 DEF recoveryVars, vars, node
  <2>2. Issued' = Issued
    BY <2>1 DEF Issued, At
  <2>3. phase' \in [Nodes -> Phases] /\ IssuedUnique' /\ IssuedSaved'
        /\ \A n \in Nodes : NodeSound(n)'
    BY <2>1, <2>2, NodesStaySound
  <2>4. ASSUME NEW u \in Threads PROVE CallSound(u)'
    <3>1. CallSound(u)
      BY DEF RInv, RecoverySound
    <3> QED BY <2>1, <3>1 DEF CallSound, At, Newest, Covers
  <2>5. OneRestorer'
    BY <2>1 DEF RInv, RecoverySound, OneRestorer
  <2> QED BY <2>3, <2>4, <2>5 DEF RecoverySound
<1>7. RecoverySound'
  <2>1. CASE RecoveryNext
    <3>1. ASSUME NEW t \in Threads, Sealing(t) \/ Opening(t) \/ Saving(t) \/ Restoring(t)
          PROVE  RecoverySound'
      BY <1>1, <1>2, <1>3, <1>4, <3>1
    <3> QED BY <1>5, <2>1, <3>1 DEF RecoveryNext
  <2> QED BY <1>6, <2>1
<1> QED BY <1>0, <1>7 DEF RInv

LEMMA AlwaysRInv ==
    ASSUME SaveAfterRestore = TRUE, SealersWait = TRUE, MaxSeals <= SeqMax
    PROVE  RecoverySpec => []RInv
BY InitRInv, NextRInv, PTL DEF RecoverySpec

-----------------------------------------------------------------------------
\* Over any power cuts, no two packets share (node, epoch, seq), which keys
\* them: when the application saves before its first seal and after it restores,
\* seals nothing in between, and the counters do not wrap.
THEOREM IdentitiesAreUnique ==
    ASSUME SaveAfterRestore = TRUE, SealersWait = TRUE, MaxSeals <= SeqMax
    PROVE  RecoverySpec => []UniqueIdentity
<1>1. RInv => UniqueIdentity
  BY DEF RInv, RecoverySound, IssuedUnique, Issued, UniqueIdentity
<1> QED BY <1>1, AlwaysRInv, PTL

\* Under the same assumptions, every checkpoint's counter is past all packets
\* of its epoch in its digest, although it is read while other threads seal.
THEOREM CheckpointsCover ==
    ASSUME SaveAfterRestore = TRUE, SealersWait = TRUE, MaxSeals <= SeqMax
    PROVE  RecoverySpec => []CheckpointCoversDigest
<1>1. RInv => CheckpointCoversDigest
  BY DEF RInv, RecoverySound, NodeSound, Covers, CheckpointCoversDigest
<1> QED BY <1>1, AlwaysRInv, PTL

\* And the recovering mesh is a mesh: its windows, digests and deliveries are
\* as exact as ChronoMesh_proofs shows.
THEOREM RecoveryImplementsMesh ==
    ASSUME SaveAfterRestore = TRUE, SealersWait = TRUE, MaxSeals <= SeqMax
    PROVE  RecoverySpec => Spec
<1>1. RecoveryInit => Init
  BY DEF RecoveryInit
<1>2. RInv /\ [RecoveryNext]_recoveryVars => [Next]_vars
  BY RecoveryStepIsStep
<1> QED BY <1>1, <1>2, AlwaysRInv, PTL DEF RecoverySpec, Spec
=============================================================================
