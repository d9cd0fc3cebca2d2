-------------------------- MODULE ChronoMesh_proofs --------------------------
(***************************************************************************)
(* For any number of nodes and threads, any window and any largest epoch   *)
(* and sequence number: the windows and the digests of ChronoMesh are      *)
(* exact, nothing is delivered twice, and equal digests mean no loss,      *)
(* across crashes and restores of any checkpoint.                          *)
(***************************************************************************)
EXTENDS ChronoMesh, ReplayWindow_proofs

-----------------------------------------------------------------------------
(* The inductive invariant.  A window is restored from a checkpoint, so    *)
(* checkpoints must be exact too, on disk and in the hands of a thread     *)
(* that restores one; reading u64::MAX as None is harmless because no      *)
(* packet has the last sequence number; and a fold never cancels because the packet that  *)
(* a thread is about to fold is in no log yet.                             *)

SeqsOf(packets, k) == {p.seq : p \in {q \in packets : KeyOf(q) = k}}

LogSound(n, l) ==
    /\ l.mine \subseteq wire
    /\ l.got \subseteq wire
    /\ \A p \in l.mine : p.node = n

CheckpointSound(n, c) ==
    /\ LogSound(n, c.log)
    /\ c.rx.digest = SymDiff(c.log.mine, c.log.got)
    /\ \A k \in Keys : Exact(Decoded(c.rx.peers[k]), SeqsOf(c.log.got, k))

WireSound == \A p \in wire : p.msg <= sealed /\ p.seq # SeqMax

PendingSound(t) ==
    /\ At(t, "OpenFinish") => call[t].packet \in wire
    /\ At(t, "SealFold") =>
          /\ call[t].packet \notin wire
          /\ call[t].packet.msg <= sealed
          /\ call[t].packet.seq # SeqMax
          /\ call[t].packet.node = Home[t]
    /\ call[t].at \in {"RestoreEpoch", "RestoreSeq", "RestorePeers"} =>
          CheckpointSound(Home[t], call[t].ckpt)

PendingApart ==
    \A t, u \in Threads :
        At(t, "SealFold") /\ At(u, "SealFold") /\ t # u =>
            call[t].packet # call[u].packet

IInv ==
    /\ TypeOK
    /\ PeersExact
    /\ IntegrityExact
    /\ DeliveredOnce
    /\ WireSound
    /\ \A t \in Threads : PendingSound(t)
    /\ PendingApart
    /\ \A n \in Nodes : LogSound(n, log[n])
    /\ \A n \in Nodes : \A c \in CheckpointsOf(n) : CheckpointSound(n, c)

-----------------------------------------------------------------------------
(* Facts about the operators.                                              *)

\* fold_packet_into_integrity_hash adds a packet to either side of the digest.
LEMMA FoldAddsMine ==
    ASSUME NEW A, NEW B, NEW p, p \notin A
    PROVE  Fold(SymDiff(A, B), p) = SymDiff(A \cup {p}, B)
BY DEF Fold, SymDiff

LEMMA FoldAddsGot ==
    ASSUME NEW A, NEW B, NEW p, p \notin B
    PROVE  Fold(SymDiff(A, B), p) = SymDiff(A, B \cup {p})
BY DEF Fold, SymDiff

LEMMA DecodedType ==
    ASSUME NEW w \in WindowState(Seqs)
    PROVE  Decoded(w) \in WindowState(Seqs)
BY DEF Decoded, WindowState

\* A packet that the window of its key lets through is in no set that the
\* window is exact for, and recording it keeps the window exact.
LEMMA CheckedIsNew ==
    ASSUME NEW w \in WindowState(Seqs), NEW A \in SUBSET Seqs, Exact(w, A),
           NEW s \in Seqs, Check(w, s) = "Ok"
    PROVE  s \notin A /\ Exact(Record(w, s), A \cup {s})
<1>1. SeqMax \in Nat
  BY MeshAssumption
<1>2. Check(w, s) = IF \E h \in A : h - s >= Window THEN "FueraDeOrden"
                    ELSE IF s \in A THEN "Repetido" ELSE "Ok"
  BY <1>1, CheckCorrect DEF Seqs
<1>3. Exact(Record(w, s), A \cup {s})
  BY <1>1, RecordExact DEF Seqs
<1> QED BY <1>2, <1>3

LEMMA SeqsOfType ==
    ASSUME NEW P \in SUBSET Packet, NEW k \in Keys
    PROVE  SeqsOf(P, k) \in SUBSET Seqs
BY DEF SeqsOf, Packet

-----------------------------------------------------------------------------
LEMMA InitIInv == Init => IInv
<1> SUFFICES ASSUME Init PROVE IInv
  OBVIOUS
<1> USE DEF Init, EmptyRx, EmptyLog, Idle
<1>0. BootEpoch \in Epochs /\ 0 \in Seqs /\ 0 \in 0 .. MaxSeals /\ 0 \in 0 .. MaxCrashes
  BY MeshAssumption DEF Epochs, Seqs
<1>1. TypeOK
  <2>1. Fresh \in WindowState(Seqs)
    BY DEF Fresh, WindowState
  <2>2. EmptyRx \in RxTracker
    BY <2>1 DEF RxTracker
  <2> QED BY <1>0, <2>2 DEF TypeOK, Log, Call
<1>2. PeersExact
  <2>1. Exact(Fresh, {})
    BY DEF Exact, Fresh, NoneSeen
  <2>2. \A n \in Nodes, k \in Keys :
            /\ rx[n].peers[k] = Fresh
            /\ {p.seq : p \in {q \in log[n].got : KeyOf(q) = k}} = {}
    OBVIOUS
  <2> QED BY <2>1, <2>2 DEF PeersExact
<1>3. IntegrityExact /\ DeliveredOnce
  BY DEF IntegrityExact, DeliveredOnce, SymDiff
<1>4. WireSound /\ PendingApart /\ \A t \in Threads : PendingSound(t)
  BY DEF WireSound, PendingApart, PendingSound, At
<1>5. \A n \in Nodes : LogSound(n, log[n])
  BY DEF LogSound
<1>6. \A n \in Nodes : CheckpointsOf(n) = {}
  BY DEF CheckpointsOf
<1> QED BY <1>1, <1>2, <1>3, <1>4, <1>5, <1>6 DEF IInv

\* What a thread holds has its type.
LEMMA CallTypes ==
    ASSUME TypeOK, NEW t \in Threads
    PROVE  /\ Home[t] \in Nodes
           /\ call[t] \in Call
           /\ At(t, "SealTake") => call[t].epoch \in Epochs
           /\ At(t, "SealFold") => call[t].packet \in Packet
           /\ At(t, "OpenFinish") => call[t].packet \in Packet
           /\ At(t, "ExportSeq") => call[t].epoch \in Epochs
           /\ At(t, "ExportCopy") => call[t].epoch \in Epochs /\ call[t].seq \in Seqs
           /\ At(t, "RestoreEpoch") => call[t].epoch \in Epochs
           /\ call[t].at \in {"RestoreEpoch", "RestoreSeq", "RestorePeers"} =>
                  call[t].ckpt \in Checkpoint
<1>1. Home[t] \in Nodes /\ call[t] \in Call
  BY MeshAssumption DEF TypeOK
<1> QED BY <1>1 DEF Call, At, Idle

\* A step that moves one thread on, and at most stores to an atomic, keeps the
\* invariant when what the thread holds afterwards is sound.
LEMMA MoveKeepsIInv ==
    ASSUME IInv, NEW t \in Threads, NEW c \in Call, Goto(t, c),
           UNCHANGED <<rx, log, twice, wire, disk, sealed, crashes>>,
           epoch' \in [Nodes -> Epochs], txSeq' \in [Nodes -> Seqs],
           c.at # "SealFold",
           c.at = "OpenFinish" => c.packet \in wire,
           c.at \in {"RestoreEpoch", "RestoreSeq", "RestorePeers"} =>
               CheckpointSound(Home[t], c.ckpt)
    PROVE  IInv'
<1> call \in [Threads -> Call]
  BY DEF IInv, TypeOK
<1>1. \A u \in Threads : call'[u] = IF u = t THEN c ELSE call[u]
  BY DEF Goto
<1>2. TypeOK'
  BY DEF IInv, TypeOK, Goto
<1>3. PeersExact' /\ IntegrityExact' /\ DeliveredOnce' /\ WireSound'
  BY DEF IInv, PeersExact, IntegrityExact, DeliveredOnce, WireSound
<1>4. ASSUME NEW u \in Threads PROVE PendingSound(u)'
  <2>1. PendingSound(u)
    BY DEF IInv
  <2> QED BY <1>1, <2>1 DEF PendingSound, At, CheckpointSound, LogSound
<1>5. PendingApart'
  <2>1. PendingApart
    BY DEF IInv
  <2> QED BY <1>1, <2>1 DEF PendingApart, At
<1>6. \A n \in Nodes : LogSound(n, log[n])'
  BY DEF IInv, LogSound
<1>7. \A n \in Nodes : \A k \in CheckpointsOf(n)' : CheckpointSound(n, k)'
  BY DEF IInv, CheckpointSound, LogSound, CheckpointsOf
<1> QED BY <1>2, <1>3, <1>4, <1>5, <1>6, <1>7 DEF IInv

-----------------------------------------------------------------------------
(* seal_realtime                                                           *)

LEMMA SealEpochKeepsIInv ==
    ASSUME IInv, NEW t \in Threads, SealEpoch(t) PROVE IInv'
<1> DEFINE c == [at |-> "SealTake", epoch |-> epoch[Home[t]]]
<1>1. TypeOK /\ Home[t] \in Nodes
  BY CallTypes DEF IInv
<1>2. c \in Call
  BY <1>1 DEF Call, TypeOK
<1>3. Goto(t, c) /\ UNCHANGED <<epoch, txSeq, rx, log, twice, wire, disk, sealed, crashes>>
  BY DEF SealEpoch, node
<1> HIDE DEF c
<1>4. c.at = "SealTake"
  BY DEF c
<1> QED BY <1>1, <1>2, <1>3, <1>4, MoveKeepsIInv DEF TypeOK

\* The packet that gets the next number is in no set of packets yet.
LEMMA SealTakeKeepsIInv ==
    ASSUME IInv, NEW t \in Threads, NEW aadFits \in BOOLEAN, SealTake(t, aadFits)
    PROVE  IInv'
<1> DEFINE p == [node |-> Home[t], epoch |-> call[t].epoch,
                 seq |-> txSeq[Home[t]], msg |-> sealed + 1]
           taken == txSeq[Home[t]] # SeqMax /\ aadFits
           c == IF taken THEN [at |-> "SealFold", packet |-> p] ELSE Idle
<1>1. TypeOK /\ Home[t] \in Nodes /\ call[t].epoch \in Epochs
  BY CallTypes DEF IInv, SealTake
<1>2. /\ sealed \in Nat /\ sealed < MaxSeals /\ sealed' = sealed + 1
      /\ sealed' \in 0 .. MaxSeals
      /\ txSeq' \in [Nodes -> Seqs]
  <2>1. sealed \in 0 .. MaxSeals /\ MaxSeals \in Nat /\ SeqMax \in Nat
    BY <1>1, MeshAssumption DEF TypeOK
  <2>2. txSeq \in [Nodes -> Seqs]
    BY <1>1 DEF TypeOK
  <2>3. \A s \in Seqs : (s + 1) % (SeqMax + 1) \in Seqs
    BY <2>1 DEF Seqs
  <2>4. txSeq' = [txSeq EXCEPT ![Home[t]] = (txSeq[Home[t]] + 1) % (SeqMax + 1)]
    BY DEF SealTake
  <2>5. (txSeq[Home[t]] + 1) % (SeqMax + 1) \in Seqs
    BY <1>1, <2>2, <2>3
  <2>6. txSeq' \in [Nodes -> Seqs]
    BY <2>2, <2>4, <2>5
  <2>7. sealed < MaxSeals /\ sealed' = sealed + 1
    BY DEF SealTake
  <2> QED BY <2>1, <2>6, <2>7
<1>3. p \in Packet /\ p.msg = sealed' /\ p.seq = txSeq[Home[t]] /\ p.node = Home[t]
  <2>1. txSeq[Home[t]] \in Seqs
    BY <1>1 DEF TypeOK
  <2>2. sealed + 1 \in 1 .. MaxSeals
    BY <1>2, MeshAssumption
  <2> QED BY <1>1, <1>2, <2>1, <2>2 DEF Packet
<1>4. c \in Call
  BY <1>3 DEF Call, Idle
<1>5. Goto(t, c) /\ UNCHANGED <<epoch, rx, wire, disk, log, twice, crashes>>
  BY DEF SealTake
<1>6. \A q \in Packet : q.msg <= sealed => q # p /\ q.msg <= sealed'
  BY <1>2, <1>3 DEF Packet
<1>7. p \notin wire
  BY <1>1, <1>6 DEF IInv, TypeOK, WireSound
<1> HIDE DEF p
<1>8. /\ c.at \in {"SealFold", "Idle"}
      /\ c.at = "SealFold" => c.packet = p /\ txSeq[Home[t]] # SeqMax
  BY DEF Idle
<1> HIDE DEF c, taken
<1>9. \A u \in Threads : call'[u] = IF u = t THEN c ELSE call[u]
  BY <1>1, <1>5 DEF Goto, TypeOK
<1>10. TypeOK'
  BY <1>1, <1>2, <1>4, <1>5 DEF TypeOK, Goto
<1>11. PeersExact' /\ IntegrityExact' /\ DeliveredOnce'
  BY <1>5 DEF IInv, PeersExact, IntegrityExact, DeliveredOnce
<1>12. WireSound'
  <2>1. \A q \in wire : q \in Packet
    BY <1>1 DEF TypeOK
  <2> QED BY <1>5, <1>6, <2>1 DEF IInv, WireSound
<1>13. ASSUME NEW u \in Threads PROVE PendingSound(u)'
  <2>1. CASE u = t
    BY <1>2, <1>3, <1>5, <1>7, <1>8, <1>9, <2>1 DEF PendingSound, At
  <2>2. CASE u # t
    <3>1. PendingSound(u) /\ call'[u] = call[u]
      BY <1>9, <2>2 DEF IInv
    <3>2. At(u, "SealFold") => call[u].packet.msg <= sealed'
      BY <1>1, <1>6, <3>1, CallTypes DEF PendingSound
    <3> QED BY <1>5, <3>1, <3>2 DEF PendingSound, At, CheckpointSound, LogSound
  <2> QED BY <2>1, <2>2
<1>14. PendingApart'
  <2>1. \A u \in Threads : At(u, "SealFold") => call[u].packet # p
    BY <1>1, <1>6, CallTypes DEF IInv, PendingSound
  <2>2. PendingApart
    BY DEF IInv
  <2> QED BY <1>8, <1>9, <2>1, <2>2 DEF PendingApart, At
<1>15. \A n \in Nodes : LogSound(n, log[n])'
  BY <1>5 DEF IInv, LogSound
<1>16. \A n \in Nodes : \A k \in CheckpointsOf(n)' : CheckpointSound(n, k)'
  BY <1>5 DEF IInv, CheckpointSound, LogSound, CheckpointsOf
<1> QED BY <1>10, <1>11, <1>12, <1>13, <1>14, <1>15, <1>16 DEF IInv

LEMMA SealFoldKeepsIInv ==
    ASSUME IInv, NEW t \in Threads, SealFold(t) PROVE IInv'
<1> DEFINE n == Home[t]
           p == call[t].packet
<1>1. TypeOK /\ n \in Nodes /\ p \in Packet
  BY CallTypes DEF IInv, SealFold
<1>2. p \notin wire /\ p.msg <= sealed /\ p.seq # SeqMax /\ p.node = n
  BY DEF IInv, PendingSound, SealFold
<1>3. /\ rx' = [rx EXCEPT ![n].digest = Fold(@, p)]
      /\ log' = [log EXCEPT ![n].mine = @ \cup {p}]
      /\ wire' = wire \cup {p}
      /\ Goto(t, Idle)
      /\ UNCHANGED <<epoch, txSeq, disk, twice, sealed, crashes>>
  BY DEF SealFold
<1>4. \A u \in Threads : call'[u] = IF u = t THEN Idle ELSE call[u]
  BY <1>1, <1>3 DEF Goto, TypeOK
<1>5. /\ At(t, "SealFold")
      /\ \A u \in Threads \ {t} : At(u, "SealFold") => call[u].packet # p
  BY DEF IInv, PendingApart, SealFold
<1> HIDE DEF p
<1>6. \A m \in Nodes : /\ rx'[m].peers = rx[m].peers
                       /\ m # n => rx'[m].digest = rx[m].digest
                       /\ log'[m].got = log[m].got
                       /\ m # n => log'[m].mine = log[m].mine
  BY <1>1, <1>3 DEF TypeOK, RxTracker, Log
<1>7. /\ rx'[n].digest = Fold(rx[n].digest, p)
      /\ log'[n].mine = log[n].mine \cup {p}
  BY <1>1, <1>3 DEF TypeOK, RxTracker, Log
<1>8. TypeOK'
  <2>1. Fold(rx[n].digest, p) \in SUBSET Packet /\ log[n].mine \cup {p} \in SUBSET Packet
    BY <1>1 DEF Fold, SymDiff, TypeOK, RxTracker, Log
  <2>2. rx' \in [Nodes -> RxTracker] /\ log' \in [Nodes -> Log]
    BY <1>1, <1>3, <2>1 DEF TypeOK, RxTracker, Log
  <2>3. call' \in [Threads -> Call]
    BY <1>1, <1>3 DEF TypeOK, Goto, Call
  <2> QED BY <1>1, <1>3, <2>2, <2>3 DEF TypeOK
<1>9. PeersExact'
  BY <1>6 DEF IInv, PeersExact
<1>10. IntegrityExact'
  <2>1. p \notin log[n].mine
    BY <1>1, <1>2 DEF IInv, LogSound
  <2>2. rx[n].digest = SymDiff(log[n].mine, log[n].got)
    BY <1>1 DEF IInv, IntegrityExact
  <2>3. Fold(SymDiff(log[n].mine, log[n].got), p) = SymDiff(log[n].mine \cup {p}, log[n].got)
    BY <2>1, FoldAddsMine
  <2>4. log'[n].got = log[n].got
    BY <1>1, <1>6
  <2>5. rx'[n].digest = SymDiff(log'[n].mine, log'[n].got)
    BY <1>7, <2>2, <2>3, <2>4
  <2> QED BY <1>6, <2>5 DEF IInv, IntegrityExact
<1>11. DeliveredOnce' /\ WireSound'
  BY <1>2, <1>3 DEF IInv, DeliveredOnce, WireSound
<1>12. ASSUME NEW u \in Threads PROVE PendingSound(u)'
  <2>1. PendingSound(u)
    BY DEF IInv
  <2> QED BY <1>3, <1>4, <1>5, <2>1 DEF PendingSound, At, Idle, CheckpointSound, LogSound
<1>13. PendingApart'
  BY <1>4 DEF IInv, PendingApart, At, Idle
<1>14. ASSUME NEW m \in Nodes PROVE LogSound(m, log[m])'
  BY <1>2, <1>3, <1>6, <1>7 DEF IInv, LogSound
<1>15. \A m \in Nodes : \A k \in CheckpointsOf(m)' : CheckpointSound(m, k)'
  BY <1>3 DEF IInv, CheckpointSound, LogSound, CheckpointsOf
<1> QED BY <1>8, <1>9, <1>10, <1>11, <1>12, <1>13, <1>14, <1>15 DEF IInv

-----------------------------------------------------------------------------
(* open_realtime                                                           *)

LEMMA OpenCheckKeepsIInv ==
    ASSUME IInv, NEW t \in Threads, NEW p \in wire, OpenCheck(t, p) PROVE IInv'
<1> DEFINE c == [at |-> "OpenFinish", packet |-> p]
<1>1. TypeOK /\ p \in Packet
  BY DEF IInv, TypeOK
<1>2. c \in Call
  BY <1>1 DEF Call
<1>3. Goto(t, c) /\ UNCHANGED <<epoch, txSeq, rx, log, twice, wire, disk, sealed, crashes>>
  BY DEF OpenCheck, node
<1> HIDE DEF c
<1>4. c.at = "OpenFinish" /\ c.packet = p
  BY DEF c
<1> QED BY <1>1, <1>2, <1>3, <1>4, MoveKeepsIInv DEF TypeOK

LEMMA BackToIdleKeepsIInv ==
    ASSUME IInv, NEW t \in Threads, Goto(t, Idle),
           UNCHANGED <<epoch, txSeq, rx, log, twice, wire, disk, sealed, crashes>>
    PROVE  IInv'
<1>1. Idle \in Call /\ Idle.at = "Idle"
  BY DEF Idle, Call
<1>2. epoch' \in [Nodes -> Epochs] /\ txSeq' \in [Nodes -> Seqs]
  BY DEF IInv, TypeOK
<1> QED BY <1>1, <1>2, MoveKeepsIInv

\* The packet passes the second check, in one critical section with the record.
LEMMA OpenFinishKeepsIInv ==
    ASSUME IInv, NEW t \in Threads, OpenFinish(t) PROVE IInv'
<1> DEFINE n == Home[t]
           p == call[t].packet
           k == KeyOf(p)
<1>1. TypeOK /\ n \in Nodes /\ p \in Packet
  BY CallTypes DEF IInv, OpenFinish
<1>2. p \in wire
  BY DEF IInv, PendingSound, OpenFinish
<1>3. k \in Keys /\ p.seq \in Seqs
  BY <1>1 DEF KeyOf, Keys, Packet
<1>4. CASE ~ Recheck(n, p)
  BY <1>4, BackToIdleKeepsIInv DEF OpenFinish
<1>5. CASE Recheck(n, p)
  <2>1. /\ rx' = [rx EXCEPT ![n].peers[k] = Record(@, p.seq),
                            ![n].digest = Fold(@, p)]
        /\ log' = [log EXCEPT ![n].got = @ \cup {p}]
        /\ twice' = [twice EXCEPT ![n] = @ \cup (log[n].got \cap {p})]
        /\ Goto(t, Idle)
        /\ UNCHANGED <<epoch, txSeq, wire, disk, sealed, crashes>>
    BY <1>5 DEF OpenFinish
  <2>2. Check(rx[n].peers[k], p.seq) = "Ok"
    BY <1>5 DEF Recheck
  <2>3. \A u \in Threads : call'[u] = IF u = t THEN Idle ELSE call[u]
    BY <1>1, <2>1 DEF Goto, TypeOK
  <2> HIDE DEF p, k
  <2>4. /\ rx[n].peers \in [Keys -> WindowState(Seqs)]
        /\ rx[n].peers[k] \in WindowState(Seqs)
        /\ log[n].got \in SUBSET Packet
        /\ SeqsOf(log[n].got, k) \in SUBSET Seqs
    BY <1>1, <1>3, SeqsOfType DEF TypeOK, RxTracker, Log
  <2>5. Exact(rx[n].peers[k], SeqsOf(log[n].got, k))
    BY <1>1, <1>3 DEF IInv, PeersExact, SeqsOf
  <2>6. /\ p.seq \notin SeqsOf(log[n].got, k)
        /\ Exact(Record(rx[n].peers[k], p.seq), SeqsOf(log[n].got, k) \cup {p.seq})
    BY <1>3, <2>2, <2>4, <2>5, CheckedIsNew
  <2>7. p \notin log[n].got
    BY <2>6 DEF SeqsOf, k
  <2>8. Record(rx[n].peers[k], p.seq) \in WindowState(Seqs)
    BY <1>3, <2>2, <2>4, RecordState, MeshAssumption DEF Seqs
  <2>9. \A m \in Nodes : /\ m # n => rx'[m] = rx[m] /\ log'[m] = log[m]
                         /\ log'[m].mine = log[m].mine
    BY <1>1, <2>1 DEF TypeOK, RxTracker, Log
  <2>10. /\ rx' = [m \in Nodes |-> rx'[m]]
         /\ rx'[n] = [peers |-> rx'[n].peers, digest |-> rx'[n].digest]
         /\ rx'[n].digest = Fold(rx[n].digest, p)
         /\ rx'[n].peers = [rx[n].peers EXCEPT ![k] = Record(@, p.seq)]
         /\ log'[n].got = log[n].got \cup {p}
    BY <1>1, <1>3, <2>1 DEF TypeOK, RxTracker, Log
  <2>11. TypeOK'
    <3>1. Fold(rx[n].digest, p) \in SUBSET Packet
      BY <1>1 DEF Fold, SymDiff, TypeOK, RxTracker
    <3>2. [rx[n].peers EXCEPT ![k] = Record(@, p.seq)] \in [Keys -> WindowState(Seqs)]
      BY <1>3, <2>4, <2>8
    <3>3. rx' \in [Nodes -> RxTracker]
      <4>1. rx'[n] \in RxTracker
        BY <2>10, <3>1, <3>2 DEF RxTracker
      <4>2. \A m \in Nodes : rx'[m] \in RxTracker
        BY <1>1, <2>9, <4>1 DEF TypeOK
      <4> QED BY <2>10, <4>2
    <3>4. log' \in [Nodes -> Log] /\ twice' \in [Nodes -> SUBSET Packet]
      BY <1>1, <2>1 DEF TypeOK, Log
    <3>5. call' \in [Threads -> Call]
      BY <1>1, <2>1 DEF TypeOK, Goto, Call
    <3> QED BY <1>1, <2>1, <3>3, <3>4, <3>5 DEF TypeOK
  <2>12. PeersExact'
    <3>1. ASSUME NEW j \in Keys PROVE Exact(rx'[n].peers[j], SeqsOf(log'[n].got, j))
      <4>1. CASE j = k
        <5>1. SeqsOf(log[n].got \cup {p}, k) = SeqsOf(log[n].got, k) \cup {p.seq}
          BY DEF SeqsOf, k
        <5>2. rx'[n].peers[k] = Record(rx[n].peers[k], p.seq)
          BY <1>3, <2>4, <2>10
        <5> QED BY <2>6, <2>10, <4>1, <5>1, <5>2
      <4>2. CASE j # k
        <5>1. SeqsOf(log[n].got \cup {p}, j) = SeqsOf(log[n].got, j)
          BY <4>2 DEF SeqsOf, k
        <5>2. rx'[n].peers[j] = rx[n].peers[j]
          BY <1>3, <2>4, <2>10, <4>2
        <5>3. Exact(rx[n].peers[j], SeqsOf(log[n].got, j))
          BY <1>1 DEF IInv, PeersExact, SeqsOf
        <5> QED BY <2>10, <5>1, <5>2, <5>3
      <4> QED BY <4>1, <4>2
    <3> QED BY <2>9, <3>1 DEF IInv, PeersExact, SeqsOf
  <2>13. IntegrityExact'
    <3>1. rx[n].digest = SymDiff(log[n].mine, log[n].got)
      BY <1>1 DEF IInv, IntegrityExact
    <3>2. Fold(SymDiff(log[n].mine, log[n].got), p) = SymDiff(log[n].mine, log[n].got \cup {p})
      BY <2>7, FoldAddsGot
    <3>3. log'[n].mine = log[n].mine
      BY <1>1, <2>9
    <3>4. rx'[n].digest = SymDiff(log'[n].mine, log'[n].got)
      BY <2>10, <3>1, <3>2, <3>3
    <3> QED BY <2>9, <3>4 DEF IInv, IntegrityExact
  <2>14. DeliveredOnce'
    BY <1>1, <2>1, <2>7 DEF IInv, DeliveredOnce, TypeOK
  <2>15. WireSound'
    BY <2>1 DEF IInv, WireSound
  <2>16. ASSUME NEW u \in Threads PROVE PendingSound(u)'
    <3>1. PendingSound(u)
      BY DEF IInv
    <3> QED BY <2>1, <2>3, <3>1 DEF PendingSound, At, Idle, CheckpointSound, LogSound
  <2>17. PendingApart'
    BY <2>3 DEF IInv, PendingApart, At, Idle
  <2>18. ASSUME NEW m \in Nodes PROVE LogSound(m, log[m])'
    BY <1>2, <2>1, <2>9, <2>10, ZenonT(30) DEF IInv, LogSound
  <2>19. \A m \in Nodes : \A c \in CheckpointsOf(m)' : CheckpointSound(m, c)'
    BY <2>1 DEF IInv, CheckpointSound, LogSound, CheckpointsOf
  <2> QED BY <2>11, <2>12, <2>13, <2>14, <2>15, <2>16, <2>17, <2>18, <2>19 DEF IInv
<1> QED BY <1>4, <1>5

-----------------------------------------------------------------------------
(* export_checkpoint                                                       *)

LEMMA ExportReadsKeepIInv ==
    ASSUME IInv, NEW t \in Threads, ExportLock(t) \/ ExportEpoch(t) \/ ExportSeq(t)
    PROVE  IInv'
<1>1. TypeOK /\ Home[t] \in Nodes
  BY CallTypes DEF IInv
<1>2. PICK c \in Call : Goto(t, c) /\ c.at \in {"ExportEpoch", "ExportSeq", "ExportCopy"}
  <2>1. CASE ExportLock(t)
    <3>1. [at |-> "ExportEpoch"] \in Call
      BY DEF Call
    <3> QED BY <2>1, <3>1 DEF ExportLock
  <2>2. CASE ExportEpoch(t)
    <3>1. [at |-> "ExportSeq", epoch |-> epoch[Home[t]]] \in Call
      BY <1>1 DEF Call, TypeOK
    <3> QED BY <2>2, <3>1 DEF ExportEpoch
  <2>3. CASE ExportSeq(t)
    <3>1. call[t].epoch \in Epochs /\ txSeq[Home[t]] \in Seqs
      BY <1>1, <2>3, CallTypes DEF ExportSeq, TypeOK
    <3>2. [at |-> "ExportCopy", epoch |-> call[t].epoch, seq |-> txSeq[Home[t]]] \in Call
      BY <3>1 DEF Call
    <3> QED BY <2>3, <3>2 DEF ExportSeq
  <2> QED BY <2>1, <2>2, <2>3
<1>3. UNCHANGED <<epoch, txSeq, rx, log, twice, wire, disk, sealed, crashes>>
  BY DEF ExportLock, ExportEpoch, ExportSeq, node
<1> QED BY <1>1, <1>2, <1>3, MoveKeepsIInv DEF TypeOK

\* No window stands at u64::MAX, because no packet has that number.
LEMMA WindowsBelowMax ==
    ASSUME IInv, NEW n \in Nodes, NEW k \in Keys
    PROVE  rx[n].peers[k] \in WindowState(Seqs) /\ rx[n].peers[k].highest # SeqMax
<1>1. rx[n].peers[k] \in WindowState(Seqs)
  BY DEF IInv, TypeOK, RxTracker
<1>2. Exact(rx[n].peers[k], SeqsOf(log[n].got, k))
  BY DEF IInv, PeersExact, SeqsOf
<1>3. SeqMax \notin SeqsOf(log[n].got, k)
  BY DEF IInv, LogSound, WireSound, SeqsOf
<1>4. SeqMax # NoneSeen
  BY MeshAssumption DEF NoneSeen
<1> QED BY <1>1, <1>2, <1>3, <1>4 DEF Exact

LEMMA ExportCopyKeepsIInv ==
    ASSUME IInv, NEW t \in Threads, ExportCopy(t) PROVE IInv'
<1> DEFINE n == Home[t]
           c == [epoch |-> call[t].epoch, seq |-> call[t].seq, rx |-> rx[n], log |-> log[n]]
<1>1. TypeOK /\ n \in Nodes /\ call[t].epoch \in Epochs /\ call[t].seq \in Seqs
  BY CallTypes DEF IInv, ExportCopy
<1>2. /\ disk' = [disk EXCEPT ![n] = Append(@, c)]
      /\ Goto(t, Idle)
      /\ UNCHANGED <<epoch, txSeq, rx, log, twice, wire, sealed, crashes>>
  BY DEF ExportCopy, node
<1>3. \A u \in Threads : call'[u] = IF u = t THEN Idle ELSE call[u]
  BY <1>1, <1>2 DEF Goto, TypeOK
<1>4. \A k \in Keys : Decoded(rx[n].peers[k]) = rx[n].peers[k]
  BY <1>1, WindowsBelowMax DEF Decoded
<1>5. rx[n] \in RxTracker /\ log[n] \in Log
  BY <1>1 DEF TypeOK
<1>6. c \in Checkpoint /\ c.log = log[n] /\ c.rx = rx[n]
  BY <1>1, <1>5 DEF Checkpoint
<1> HIDE DEF c
<1>7. CheckpointSound(n, c)
  <2>1. LogSound(n, c.log)
    BY <1>1, <1>6 DEF IInv
  <2>2. c.rx.digest = SymDiff(c.log.mine, c.log.got)
    BY <1>1, <1>6 DEF IInv, IntegrityExact
  <2>3. \A k \in Keys : Exact(Decoded(c.rx.peers[k]), SeqsOf(c.log.got, k))
    BY <1>1, <1>4, <1>6 DEF IInv, PeersExact, SeqsOf
  <2> QED BY <2>1, <2>2, <2>3 DEF CheckpointSound
<1>8. TypeOK'
  <2>1. disk' \in [Nodes -> Seq(Checkpoint)]
    BY <1>1, <1>2, <1>6 DEF TypeOK
  <2>2. call' \in [Threads -> Call]
    BY <1>1, <1>2 DEF TypeOK, Goto, Call
  <2> QED BY <1>1, <1>2, <2>1, <2>2 DEF TypeOK
<1>9. PeersExact' /\ IntegrityExact' /\ DeliveredOnce' /\ WireSound'
  BY <1>2 DEF IInv, PeersExact, IntegrityExact, DeliveredOnce, WireSound
<1>10. ASSUME NEW u \in Threads PROVE PendingSound(u)'
  <2>1. PendingSound(u)
    BY DEF IInv
  <2> QED BY <1>2, <1>3, <2>1 DEF PendingSound, At, Idle, CheckpointSound, LogSound
<1>11. PendingApart'
  BY <1>3 DEF IInv, PendingApart, At, Idle
<1>12. \A m \in Nodes : LogSound(m, log[m])'
  BY <1>2 DEF IInv, LogSound
<1>13. ASSUME NEW m \in Nodes, NEW d \in CheckpointsOf(m)' PROVE CheckpointSound(m, d)'
  <2>1. d \in CheckpointsOf(m) \/ (m = n /\ d = c)
    <3>1. PICK i \in 1 .. Len(disk'[m]) : d = disk'[m][i]
      BY DEF CheckpointsOf
    <3>2. CASE m # n
      <4>1. disk'[m] = disk[m]
        BY <1>1, <1>2, <3>2 DEF TypeOK
      <4> QED BY <3>1, <4>1 DEF CheckpointsOf
    <3>3. CASE m = n
      <4>1. disk'[m] = Append(disk[m], c) /\ disk[m] \in Seq(Checkpoint)
        BY <1>1, <1>2, <3>3 DEF TypeOK
      <4>2. d = c \/ \E j \in 1 .. Len(disk[m]) : d = disk[m][j]
        BY <3>1, <4>1
      <4> QED BY <3>3, <4>2 DEF CheckpointsOf
    <3> QED BY <3>2, <3>3
  <2>2. CheckpointSound(m, d)
    BY <1>7, <2>1 DEF IInv
  <2> QED BY <1>2, <2>2 DEF CheckpointSound, LogSound
<1> QED BY <1>8, <1>9, <1>10, <1>11, <1>12, <1>13 DEF IInv

-----------------------------------------------------------------------------
(* restore_checkpoint                                                      *)

LEMMA CheckpointTypes ==
    ASSUME IInv, NEW n \in Nodes, NEW c \in CheckpointsOf(n)
    PROVE  c \in Checkpoint /\ CheckpointSound(n, c)
<1>1. disk[n] \in Seq(Checkpoint)
  BY DEF IInv, TypeOK
<1> QED BY <1>1 DEF CheckpointsOf, IInv

LEMMA RestoreLoadKeepsIInv ==
    ASSUME IInv, NEW t \in Threads, NEW ckpt \in CheckpointsOf(Home[t]),
           RestoreLoad(t, ckpt)
    PROVE  IInv'
<1>1. TypeOK /\ Home[t] \in Nodes
  BY CallTypes DEF IInv
<1>2. ckpt \in Checkpoint /\ CheckpointSound(Home[t], ckpt)
  BY <1>1, CheckpointTypes
<1>3. ckpt.epoch \in Epochs /\ NextEpoch(ckpt) \in Epochs /\ epoch[Home[t]] \in Epochs
  BY <1>1, <1>2, MeshAssumption DEF Checkpoint, NextEpoch, Epochs, TypeOK
<1> DEFINE c == [at |-> "RestoreEpoch", ckpt |-> ckpt,
                 epoch |-> IF epoch[Home[t]] > NextEpoch(ckpt)
                           THEN epoch[Home[t]] ELSE NextEpoch(ckpt)]
<1>4. c \in Call
  BY <1>2, <1>3 DEF Call
<1>5. Goto(t, c) /\ UNCHANGED <<epoch, txSeq, rx, log, twice, wire, disk, sealed, crashes>>
  BY DEF RestoreLoad, node
<1> HIDE DEF c
<1>6. c.at = "RestoreEpoch" /\ c.ckpt = ckpt
  BY DEF c
<1> QED BY <1>1, <1>2, <1>4, <1>5, <1>6, MoveKeepsIInv DEF TypeOK

LEMMA RestoreStoresKeepIInv ==
    ASSUME IInv, NEW t \in Threads, RestoreEpoch(t) \/ RestoreSeq(t)
    PROVE  IInv'
<1>1. /\ TypeOK /\ Home[t] \in Nodes /\ call[t].ckpt \in Checkpoint
      /\ CheckpointSound(Home[t], call[t].ckpt)
      /\ At(t, "RestoreEpoch") => call[t].epoch \in Epochs
  BY CallTypes DEF IInv, PendingSound, RestoreEpoch, RestoreSeq, At
<1>2. epoch' \in [Nodes -> Epochs] /\ txSeq' \in [Nodes -> Seqs]
  <2>1. call[t].ckpt.seq \in Seqs
    BY <1>1 DEF Checkpoint
  <2> QED BY <1>1, <2>1 DEF RestoreEpoch, RestoreSeq, TypeOK
<1>3. PICK c \in Call :
          /\ Goto(t, c) /\ c.ckpt = call[t].ckpt
          /\ c.at \in {"RestoreSeq", "RestorePeers"}
  <2>1. /\ [at |-> "RestoreSeq", ckpt |-> call[t].ckpt] \in Call
        /\ [at |-> "RestorePeers", ckpt |-> call[t].ckpt] \in Call
    BY <1>1 DEF Call
  <2> QED BY <2>1 DEF RestoreEpoch, RestoreSeq
<1>4. UNCHANGED <<rx, log, twice, wire, disk, sealed, crashes>>
  BY DEF RestoreEpoch, RestoreSeq
<1> QED BY <1>1, <1>2, <1>3, <1>4, MoveKeepsIInv

LEMMA RestorePeersKeepsIInv ==
    ASSUME IInv, NEW t \in Threads, RestorePeers(t) PROVE IInv'
<1> DEFINE n == Home[t]
           c == call[t].ckpt
           peers == [k \in Keys |-> Decoded(c.rx.peers[k])]
<1>1. TypeOK /\ n \in Nodes /\ c \in Checkpoint /\ CheckpointSound(n, c)
  BY CallTypes DEF IInv, PendingSound, RestorePeers, At
<1>2. /\ rx' = [rx EXCEPT ![n] = [c.rx EXCEPT !.peers = peers]]
      /\ log' = [log EXCEPT ![n] = c.log]
      /\ Goto(t, Idle)
      /\ UNCHANGED <<epoch, txSeq, wire, disk, twice, sealed, crashes>>
  <2>1. c.rx \in RxTracker
    BY <1>1 DEF Checkpoint
  <2> QED BY <2>1 DEF RestorePeers, RxTracker
<1>3. \A u \in Threads : call'[u] = IF u = t THEN Idle ELSE call[u]
  BY <1>1, <1>2 DEF Goto, TypeOK
<1> HIDE DEF c
<1>4. c.rx \in RxTracker /\ c.log \in Log /\ c.rx.peers \in [Keys -> WindowState(Seqs)]
  BY <1>1 DEF Checkpoint, RxTracker
<1>5. peers \in [Keys -> WindowState(Seqs)] /\ \A k \in Keys : peers[k] = Decoded(c.rx.peers[k])
  BY <1>4, DecodedType
<1> HIDE DEF peers
<1>6. /\ [c.rx EXCEPT !.peers = peers] \in RxTracker
      /\ \A m \in Nodes : m # n => rx'[m] = rx[m] /\ log'[m] = log[m]
      /\ rx'[n].peers = peers /\ rx'[n].digest = c.rx.digest /\ log'[n] = c.log
  BY <1>1, <1>2, <1>4, <1>5 DEF TypeOK, RxTracker
<1>7. TypeOK'
  <2>1. rx' \in [Nodes -> RxTracker] /\ log' \in [Nodes -> Log]
    BY <1>1, <1>2, <1>4, <1>6 DEF TypeOK
  <2>2. call' \in [Threads -> Call]
    BY <1>1, <1>2 DEF TypeOK, Goto, Call
  <2> QED BY <1>1, <1>2, <2>1, <2>2 DEF TypeOK
<1>8. PeersExact'
  <2>1. \A k \in Keys : Exact(rx'[n].peers[k], SeqsOf(log'[n].got, k))
    BY <1>1, <1>5, <1>6 DEF CheckpointSound
  <2> QED BY <1>6, <2>1 DEF IInv, PeersExact, SeqsOf
<1>9. IntegrityExact'
  <2>1. rx'[n].digest = SymDiff(log'[n].mine, log'[n].got)
    BY <1>1, <1>6 DEF CheckpointSound
  <2> QED BY <1>6, <2>1 DEF IInv, IntegrityExact
<1>10. DeliveredOnce' /\ WireSound'
  BY <1>2 DEF IInv, DeliveredOnce, WireSound
<1>11. ASSUME NEW u \in Threads PROVE PendingSound(u)'
  <2>1. PendingSound(u)
    BY DEF IInv
  <2> QED BY <1>2, <1>3, <2>1 DEF PendingSound, At, Idle, CheckpointSound, LogSound
<1>12. PendingApart'
  BY <1>3 DEF IInv, PendingApart, At, Idle
<1>13. ASSUME NEW m \in Nodes PROVE LogSound(m, log[m])'
  BY <1>1, <1>2, <1>6 DEF IInv, CheckpointSound, LogSound
<1>14. \A m \in Nodes : \A d \in CheckpointsOf(m)' : CheckpointSound(m, d)'
  BY <1>2 DEF IInv, CheckpointSound, LogSound, CheckpointsOf
<1> QED BY <1>7, <1>8, <1>9, <1>10, <1>11, <1>12, <1>13, <1>14 DEF IInv

-----------------------------------------------------------------------------
\* A new process knows nothing, which is exact.
LEMMA CrashKeepsIInv ==
    ASSUME IInv, NEW n \in Nodes, Crash(n) PROVE IInv'
<1> /\ epoch' = [epoch EXCEPT ![n] = BootEpoch]
    /\ txSeq' = [txSeq EXCEPT ![n] = 0]
    /\ rx' = [rx EXCEPT ![n] = EmptyRx]
    /\ log' = [log EXCEPT ![n] = EmptyLog]
    /\ call' = [t \in Threads |-> IF Home[t] = n THEN Idle ELSE call[t]]
    /\ UNCHANGED <<wire, disk, twice, sealed>>
    /\ crashes < MaxCrashes /\ crashes' = crashes + 1
  BY DEF Crash
<1>1. TypeOK
  BY DEF IInv
<1>2. /\ \A m \in Nodes : m # n => rx'[m] = rx[m] /\ log'[m] = log[m]
      /\ rx'[n] = EmptyRx /\ log'[n] = EmptyLog
  BY <1>1 DEF TypeOK
<1>3. \A t \in Threads : call'[t] = call[t] \/ call'[t].at = "Idle"
  BY DEF Idle
<1>4. TypeOK'
  <2>1. EmptyRx \in RxTracker /\ EmptyLog \in Log
    BY DEF EmptyRx, EmptyLog, RxTracker, Log, Fresh, WindowState
  <2>2. rx' \in [Nodes -> RxTracker] /\ log' \in [Nodes -> Log]
    BY <1>1, <2>1 DEF TypeOK
  <2>3. BootEpoch \in Epochs /\ 0 \in Seqs
    BY MeshAssumption DEF Epochs, Seqs
  <2>4. epoch' \in [Nodes -> Epochs] /\ txSeq' \in [Nodes -> Seqs]
    BY <1>1, <2>3 DEF TypeOK
  <2>5. Idle \in Call
    BY DEF Idle, Call
  <2>6. call' \in [Threads -> Call]
    BY <1>1, <2>5 DEF TypeOK
  <2>7. crashes' \in 0 .. MaxCrashes
    BY <1>1, MeshAssumption DEF TypeOK
  <2> QED BY <1>1, <2>2, <2>4, <2>6, <2>7 DEF TypeOK
<1>5. PeersExact'
  <2>1. Exact(Fresh, {})
    BY DEF Exact, Fresh, NoneSeen
  <2>2. \A k \in Keys : rx'[n].peers[k] = Fresh /\ SeqsOf(log'[n].got, k) = {}
    BY <1>2 DEF EmptyRx, EmptyLog, SeqsOf
  <2>3. \A k \in Keys : Exact(rx'[n].peers[k], SeqsOf(log'[n].got, k))
    BY <2>1, <2>2
  <2> QED BY <1>2, <2>3 DEF IInv, PeersExact, SeqsOf
<1>6. IntegrityExact'
  <2>1. rx'[n].digest = SymDiff(log'[n].mine, log'[n].got)
    BY <1>2 DEF EmptyRx, EmptyLog, SymDiff
  <2> QED BY <1>2, <2>1 DEF IInv, IntegrityExact
<1>7. DeliveredOnce' /\ WireSound'
  BY DEF IInv, DeliveredOnce, WireSound
<1>8. ASSUME NEW u \in Threads PROVE PendingSound(u)'
  <2>1. PendingSound(u)
    BY DEF IInv
  <2> QED BY <1>3, <2>1 DEF PendingSound, At, CheckpointSound, LogSound
<1>9. PendingApart'
  BY <1>3 DEF IInv, PendingApart, At
<1>10. ASSUME NEW m \in Nodes PROVE LogSound(m, log[m])'
  BY <1>2 DEF IInv, LogSound, EmptyLog
<1>11. \A m \in Nodes : \A d \in CheckpointsOf(m)' : CheckpointSound(m, d)'
  BY DEF IInv, CheckpointSound, LogSound, CheckpointsOf
<1> QED BY <1>4, <1>5, <1>6, <1>7, <1>8, <1>9, <1>10, <1>11 DEF IInv

-----------------------------------------------------------------------------
LEMMA NextIInv == IInv /\ [Next]_vars => IInv'
<1> SUFFICES ASSUME IInv, [Next]_vars PROVE IInv'
  OBVIOUS
<1>1. ASSUME NEW t \in Threads, Seal(t) PROVE IInv'
  BY <1>1, SealEpochKeepsIInv, SealTakeKeepsIInv, SealFoldKeepsIInv DEF Seal
<1>2. ASSUME NEW t \in Threads, Open(t) PROVE IInv'
  <2>1. ASSUME NEW p \in wire, OpenCheck(t, p) PROVE IInv'
    BY <2>1, OpenCheckKeepsIInv
  <2>2. CASE OpenUnauthentic(t)
    BY <2>2, BackToIdleKeepsIInv DEF OpenUnauthentic, node
  <2>3. CASE OpenFinish(t)
    BY <2>3, OpenFinishKeepsIInv
  <2> QED BY <1>2, <2>1, <2>2, <2>3 DEF Open
<1>3. ASSUME NEW t \in Threads, Export(t) PROVE IInv'
  BY <1>3, ExportReadsKeepIInv, ExportCopyKeepsIInv DEF Export
<1>4. ASSUME NEW t \in Threads, Restore(t) PROVE IInv'
  BY <1>4, RestoreLoadKeepsIInv, RestoreStoresKeepIInv, RestorePeersKeepsIInv DEF Restore
<1>5. ASSUME NEW n \in Nodes, Crash(n) PROVE IInv'
  BY <1>5, CrashKeepsIInv
<1>6. CASE UNCHANGED vars
  <2>1. UNCHANGED <<epoch, txSeq, rx, log, twice, call, wire, disk, sealed, crashes>>
    BY <1>6 DEF vars, node
  <2>2. /\ TypeOK' /\ PeersExact' /\ IntegrityExact' /\ DeliveredOnce' /\ WireSound'
        /\ PendingApart'
    BY <2>1 DEF IInv, TypeOK, PeersExact, IntegrityExact, DeliveredOnce, WireSound,
                PendingApart, At
  <2>3. \A t \in Threads : PendingSound(t)'
    BY <2>1 DEF IInv, PendingSound, At, CheckpointSound, LogSound
  <2>4. /\ \A n \in Nodes : LogSound(n, log[n])'
        /\ \A n \in Nodes : \A c \in CheckpointsOf(n)' : CheckpointSound(n, c)'
    BY <2>1 DEF IInv, CheckpointSound, LogSound, CheckpointsOf
  <2> QED BY <2>2, <2>3, <2>4 DEF IInv
<1> QED BY <1>1, <1>2, <1>3, <1>4, <1>5, <1>6 DEF Next

LEMMA AlwaysIInv == Spec => []IInv
<1> QED BY InitIInv, NextIInv, PTL DEF Spec

\* Two logs that are folded to the same digest, when no node opened a packet of
\* its own: what one node sealed is in the set the other opened.
LEMMA DigestsAgree ==
    ASSUME IInv, \A n \in Nodes : \A p \in log[n].got : p.node # n
    PROVE  \A a, b \in Nodes :
             rx[a].digest = rx[b].digest =>
               \A p \in log[a].mine : p.node = a /\ a # b => p \in log[b].got
<1> SUFFICES ASSUME NEW a \in Nodes, NEW b \in Nodes, rx[a].digest = rx[b].digest,
                    NEW p \in log[a].mine, p.node = a, a # b
             PROVE  p \in log[b].got
  OBVIOUS
<1>1. p \notin log[a].got
  OBVIOUS
<1>2. SymDiff(log[a].mine, log[a].got) = SymDiff(log[b].mine, log[b].got)
  BY DEF IInv, IntegrityExact
<1>3. p \notin log[b].mine
  BY DEF IInv, LogSound
<1> QED BY <1>1, <1>2, <1>3 DEF SymDiff

-----------------------------------------------------------------------------
\* Atomics, windows, logs and checkpoints stay within their types.
THEOREM TypesHold == Spec => []TypeOK
<1>1. IInv => TypeOK
  BY DEF IInv
<1> QED BY <1>1, AlwaysIInv, PTL

\* Every window of every node says exactly what the node opened.
THEOREM WindowsAreExact == Spec => []PeersExact
<1>1. IInv => PeersExact
  BY DEF IInv
<1> QED BY <1>1, AlwaysIInv, PTL

\* Every digest stands for the packets the node sealed and those it opened.
THEOREM DigestIsExact == Spec => []IntegrityExact
<1>1. IInv => IntegrityExact
  BY DEF IInv
<1> QED BY <1>1, AlwaysIInv, PTL

\* However many threads open the same packet, one delivers it.
THEOREM NothingIsDeliveredTwice == Spec => []DeliveredOnce
<1>1. IInv => DeliveredOnce
  BY DEF IInv
<1> QED BY <1>1, AlwaysIInv, PTL

\* Nodes that open no packets of their own and have equal digests have lost
\* nothing between them.
THEOREM EqualDigestsAreEnough == Spec => []EqualDigestsMeanNoLoss
<1>1. IInv => EqualDigestsMeanNoLoss
  BY DigestsAgree DEF EqualDigestsMeanNoLoss
<1> QED BY <1>1, AlwaysIInv, PTL
=============================================================================
