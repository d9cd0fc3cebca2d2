----------------------------- MODULE MeshRecovery -----------------------------
(***************************************************************************)
(* ChronoMeshNode as an application runs it over power cuts (the order of  *)
(* examples/demo.rs): after a crash the node is built with the boot epoch, *)
(* its newest checkpoint is restored, and only then it seals again.  With  *)
(* SaveAfterRestore the application also exports a checkpoint between      *)
(* restoring and sealing; the demo does not.  Its first checkpoint, of a   *)
(* node that never saved, comes before its first seal; the demo seals two  *)
(* packets first.  Without SealersWait a thread may also seal while the    *)
(* node is restored, which no code keeps it from.                          *)
(***************************************************************************)
EXTENDS ChronoMesh

CONSTANTS SaveAfterRestore, SealersWait

ASSUME RecoveryAssumption == {SaveAfterRestore, SealersWait} \subseteq BOOLEAN

VARIABLE phase      \* of each node: "saving", "serving" or "restoring"

recoveryVars == <<vars, phase>>

Phases == {"saving", "serving", "restoring"}

RecoveryTypeOK == TypeOK /\ phase \in [Nodes -> Phases]

\* A node that never saved anything saves before it serves.
RecoveryInit == Init /\ phase = [n \in Nodes |-> "saving"]

Newest(n) == disk[n][Len(disk[n])]

BusyWith(n, place) == \E t \in Threads : Home[t] = n /\ At(t, place)

\* Sealing is for a node that serves; opening never waits for a phase.
SealingPhases == IF SealersWait THEN {"serving"} ELSE {"serving", "restoring"}

Sealing(t) == phase[Home[t]] \in SealingPhases /\ Seal(t) /\ UNCHANGED phase

Opening(t) == Open(t) /\ UNCHANGED phase

Saving(t) ==
    LET n == Home[t] IN
    /\ phase[n] # "restoring"
    /\ Export(t)
    /\ phase' = [phase EXCEPT ![n] = IF At(t, "ExportCopy") THEN "serving" ELSE @]

\* One restore, of the newest checkpoint, after a crash.
Restoring(t) ==
    LET n == Home[t] IN
    /\ phase[n] = "restoring"
    /\ \/ /\ ~ \E place \in {"RestoreEpoch", "RestoreSeq", "RestorePeers"} : BusyWith(n, place)
          /\ RestoreLoad(t, Newest(n))
       \/ RestoreEpoch(t) \/ RestoreSeq(t) \/ RestorePeers(t)
    /\ phase' = [phase EXCEPT ![n] =
                    IF ~At(t, "RestorePeers") THEN @
                    ELSE IF SaveAfterRestore THEN "saving" ELSE "serving"]

\* EpochMax is out of reach of the crashes explored.
PowerCut(n) ==
    /\ epoch[n] < EpochMax
    /\ Crash(n)
    /\ phase' = [phase EXCEPT ![n] = IF disk[n] = <<>> THEN "saving" ELSE "restoring"]

RecoveryNext ==
    \/ \E t \in Threads : Sealing(t) \/ Opening(t) \/ Saving(t) \/ Restoring(t)
    \/ \E n \in Nodes : PowerCut(n)

RecoverySpec == RecoveryInit /\ [][RecoveryNext]_recoveryVars
=============================================================================
