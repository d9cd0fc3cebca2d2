-------------------------- MODULE SaveAtomic_proofs --------------------------
(***************************************************************************)
(* For every number of versions, generations and threads: what DualSlot    *)
(* and SaveAtomic promise of the file on disk under three conditions that  *)
(* the code leaves to its user: one save to a path at a time, a path whose *)
(* directory can be opened and synced (SaveUnsynced shows what is lost     *)
(* otherwise), and no cut of the application's own dump within slot A      *)
(* (DualSlotAnyCut).  A save counts as complete once it returned Ok.       *)
(***************************************************************************)
EXTENDS SaveAtomic, TLAPS

AsUsed == ~Overlap /\ DirSyncs /\ "slotA" \notin Cuts

USE GenAssumption, SlotAssumption, SaveAssumption

-----------------------------------------------------------------------------
(* The inductive invariant.                                                *)

\* Slots as commits and cuts leave them: what a slot holds was sealed under its
\* generation, and the slot with the larger generation has the newer payload.
\* No payload is newer than v.  Only slot B can be cut away from its generation.
Ordered(c, v) ==
    /\ c \in Container(Versions)
    /\ c.slot_a # NoBytes <=> c.generation_a > 0
    /\ c.slot_a # NoBytes => c.slot_a.gen = c.generation_a /\ c.slot_a.payload <= v
    /\ c.slot_b # NoBytes => /\ c.generation_b > 0
                             /\ c.slot_b.gen = c.generation_b
                             /\ c.slot_b.payload <= v
    /\ c.slot_a # NoBytes /\ c.slot_b # NoBytes =>
          \/ c.generation_a > c.generation_b /\ c.slot_a.payload > c.slot_b.payload
          \/ c.generation_a < c.generation_b /\ c.slot_a.payload < c.slot_b.payload

ContainersOrdered == \A c \in {mem, file, entry.holds} : Ordered(c, version)

\* Cutting c within slot B or its header leaves one of two versions to recover.
LeavesOneOf(c, choices) ==
    \A cut \in {"headB", "slotB"} : Recover(FromBytes(c, cut)) \in choices

\* The disk follows the name, the name follows the process, and the last commit
\* cut short falls back to something no older than what the name stands for.
NoneGoesBack ==
    /\ Recover(mem) >= Recover(entry.holds)
    /\ unsaved => /\ Recover(mem) = version
                  /\ LeavesOneOf(mem, {version, before})
    /\ unsaved /\ (\A s \in Savers : saver[s].at # "renamed") =>
          before >= Recover(entry.holds)
    /\ entry.settled => entry.holds = file
    /\ Recover(entry.holds) >= Recover(file)
    /\ Recover(entry.holds) >= entry.claims
    /\ ~entry.settled => entry.flushed /\ Recover(entry.holds) = entry.claims
    /\ Recover(file) >= durable

\* How far a save is tells what its temporary file, or the entry, holds.
SaveStages ==
    \A s \in Savers :
        \/ saver[s] = Idle
        \/ /\ unsaved
           /\ \A o \in Savers \ {s} : saver[o] = Idle
           /\ \/ saver[s] = [at |-> "open", fd |-> "tmp"] /\ tmp # NoTmp
              \/ /\ saver[s] = [at |-> "written", fd |-> "tmp"]
                 /\ tmp # NoTmp /\ tmp.holds = mem
              \/ /\ saver[s] = [at |-> "synced", fd |-> "none"]
                 /\ tmp # NoTmp /\ tmp.holds = mem /\ tmp.flushed
              \/ /\ saver[s] = [at |-> "renamed", fd |-> "none"]
                 /\ entry.holds = mem

IInv ==
    /\ SaveTypeOK
    /\ ContainersOrdered
    /\ NoneGoesBack
    /\ SaveStages
    /\ FallbackIsPreviousCommit

-----------------------------------------------------------------------------
(* The container's operators.                                              *)

LEMMA SealedIsNotEmpty == \A s \in [gen : Gens, payload : Versions] : s # NoBytes
<1> QED BY DEF NoBytes

LEMMA ContainerIsReadable == \A c \in Container(Versions) : c # Unreadable
<1> QED BY DEF Container, Unreadable

LEMMA TmpExists == \A t : t = [exists |-> TRUE, holds |-> t.holds, flushed |-> t.flushed] => t # NoTmp
<1> QED BY DEF NoTmp

\* What recovery finds is the newer of the two payloads.
LEMMA RecoverNewer ==
    ASSUME NEW v \in Nat, NEW c, Ordered(c, v)
    PROVE  /\ Recover(c) \in Versions \cup {0}
           /\ Recover(c) <= v
           /\ c.slot_a # NoBytes => Recover(c) >= c.slot_a.payload
           /\ c.slot_b # NoBytes => Recover(c) >= c.slot_b.payload
           /\ Recover(c) \in {0} \cup {s.payload : s \in {c.slot_a, c.slot_b} \ {NoBytes}}
<1> QED BY DEF Ordered, Recover, LatestValid, ValidIn, Container, Slot, Gens, Versions

\* from_bytes of what a cut leaves: slot B is gone.
LEMMA CutKeepsA ==
    ASSUME NEW c \in Container(Versions), NEW cut \in {"headB", "slotB"}
    PROVE  /\ FromBytes(c, cut) \in Container(Versions)
           /\ FromBytes(c, cut).slot_a = c.slot_a
           /\ FromBytes(c, cut).generation_a = c.generation_a
           /\ FromBytes(c, cut).slot_b = NoBytes
<1> 0 \in Gens /\ NoBytes \in Slot(Versions)
  BY DEF Gens, Slot
<1>1. CASE cut = "headB"
  <2>1. FromBytes(c, cut) = [c EXCEPT !.generation_b = 0, !.slot_b = NoBytes]
    BY <1>1 DEF FromBytes
  <2> QED BY <2>1 DEF Container
<1>2. CASE cut = "slotB"
  <2>1. FromBytes(c, cut) = [c EXCEPT !.slot_b = NoBytes]
    BY <1>2 DEF FromBytes
  <2> QED BY <2>1 DEF Container
<1> QED BY <1>1, <1>2

LEMMA CutOrdered ==
    ASSUME NEW v \in Nat, NEW c, Ordered(c, v), NEW cut \in {"headB", "slotB"}
    PROVE  Ordered(FromBytes(c, cut), v)
<1> QED BY CutKeepsA DEF Ordered

\* What a cut leaves to recover is slot A's payload.
LEMMA CutRecovers ==
    ASSUME NEW v \in Nat, NEW c, Ordered(c, v), NEW cut \in {"headB", "slotB"},
           c.slot_a # NoBytes
    PROVE  Recover(FromBytes(c, cut)) = c.slot_a.payload
<1> QED BY CutKeepsA DEF Ordered, Recover, LatestValid, ValidIn

\* commit_state: the new payload is recovered, and a cut costs at most it.
LEMMA CommittedOrdered ==
    ASSUME NEW v \in Nat, NEW c, Ordered(c, v), v + 1 \in Versions, GenFits(NextGen(c))
    PROVE  /\ Ordered(Committed(c, v + 1), v + 1)
           /\ Recover(Committed(c, v + 1)) = v + 1
           /\ LeavesOneOf(Committed(c, v + 1), {v + 1, Recover(c)})
<1> DEFINE g      == NextGen(c)
           sealed == [gen |-> g, payload |-> v + 1]
           d      == Committed(c, v + 1)
<1>1. /\ g \in Gens /\ g > c.generation_a /\ g > c.generation_b /\ g > 0
      /\ c.generation_a \in Nat /\ c.generation_b \in Nat
  BY DEF NextGen, GenFits, Ordered, Container, Gens
<1>2. /\ sealed \in Slot(Versions) /\ sealed # NoBytes
      /\ sealed.gen = g /\ sealed.payload = v + 1
  BY <1>1, SealedIsNotEmpty DEF Slot
<1>3. c \in Container(Versions) /\ c.slot_a \in Slot(Versions) /\ c.slot_b \in Slot(Versions)
  BY DEF Ordered, Container
<1>4. \A s \in Slot(Versions) : s # NoBytes => s.payload \in Nat /\ s.gen \in Nat
  BY DEF Slot, Versions, Gens
<1>5. CASE OlderIsA(c)
  <2>1. d = [c EXCEPT !.slot_a = sealed, !.generation_a = g]
    BY <1>5 DEF Committed
  <2> HIDE DEF d, sealed, g
  <2>2. /\ d \in Container(Versions) /\ d.slot_a = sealed /\ d.generation_a = g
        /\ d.slot_b = c.slot_b /\ d.generation_b = c.generation_b
    BY <1>1, <1>2, <1>3, <2>1 DEF Container
  <2>3. Ordered(d, v + 1)
    BY <1>1, <1>2, <1>3, <1>4, <2>2 DEF Ordered
  <2>4. Recover(d) = v + 1
    BY <1>1, <1>2, <2>2 DEF Recover, LatestValid, ValidIn, Gens
  <2>5. LeavesOneOf(d, {v + 1, Recover(c)})
    BY <1>2, <2>2, <2>3, CutRecovers DEF LeavesOneOf
  <2> QED BY <2>3, <2>4, <2>5 DEF d
<1>6. CASE ~OlderIsA(c)
  <2>1. d = [c EXCEPT !.slot_b = sealed, !.generation_b = g]
    BY <1>6 DEF Committed
  <2> HIDE DEF d, sealed, g
  <2>2. /\ d \in Container(Versions) /\ d.slot_b = sealed /\ d.generation_b = g
        /\ d.slot_a = c.slot_a /\ d.generation_a = c.generation_a
    BY <1>1, <1>2, <1>3, <2>1 DEF Container
  <2>3. Ordered(d, v + 1)
    BY <1>1, <1>2, <1>3, <1>4, <2>2 DEF Ordered
  <2>4. Recover(d) = v + 1
    BY <1>1, <1>2, <2>2 DEF Recover, LatestValid, ValidIn, Gens
  <2>5. c.slot_a # NoBytes /\ Recover(c) = c.slot_a.payload
    BY <1>1, <1>6 DEF OlderIsA, Recover, LatestValid, ValidIn, Ordered
  <2>6. LeavesOneOf(d, {v + 1, Recover(c)})
    BY <2>2, <2>3, <2>5, CutRecovers DEF LeavesOneOf
  <2> QED BY <2>3, <2>4, <2>6 DEF d
<1> QED BY <1>5, <1>6

\* A container is no worse for a newer version elsewhere.
LEMMA OrderedLater ==
    ASSUME NEW v \in Nat, NEW c, Ordered(c, v)
    PROVE  Ordered(c, v + 1)
<1> QED BY DEF Ordered, Container, Slot, Versions

LEMMA NewIsOrdered == Ordered(NewContainer, 0) /\ Recover(NewContainer) = 0
<1>1. NewContainer \in Container(Versions)
  BY DEF NewContainer, Container, Slot, Gens
<1> QED BY <1>1 DEF NewContainer, Ordered, Recover, LatestValid, ValidIn

-----------------------------------------------------------------------------
(* What the invariant gives every action.                                  *)

LEMMA Facts ==
    ASSUME IInv
    PROVE  /\ version \in Nat /\ before \in Nat /\ durable \in Nat
           /\ entry.claims \in Nat
           /\ mem \in Container(Versions) /\ Ordered(mem, version)
           /\ file \in Container(Versions) /\ Ordered(file, version)
           /\ entry.holds \in Container(Versions) /\ Ordered(entry.holds, version)
           /\ Recover(mem) \in Nat /\ Recover(mem) <= version
           /\ Recover(file) \in Nat /\ Recover(file) <= version
           /\ Recover(entry.holds) \in Nat /\ Recover(entry.holds) <= version
           /\ Recovered = Recover(file) /\ Loaded(file) = file
           /\ Loaded(entry.holds) = entry.holds
<1>1. /\ version \in Nat /\ before \in Nat /\ durable \in Nat /\ entry.claims \in Nat
  BY DEF IInv, SaveTypeOK, TypeOK, Versions
<1>2. \A c \in {mem, file, entry.holds} : c \in Container(Versions) /\ Ordered(c, version)
  BY DEF IInv, ContainersOrdered, Ordered
<1>3. \A c \in {mem, file, entry.holds} : Recover(c) \in Nat /\ Recover(c) <= version
  BY <1>1, <1>2, RecoverNewer DEF Versions
<1>4. file # Unreadable /\ entry.holds # Unreadable
  BY <1>2, ContainerIsReadable
<1> QED BY <1>1, <1>2, <1>3, <1>4 DEF Recovered, Loaded

LEMMA InitIInv == SaveInit => IInv
<1> SUFFICES ASSUME SaveInit PROVE IInv
  OBVIOUS
<1>1. NewContainer \in Container(Versions)
  BY NewIsOrdered DEF Ordered
<1>2. SaveTypeOK
  BY <1>1 DEF SaveInit, Init, SaveTypeOK, TypeOK, Settled, Contents, Idle
<1>3. ContainersOrdered
  BY NewIsOrdered DEF SaveInit, Init, ContainersOrdered, Settled
<1>4. NoneGoesBack
  BY NewIsOrdered DEF SaveInit, Init, NoneGoesBack, Settled
<1>5. SaveStages
  BY DEF SaveInit, SaveStages
<1>6. FallbackIsPreviousCommit
  BY <1>1, NewIsOrdered, ContainerIsReadable
  DEF SaveInit, Init, FallbackIsPreviousCommit, Recovered
<1> QED BY <1>2, <1>3, <1>4, <1>5, <1>6 DEF IInv

-----------------------------------------------------------------------------
(* The application's actions.                                              *)

LEMMA CommitKeepsIInv ==
    ASSUME IInv, CommitAlone
    PROVE  IInv'
<1> USE Facts DEF CommitAlone, Commit
<1>1. /\ version + 1 \in Versions /\ version' = version + 1
      /\ mem' = Committed(mem, version + 1)
      /\ GenFits(NextGen(mem))
      /\ UNCHANGED <<file, dumped, durable, entry, tmp, saver>>
      /\ AllIdle /\ unsaved' = TRUE /\ before' = Recover(mem)
  BY DEF Versions, disk
<1>2. /\ Ordered(mem', version')
      /\ Recover(mem') = version'
      /\ LeavesOneOf(mem', {version', before'})
  BY <1>1, CommittedOrdered
<1>3. ContainersOrdered'
  BY <1>1, <1>2, OrderedLater DEF ContainersOrdered
<1>4. SaveTypeOK'
  <2>1. mem' \in Container(Versions)
    BY <1>2 DEF Ordered
  <2>2. Recover(mem) \in Versions \cup {0}
    BY RecoverNewer
  <2> QED BY <1>1, <2>1, <2>2, ZenonT(30) DEF IInv, SaveTypeOK, TypeOK
<1>5. NoneGoesBack'
  BY <1>1, <1>2 DEF IInv, NoneGoesBack
<1>6. SaveStages'
  BY <1>1 DEF SaveStages, AllIdle
<1>7. FallbackIsPreviousCommit'
  BY <1>1 DEF IInv, FallbackIsPreviousCommit, Recovered
<1> QED BY <1>3, <1>4, <1>5, <1>6, <1>7 DEF IInv

LEMMA OwnDumpKeepsIInv ==
    ASSUME IInv, OwnDump
    PROVE  IInv'
<1> USE Facts
<1>1. /\ unsaved /\ AllIdle /\ unsaved' = FALSE /\ file' = mem
      /\ dumped' = [newest |-> version, fallback |-> before, whole |-> TRUE]
      /\ durable' = version /\ entry' = Settled(mem, version)
      /\ UNCHANGED <<mem, version, before, tmp, saver>>
  BY DEF OwnDump, OwnWay, Dump, Written
<1>2. Recover(mem) = version
  BY <1>1 DEF IInv, NoneGoesBack
<1>3. SaveTypeOK'
  BY <1>1 DEF IInv, SaveTypeOK, TypeOK, Settled, Contents
<1>4. ContainersOrdered'
  BY <1>1 DEF ContainersOrdered, Settled
<1>5. NoneGoesBack'
  BY <1>1, <1>2 DEF NoneGoesBack, Settled
<1>6. SaveStages'
  BY <1>1 DEF SaveStages, AllIdle
<1>7. FallbackIsPreviousCommit'
  BY <1>1, <1>2, ContainerIsReadable DEF FallbackIsPreviousCommit, Recovered
<1> QED BY <1>3, <1>4, <1>5, <1>6, <1>7 DEF IInv

\* Between saves, both versions that a cut may leave are as new as the entry.
LEMMA NothingPending ==
    ASSUME IInv, unsaved, AllIdle
    PROVE  /\ version >= Recover(entry.holds) /\ before >= Recover(entry.holds)
           /\ Recover(entry.holds) >= durable /\ Recover(entry.holds) >= Recover(file)
<1>1. \A s \in Savers : saver[s].at # "renamed"
  BY DEF AllIdle, Idle
<1> QED BY <1>1, Facts DEF IInv, NoneGoesBack

\* What a cut of the last commit leaves on disk is a container again, with one
\* of two versions.
LEMMA CutInOwnDumpKeepsIInv ==
    ASSUME AsUsed, IInv, NEW cut \in Cuts, CutInOwnDump(cut)
    PROVE  IInv'
<1> USE Facts
<1> cut \in {"headB", "slotB"}
  BY DEF AsUsed
<1>1. /\ unsaved /\ AllIdle /\ unsaved' = FALSE
      /\ file' = FromBytes(mem, cut) /\ mem' = Loaded(file')
      /\ dumped' = [newest |-> version, fallback |-> before, whole |-> FALSE]
      /\ entry' = Settled(file', durable)
      /\ UNCHANGED <<version, before, durable, tmp, saver>>
  BY DEF CutInOwnDump, OwnWay, PowerCutInDump, Written
<1>2. Ordered(file', version) /\ file' \in Container(Versions) /\ file' # Unreadable
  BY <1>1, CutOrdered, ContainerIsReadable DEF Ordered
<1>3. mem' = file' /\ Recover(file') \in {version, before} /\ Recovered' = Recover(file')
  BY <1>1, <1>2 DEF Loaded, IInv, NoneGoesBack, LeavesOneOf, Recovered
<1>4. /\ version >= Recover(entry.holds) /\ before >= Recover(entry.holds)
      /\ Recover(entry.holds) >= durable
  BY <1>1, NothingPending
<1>5. SaveTypeOK'
  BY <1>1, <1>2, <1>3 DEF IInv, SaveTypeOK, TypeOK, Settled, Contents
<1>6. ContainersOrdered'
  BY <1>1, <1>2, <1>3 DEF ContainersOrdered, Settled
<1>7. NoneGoesBack'
  BY <1>1, <1>3, <1>4 DEF NoneGoesBack, Settled
<1>8. SaveStages'
  BY <1>1 DEF SaveStages, AllIdle
<1>9. FallbackIsPreviousCommit'
  BY <1>1, <1>3 DEF FallbackIsPreviousCommit
<1> QED BY <1>5, <1>6, <1>7, <1>8, <1>9 DEF IInv

LEMMA PowerCutKeepsIInv ==
    ASSUME IInv, PowerCutInSave
    PROVE  IInv'
<1> USE Facts
<1>1. /\ unsaved' = FALSE /\ mem' = file /\ entry' = Settled(file, durable)
      /\ UNCHANGED <<file, version, before, dumped, durable>>
      /\ tmp' = NoTmp /\ saver' = [s \in Savers |-> Idle]
  BY DEF PowerCutInSave, PowerCut, Stopped
<1>2. SaveTypeOK'
  BY <1>1 DEF IInv, SaveTypeOK, TypeOK, Settled, Contents, Idle
<1>3. ContainersOrdered'
  BY <1>1 DEF ContainersOrdered, Settled
<1>4. NoneGoesBack'
  BY <1>1 DEF IInv, NoneGoesBack, Settled
<1>5. SaveStages'
  BY <1>1 DEF SaveStages
<1>6. FallbackIsPreviousCommit'
  BY <1>1 DEF IInv, FallbackIsPreviousCommit, Recovered
<1> QED BY <1>2, <1>3, <1>4, <1>5, <1>6 DEF IInv

LEMMA RestartKeepsIInv ==
    ASSUME IInv, Restart
    PROVE  IInv'
<1> USE Facts
<1>1. /\ unsaved' = FALSE /\ mem' = entry.holds
      /\ UNCHANGED <<file, version, before, dumped, durable, entry>>
      /\ tmp' = NoTmp /\ saver' = [s \in Savers |-> Idle]
  BY DEF Restart, Stopped
<1>2. SaveTypeOK'
  BY <1>1 DEF IInv, SaveTypeOK, TypeOK, Contents, Idle
<1>3. ContainersOrdered'
  BY <1>1 DEF ContainersOrdered
<1>4. NoneGoesBack'
  BY <1>1 DEF IInv, NoneGoesBack
<1>5. SaveStages'
  BY <1>1 DEF SaveStages
<1>6. FallbackIsPreviousCommit'
  BY <1>1 DEF IInv, FallbackIsPreviousCommit, Recovered
<1> QED BY <1>2, <1>3, <1>4, <1>5, <1>6 DEF IInv

-----------------------------------------------------------------------------
(* The steps of save_atomic.                                               *)

\* Settling an entry that was renamed and synced brings its version to disk.
LEMMA SettleReaches ==
    ASSUME IInv, Settle
    PROVE  /\ ~entry.settled /\ file' = entry.holds
           /\ entry' = [entry EXCEPT !.settled = TRUE]
           /\ entry'.holds = entry.holds /\ entry'.claims = entry.claims /\ entry'.settled
           /\ entry' \in [holds : Contents, flushed : BOOLEAN, settled : BOOLEAN,
                         claims : Versions \cup {0}]
           /\ Recover(file') = entry.claims /\ Recovered' = Recover(file')
           /\ tmp' = tmp
<1>1. ~entry.settled /\ entry' = [entry EXCEPT !.settled = TRUE] /\ tmp' = tmp
  BY DEF Settle
<1>2. OnDisk(entry) = {entry.holds} /\ Recover(entry.holds) = entry.claims
  BY <1>1 DEF IInv, NoneGoesBack, OnDisk
<1>3. entry \in [holds : Contents, flushed : BOOLEAN, settled : BOOLEAN,
                 claims : Versions \cup {0}]
  BY DEF IInv, SaveTypeOK
<1>4. /\ entry'.holds = entry.holds /\ entry'.claims = entry.claims /\ entry'.settled
      /\ entry' \in [holds : Contents, flushed : BOOLEAN, settled : BOOLEAN,
                     claims : Versions \cup {0}]
  BY <1>1, <1>3
<1>5. file' = entry.holds
  BY <1>2 DEF Settle
<1>6. Recovered' = Recover(file')
  BY <1>5, Facts, ContainerIsReadable DEF Recovered
<1> QED BY <1>1, <1>2, <1>4, <1>5, <1>6

\* Its parts of the invariant hold when a version no newer than the entry's is
\* acknowledged.
LEMMA SettledKeeps ==
    ASSUME IInv, Settle, UNCHANGED <<mem, version, before>>,
           unsaved' \in BOOLEAN, unsaved' => unsaved /\ saver' = saver,
           SaveStages',
           saver' \in [Savers -> [at : {"idle", "open", "written", "synced", "renamed"},
                                  fd : {"none", "tmp", "path", "unlinked"}]],
           durable' \in Versions \cup {0}, durable' <= entry.claims,
           Completes(entry.claims)
    PROVE  IInv'
<1> USE Facts
<1> /\ file' = entry.holds
    /\ entry'.holds = entry.holds /\ entry'.claims = entry.claims /\ entry'.settled
    /\ Recover(file') = entry.claims /\ Recovered' = Recover(file')
    /\ entry' \in [holds : Contents, flushed : BOOLEAN, settled : BOOLEAN,
                   claims : Versions \cup {0}]
    /\ tmp' = tmp
  BY SettleReaches
<1>1. SaveTypeOK'
  <2>1. entry.claims \in Versions \cup {0} /\ entry.holds \in Contents
    BY DEF IInv, SaveTypeOK
  <2>2. dumped' \in [newest : Versions \cup {0}, fallback : Versions \cup {0}, whole : BOOLEAN]
    BY <2>1 DEF Completes
  <2>3. /\ mem' \in Container(Versions)
        /\ file' \in Container(Versions) \cup {Unreadable}
        /\ {version', before', durable'} \subseteq Versions \cup {0}
    BY <2>1 DEF IInv, SaveTypeOK, TypeOK, Contents
  <2>4. TypeOK'
    BY <2>2, <2>3 DEF TypeOK
  <2>5. tmp' \in {NoTmp} \cup [exists : {TRUE}, holds : Contents, flushed : BOOLEAN]
    BY DEF IInv, SaveTypeOK
  <2> QED BY <2>4, <2>5 DEF IInv, SaveTypeOK
<1>2. ContainersOrdered'
  BY DEF ContainersOrdered
<1>3. NoneGoesBack'
  <2>1. durable' \in Nat
    BY DEF Versions
  <2> QED BY <2>1 DEF IInv, NoneGoesBack
<1>4. FallbackIsPreviousCommit'
  BY DEF Completes, FallbackIsPreviousCommit
<1> QED BY <1>1, <1>2, <1>3, <1>4 DEF IInv

LEMMA SettlesKeepsIInv ==
    ASSUME IInv, SettlesByItself
    PROVE  IInv'
<1>1. /\ Settle /\ Completes(entry.claims)
      /\ UNCHANGED <<unsaved, saver, mem, version, before, durable>>
  BY DEF SettlesByItself
<1>2. entry'.holds = entry.holds /\ tmp' = tmp
  BY <1>1, SettleReaches
<1>3. SaveStages'
  BY <1>1, <1>2 DEF IInv, SaveStages
<1>4. durable <= entry.claims
  BY <1>1, Facts DEF Settle, IInv, NoneGoesBack
<1> QED BY <1>1, <1>3, <1>4, SettledKeeps DEF IInv, SaveTypeOK, TypeOK

\* A thread within a save is alone, and its descriptor is on the temporary file.
LEMMA SavesAlone ==
    ASSUME IInv, NEW s \in Savers, saver[s] # Idle
    PROVE  /\ unsaved /\ \A o \in Savers \ {s} : saver[o] = Idle
           /\ \/ saver[s].at = "open" /\ saver[s].fd = "tmp" /\ tmp # NoTmp
              \/ /\ saver[s].at = "written" /\ saver[s].fd = "tmp"
                 /\ tmp # NoTmp /\ tmp.holds = mem
              \/ /\ saver[s].at = "synced" /\ saver[s].fd = "none"
                 /\ tmp # NoTmp /\ tmp.holds = mem /\ tmp.flushed
              \/ /\ saver[s].at = "renamed" /\ saver[s].fd = "none"
                 /\ entry.holds = mem
<1> QED BY DEF IInv, SaveStages

\* A step before the rename touches the temporary file and the thread only.
LEMMA TmpOnlyKeeps ==
    ASSUME IInv, NEW s \in Savers, UNCHANGED <<vars, entry>>,
           NEW place \in {"idle", "open", "written", "synced"},
           NEW fd \in {"none", "tmp"},
           saver' = [saver EXCEPT ![s] = [at |-> place, fd |-> fd]],
           saver[s].at # "renamed",
           tmp' \in {NoTmp} \cup [exists : {TRUE}, holds : Contents, flushed : BOOLEAN],
           SaveStages'
    PROVE  IInv'
<1> USE Facts
<1>1. saver \in [Savers -> [at : {"idle", "open", "written", "synced", "renamed"},
                            fd : {"none", "tmp", "path", "unlinked"}]]
  BY DEF IInv, SaveTypeOK
<1>2. SaveTypeOK'
  BY <1>1, ZenonT(30) DEF vars, IInv, SaveTypeOK, TypeOK
<1>3. ContainersOrdered'
  BY DEF vars, IInv, ContainersOrdered
<1>4. NoneGoesBack'
  <2>1. (\A o \in Savers : saver'[o].at # "renamed") =>
           \A o \in Savers : saver[o].at # "renamed"
    BY <1>1
  <2> QED BY <2>1 DEF vars, IInv, NoneGoesBack
<1>5. FallbackIsPreviousCommit'
  BY DEF vars, IInv, FallbackIsPreviousCommit, Recovered
<1> QED BY <1>2, <1>3, <1>4, <1>5 DEF IInv

LEMMA OpenKeepsIInv ==
    ASSUME AsUsed, IInv, NEW s \in Savers, Open(s)
    PROVE  IInv'
<1>1. AllIdle /\ unsaved /\ UNCHANGED <<vars, entry>>
  BY DEF Open, MayStart, AsUsed
<1>2. /\ tmp' = [exists |-> TRUE, holds |-> Unreadable, flushed |-> FALSE]
      /\ saver' = [saver EXCEPT ![s] = [at |-> "open", fd |-> "tmp"]]
  BY DEF Open, Goes
<1>3. saver \in [Savers -> [at : {"idle", "open", "written", "synced", "renamed"},
                            fd : {"none", "tmp", "path", "unlinked"}]]
  BY DEF IInv, SaveTypeOK
<1>4. tmp' # NoTmp
  BY <1>2 DEF NoTmp
<1>5. SaveStages'
  BY <1>1, <1>2, <1>3, <1>4 DEF SaveStages, AllIdle, vars
<1>6. saver[s].at # "renamed"
  BY <1>1 DEF AllIdle, Idle
<1>7. tmp' \in [exists : {TRUE}, holds : Contents, flushed : BOOLEAN]
  BY <1>2 DEF Contents
<1> QED BY <1>1, <1>2, <1>5, <1>6, <1>7, TmpOnlyKeeps

LEMMA WriteKeepsIInv ==
    ASSUME IInv, NEW s \in Savers, Write(s)
    PROVE  IInv'
<1>1. /\ unsaved /\ \A o \in Savers \ {s} : saver[o] = Idle
      /\ saver[s].at = "open" /\ saver[s].fd = "tmp" /\ tmp # NoTmp
  BY SavesAlone DEF Write, Idle
<1>2. /\ tmp' = [tmp EXCEPT !.holds = mem, !.flushed = FALSE]
      /\ saver' = [saver EXCEPT ![s] = [at |-> "written", fd |-> "tmp"]]
      /\ UNCHANGED <<vars, entry>>
  BY <1>1 DEF Write, Puts, Goes, vars
<1>3. saver \in [Savers -> [at : {"idle", "open", "written", "synced", "renamed"},
                            fd : {"none", "tmp", "path", "unlinked"}]]
  BY DEF IInv, SaveTypeOK
<1>4. mem \in Contents
  BY Facts DEF Contents
<1>5. tmp' \in [exists : {TRUE}, holds : Contents, flushed : BOOLEAN] /\ tmp'.holds = mem
  BY <1>1, <1>2, <1>4 DEF IInv, SaveTypeOK
<1>6. tmp' # NoTmp
  BY <1>5 DEF NoTmp
<1>7. SaveStages'
  BY <1>1, <1>2, <1>3, <1>5, <1>6 DEF SaveStages, vars
<1> QED BY <1>1, <1>2, <1>5, <1>7, TmpOnlyKeeps

LEMMA SyncAllKeepsIInv ==
    ASSUME IInv, NEW s \in Savers, SyncAll(s)
    PROVE  IInv'
<1>1. /\ unsaved /\ \A o \in Savers \ {s} : saver[o] = Idle
      /\ saver[s].at = "written" /\ saver[s].fd = "tmp"
      /\ tmp # NoTmp /\ tmp.holds = mem
  BY SavesAlone DEF SyncAll, Idle
<1>2. /\ tmp' = [tmp EXCEPT !.holds = mem, !.flushed = TRUE]
      /\ saver' = [saver EXCEPT ![s] = [at |-> "synced", fd |-> "none"]]
      /\ UNCHANGED <<vars, entry>>
  BY <1>1 DEF SyncAll, Sync, Puts, Goes, vars
<1>3. saver \in [Savers -> [at : {"idle", "open", "written", "synced", "renamed"},
                            fd : {"none", "tmp", "path", "unlinked"}]]
  BY DEF IInv, SaveTypeOK
<1>4. mem \in Contents
  BY Facts DEF Contents
<1>5. /\ tmp' \in [exists : {TRUE}, holds : Contents, flushed : BOOLEAN]
      /\ tmp'.holds = mem /\ tmp'.flushed
  BY <1>1, <1>2, <1>4 DEF IInv, SaveTypeOK
<1>6. tmp' # NoTmp
  BY <1>5 DEF NoTmp
<1>7. SaveStages'
  BY <1>1, <1>2, <1>3, <1>5, <1>6 DEF SaveStages, vars
<1> QED BY <1>1, <1>2, <1>5, <1>7, TmpOnlyKeeps

LEMMA IoErrorKeepsIInv ==
    ASSUME IInv, NEW s \in Savers, IoError(s)
    PROVE  IInv'
<1>1. saver[s].at \in {"open", "written", "synced"} /\ saver[s] # Idle
  <2>1. saver[s].at = "open" \/ saver[s].at = "written" \/ saver[s].at = "synced"
    BY DEF IoError
  <2> QED BY <2>1 DEF Idle
<1>2. /\ unsaved /\ \A o \in Savers \ {s} : saver[o] = Idle
      /\ saver[s].fd # "path" /\ (saver[s].at = "open" => saver[s].fd = "tmp" /\ tmp # NoTmp)
  BY <1>1, SavesAlone
<1>3. saver' = [saver EXCEPT ![s] = Idle] /\ UNCHANGED <<vars, entry>>
  BY <1>1, <1>2 DEF IoError, Puts, disk, vars
<1>4. tmp' \in {NoTmp} \cup [exists : {TRUE}, holds : Contents, flushed : BOOLEAN]
  <2> tmp \in {NoTmp} \cup [exists : {TRUE}, holds : Contents, flushed : BOOLEAN]
    BY DEF IInv, SaveTypeOK
  <2>1. CASE saver[s].at = "open"
    <3>1. PICK cut \in Cuts : tmp' = [tmp EXCEPT !.holds = FromBytes(mem, cut), !.flushed = FALSE]
      BY <1>2, <2>1 DEF IoError, Puts
    <3>2. FromBytes(mem, cut) \in Contents
      BY Facts, CutKeepsA DEF FromBytes, Contents
    <3> QED BY <1>2, <2>1, <3>1, <3>2
  <2>2. CASE saver[s].at = "written"
    BY <2>2 DEF IoError, disk
  <2>3. CASE saver[s].at = "synced"
    BY <2>3 DEF IoError
  <2> QED BY <1>1, <2>1, <2>2, <2>3
<1>5. saver \in [Savers -> [at : {"idle", "open", "written", "synced", "renamed"},
                            fd : {"none", "tmp", "path", "unlinked"}]]
  BY DEF IInv, SaveTypeOK
<1>6. SaveStages'
  BY <1>2, <1>3, <1>5 DEF SaveStages
<1> QED BY <1>1, <1>3, <1>4, <1>6, TmpOnlyKeeps DEF Idle

LEMMA RenameKeepsIInv ==
    ASSUME IInv, NEW s \in Savers, Rename(s)
    PROVE  IInv'
<1> USE Facts
<1>1. /\ unsaved /\ \A o \in Savers \ {s} : saver[o] = Idle
      /\ saver[s].at = "synced" /\ tmp # NoTmp /\ tmp.holds = mem /\ tmp.flushed
  BY SavesAlone DEF Rename, Idle
<1>2. /\ entry' = [holds |-> mem, flushed |-> tmp.flushed, settled |-> FALSE,
                  claims |-> version]
      /\ tmp' = NoTmp /\ UNCHANGED vars
  BY <1>1 DEF Rename
<1>3. saver' = [saver EXCEPT ![s] = [at |-> "renamed", fd |-> "none"]]
  <2>1. saver' = [o \in Savers |-> IF o = s THEN [at |-> "renamed", fd |-> "none"]
                                  ELSE [saver[o] EXCEPT !.fd = Follow(@)]]
    BY DEF Rename
  <2>2. [Idle EXCEPT !.fd = Follow(Idle.fd)] = Idle
    BY DEF Idle, Follow
  <2>3. \A o \in Savers \ {s} : [saver[o] EXCEPT !.fd = Follow(saver[o].fd)] = saver[o]
    BY <1>1, <2>2
  <2>4. saver \in [Savers -> [at : {"idle", "open", "written", "synced", "renamed"},
                              fd : {"none", "tmp", "path", "unlinked"}]]
    BY DEF IInv, SaveTypeOK
  <2> QED BY <2>1, <2>3, <2>4
<1>4. tmp.flushed = TRUE
  BY <1>1 DEF IInv, SaveTypeOK
<1>5. Recover(mem) = version
  BY <1>1 DEF IInv, NoneGoesBack
<1>6. SaveTypeOK'
  <2>1. TypeOK'
    BY <1>2 DEF vars, IInv, SaveTypeOK, TypeOK
  <2>2. entry' \in [holds : Contents, flushed : BOOLEAN, settled : BOOLEAN,
                    claims : Versions \cup {0}]
    BY <1>2, <1>4 DEF IInv, SaveTypeOK, TypeOK, Contents
  <2>3. tmp' \in {NoTmp}
    BY <1>2
  <2>4. saver' \in [Savers -> [at : {"idle", "open", "written", "synced", "renamed"},
                               fd : {"none", "tmp", "path", "unlinked"}]]
    BY <1>3 DEF IInv, SaveTypeOK
  <2> QED BY <2>1, <2>2, <2>3, <2>4 DEF SaveTypeOK
<1>7. ContainersOrdered'
  BY <1>2 DEF vars, ContainersOrdered
<1>8. NoneGoesBack'
  <2>1. saver'[s].at = "renamed"
    BY <1>3 DEF IInv, SaveTypeOK
  <2> QED BY <1>1, <1>2, <1>4, <1>5, <2>1 DEF vars, IInv, NoneGoesBack
<1>9. SaveStages'
  BY <1>1, <1>2, <1>3 DEF vars, IInv, SaveTypeOK, SaveStages
<1>10. FallbackIsPreviousCommit'
  BY <1>2 DEF vars, IInv, FallbackIsPreviousCommit, Recovered
<1> QED BY <1>6, <1>7, <1>8, <1>9, <1>10 DEF IInv

\* By the time the caller gets Ok, the disk has what was saved.
LEMMA SyncDirKeepsIInv ==
    ASSUME AsUsed, IInv, NEW s \in Savers, SyncDir(s)
    PROVE  IInv'
<1> USE Facts
<1>1. /\ unsaved /\ \A o \in Savers \ {s} : saver[o] = Idle
      /\ entry.holds = mem
  BY SavesAlone DEF SyncDir, Idle
<1>2. /\ unsaved' = FALSE /\ saver' = [saver EXCEPT ![s] = Idle]
      /\ UNCHANGED <<mem, version, before>>
      /\ durable' = version /\ Completes(version)
  BY DEF SyncDir
<1>3. /\ saver' \in [Savers -> [at : {"idle", "open", "written", "synced", "renamed"},
                                fd : {"none", "tmp", "path", "unlinked"}]]
      /\ \A o \in Savers : saver'[o] = Idle
  BY <1>1, <1>2 DEF IInv, SaveTypeOK, Idle
<1>4. SaveStages'
  BY <1>3 DEF SaveStages
<1>5. Recover(entry.holds) = version
  BY <1>1 DEF IInv, NoneGoesBack
<1>6. version \in Versions \cup {0}
  BY DEF IInv, SaveTypeOK, TypeOK
<1>7. CASE Settle
  <2>1. entry.claims = version
    BY <1>5, <1>7 DEF Settle, IInv, NoneGoesBack
  <2>2. Completes(entry.claims)
    BY <1>2, <2>1
  <2>3. durable' \in Versions \cup {0} /\ durable' <= entry.claims
    BY <1>2, <1>6, <2>1
  <2>4. unsaved' \in BOOLEAN /\ ~unsaved' /\ UNCHANGED <<mem, version, before>>
    BY <1>2
  <2> QED BY <1>3, <1>4, <1>7, <2>2, <2>3, <2>4, SettledKeeps
<1>8. CASE entry.settled /\ UNCHANGED <<file, disk>>
  <2>1. file = mem /\ UNCHANGED <<file, entry, tmp>>
    BY <1>1, <1>8 DEF disk, IInv, NoneGoesBack
  <2>2. dumped' \in [newest : Versions \cup {0}, fallback : Versions \cup {0}, whole : BOOLEAN]
    BY <1>2, <1>6 DEF Completes
  <2>3. TypeOK'
    BY <1>2, <1>6, <2>1, <2>2 DEF IInv, SaveTypeOK, TypeOK
  <2>4. SaveTypeOK'
    BY <1>3, <2>1, <2>3 DEF IInv, SaveTypeOK
  <2>5. ContainersOrdered'
    BY <1>2, <2>1 DEF IInv, ContainersOrdered
  <2>6. NoneGoesBack'
    BY <1>1, <1>2, <1>5, <1>8, <2>1 DEF IInv, NoneGoesBack
  <2>7. FallbackIsPreviousCommit'
    BY <1>1, <1>2, <1>5, <2>1 DEF FallbackIsPreviousCommit, Recovered, Completes
  <2> QED BY <1>4, <2>4, <2>5, <2>6, <2>7 DEF IInv
<1> QED BY <1>7, <1>8 DEF SyncDir, AsUsed

-----------------------------------------------------------------------------
LEMMA NextIInv == AsUsed /\ IInv /\ [SaveNext]_saveVars => IInv'
<1> SUFFICES ASSUME AsUsed, IInv, [SaveNext]_saveVars PROVE IInv'
  OBVIOUS
<1>1. CASE CommitAlone
  BY <1>1, CommitKeepsIInv
<1>2. CASE OwnDump
  BY <1>2, OwnDumpKeepsIInv
<1>3. CASE PowerCutInSave
  BY <1>3, PowerCutKeepsIInv
<1>4. CASE Restart
  BY <1>4, RestartKeepsIInv
<1>5. CASE SettlesByItself
  BY <1>5, SettlesKeepsIInv
<1>6. CASE \E cut \in Cuts : CutInOwnDump(cut)
  BY <1>6, CutInOwnDumpKeepsIInv
<1>7. ASSUME NEW s \in Savers, Saving(s) PROVE IInv'
  BY <1>7, OpenKeepsIInv, WriteKeepsIInv, SyncAllKeepsIInv, RenameKeepsIInv,
     SyncDirKeepsIInv, IoErrorKeepsIInv DEF Saving
<1>8. CASE UNCHANGED saveVars
  BY <1>8, ZenonT(30) DEF saveVars, vars, disk, IInv, SaveTypeOK, TypeOK, ContainersOrdered,
     NoneGoesBack, AllIdle, SaveStages, FallbackIsPreviousCommit, Recovered
<1> QED BY <1>1, <1>2, <1>3, <1>4, <1>5, <1>6, <1>7, <1>8 DEF SaveNext

LEMMA AlwaysIInv == ASSUME AsUsed PROVE SaveSpec => []IInv
<1>1. IInv /\ [SaveNext]_saveVars => IInv'
  BY NextIInv
<1> QED BY <1>1, InitIInv, PTL DEF SaveSpec

\* No step makes what a power cut leaves to recover older.
LEMMA StepNeverGoesBack ==
    ASSUME AsUsed, IInv, [SaveNext]_saveVars
    PROVE  Recovered' >= Recovered
<1> USE Facts
<1>1. CASE UNCHANGED file
  BY <1>1 DEF Recovered
<1>2. CASE OwnDump
  <2>1. file' = mem /\ mem # Unreadable /\ Recover(mem) = version
    BY <1>2, ContainerIsReadable DEF OwnDump, Dump, IInv, NoneGoesBack
  <2> QED BY <2>1 DEF Recovered
<1>3. ASSUME NEW cut \in Cuts, CutInOwnDump(cut) PROVE Recovered' >= Recovered
  <2>1. /\ unsaved /\ AllIdle /\ file' = FromBytes(mem, cut) /\ cut \in {"headB", "slotB"}
    BY <1>3 DEF CutInOwnDump, OwnWay, PowerCutInDump, AsUsed
  <2>2. Recovered' = Recover(file') /\ Recover(file') \in {version, before}
    BY <2>1, CutKeepsA, ContainerIsReadable DEF Recovered, IInv, NoneGoesBack, LeavesOneOf
  <2> QED BY <2>1, <2>2, NothingPending
<1>4. CASE Settle
  <2>1. Recovered' = entry.claims /\ ~entry.settled
    BY <1>4, SettleReaches
  <2> QED BY <2>1 DEF IInv, NoneGoesBack
<1>5. ASSUME NEW s \in Savers, Saving(s) PROVE UNCHANGED file \/ Settle
  <2>1. saver[s] # Idle => saver[s].fd # "path"
    BY SavesAlone
  <2>2. CASE Open(s) \/ Rename(s)
    BY <2>2 DEF Open, Rename, vars
  <2>3. CASE Write(s)
    BY <2>1, <2>3 DEF Write, Idle
  <2>4. CASE SyncAll(s)
    BY <2>1, <2>4 DEF SyncAll, Idle
  <2>5. CASE SyncDir(s)
    BY <2>5 DEF SyncDir
  <2>6. CASE IoError(s)
    <3>1. saver[s].at = "open" \/ saver[s].at = "written" \/ saver[s].at = "synced"
      BY <2>6 DEF IoError
    <3>2. saver[s] # Idle
      BY <3>1 DEF Idle
    <3> QED BY <2>1, <2>6, <3>2 DEF IoError
  <2> QED BY <1>5, <2>2, <2>3, <2>4, <2>5, <2>6 DEF Saving
<1>6. CASE CommitAlone \/ PowerCutInSave \/ Restart \/ UNCHANGED saveVars
  BY <1>1, <1>6 DEF CommitAlone, Commit, PowerCutInSave, PowerCut, Restart, saveVars, vars
<1>7. CASE SettlesByItself
  BY <1>4, <1>7 DEF SettlesByItself
<1> QED BY <1>1, <1>2, <1>3, <1>4, <1>5, <1>6, <1>7 DEF SaveNext

-----------------------------------------------------------------------------
\* The containers, the temporary file and the threads stay within their types.
THEOREM SaveTypesHold == ASSUME AsUsed PROVE SaveSpec => []SaveTypeOK
<1>1. IInv => SaveTypeOK
  BY DEF IInv
<1> QED BY <1>1, AlwaysIInv, PTL

\* A save that returned Ok, and an own dump that was completed, is never lost to
\* a later power cut: recovery finds it or a newer one (persistence.rs:226-227,
\* 383-389).
THEOREM CompletedSavesSurvive == ASSUME AsUsed PROVE SaveSpec => []DurableSurvives
<1>1. IInv => DurableSurvives
  BY Facts DEF IInv, NoneGoesBack, DurableSurvives
<1> QED BY <1>1, AlwaysIInv, PTL

\* A save that returned Ok is recovered exactly until the next write, and a dump
\* that is cut costs at most the commit that was being written, never more.
THEOREM CutCostsOneCommit == ASSUME AsUsed PROVE SaveSpec => []FallbackIsPreviousCommit
<1>1. IInv => FallbackIsPreviousCommit
  BY DEF IInv
<1> QED BY <1>1, AlwaysIInv, PTL

\* Whatever step of a save fails, or is the last before a power cut or a kill,
\* what a power cut leaves to recover never gets older, and every start loads a
\* version no older than any save that returned Ok (persistence.rs:383).
THEOREM RecoveryNeverGoesBack == ASSUME AsUsed PROVE SaveSpec => NeverGoesBack
<1>1. IInv => Recover(mem) >= durable
  BY Facts DEF IInv, NoneGoesBack
<1>2. AsUsed /\ IInv /\ [SaveNext]_saveVars =>
         Recovered' >= Recovered /\ Recover(mem') >= durable'
  <2> SUFFICES ASSUME AsUsed, IInv, [SaveNext]_saveVars
               PROVE  Recovered' >= Recovered /\ Recover(mem') >= durable'
    OBVIOUS
  <2>1. IInv'
    BY NextIInv
  <2>2. (Recover(mem) >= durable)'
    BY <1>1, <2>1, PTL
  <2> QED BY <2>2, StepNeverGoesBack
<1>3. IInv /\ [SaveNext]_saveVars =>
         [Recovered' >= Recovered /\ Recover(mem') >= durable']_saveVars
  BY <1>2
<1> QED BY <1>3, AlwaysIInv, PTL DEF SaveSpec, NeverGoesBack
=============================================================================
