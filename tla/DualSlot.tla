------------------------------- MODULE DualSlot -------------------------------
(***************************************************************************)
(* DualSlotContainer and the file it is dumped to.  A commit seals a       *)
(* payload into one of two slots; the bytes of both are then written to    *)
(* disk, in one step (SaveAtomic has the steps of save_atomic) or by the   *)
(* application's own write of to_bytes, which a power cut may truncate at  *)
(* any byte.                                                               *)
(*                                                                         *)
(* Payloads are versions 1, 2, ... in the order they are committed.        *)
(***************************************************************************)
EXTENDS Slots

CONSTANTS
    MaxVersions,    \* bound: payloads committed
    Cuts            \* where a power cut may truncate the dumped bytes

ASSUME SlotAssumption ==
    /\ MaxVersions \in Nat
    /\ Cuts \subseteq {"slotA", "headB", "slotB"}

Versions == 1 .. MaxVersions

VARIABLES
    mem,        \* the container of the running process
    file,       \* the container the file on disk decodes to, or Unreadable
    version,    \* versions committed so far
    unsaved,    \* the bytes of the last commit were not written yet
    before,     \* ghost: what mem would recover to without its last commit
    dumped,     \* ghost: the last write to disk: newest version, its fallback,
                \* and whether it was completed
    durable     \* ghost: newest version that a caller was told is written

vars == <<mem, file, version, unsaved, before, dumped, durable>>

TypeOK ==
    /\ mem \in Container(Versions)
    /\ file \in Container(Versions) \cup {Unreadable}
    /\ {version, before, durable} \subseteq Versions \cup {0}
    /\ unsaved \in BOOLEAN
    /\ dumped \in [newest : Versions \cup {0}, fallback : Versions \cup {0},
                   whole : BOOLEAN]

Init ==
    /\ mem = NewContainer
    /\ file = NewContainer
    /\ version = 0
    /\ unsaved = FALSE
    /\ before = 0
    /\ dumped = [newest |-> 0, fallback |-> 0, whole |-> TRUE]
    /\ durable = 0

-----------------------------------------------------------------------------
\* The version that recovery finds in a container, 0 when it fails.
Recover(c) == IF LatestValid(c) = NoBytes THEN 0 ELSE LatestValid(c).payload

\* commit_state
Commit ==
    /\ version < MaxVersions
    /\ GenFits(NextGen(mem))
    /\ version' = version + 1
    /\ mem' = Committed(mem, version + 1)
    /\ unsaved' = TRUE
    /\ before' = Recover(mem)
    /\ UNCHANGED <<file, dumped, durable>>

Written(complete) == [newest |-> version, fallback |-> before, whole |-> complete]

\* The bytes of the last commit reach the disk.
Dump ==
    /\ unsaved
    /\ file' = mem
    /\ unsaved' = FALSE
    /\ dumped' = Written(TRUE)
    /\ durable' = version
    /\ UNCHANGED <<mem, version, before>>

\* load_from_file of what is on disk; a new container when that fails.
Loaded(f) == IF f = Unreadable THEN NewContainer ELSE f

\* Power fails between two writes.
PowerCut ==
    /\ mem' = Loaded(file)
    /\ unsaved' = FALSE
    /\ UNCHANGED <<file, version, before, dumped, durable>>

\* Power fails while the application writes the bytes of the last commit.
PowerCutInDump(cut) ==
    /\ unsaved
    /\ file' = FromBytes(mem, cut)
    /\ mem' = Loaded(file')
    /\ unsaved' = FALSE
    /\ dumped' = Written(FALSE)
    /\ UNCHANGED <<version, before, durable>>

Next == Commit \/ Dump \/ PowerCut \/ \E cut \in Cuts : PowerCutInDump(cut)

Spec == Init /\ [][Next]_vars

-----------------------------------------------------------------------------
Recovered == IF file = Unreadable THEN 0 ELSE Recover(file)

\* persistence.rs:226-227, 383-389: a power cut, in the middle of a dump or of a
\* save or later, never costs a state whose write was reported complete:
\* recovery finds it or a newer one.
DurableSurvives == Recovered >= durable

\* A completed dump is recovered exactly, and a cut one costs at most the
\* newest commit: the fallback is the commit before, never an older slot that
\* earlier cuts left behind.
FallbackIsPreviousCommit ==
    \/ Recovered = dumped.newest
    \/ ~dumped.whole /\ Recovered = dumped.fallback
=============================================================================
