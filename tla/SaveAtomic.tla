------------------------------ MODULE SaveAtomic ------------------------------
(***************************************************************************)
(* DualSlot with the steps of save_atomic: a temporary file is opened,     *)
(* written, synced and renamed over the path, then the directory is        *)
(* synced.  The name of the temporary file depends on the process only, so *)
(* threads that save to one path share it.  Each step may fail, and power  *)
(* may fail, or the process be killed, between any two.                    *)
(*                                                                         *)
(* DualSlot's file is what the disk holds for certain; what the path names *)
(* now, synced or not, is entry.  A save is complete when save_atomic      *)
(* returned Ok: durable is the newest version of which the caller was told *)
(* so, whether or not the directory was synced before.                     *)
(***************************************************************************)
EXTENDS DualSlot

CONSTANTS
    Savers,         \* threads that call save_atomic
    Overlap,        \* whether two of them may save to the path at once
    DirSyncs        \* whether the directory of the path opens and syncs every
                    \* time; it never opens when the path names none ("x.bin")

ASSUME SaveAssumption == {Overlap, DirSyncs} \subseteq BOOLEAN

VARIABLES
    entry,      \* the file the path names, as a running process sees it
    tmp,        \* the temporary file, or NoTmp
    saver       \* where each thread is, and which file its descriptor is open on

disk == <<entry, tmp>>
saveVars == <<vars, disk, saver>>

NoTmp == [exists |-> FALSE]
Contents == Container(Versions) \cup {Unreadable}

\* flushed: the data are on the disk; settled: the directory entry is too.
\* claims is the version that was saved under this name.
SaveTypeOK ==
    /\ TypeOK
    /\ entry \in [holds : Contents, flushed : BOOLEAN, settled : BOOLEAN,
                  claims : Versions \cup {0}]
    /\ tmp \in {NoTmp} \cup [exists : {TRUE}, holds : Contents, flushed : BOOLEAN]
    /\ saver \in [Savers -> [at : {"idle", "open", "written", "synced", "renamed"},
                             fd : {"none", "tmp", "path", "unlinked"}]]

Idle == [at |-> "idle", fd |-> "none"]
Settled(c, v) == [holds |-> c, flushed |-> TRUE, settled |-> TRUE, claims |-> v]

SaveInit ==
    /\ Init
    /\ entry = Settled(NewContainer, 0)
    /\ tmp = NoTmp
    /\ saver = [s \in Savers |-> Idle]

-----------------------------------------------------------------------------
(* save_atomic                                                             *)

AllIdle == \A s \in Savers : saver[s] = Idle

\* Nothing in the code keeps two threads from saving to one path.
MayStart == Overlap \/ AllIdle

Goes(s, place, file_of) == saver' = [saver EXCEPT ![s] = [at |-> place, fd |-> file_of]]

\* The descriptor is open on the file under the temporary name, or under the
\* path since another thread renamed it there, or under no name any more.
Puts(fd, c, isFlushed) ==
    /\ tmp' = IF fd = "tmp" THEN [tmp EXCEPT !.holds = c, !.flushed = isFlushed] ELSE tmp
    /\ entry' = IF fd = "path" THEN [entry EXCEPT !.holds = c, !.flushed = isFlushed]
                               ELSE entry

\* What the disk may hold under the path once entry is settled.
OnDisk(e) == IF e.flushed THEN {e.holds} ELSE {Unreadable, e.holds}

Open(s) ==
    /\ saver[s] = Idle /\ MayStart
    /\ unsaved
    /\ tmp' = [exists |-> TRUE, holds |-> Unreadable, flushed |-> FALSE]
    /\ Goes(s, "open", "tmp")
    /\ UNCHANGED <<vars, entry>>

\* Data may reach the disk before they are synced.
Write(s) ==
    /\ saver[s].at = "open"
    /\ Puts(saver[s].fd, mem, FALSE)
    /\ file' \in IF saver[s].fd = "path" /\ entry.settled THEN {file, mem} ELSE {file}
    /\ Goes(s, "written", saver[s].fd)
    /\ UNCHANGED <<mem, version, unsaved, before, dumped, durable>>

SyncSkipped(c, fd) == Puts(fd, c, FALSE)        \* mutant: no sync_all
Sync(c, fd) == Puts(fd, c, TRUE)

SyncAll(s) ==
    LET fd == saver[s].fd
    IN
    /\ saver[s].at = "written"
    /\ Sync(IF fd = "path" THEN entry.holds ELSE IF fd = "tmp" THEN tmp.holds ELSE mem, fd)
    /\ file' = IF fd = "path" /\ entry.settled THEN entry.holds ELSE file
    /\ Goes(s, "synced", "none")
    /\ UNCHANGED <<mem, version, unsaved, before, dumped, durable>>

\* Descriptors follow their file to its new name.
Follow(fd) == CASE fd = "tmp"  -> "path"
                [] fd = "path" -> "unlinked"
                [] OTHER       -> fd

Rename(s) ==
    /\ saver[s].at = "synced"
    /\ tmp # NoTmp
    /\ entry' = [holds |-> tmp.holds, flushed |-> tmp.flushed,
                 settled |-> FALSE, claims |-> version]
    /\ tmp' = NoTmp
    /\ saver' = [o \in Savers |-> IF o = s THEN [at |-> "renamed", fd |-> "none"]
                                  ELSE [saver[o] EXCEPT !.fd = Follow(@)]]
    /\ UNCHANGED vars

Completes(v) == dumped' = [newest |-> v, fallback |-> 0, whole |-> TRUE]

\* The new directory entry reaches the disk.
Settle ==
    /\ ~entry.settled
    /\ file' \in OnDisk(entry)
    /\ entry' = [entry EXCEPT !.settled = TRUE]
    /\ UNCHANGED tmp

\* The system does so at some time on its own; nobody is told.
SettlesByItself ==
    /\ Settle
    /\ Completes(entry.claims)
    /\ UNCHANGED <<mem, version, unsaved, before, durable, saver>>

\* A directory that cannot be opened or synced is passed over.  The caller gets
\* Ok either way.
SyncDir(s) ==
    /\ saver[s].at = "renamed"
    /\ \/ Settle
       \/ (entry.settled \/ ~DirSyncs) /\ UNCHANGED <<file, disk>>
    /\ Completes(version)
    /\ durable' = version
    /\ unsaved' = FALSE
    /\ saver' = [saver EXCEPT ![s] = Idle]
    /\ UNCHANGED <<mem, version, before>>

\* write_all, sync_all or rename fails: the caller gets Error::Io.  Only a failed
\* rename removes the temporary file.
IoError(s) ==
    /\ \/ /\ saver[s].at = "open"
          /\ \E cut \in Cuts : Puts(saver[s].fd, FromBytes(mem, cut), FALSE)
          /\ file' \in IF saver[s].fd = "path" /\ entry.settled
                       THEN {file, entry'.holds} ELSE {file}
       \/ saver[s].at = "written" /\ UNCHANGED <<disk, file>>
       \/ saver[s].at = "synced" /\ tmp' = NoTmp /\ UNCHANGED <<entry, file>>
    /\ saver' = [saver EXCEPT ![s] = Idle]
    /\ UNCHANGED <<mem, version, unsaved, before, dumped, durable>>

-----------------------------------------------------------------------------
(* The application around it.                                              *)

\* commit_state has the container for itself.
CommitAlone == AllIdle /\ Commit /\ UNCHANGED <<disk, saver>>

\* The application writes the bytes itself, and not while a save is under way.
OwnWay == AllIdle /\ entry.settled /\ tmp = NoTmp

OwnDump ==
    /\ OwnWay /\ Dump
    /\ entry' = Settled(mem, version)
    /\ UNCHANGED <<tmp, saver>>

CutInOwnDump(cut) ==
    /\ OwnWay /\ PowerCutInDump(cut)
    /\ entry' = Settled(file', durable)
    /\ UNCHANGED <<tmp, saver>>

Stopped == tmp' = NoTmp /\ saver' = [s \in Savers |-> Idle]

PowerCutInSave ==
    /\ PowerCut
    /\ entry' = Settled(file, durable)
    /\ Stopped

\* Killed and started again, as another process, with the caches intact.
Restart ==
    /\ mem' = Loaded(entry.holds)
    /\ unsaved' = FALSE
    /\ Stopped
    /\ UNCHANGED <<file, version, before, dumped, durable, entry>>

Saving(s) == Open(s) \/ Write(s) \/ SyncAll(s) \/ Rename(s) \/ SyncDir(s) \/ IoError(s)

SaveNext ==
    \/ CommitAlone \/ OwnDump \/ PowerCutInSave \/ Restart \/ SettlesByItself
    \/ \E cut \in Cuts : CutInOwnDump(cut)
    \/ \E s \in Savers : Saving(s)

SaveSpec == SaveInit /\ [][SaveNext]_saveVars

-----------------------------------------------------------------------------
\* Whatever step of a save fails or is the last one, what a power cut leaves to
\* recover never gets older, and what a process starts from, after a power cut
\* or a kill, is no older than any save that returned Ok (persistence.rs:383:
\* saving is atomic).  A version that a kill left under a name not yet synced may
\* be read at the next start and be gone at the one after a power cut.
NeverGoesBack ==
    [][Recovered' >= Recovered /\ Recover(mem') >= durable']_saveVars
=============================================================================
