------------------------------ MODULE DurableLog ------------------------------
(***************************************************************************)
(* What an append-only journal promises of the entries that recovery would *)
(* return: the log only grows, whatever crashes, and an entry is           *)
(* acknowledged only when it is the last one of the log.                   *)
(***************************************************************************)
EXTENDS Sequences, SequencesExt

VARIABLES log, acked

Init == log = <<>> /\ acked = <<>>

\* Appends reached the disk; their callers may not have heard of it.
Grow == IsPrefix(log, log') /\ UNCHANGED acked

Acknowledge ==
    /\ IsPrefix(log, log')
    /\ log' # <<>>
    /\ acked' = Append(acked, Last(log'))

Next == Grow \/ Acknowledge

Spec == Init /\ [][Next]_<<log, acked>>
=============================================================================
