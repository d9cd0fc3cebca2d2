---------------------------- MODULE ReplayChannel ----------------------------
(***************************************************************************)
(* One direction of a ReplayWindowChannel: the sealing end, a wire that    *)
(* keeps every packet deliverable for ever (so a packet may be lost,       *)
(* delayed, reordered or delivered twice), and the opening end with its    *)
(* anti-replay window.  Neither end saves anything, so an end that is      *)
(* built again from the seed is as new.                                    *)
(***************************************************************************)
EXTENDS ReplayWindow

CONSTANTS
    SeqMax,     \* the largest sequence number, u64::MAX in the code
    MaxLives    \* bound: how often the sealing end is built

ASSUME ChannelAssumption ==
    /\ SeqMax \in Nat \ {0}
    /\ MaxLives \in Nat \ {0}

Seqs  == 0 .. SeqMax
Lives == 0 .. MaxLives - 1

VARIABLES
    txSeq,      \* sealing end: tx_seq
    life,       \* ghost: how often the sealing end was built before
    win,        \* opening end: highest_seen and seen_bitmap
    wire,       \* every packet ever sealed
    accepted,   \* ghost: sequence numbers opened since the end was built
    answer      \* ghost: what the last call of open returned

vars == <<txSeq, life, win, wire, accepted, answer>>

Packet == [version : {"v2", "v3"}, stream : {"own", "other"},
           life : Lives, seq : Seqs]

\* Packets of the other direction, of another context or of another mode,
\* which a caller may hand to open as well.
Strays == {p \in Packet : p.stream = "other" /\ p.life = 0}

Verdicts == {"None", "Ok", "VersionNoSoportada", "FueraDeOrden", "Repetido",
             "Autenticacion"}

NoAnswer == [seq |-> -1, verdict |-> "None"]

TypeOK ==
    /\ txSeq \in Seqs
    /\ life \in Lives
    /\ win \in WindowState(Seqs)
    /\ wire \subseteq Packet
    /\ accepted \subseteq Seqs
    /\ answer \in [seq : Seqs \cup {-1}, verdict : Verdicts]

Init ==
    /\ txSeq = 0
    /\ life = 0
    /\ win = Fresh
    /\ wire = {}
    /\ accepted = {}
    /\ answer = NoAnswer

-----------------------------------------------------------------------------
\* checked_add refuses the last sequence number, so it is never on the wire.
Seal ==
    /\ txSeq < SeqMax
    /\ txSeq' = txSeq + 1
    /\ wire' = wire \cup {[version |-> "v2", stream |-> "own", life |-> life,
                           seq |-> txSeq]}
    /\ UNCHANGED <<life, win, accepted, answer>>

\* The nonce and the key differ between streams, and the tag covers the aad:
\* boundAad says whether open is given the aad the packet was sealed with.
Authentic(p, boundAad) == p.stream = "own" /\ boundAad

VerdictOf(p, boundAad) ==
    IF p.version # "v2" THEN "VersionNoSoportada"
    ELSE IF Check(win, p.seq) # "Ok" THEN Check(win, p.seq)
    ELSE IF ~Authentic(p, boundAad) THEN "Autenticacion"
    ELSE "Ok"

Open(p, boundAad) ==
    /\ answer' = [seq |-> p.seq, verdict |-> VerdictOf(p, boundAad)]
    /\ IF VerdictOf(p, boundAad) = "Ok"
       THEN /\ win' = Record(win, p.seq)
            /\ accepted' = accepted \cup {p.seq}
       ELSE UNCHANGED <<win, accepted>>
    /\ UNCHANGED <<txSeq, life, wire>>

\* new_with_context with the same seed, role and context.
RebuildSealer ==
    /\ life + 1 < MaxLives
    /\ life' = life + 1
    /\ txSeq' = 0
    /\ UNCHANGED <<win, wire, accepted, answer>>

RebuildOpener ==
    /\ win' = Fresh
    /\ accepted' = {}
    /\ answer' = NoAnswer
    /\ UNCHANGED <<txSeq, life, wire>>

Next ==
    \/ Seal
    \/ \E p \in wire \cup Strays, boundAad \in BOOLEAN : Open(p, boundAad)
    \/ RebuildSealer
    \/ RebuildOpener

Spec == Init /\ [][Next]_vars

-----------------------------------------------------------------------------
\* The bitmap says exactly which of the last Window sequence numbers were
\* opened, after any order of deliveries and any jump ahead (mark_seen).
BitmapExact == Exact(win, accepted)

\* missing_in_window_count
MissingInWindow ==
    IF win.highest = NoneSeen THEN 0
    ELSE LET expected == IF win.highest + 1 < Window THEN win.highest + 1
                                                     ELSE Window
             ones     == Cardinality(win.bitmap)
         IN  IF expected > ones THEN expected - ones ELSE 0

\* The loss count an application reads is the number of sequence numbers in
\* the window that were never opened, not one more when the channel is young
\* and not one less because of bits that left the window.
MissingExact ==
    MissingInWindow =
        Cardinality({s \in 0 .. win.highest : win.highest - s < Window} \ accepted)

\* The channel implements the promise of a sliding window: every answer of
\* open is the one the set of opened sequence numbers calls for.
Promise == INSTANCE AntiReplay
Refines == Promise!Spec

\* replay.rs:4-6 promises zero nonce collisions up to 2^64 messages.  The
\* nonce is the mask, fixed by the seed, XOR the sequence number.
NonceNeverReused == \A p, q \in wire : p.seq = q.seq => p = q
=============================================================================
