------------------------ MODULE ReplayChannel_proofs ------------------------
(***************************************************************************)
(* For every window, every integer width and every largest sequence        *)
(* number: the types of ReplayChannel, the exactness of its bitmap, and    *)
(* that it implements AntiReplay.                                          *)
(***************************************************************************)
EXTENDS ReplayChannel, ReplayWindow_proofs, FiniteSetTheorems

USE ChannelAssumption

-----------------------------------------------------------------------------
(* The inductive invariant: the types and the exact bitmap.  The bitmap's  *)
(* exactness is what makes Check safe to trust, and Check's "Ok" is what   *)
(* keeps a recorded bit inside the window, so neither half is inductive    *)
(* alone.                                                                  *)
IInv == TypeOK /\ BitmapExact

LEMMA InitIInv == Init => IInv
<1> SUFFICES ASSUME Init PROVE IInv
  OBVIOUS
<1>1. TypeOK
  BY DEF Init, TypeOK, Fresh, WindowState, NoneSeen, NoAnswer, Verdicts, Seqs, Lives
<1>2. BitmapExact
  BY DEF Init, BitmapExact, Exact, Fresh, NoneSeen
<1> QED BY <1>1, <1>2 DEF IInv

\* open, whatever packet it is given.
LEMMA OpenKeepsIInv ==
    ASSUME IInv, NEW p \in wire \cup Strays, NEW boundAad \in BOOLEAN,
           Open(p, boundAad)
    PROVE  IInv'
<1> p \in Packet /\ p.seq \in Seqs
  BY DEF IInv, TypeOK, Strays, Packet
<1> win \in WindowState(Seqs) /\ accepted \in SUBSET Seqs /\ Exact(win, accepted)
  BY DEF IInv, TypeOK, BitmapExact
<1>1. answer' \in [seq : Seqs \cup {-1}, verdict : Verdicts]
  <2>1. Check(win, p.seq) \in {"Ok", "FueraDeOrden", "Repetido"}
    BY DEF Check
  <2>2. VerdictOf(p, boundAad) \in Verdicts
    BY <2>1 DEF VerdictOf, Verdicts
  <2> QED BY <2>2 DEF Open
<1>2. CASE VerdictOf(p, boundAad) = "Ok"
  <2>1. Check(win, p.seq) = "Ok"
    BY <1>2 DEF VerdictOf
  <2>2. win' = Record(win, p.seq) /\ accepted' = accepted \cup {p.seq}
    BY <1>2 DEF Open
  <2>3. win' \in WindowState(Seqs)
    BY <2>1, <2>2, RecordState DEF Seqs
  <2>4. Exact(win', accepted')
    BY <2>1, <2>2, RecordExact DEF Seqs
  <2> QED BY <1>1, <2>2, <2>3, <2>4 DEF IInv, TypeOK, BitmapExact, Open
<1>3. CASE VerdictOf(p, boundAad) # "Ok"
  BY <1>1, <1>3 DEF IInv, TypeOK, BitmapExact, Open
<1> QED BY <1>2, <1>3

LEMMA NextIInv == IInv /\ [Next]_vars => IInv'
<1> SUFFICES ASSUME IInv, [Next]_vars PROVE IInv'
  OBVIOUS
<1>1. CASE Seal
  BY <1>1 DEF Seal, IInv, TypeOK, BitmapExact, Packet, Seqs
<1>2. ASSUME NEW p \in wire \cup Strays, NEW boundAad \in BOOLEAN, Open(p, boundAad)
      PROVE  IInv'
  BY <1>2, OpenKeepsIInv
<1>3. CASE RebuildSealer
  BY <1>3 DEF RebuildSealer, IInv, TypeOK, BitmapExact, Lives, Seqs
<1>4. CASE RebuildOpener
  BY <1>4 DEF RebuildOpener, IInv, TypeOK, BitmapExact, Exact, Fresh, WindowState,
              NoneSeen, NoAnswer, Verdicts
<1>5. CASE UNCHANGED vars
  BY <1>5 DEF vars, IInv, TypeOK, BitmapExact
<1> QED BY <1>1, <1>2, <1>3, <1>4, <1>5 DEF Next

LEMMA AlwaysIInv == Spec => []IInv
<1> QED BY InitIInv, NextIInv, PTL DEF Spec

-----------------------------------------------------------------------------
\* The state of the two ends stays within its types, the bitmap within its mask.
THEOREM TypesHold == Spec => []TypeOK
<1>1. IInv => TypeOK
  BY DEF IInv
<1> QED BY <1>1, AlwaysIInv, PTL

\* The bitmap holds exactly the opened numbers of the window, whatever the
\* window, the width of the bitmap and the order of deliveries.
THEOREM BitmapIsExact == Spec => []BitmapExact
<1>1. IInv => BitmapExact
  BY DEF IInv
<1> QED BY <1>1, AlwaysIInv, PTL

\* The one bits stand for the opened numbers of the window, one for one.
LEMMA OnesCountOpened ==
    ASSUME IInv, win.highest # NoneSeen
    PROVE  LET inWindow == {s \in 0 .. win.highest : win.highest - s < Window} IN
           /\ IsFiniteSet(win.bitmap)
           /\ Cardinality(win.bitmap) = Cardinality(inWindow \cap accepted)
<1> DEFINE inWindow == {s \in 0 .. win.highest : win.highest - s < Window}
           opened == inWindow \cap accepted
           number == [d \in win.bitmap |-> win.highest - d]
<1>1. /\ win.highest \in Nat /\ win.bitmap \subseteq 0 .. Window - 1
      /\ accepted \subseteq Nat /\ Window <= Bits /\ Bits \in Nat /\ Window \in Nat
      /\ \A d \in 0 .. Bits - 1 : d \in win.bitmap <=> d < Window /\ win.highest - d \in accepted
  BY WindowAssumption DEF IInv, TypeOK, WindowState, Seqs, NoneSeen, BitmapExact, Exact
<1>2. IsFiniteSet(win.bitmap)
  <2>1. 0 \in Int /\ Window - 1 \in Int
    BY <1>1
  <2>2. IsFiniteSet(0 .. Window - 1)
    BY <2>1, FS_Interval
  <2> QED BY <1>1, <2>2, FS_Subset
<1>3. number \in [win.bitmap -> opened]
  BY <1>1
<1>4. ASSUME NEW s \in opened PROVE \E d \in win.bitmap : number[d] = s
  <2>1. win.highest - s \in 0 .. Bits - 1 /\ win.highest - (win.highest - s) = s
    BY <1>1
  <2>2. win.highest - s \in win.bitmap
    BY <1>1, <2>1
  <2> QED BY <2>1, <2>2
<1>5. \A c, d \in win.bitmap : number[c] = number[d] => c = d
  BY <1>1
<1>6. number \in Bijection(win.bitmap, opened)
  BY <1>3, <1>4, <1>5 DEF Bijection, Injection, Surjection, IsInjective
<1> HIDE DEF opened, number
<1>7. Cardinality(opened) = Cardinality(win.bitmap)
  BY <1>2, <1>6, FS_Bijection DEF ExistsBijection
<1> QED BY <1>2, <1>7 DEF opened

\* The loss count is the number of sequence numbers of the window that were
\* never opened, for every window and however far the channel has come.
THEOREM LossCountIsExact == Spec => []MissingExact
<1>1. ASSUME IInv PROVE MissingExact
  <2> DEFINE inWindow == {s \in 0 .. win.highest : win.highest - s < Window}
             expected == IF win.highest + 1 < Window THEN win.highest + 1 ELSE Window
             ones     == Cardinality(win.bitmap)
  <2>1. Window \in Nat \ {0} /\ win.highest \in Nat \cup {-1}
    BY <1>1, WindowAssumption DEF IInv, TypeOK, WindowState, Seqs, NoneSeen
  <2>2. CASE win.highest = NoneSeen
    <3>1. inWindow \ accepted = {}
      BY <2>2 DEF NoneSeen
    <3>2. MissingInWindow = 0
      BY <2>2 DEF MissingInWindow
    <3> QED BY <3>1, <3>2, FS_EmptySet DEF MissingExact
  <2>3. CASE win.highest # NoneSeen
    <3>1. win.highest \in Nat
      BY <2>1, <2>3 DEF NoneSeen
    <3>2. inWindow = (win.highest - expected + 1) .. win.highest
      BY <2>1, <3>1
    <3>3. expected \in Nat
      BY <2>1, <3>1
    <3>4. IsFiniteSet(inWindow) /\ Cardinality(inWindow) = expected
      <4> DEFINE low == win.highest - expected + 1
      <4>1. low \in Int /\ (IF low > win.highest THEN 0 ELSE win.highest - low + 1) = expected
        BY <2>1, <3>1, <3>3
      <4> HIDE DEF low, expected, inWindow
      <4>2. /\ IsFiniteSet(low .. win.highest)
            /\ Cardinality(low .. win.highest) = IF low > win.highest THEN 0 ELSE win.highest - low + 1
        <5>1. win.highest \in Int
          BY <3>1
        <5> QED BY ONLY <4>1, <5>1, FS_Interval
      <4> QED BY <3>2, <4>1, <4>2 DEF low
    <3>5. IsFiniteSet(win.bitmap) /\ ones = Cardinality(inWindow \cap accepted)
      BY <1>1, <2>3, OnesCountOpened
    <3> HIDE DEF inWindow
    <3>6. Cardinality(inWindow \ accepted) = Cardinality(inWindow) - Cardinality(inWindow \cap accepted)
      BY <3>4, FS_Difference
    <3>7. ones \in Nat /\ Cardinality(inWindow \ accepted) \in Nat
      BY <3>4, <3>5, FS_CardinalityType, FS_Difference
    <3>8. MissingInWindow = IF expected > ones THEN expected - ones ELSE 0
      BY <2>3 DEF MissingInWindow
    <3> HIDE DEF expected, ones
    <3>9. MissingInWindow = Cardinality(inWindow \ accepted)
      BY <3>3, <3>4, <3>5, <3>6, <3>7, <3>8
    <3> QED BY <3>9 DEF MissingExact, inWindow
  <2> QED BY <2>2, <2>3
<1>2. IInv => MissingExact
  BY <1>1
<1> QED BY <1>2, AlwaysIInv, PTL

\* Every step of the channel is a step of AntiReplay or leaves it alone.
LEMMA StepRefines == IInv /\ [Next]_vars => [Promise!Next]_(Promise!vars)
<1> SUFFICES ASSUME IInv, [Next]_vars PROVE [Promise!Next]_(Promise!vars)
  OBVIOUS
<1>1. CASE Seal
  BY <1>1 DEF Seal, Promise!vars
<1>2. ASSUME NEW p \in wire \cup Strays, NEW boundAad \in BOOLEAN, Open(p, boundAad)
      PROVE  Promise!Next
  <2>1. p.seq \in Seqs
    BY DEF IInv, TypeOK, Strays, Packet
  <2>2. CASE p.version # "v2"
    <3>1. Promise!Unsupported(p.seq)
      BY <1>2, <2>2 DEF Open, VerdictOf, Promise!Unsupported
    <3> QED BY <2>1, <3>1 DEF Promise!Next
  <2>3. CASE p.version = "v2"
    <3> DEFINE authentic == Authentic(p, boundAad)
    <3>1. authentic \in BOOLEAN
      BY DEF Authentic
    <3>2. Check(win, p.seq) =
            IF \E h \in accepted : h - p.seq >= Window THEN "FueraDeOrden"
            ELSE IF p.seq \in accepted THEN "Repetido"
            ELSE "Ok"
      BY <2>1, CheckCorrect DEF Seqs, IInv, TypeOK, BitmapExact
    <3>3. VerdictOf(p, boundAad) = Promise!Verdict(p.seq, authentic)
      BY <2>3, <3>2 DEF VerdictOf, Promise!Verdict, Promise!TooOld
    <3>4. Promise!Open(p.seq, authentic)
      BY <1>2, <3>3 DEF Open, Promise!Open
    <3> QED BY <2>1, <3>1, <3>4 DEF Promise!Next
  <2> QED BY <2>2, <2>3
<1>3. CASE RebuildSealer
  BY <1>3 DEF RebuildSealer, Promise!vars
<1>4. CASE RebuildOpener
  BY <1>4 DEF RebuildOpener, Promise!Next, Promise!Restart, NoAnswer, Promise!NoAnswer
<1>5. CASE UNCHANGED vars
  BY <1>5 DEF vars, Promise!vars
<1> QED BY <1>1, <1>2, <1>3, <1>4, <1>5 DEF Next

\* ReplayWindowChannel, with its bitmap, keeps the promise of AntiReplay.
THEOREM ChannelRefines == Spec => Refines
<1>1. Init => Promise!Init
  BY DEF Init, Promise!Init, NoAnswer, Promise!NoAnswer
<1>2. Spec => Promise!Spec
  BY <1>1, StepRefines, AlwaysIInv, PTL DEF Spec, Promise!Spec
<1> QED BY <1>2 DEF Refines
=============================================================================
