------------------------- MODULE ReplayWindow_proofs -------------------------
(***************************************************************************)
(* What the operators of ReplayWindow compute, for every window, every     *)
(* width of the bitmap and every range 0 .. M of sequence numbers.         *)
(***************************************************************************)
EXTENDS ReplayWindow, TLAPS

USE WindowAssumption

-----------------------------------------------------------------------------
(* What the window operators compute (ensure_sequence_is_new, mark_seen).  *)

\* ensure_sequence_is_new answers what the set of opened numbers calls for.
LEMMA CheckCorrect ==
    ASSUME NEW M \in Nat, NEW w \in WindowState(0 .. M),
           NEW A \in SUBSET (0 .. M), Exact(w, A),
           NEW s \in 0 .. M
    PROVE  Check(w, s) =
             IF \E h \in A : h - s >= Window THEN "FueraDeOrden"
             ELSE IF s \in A THEN "Repetido"
             ELSE "Ok"
<1> w.highest \in 0 .. M \cup {-1} /\ w.bitmap \in SUBSET (0 .. Window - 1)
  BY DEF WindowState, NoneSeen
<1>1. CASE w.highest = NoneSeen
  BY <1>1 DEF Exact, Check
<1>2. CASE w.highest # NoneSeen /\ s > w.highest
  <2>1. w.highest \in 0 .. M /\ \A h \in A : h \in 0 .. M /\ h <= w.highest
    BY <1>2 DEF Exact, NoneSeen
  <2>2. ~ (\E h \in A : h - s >= Window) /\ s \notin A
    BY <1>2, <2>1
  <2> QED BY <1>2, <2>2 DEF Check
<1>3. CASE w.highest # NoneSeen /\ ~ (s > w.highest)
  <2>1. w.highest \in 0 .. M /\ w.highest \in A
    BY <1>3 DEF Exact, NoneSeen
  <2>2. \A h \in A : h \in 0 .. M /\ h <= w.highest
    BY DEF Exact
  <2>3. (\E h \in A : h - s >= Window) <=> w.highest - s >= Window
    BY <2>1, <2>2
  <2>4. CASE w.highest - s >= Window
    BY <1>3, <2>3, <2>4 DEF Check
  <2>5. CASE ~ (w.highest - s >= Window)
    <3>1. w.highest - s \in 0 .. Bits - 1 /\ w.highest - s < Window
      BY <1>3, <2>1, <2>5
    <3>2. w.highest - (w.highest - s) = s
      BY <2>1
    <3>3. w.highest - s \in w.bitmap <=> s \in A
      BY <3>1, <3>2 DEF Exact
    <3> QED BY <1>3, <2>3, <2>5, <3>3 DEF Check
  <2> QED BY <2>4, <2>5
<1> QED BY <1>1, <1>2, <1>3

\* mark_seen keeps the window a window.
LEMMA RecordState ==
    ASSUME NEW M \in Nat, NEW w \in WindowState(0 .. M), NEW s \in 0 .. M, Check(w, s) = "Ok"
    PROVE  Record(w, s) \in WindowState(0 .. M)
<1> w.highest \in 0 .. M \cup {-1} /\ w.bitmap \in SUBSET (0 .. Window - 1)
  BY DEF WindowState, NoneSeen
<1> 0 \in 0 .. Window - 1
  OBVIOUS
<1>1. CASE w.highest = NoneSeen
  BY <1>1 DEF Record, WindowState
<1>2. CASE w.highest # NoneSeen /\ s > w.highest
  BY <1>2 DEF Record, Mask, WindowState
<1>3. CASE w.highest # NoneSeen /\ ~ (s > w.highest)
  <2>1. w.highest \in 0 .. M /\ w.highest - s \in 0 .. Window - 1
    BY <1>3 DEF Check, NoneSeen
  <2> QED BY <1>3, <2>1 DEF Record, WindowState
<1> QED BY <1>1, <1>2, <1>3

\* mark_seen sets exactly the bits of the numbers opened so far.
LEMMA RecordExact ==
    ASSUME NEW M \in Nat, NEW w \in WindowState(0 .. M),
           NEW A \in SUBSET (0 .. M), Exact(w, A),
           NEW s \in 0 .. M, Check(w, s) = "Ok"
    PROVE  Exact(Record(w, s), A \cup {s})
<1> w.highest \in 0 .. M \cup {-1} /\ w.bitmap \in SUBSET (0 .. Window - 1)
  BY DEF WindowState, NoneSeen
<1>a. \A h \in A : h \in 0 .. M /\ h <= w.highest
  BY DEF Exact
<1>b. \A d \in 0 .. Bits - 1 : d \in w.bitmap <=> d < Window /\ w.highest - d \in A
  BY DEF Exact
<1> DEFINE v == Record(w, s)
<1>1. CASE w.highest = NoneSeen
  <2>1. A = {} /\ v = [highest |-> s, bitmap |-> {0}]
    BY <1>1 DEF Exact, Record
  <2>2. \A d \in 0 .. Bits - 1 : d \in v.bitmap <=> d < Window /\ v.highest - d \in {s}
    BY <2>1
  <2> QED BY <2>1, <2>2 DEF Exact, NoneSeen
<1>2. CASE w.highest # NoneSeen /\ s > w.highest
  <2> DEFINE shift == s - w.highest
  <2>1. w.highest \in 0 .. M /\ shift \in Nat /\ shift > 0
    BY <1>2 DEF NoneSeen
  <2>2. /\ v.highest = s
        /\ v.bitmap = Mask((IF shift >= Bits THEN {} ELSE ShiftLeft(w.bitmap, shift)) \cup {0})
    BY <1>2 DEF Record
  <2>3. ASSUME NEW d \in 0 .. Bits - 1
        PROVE  d \in v.bitmap <=> d < Window /\ s - d \in A \cup {s}
    <3>1. CASE d = 0
      BY <2>2, <3>1 DEF Mask
    <3>2. CASE d # 0 /\ d < shift
      <4>1. s - d \notin A \cup {s}
        BY <1>a, <2>1, <3>2
      <4>2. d \notin ShiftLeft(w.bitmap, shift)
        BY <2>1, <3>2 DEF ShiftLeft
      <4> QED BY <2>2, <3>2, <4>1, <4>2 DEF Mask
    <3>3. CASE d # 0 /\ d >= shift
      <4>1. shift < Bits /\ d - shift \in 0 .. Bits - 1
        BY <2>1, <3>3
      <4>2. w.highest - (d - shift) = s - d /\ s - d # s
        BY <2>1, <3>3
      <4>3. d - shift \in w.bitmap <=> d - shift < Window /\ s - d \in A
        BY <1>b, <4>1, <4>2
      <4>4. d \in ShiftLeft(w.bitmap, shift) <=> d - shift \in w.bitmap
        <5>1. \A e \in w.bitmap : e + shift = d <=> e = d - shift
          BY <2>1
        <5>2. d \in ShiftLeft(w.bitmap, shift) <=> \E e \in w.bitmap : e + shift = d
          BY DEF ShiftLeft
        <5> QED BY <5>1, <5>2
      <4>5. d \in v.bitmap <=> d \in ShiftLeft(w.bitmap, shift) /\ d < Window
        BY <2>1, <2>2, <3>3, <4>1 DEF Mask
      <4> QED BY <2>1, <3>3, <4>2, <4>3, <4>4, <4>5
    <3> QED BY <3>1, <3>2, <3>3, <2>1
  <2>4. \A h \in A \cup {s} : h <= s
    BY <1>2, <1>a, <2>1
  <2>5. v.highest = s /\ s # NoneSeen /\ A \cup {s} # {}
    BY <2>2 DEF NoneSeen
  <2> HIDE DEF v
  <2>6. Exact(v, A \cup {s})
    BY <2>3, <2>4, <2>5 DEF Exact
  <2> QED BY <2>6 DEF v
<1>3. CASE w.highest # NoneSeen /\ ~ (s > w.highest)
  <2>1. /\ w.highest \in A /\ w.highest \in 0 .. M
        /\ w.highest - s \in 0 .. Window - 1
    BY <1>3 DEF Exact, Check, NoneSeen
  <2>2. v = [w EXCEPT !.bitmap = @ \cup {w.highest - s}]
    BY <1>3 DEF Record
  <2>3. v.highest = w.highest /\ v.bitmap = w.bitmap \cup {w.highest - s}
    BY <2>2 DEF WindowState
  <2>4. \A d \in 0 .. Bits - 1 : w.highest - d = s <=> d = w.highest - s
    BY <2>1
  <2>5. \A d \in 0 .. Bits - 1 :
            d \in v.bitmap <=> d < Window /\ v.highest - d \in A \cup {s}
    BY <1>b, <2>1, <2>3, <2>4
  <2>6. \A h \in A \cup {s} : h <= w.highest
    BY <1>3, <1>a, <2>1
  <2> QED BY <1>3, <2>1, <2>3, <2>5, <2>6 DEF Exact, NoneSeen
<1> QED BY <1>1, <1>2, <1>3
=============================================================================
