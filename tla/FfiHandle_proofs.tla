--------------------------- MODULE FfiHandle_proofs ---------------------------
(***************************************************************************)
(* For every set of arrivals, every window, buffer and cut, and any number *)
(* of stops: no identity is sealed twice, a completed save is remembered,  *)
(* and the host's journal is one chain.                                    *)
(***************************************************************************)
EXTENDS FfiHandle, ReplayWindow_proofs, FiniteSetTheorems, SequenceTheorems

-----------------------------------------------------------------------------
(* The codec.  A version 3 packet whose fields are all single bytes is     *)
(* written back as the bytes that it was read from, and its tag tells all  *)
(* of its fields.                                                          *)

\* What InboxAssumption says, for one byte and for two names.
LEMMA PlainByte ==
    ASSUME NEW b \in Octets, DOMAIN b = {"byte"}
    PROVE  b = Byte(b.byte) /\ b.byte \in Nat
<1>1. b \in PlainBytes
  BY InboxAssumption
<1> QED BY <1>1 DEF PlainBytes, Byte

LEMMA OneName ==
    ASSUME NEW s \in Sent, NEW m \in DOMAIN Arriving, Arriving[s] = Arriving[m]
    PROVE  s = m
<1> QED BY InboxAssumption

LEMMA ReadsBack ==
    ASSUME NEW s \in Seq(Octets), s # <<>>, FromBE(s) # Huge
    PROVE  s = ToBE(FromBE(s), Len(s))
<1> DEFINE n == Len(s)
<1>1. n \in Nat \ {0} /\ s = [i \in 1 .. n |-> s[i]] /\ s[n] \in Octets
  OBVIOUS
<1>2. /\ \A i \in 1 .. n - 1 : s[i] = Byte(0)
      /\ DOMAIN s[n] = {"byte"} /\ FromBE(s) = s[n].byte
  BY DEF FromBE
<1>3. s[n] = Byte(FromBE(s))
  BY <1>1, <1>2, PlainByte
<1> HIDE DEF n
<1>4. ASSUME NEW i \in 1 .. n PROVE s[i] = Byte(IF i = n THEN FromBE(s) ELSE 0)
  <2>1. CASE i = n
    BY <1>3, <2>1
  <2>2. CASE i # n
    <3>1. i \in 1 .. n - 1
      BY <1>1, <2>2
    <3> QED BY <1>2, <2>2, <3>1
  <2> QED BY <2>1, <2>2
<1>5. s = [i \in 1 .. n |-> Byte(IF i = n THEN FromBE(s) ELSE 0)]
  BY <1>1, <1>4
<1> QED BY <1>5 DEF ToBE, n

LEMMA SliceOf ==
    ASSUME NEW raw \in Seq(Octets), NEW a \in Nat, NEW b \in Nat, a < b, b <= Len(raw)
    PROVE  /\ Slice(raw, a, b) \in Seq(Octets) /\ Slice(raw, a, b) # <<>>
           /\ Len(Slice(raw, a, b)) = b - a
           /\ \A i \in 1 .. b - a : Slice(raw, a, b)[i] = raw[a + i]
<1>1. \A i \in a + 1 .. b : raw[i] \in Octets
  OBVIOUS
<1>2. /\ SubSeq(raw, a + 1, b) \in Seq(Octets)
      /\ Len(SubSeq(raw, a + 1, b)) = b - a
      /\ \A i \in 1 .. b - a : SubSeq(raw, a + 1, b)[i] = raw[a + i]
  BY <1>1, SubSeqProperties
<1>3. SubSeq(raw, a + 1, b) # <<>>
  BY <1>2
<1> QED BY <1>2, <1>3 DEF Slice

LEMMA SliceIsSeq ==
    \A raw \in Seq(Octets) : \A a, b \in Nat : a < b /\ b <= Len(raw) =>
        Slice(raw, a, b) \in Seq(Octets) /\ Len(Slice(raw, a, b)) = b - a
<1> QED BY SliceOf

\* \o, as an operator that the provers do not expand.
Then(s, t) == s \o t

LEMMA ThenProperties ==
    ASSUME NEW S, NEW s \in Seq(S), NEW t \in Seq(S)
    PROVE  /\ Then(s, t) \in Seq(S) /\ Len(Then(s, t)) = Len(s) + Len(t)
           /\ \A i \in 1 .. Len(s) + Len(t) :
                 Then(s, t)[i] = IF i <= Len(s) THEN s[i] ELSE t[i - Len(s)]
<1> QED BY ConcatProperties DEF Then

LEMMA SlicesJoin ==
    ASSUME NEW raw \in Seq(Octets), NEW a \in Nat, NEW b \in Nat,
           a <= b, b <= Len(raw)
    PROVE  Then(Slice(raw, 0, a), Slice(raw, a, b)) = Slice(raw, 0, b)
<1> QED BY ConcatAdjacentSubSeq DEF Slice, Then

LEMMA Version3Bytes ==
    ASSUME NEW p, p.version = 3
    PROVE  PacketToBytes(p) =
             Then(Then(Then(Then(Then(Then(Then(ToBE(3, 1), ToBE(p.flags, 1)),
               ToBE(p.node_id, 4)), ToBE(p.epoch, 8)), ToBE(p.sequence, 8)),
               ToBE(p.timestamp_ms, 8)), p.nonce), p.ciphertext)
<1>1. p.version # 1
  OBVIOUS
<1>2. PacketToBytes(p) =
        ToBE(3, 1) \o ToBE(p.flags, 1) \o ToBE(p.node_id, 4) \o ToBE(p.epoch, 8)
        \o ToBE(p.sequence, 8) \o ToBE(p.timestamp_ms, 8) \o p.nonce \o p.ciphertext
  BY <1>1, Zenon DEF PacketToBytes
<1> QED BY <1>2, Zenon DEF Then

LEMMA FieldsReadBack ==
    ASSUME NEW raw \in Seq(Octets), NEW a \in Nat, NEW b \in Nat,
           a < b, b <= Len(raw), FromBE(Slice(raw, a, b)) # Huge
    PROVE  Slice(raw, a, b) = ToBE(FromBE(Slice(raw, a, b)), b - a)
<1> DEFINE s == Slice(raw, a, b)
<1>1. s \in Seq(Octets) /\ s # <<>> /\ Len(s) = b - a
  BY SliceOf
<1> HIDE DEF s
<1>2. FromBE(s) # Huge
  BY DEF s
<1>3. s = ToBE(FromBE(s), b - a)
  BY <1>1, <1>2, ReadsBack
<1> QED BY <1>3 DEF s

LEMMA WrittenAsRead ==
    ASSUME NEW raw \in Seq(Octets), Len(raw) >= V3_HEADER_LEN,
           FromBE(Slice(raw, 0, 1)) = 3,
           NEW p, p = ReadV3(raw),
           p.flags # Huge, p.node_id # Huge, p.epoch # Huge, p.sequence # Huge,
           p.timestamp_ms # Huge
    PROVE  PacketToBytes(p) = raw
<1> Len(raw) \in Nat /\ Len(raw) >= 42
  BY DEF V3_HEADER_LEN
<1>1. /\ p.version = 3 /\ p.flags = FromBE(Slice(raw, 1, 2))
      /\ p.node_id = FromBE(Slice(raw, 2, 6)) /\ p.epoch = FromBE(Slice(raw, 6, 14))
      /\ p.sequence = FromBE(Slice(raw, 14, 22))
      /\ p.timestamp_ms = FromBE(Slice(raw, 22, 30))
      /\ p.nonce = Slice(raw, 30, 42) /\ p.ciphertext = Slice(raw, 42, Len(raw))
  BY DEF ReadV3, Read, NONCE_LEN, V3_HEADER_LEN
<1>2. /\ ToBE(3, 1) = Slice(raw, 0, 1) /\ ToBE(p.flags, 1) = Slice(raw, 1, 2)
      /\ ToBE(p.node_id, 4) = Slice(raw, 2, 6) /\ ToBE(p.epoch, 8) = Slice(raw, 6, 14)
      /\ ToBE(p.sequence, 8) = Slice(raw, 14, 22)
      /\ ToBE(p.timestamp_ms, 8) = Slice(raw, 22, 30)
  <2>1. ToBE(3, 1) = Slice(raw, 0, 1)
    BY FieldsReadBack DEF Huge
  <2>2. ToBE(p.flags, 1) = Slice(raw, 1, 2)
    BY <1>1, FieldsReadBack
  <2>3. ToBE(p.node_id, 4) = Slice(raw, 2, 6)
    BY <1>1, FieldsReadBack
  <2>4. ToBE(p.epoch, 8) = Slice(raw, 6, 14)
    BY <1>1, FieldsReadBack
  <2>5. ToBE(p.sequence, 8) = Slice(raw, 14, 22)
    BY <1>1, FieldsReadBack
  <2>6. ToBE(p.timestamp_ms, 8) = Slice(raw, 22, 30)
    BY <1>1, FieldsReadBack
  <2> QED BY <2>1, <2>2, <2>3, <2>4, <2>5, <2>6
<1>3. Then(Slice(raw, 0, 1), Slice(raw, 1, 2)) = Slice(raw, 0, 2)
  BY SlicesJoin
<1>4. Then(Slice(raw, 0, 2), Slice(raw, 2, 6)) = Slice(raw, 0, 6)
  BY SlicesJoin
<1>5. Then(Slice(raw, 0, 6), Slice(raw, 6, 14)) = Slice(raw, 0, 14)
  BY SlicesJoin
<1>6. Then(Slice(raw, 0, 14), Slice(raw, 14, 22)) = Slice(raw, 0, 22)
  BY SlicesJoin
<1>7. Then(Slice(raw, 0, 22), Slice(raw, 22, 30)) = Slice(raw, 0, 30)
  BY SlicesJoin
<1>8. Then(Slice(raw, 0, 30), Slice(raw, 30, 42)) = Slice(raw, 0, 42)
  BY SlicesJoin
<1>9. Then(Slice(raw, 0, 42), Slice(raw, 42, Len(raw))) = raw
  <2>1. Then(Slice(raw, 0, 42), Slice(raw, 42, Len(raw))) = Slice(raw, 0, Len(raw))
    BY SlicesJoin
  <2>2. Slice(raw, 0, Len(raw)) = raw
    BY SubSeqFull DEF Slice
  <2> QED BY <2>1, <2>2
<1> QED BY <1>1, <1>2, <1>3, <1>4, <1>5, <1>6, <1>7, <1>8, <1>9, Version3Bytes

\* The bytes that a tag covers.
Covered == [byte : Nat] \cup [context : 1 .. 32]

LEMMA ToBEIsCovered ==
    ASSUME NEW n \in Nat, NEW w \in Nat
    PROVE  ToBE(n, w) \in Seq(Covered) /\ Len(ToBE(n, w)) = w
<1>1. \A i \in 1 .. w : Byte(IF i = w THEN n ELSE 0) \in Covered
  BY DEF Byte, Covered
<1> QED BY <1>1 DEF ToBE

\* A byte stays where it is when more is appended.
LEMMA StartStays ==
    ASSUME NEW s \in Seq(Covered), NEW t \in Seq(Covered), Len(s) >= 2
    PROVE  s \o t \in Seq(Covered) /\ Len(s \o t) >= 2 /\ (s \o t)[2] = s[2]
<1> QED BY ConcatProperties

LEMMA AadTellsFlags ==
    ASSUME NEW f \in Nat, NEW from \in Nat, NEW e \in Nat, NEW q \in Nat, NEW ts \in Nat,
           NEW user \in Seq(PlainBytes)
    PROVE  AadV3(f, from, e, q, ts, user)[2] = Byte(f)
<1> DEFINE p2 == ToBE(3, 1) \o ToBE(f, 1)
           p3 == p2 \o ToBE(from, 4)
           p4 == p3 \o ToBE(e, 8)
           p5 == p4 \o ToBE(q, 8)
           p6 == p5 \o ToBE(ts, 8)
           p7 == p6 \o ContextHash
           p8 == p7 \o UserPart(f, user)
<1>1. p8 = AadV3(f, from, e, q, ts, user)
  BY DEF AadV3
<1>2. p2 \in Seq(Covered) /\ Len(p2) >= 2 /\ p2[2] = Byte(f)
  <2>1. /\ ToBE(3, 1) \in Seq(Covered) /\ ToBE(f, 1) \in Seq(Covered)
        /\ Len(ToBE(3, 1)) = 1 /\ Len(ToBE(f, 1)) = 1
    BY ToBEIsCovered
  <2>2. ToBE(f, 1)[1] = Byte(f)
    BY DEF ToBE
  <2> QED BY <2>1, <2>2, ConcatProperties
<1>3. /\ ToBE(from, 4) \in Seq(Covered) /\ ToBE(e, 8) \in Seq(Covered)
      /\ ToBE(q, 8) \in Seq(Covered) /\ ToBE(ts, 8) \in Seq(Covered)
  BY ToBEIsCovered
<1>4. ContextHash \in Seq(Covered)
  <2>1. \A i \in 1 .. 32 : [context |-> i] \in Covered
    BY DEF Covered
  <2> QED BY <2>1 DEF ContextHash
<1>5. UserPart(f, user) \in Seq(Covered)
  <2>1. user \in Seq(Covered) /\ Len(user) \in Nat
    <3>1. PlainBytes \subseteq Covered
      <4> SUFFICES ASSUME NEW b \in PlainBytes PROVE b \in Covered
        OBVIOUS
      <4>1. PICK n \in 0 .. 255 : b = [byte |-> n]
        BY DEF PlainBytes
      <4>2. [byte |-> n] \in [byte : Nat]
        OBVIOUS
      <4> QED BY <4>1, <4>2 DEF Covered
    <3> QED BY <3>1
  <2>2. ToBE(Len(user), 4) \in Seq(Covered)
    BY <2>1, ToBEIsCovered
  <2>3. ToBE(Len(user), 4) \o user \in Seq(Covered)
    BY <2>1, <2>2
  <2>4. <<>> \in Seq(Covered)
    OBVIOUS
  <2> QED BY <2>3, <2>4 DEF UserPart
<1> HIDE DEF p2, p3, p4, p5, p6, p7, p8
<1>6. p3 \in Seq(Covered) /\ Len(p3) >= 2 /\ p3[2] = Byte(f)
  BY <1>2, <1>3, StartStays DEF p3
<1>7. p4 \in Seq(Covered) /\ Len(p4) >= 2 /\ p4[2] = Byte(f)
  BY <1>3, <1>6, StartStays DEF p4
<1>8. p5 \in Seq(Covered) /\ Len(p5) >= 2 /\ p5[2] = Byte(f)
  BY <1>3, <1>7, StartStays DEF p5
<1>9. p6 \in Seq(Covered) /\ Len(p6) >= 2 /\ p6[2] = Byte(f)
  BY <1>3, <1>8, StartStays DEF p6
<1>10. p7 \in Seq(Covered) /\ Len(p7) >= 2 /\ p7[2] = Byte(f)
  BY <1>4, <1>9, StartStays DEF p7
<1> QED BY <1>1, <1>5, <1>10, StartStays DEF p8

\* A tag names what it was computed from.
LEMMA TagTells ==
    ASSUME NEW keys, NEW aad, NEW msg
    PROVE  /\ Encrypt(keys, aad, msg)[2] = [tag |-> <<keys, aad, msg>>, at |-> 1]
           /\ 2 \in DOMAIN Encrypt(keys, aad, msg)
           /\ \A i \in DOMAIN Encrypt(keys, aad, msg) :
                 \/ Encrypt(keys, aad, msg)[i] = Byte(msg)
                 \/ Encrypt(keys, aad, msg)[i].tag = <<keys, aad, msg>>
<1> DEFINE Tag(i) == [tag |-> <<keys, aad, msg>>, at |-> i]
           first == <<Byte(msg)>>
           tags == [i \in 1 .. TAG_LEN |-> Tag(i)]
           Out == {Byte(msg)} \cup {Tag(i) : i \in 1 .. TAG_LEN}
           all == Then(first, tags)
<1>1. \A i \in 1 .. TAG_LEN : Tag(i).tag = <<keys, aad, msg>>
  OBVIOUS
<1>2. Encrypt(keys, aad, msg) = all /\ Tag(1) = [tag |-> <<keys, aad, msg>>, at |-> 1]
  BY DEF Encrypt, Then
<1> HIDE DEF Tag
<1>3. first \in Seq(Out) /\ Len(first) = 1 /\ first[1] = Byte(msg)
  OBVIOUS
<1>4. tags \in Seq(Out) /\ Len(tags) = 16 /\ \A i \in 1 .. 16 : tags[i] = Tag(i)
  BY DEF TAG_LEN
<1> HIDE DEF first, tags, Out
<1>5. /\ all \in Seq(Out) /\ Len(all) = 17
      /\ \A i \in 1 .. 17 : all[i] = IF i <= 1 THEN first[i] ELSE tags[i - 1]
  <2>1. /\ all \in Seq(Out) /\ Len(all) = Len(first) + Len(tags)
        /\ \A i \in 1 .. Len(first) + Len(tags) :
              all[i] = IF i <= Len(first) THEN first[i] ELSE tags[i - Len(first)]
    BY <1>3, <1>4, ThenProperties, Zenon
  <2> HIDE DEF all
  <2> QED BY <1>3, <1>4, <2>1
<1> HIDE DEF all
<1>6. DOMAIN all = 1 .. 17
  BY <1>5
<1>7. all[2] = Tag(1)
  BY <1>4, <1>5
<1>8. ASSUME NEW i \in 1 .. 17
      PROVE  all[i] = Byte(msg) \/ all[i].tag = <<keys, aad, msg>>
  <2>1. CASE i = 1
    BY <1>3, <1>5, <2>1
  <2>2. CASE i # 1
    <3>1. i - 1 \in 1 .. 16 /\ ~(i <= 1)
      BY <2>2
    <3>2. all[i] = Tag(i - 1)
      BY <1>4, <1>5, <3>1
    <3> QED BY <1>1, <3>1, <3>2 DEF TAG_LEN
  <2> QED BY <2>1, <2>2
<1> QED BY <1>2, <1>6, <1>7, <1>8

LEMMA ReadAsVersion3 ==
    ASSUME NEW raw, PacketFromBytes(raw).version = 3
    PROVE  /\ PacketFromBytes(raw) = ReadV3(raw)
           /\ FromBE(Slice(raw, 0, 1)) = 3
           /\ Len(raw) >= V3_HEADER_LEN + TAG_LEN
<1>1. /\ Corrupt.version # 3 /\ ReadV1(raw).version # 3 /\ ReadV2(raw).version # 3
  BY DEF Corrupt, ReadV1, ReadV2, Read
<1> QED BY <1>1 DEF PacketFromBytes

\* A packet of version 3 by its fields.
LEMMA Genuine3 ==
    ASSUME NEW m \in Genuine
    PROVE  LET p    == Got[m]
               keys == Crypto(p.node_id, p.epoch, p.sequence, p.timestamp_ms)
               aad  == AadV3(p.flags, p.node_id, p.epoch, p.sequence, p.timestamp_ms,
                             AgreedAad(p.sequence))
           IN  /\ m \in DOMAIN Arriving /\ Arriving[m] \in Seq(Octets)
               /\ p = ReadV3(Arriving[m]) /\ FromBE(Slice(Arriving[m], 0, 1)) = 3
               /\ Len(Arriving[m]) >= V3_HEADER_LEN + TAG_LEN
               /\ p.nonce = NonceOf(keys)
               /\ p.ciphertext = Encrypt(keys, aad, p.ciphertext[1].byte)
<1>1. m \in DOMAIN Arriving /\ Got[m] = PacketFromBytes(Arriving[m])
  BY DEF Genuine, Inbox, Got
<1>2. Got[m].version = 3 /\ Authentic(Got[m], AgreedAad(Got[m].sequence))
  BY DEF Genuine
<1>3. Arriving[m] \in Seq(Octets)
  BY <1>1, InboxAssumption
<1> QED BY <1>1, <1>2, <1>3, ReadAsVersion3 DEF Authentic

LEMMA Sent3 ==
    ASSUME NEW s \in Sent
    PROVE  LET p    == Got[s]
               keys == Crypto(p.node_id, p.epoch, p.sequence, p.timestamp_ms)
               aad  == AadV3(p.flags, p.node_id, p.epoch, p.sequence, p.timestamp_ms,
                             AgreedAad(p.sequence))
           IN  /\ s \in DOMAIN Arriving /\ PacketToBytes(p) = Arriving[s]
               /\ p.version = 3 /\ p.flags \in {0, 1} /\ p.nonce = NonceOf(keys)
               /\ p.ciphertext = Encrypt(keys, aad, p.ciphertext[1].byte)
               /\ p.node_id \in 0 .. 255 /\ p.epoch \in 0 .. 255
               /\ p.sequence \in 0 .. 255 /\ p.timestamp_ms \in 0 .. 255
               /\ AgreedAad(p.sequence) \in Seq(PlainBytes)
<1> DEFINE p == Got[s]
<1>1. /\ s \in DOMAIN Arriving /\ Arriving[s] \in Seq(Octets)
      /\ p = PacketFromBytes(Arriving[s])
  BY InboxAssumption, HandleAssumption DEF Got
<1>2. /\ p = SealV3(p.node_id, p.epoch, p.sequence, p.timestamp_ms,
                     AgreedAad(p.sequence), p.ciphertext[1].byte)
      /\ AgreedAad(p.sequence) \in Seq(PlainBytes)
      /\ {p.node_id, p.epoch, p.sequence, p.timestamp_ms} \subseteq 0 .. 255
  BY InboxAssumption
<1> HIDE DEF p
<1>fields. /\ p.node_id \in 0 .. 255 /\ p.epoch \in 0 .. 255
      /\ p.sequence \in 0 .. 255 /\ p.timestamp_ms \in 0 .. 255
  BY <1>2, Zenon
<1>3. /\ p.version = 3 /\ p.flags \in {0, 1}
      /\ p.nonce = NonceOf(Crypto(p.node_id, p.epoch, p.sequence, p.timestamp_ms))
      /\ p.ciphertext = Encrypt(Crypto(p.node_id, p.epoch, p.sequence, p.timestamp_ms),
                           AadV3(p.flags, p.node_id, p.epoch, p.sequence, p.timestamp_ms,
                                 AgreedAad(p.sequence)), p.ciphertext[1].byte)
  BY <1>2 DEF SealV3
<1>4. /\ p = ReadV3(Arriving[s]) /\ FromBE(Slice(Arriving[s], 0, 1)) = 3
      /\ Len(Arriving[s]) >= V3_HEADER_LEN
  <2>1. /\ PacketFromBytes(Arriving[s]) = ReadV3(Arriving[s])
        /\ FromBE(Slice(Arriving[s], 0, 1)) = 3
        /\ Len(Arriving[s]) >= V3_HEADER_LEN + TAG_LEN
    BY <1>1, <1>3, ReadAsVersion3
  <2>2. Len(Arriving[s]) \in Nat
    BY <1>1
  <2> QED BY <1>1, <2>1, <2>2 DEF V3_HEADER_LEN, TAG_LEN
<1>5. /\ p.flags # Huge /\ p.node_id # Huge /\ p.epoch # Huge
      /\ p.sequence # Huge /\ p.timestamp_ms # Huge
  <2>1. p.flags # 256
    BY <1>3
  <2> QED BY <1>fields, <2>1 DEF Huge
<1>6. PacketToBytes(p) = Arriving[s]
  BY <1>1, <1>4, <1>5, WrittenAsRead
<1> QED BY <1>1, <1>2, <1>3, <1>6, <1>fields DEF p

LEMMA FlagsAndTag ==
    ASSUME NEW raw \in Seq(Octets), Len(raw) >= 58
    PROVE  ReadV3(raw).flags \in Nat /\ ReadV3(raw).ciphertext[2] \in Octets
<1> DEFINE flags == Slice(raw, 1, 2)
           rest == Slice(raw, 42, Len(raw))
<1>1. ReadV3(raw).flags = FromBE(flags) /\ ReadV3(raw).ciphertext = rest
  BY DEF ReadV3, Read, V3_HEADER_LEN
<1>2. flags \in Seq(Octets) /\ Len(flags) = 1
  <2> DEFINE b == 2
  <2>1. b \in Nat /\ 1 < b /\ b <= Len(raw) /\ b - 1 = 1
    OBVIOUS
  <2> HIDE DEF b
  <2>2. Slice(raw, 1, b) \in Seq(Octets) /\ Len(Slice(raw, 1, b)) = b - 1
    BY <2>1, SliceIsSeq
  <2> QED BY <2>1, <2>2 DEF b
<1>3. rest \in Seq(Octets) /\ Len(rest) = Len(raw) - 42
  <2> DEFINE a == 42
             b == Len(raw)
  <2>1. a \in Nat /\ b \in Nat /\ a < b /\ b <= Len(raw)
    OBVIOUS
  <2> HIDE DEF a, b
  <2>2. Slice(raw, a, b) \in Seq(Octets) /\ Len(Slice(raw, a, b)) = b - a
    BY <2>1, SliceIsSeq, Zenon
  <2> QED BY <2>2 DEF a, b
<1> HIDE DEF flags, rest
<1>4. flags[1] \in Octets /\ rest[2] \in Octets
  <2>1. flags[1] \in Octets
    BY <1>2, ElementOfSeq, SMTT(30)
  <2>2. Len(rest) >= 2
    BY <1>3
  <2>3. rest[2] \in Octets
    BY <1>3, <2>2
  <2> QED BY <2>1, <2>3
<1>5. DOMAIN flags[1] = {"byte"} => flags[1].byte \in Nat
  BY <1>4, PlainByte
<1>6. FromBE(flags) \in Nat
  BY <1>2, <1>5 DEF FromBE, Huge
<1> QED BY <1>1, <1>4, <1>6

\* What decrypts was sealed, and arrived as it was sealed.
LEMMA GenuineIsSent == \A m \in Genuine : m \in Sent
<1> SUFFICES ASSUME NEW m \in Genuine PROVE m \in Sent
  OBVIOUS
<1> DEFINE p == Got[m]
           msg == p.ciphertext[1].byte
           keys == Crypto(p.node_id, p.epoch, p.sequence, p.timestamp_ms)
           aad == AadV3(p.flags, p.node_id, p.epoch, p.sequence, p.timestamp_ms,
                        AgreedAad(p.sequence))
<1>1. /\ m \in DOMAIN Arriving /\ Arriving[m] \in Seq(Octets)
      /\ p = ReadV3(Arriving[m]) /\ FromBE(Slice(Arriving[m], 0, 1)) = 3
      /\ Len(Arriving[m]) \in Nat /\ Len(Arriving[m]) >= 58
      /\ p.nonce = NonceOf(keys) /\ p.ciphertext = Encrypt(keys, aad, msg)
  BY Genuine3 DEF V3_HEADER_LEN, TAG_LEN
<1>2. p.ciphertext[2] = [tag |-> <<keys, aad, msg>>, at |-> 1]
  <2>1. Encrypt(keys, aad, msg)[2] = [tag |-> <<keys, aad, msg>>, at |-> 1]
    BY TagTells
  <2> HIDE DEF p, keys, aad, msg
  <2> QED BY <1>1, <2>1
<1>3. p.flags \in Nat /\ p.ciphertext[2] \in Octets
  <2>1. ReadV3(Arriving[m]).flags \in Nat /\ ReadV3(Arriving[m]).ciphertext[2] \in Octets
    BY <1>1, FlagsAndTag
  <2> HIDE DEF p
  <2> QED BY <1>1, <2>1
<1> DEFINE b == p.ciphertext[2]
<1>4. "tag" \in DOMAIN b /\ b.tag = <<keys, aad, msg>> /\ "byte" \notin DOMAIN b
  BY <1>2
<1> HIDE DEF p, keys, aad, msg
<1>5. PICK s \in Sent : \E i \in DOMAIN Got[s].ciphertext : b = Got[s].ciphertext[i]
  BY <1>3, <1>4, InboxAssumption
<1> DEFINE q == Got[s]
           qkeys == Crypto(q.node_id, q.epoch, q.sequence, q.timestamp_ms)
           qaad == AadV3(q.flags, q.node_id, q.epoch, q.sequence, q.timestamp_ms,
                         AgreedAad(q.sequence))
           qmsg == q.ciphertext[1].byte
<1>6. /\ s \in DOMAIN Arriving /\ PacketToBytes(q) = Arriving[s]
      /\ q.version = 3 /\ q.flags \in {0, 1} /\ q.nonce = NonceOf(qkeys)
      /\ q.ciphertext = Encrypt(qkeys, qaad, qmsg)
      /\ AgreedAad(q.sequence) \in Seq(PlainBytes)
  BY Sent3
<1>fields. /\ q.node_id \in 0 .. 255 /\ q.epoch \in 0 .. 255
      /\ q.sequence \in 0 .. 255 /\ q.timestamp_ms \in 0 .. 255 /\ q.flags \in {0, 1}
  BY Sent3
<1>7. PICK j \in DOMAIN q.ciphertext : b = q.ciphertext[j]
  BY <1>5 DEF q
<1> HIDE DEF q, qkeys, qaad, qmsg, b
<1>8. b.tag = <<qkeys, qaad, qmsg>>
  <2>1. b # Byte(qmsg)
    BY <1>4 DEF Byte
  <2>2. j \in DOMAIN Encrypt(qkeys, qaad, qmsg) /\ b = Encrypt(qkeys, qaad, qmsg)[j]
    BY <1>6, <1>7, Zenon
  <2>3. b = Byte(qmsg) \/ b.tag = <<qkeys, qaad, qmsg>>
    BY <2>2, TagTells, Zenon
  <2> QED BY <2>1, <2>3
<1>9. keys = qkeys /\ aad = qaad /\ msg = qmsg
  BY <1>4, <1>8
<1>10. /\ p.node_id = q.node_id /\ p.epoch = q.epoch
       /\ p.sequence = q.sequence /\ p.timestamp_ms = q.timestamp_ms
  BY <1>9 DEF keys, qkeys, Crypto
<1>11. p.flags = q.flags
  <2> DEFINE user == AgreedAad(q.sequence)
             Aad(f) == AadV3(f, q.node_id, q.epoch, q.sequence, q.timestamp_ms, user)
  <2>1. /\ q.flags \in Nat /\ q.node_id \in Nat /\ q.epoch \in Nat
        /\ q.sequence \in Nat /\ q.timestamp_ms \in Nat
    BY <1>fields
  <2>2. user \in Seq(PlainBytes)
    BY <1>6
  <2>3. aad = Aad(p.flags) /\ qaad = Aad(q.flags)
    BY <1>10 DEF aad, qaad
  <2>4. \A f \in Nat : Aad(f)[2] = Byte(f)
    <3> SUFFICES ASSUME NEW f \in Nat PROVE Aad(f)[2] = Byte(f)
      OBVIOUS
    <3> DEFINE n == q.node_id
               e == q.epoch
               i == q.sequence
               t == q.timestamp_ms
    <3>1. n \in Nat /\ e \in Nat /\ i \in Nat /\ t \in Nat
      BY <2>1
    <3> HIDE DEF user, n, e, i, t
    <3>2. AadV3(f, n, e, i, t, user)[2] = Byte(f)
      BY <2>2, <3>1, AadTellsFlags
    <3> QED BY <3>2 DEF n, e, i, t
  <2> HIDE DEF Aad
  <2>5. Byte(p.flags) = Byte(q.flags)
    BY <1>3, <1>9, <2>1, <2>3, <2>4
  <2> QED BY <2>5 DEF Byte
<1>12. p.nonce = q.nonce /\ p.ciphertext = q.ciphertext /\ p.version = 3
  <2>1. p.version = 3
    BY <1>1 DEF ReadV3, Read
  <2> QED BY <1>1, <1>6, <1>9, <2>1
<1>13. PacketToBytes(p) = Arriving[m]
  <2>1. /\ p.flags # Huge /\ p.node_id # Huge /\ p.epoch # Huge
        /\ p.sequence # Huge /\ p.timestamp_ms # Huge
    BY <1>10, <1>11, <1>fields DEF Huge
  <2> QED BY <1>1, <2>1, WrittenAsRead DEF V3_HEADER_LEN
<1>14. PacketToBytes(p) = PacketToBytes(q)
  BY <1>6, <1>10, <1>11, <1>12, Version3Bytes
<1>15. Arriving[s] = Arriving[m]
  BY <1>6, <1>13, <1>14
<1> QED BY <1>1, <1>6, <1>15, OneName

-----------------------------------------------------------------------------
USE HandleAssumption, WireAssumption, GenAssumption

\* restore_checkpoint saturates the epoch, which then no longer tells two
\* handles apart: each start takes an epoch of its own only below u64::MAX.
EnoughEpochs == BootEpoch + MaxStops <= EpochMax

-----------------------------------------------------------------------------
(* The inductive invariant.  A start goes on from one of the payloads that *)
(* the file may come to be recovered from: each of them must know what the *)
(* completed saves cover and be no older than the epochs already used.     *)

SeqsOf(packets, k) == {Got[m].sequence : m \in {p \in packets : KeyOf(p) = k}}

\* A node's state, in the handle or in a slot: of no epoch after e, and its
\* windows hold exactly the packets that it recorded.
NodeFits(n, e) ==
    /\ n \in Node
    /\ n.epoch <= e
    /\ IsFiniteSet(DOMAIN n.peers)
    /\ \A m \in n.known : m \in Genuine /\ KeyOf(m) \in DOMAIN n.peers
    /\ \A k \in DOMAIN n.peers : Exact(n.peers[k], SeqsOf(n.known, k))

\* Slots as commits and cuts leave them.
ContainerFits(c, e) ==
    /\ c \in Container(Node)
    /\ c.slot_a # NoBytes <=> c.generation_a > 0
    /\ c.slot_a # NoBytes =>
          c.slot_a.gen = c.generation_a /\ NodeFits(c.slot_a.payload, e)
    /\ c.slot_b # NoBytes =>
          /\ c.generation_b > 0 /\ c.slot_b.gen = c.generation_b
          /\ NodeFits(c.slot_b.payload, e)

Covers(n) ==
    /\ safe \subseteq n.known
    /\ \A i \in issued : i[1] <= n.epoch

\* The epochs of saved payloads; a handle that imports one takes the next.
LastEpoch == IF phase \in Live THEN BootEpoch + stops ELSE BootEpoch + stops - 1

HandleFits ==
    /\ NodeFits(node, BootEpoch + stops)
    /\ phase \notin Live => node = NewNode /\ dual_slot = NewContainer /\ blob = NoBlob
    /\ phase \in Live => Covers(node)
    /\ phase = "unsaved" => \A i \in issued : i[1] < node.epoch
    /\ phase = "serving" => \A i \in issued : i[1] = node.epoch => i[2] < node.tx_seq

FileFits ==
    /\ file = NoFile => issued = {} /\ safe = {}
    /\ file \notin {NoFile, Unreadable} =>
          /\ ContainerFits(file, LastEpoch)
          /\ LatestValid(file) # NoBytes => Covers(LatestValid(file).payload)
    /\ phase = "serving" =>
          /\ file \notin {NoFile, Unreadable}
          /\ LatestValid(file) # NoBytes => LatestValid(file).payload.epoch >= node.epoch

\* Slot A alone survives a cut, so it must do whenever slot B is written next.
SlotAServes(c) ==
    /\ c.slot_a # NoBytes
    /\ Covers(c.slot_a.payload)
    /\ phase = "serving" => c.slot_a.payload.epoch >= node.epoch

SlotsFit ==
    /\ ContainerFits(dual_slot, LastEpoch)
    /\ NewerIsA(dual_slot) => SlotAServes(dual_slot)
    /\ blob # NoBlob =>
          /\ phase \in Live
          /\ blob = dual_slot
          /\ SlotAServes(blob)
          /\ LatestValid(blob) # NoBytes
          /\ Covers(LatestValid(blob).payload)
          /\ LatestValid(blob).payload.epoch = node.epoch
          /\ LatestValid(blob).payload.known \subseteq node.known

Identities == Epochs \X Seqs
ChainFrame == [prev : Seq(Identities), packet : Identities, torn : BOOLEAN]

JournalFits ==
    /\ journal \in Seq(ChainFrame)
    /\ \A i \in 1 .. Len(journal) : Chained(journal, i)
    /\ phase # "spent" => wal = PacketsOf(journal)

CountsFit == IsFiniteSet(issued) /\ Cardinality(issued) = seals

IInv == TypeOK /\ HandleFits /\ FileFits /\ SlotsFit /\ JournalFits /\ CountsFit

-----------------------------------------------------------------------------
(* Nodes and their windows.                                                *)

LEMMA NodeFields ==
    ASSUME NEW n \in Node
    PROVE  /\ n.epoch \in Epochs /\ n.tx_seq \in Seqs /\ n.known \subseteq Inbox
           /\ n.peers \in Peers /\ n.epoch \in Nat
<1> QED BY DEF Node, Epochs

LEMMA PeersAre ==
    ASSUME NEW ps
    PROVE  ps \in Peers <=> DOMAIN ps \subseteq Keys /\ ps \in [DOMAIN ps -> WindowState(Seqs)]
<1> QED BY DEF Peers

LEMMA NodeLater ==
    ASSUME NEW n, NEW e \in Int, NEW f \in Int, NodeFits(n, e), e <= f
    PROVE  NodeFits(n, f)
<1> QED BY NodeFields DEF NodeFits

LEMMA NewNodeFits ==
    /\ NodeFits(NewNode, BootEpoch) /\ NewNode \in Node
    /\ NewNode.epoch = BootEpoch /\ NewNode.known = {}
<1>1. NewNode = [epoch |-> BootEpoch, tx_seq |-> 0, peers |-> <<>>, known |-> {}]
  BY DEF NewNode
<1>2. <<>> \in Peers /\ DOMAIN <<>> = {}
  <2>1. DOMAIN <<>> = {}
    OBVIOUS
  <2>2. <<>> \in [{} -> WindowState(Seqs)]
    OBVIOUS
  <2> QED BY <2>1, <2>2, PeersAre
<1>3. NewNode \in Node
  BY <1>1, <1>2 DEF Node, Epochs, Seqs
<1> QED BY <1>1, <1>2, <1>3, FS_EmptySet DEF NodeFits

\* What a node recorded, its windows refuse for good.
LEMMA KnownIsRefused ==
    ASSUME NEW n, NEW e, NodeFits(n, e), NEW m \in n.known
    PROVE  ~InWindow(n, m)
<1> DEFINE k == KeyOf(m)
<1>1. /\ n \in Node /\ m \in Genuine /\ k \in DOMAIN n.peers
      /\ Exact(n.peers[k], SeqsOf(n.known, k))
  BY DEF NodeFits
<1>2. n.peers[k] \in WindowState(0 .. SeqMax)
  BY <1>1, NodeFields, PeersAre DEF Seqs
<1>3. SeqsOf(n.known, k) \in SUBSET (0 .. SeqMax)
  BY DEF SeqsOf, NodeFits, Seqs
<1>4. Got[m].sequence \in SeqsOf(n.known, k) /\ Got[m].sequence \in 0 .. SeqMax
  BY <1>3 DEF SeqsOf
<1> HIDE DEF k
<1>5. SeqMax \in Nat
  OBVIOUS
<1>6. Check(n.peers[k], Got[m].sequence) # "Ok"
  BY <1>1, <1>2, <1>3, <1>4, <1>5, CheckCorrect
<1> QED BY <1>1, <1>6 DEF InWindow, k

LEMMA FreshIsExact ==
    Fresh \in WindowState(Seqs) /\ Exact(Fresh, {}) /\ \A s \in Seqs : Check(Fresh, s) = "Ok"
<1> QED BY DEF Fresh, WindowState, Exact, Check, NoneSeen, Seqs

\* record, in the window of the packet's peer alone.
LEMMA RecordedFits ==
    ASSUME NEW n, NEW e, NodeFits(n, e), NEW m \in Inbox, AcceptsNow(n, m)
    PROVE  /\ NodeFits(Recorded(n, m), e)
           /\ Recorded(n, m).epoch = n.epoch /\ Recorded(n, m).tx_seq = n.tx_seq
           /\ Recorded(n, m).known = n.known \cup {m}
<1> DEFINE k == KeyOf(m)
           s == Got[m].sequence
           w == Record(WindowOf(n, m), s)
           r == Recorded(n, m)
           ps == [j \in {k} \cup DOMAIN n.peers |-> IF j = k THEN w ELSE n.peers[j]]
<1>1. m \in Genuine /\ InWindow(n, m) /\ s \in 0 .. SeqMax /\ k \in Keys
  BY DEF AcceptsNow, Seqs, Keys
<1>2. /\ n \in Node /\ IsFiniteSet(DOMAIN n.peers) /\ n.epoch <= e
      /\ \A p \in n.known : p \in Genuine /\ KeyOf(p) \in DOMAIN n.peers
      /\ \A j \in DOMAIN n.peers : Exact(n.peers[j], SeqsOf(n.known, j))
  BY DEF NodeFits
<1>3. DOMAIN n.peers \subseteq Keys /\ n.peers \in [DOMAIN n.peers -> WindowState(Seqs)]
  BY <1>2, NodeFields, PeersAre
<1>4. /\ WindowOf(n, m) \in WindowState(0 .. SeqMax)
      /\ Check(WindowOf(n, m), s) = "Ok"
      /\ Exact(WindowOf(n, m), SeqsOf(n.known, k))
      /\ SeqsOf(n.known, k) \in SUBSET (0 .. SeqMax)
  <2>1. SeqsOf(n.known, k) \in SUBSET (0 .. SeqMax)
    BY <1>2 DEF SeqsOf, Seqs
  <2>2. CASE k \in DOMAIN n.peers
    BY <1>1, <1>2, <1>3, <2>1, <2>2 DEF WindowOf, InWindow, Seqs
  <2>3. CASE k \notin DOMAIN n.peers
    <3>1. SeqsOf(n.known, k) = {}
      BY <1>2, <2>3 DEF SeqsOf
    <3>2. WindowOf(n, m) = Fresh
      BY <2>3 DEF WindowOf
    <3> QED BY <1>1, <2>1, <3>1, <3>2, FreshIsExact DEF Seqs
  <2> QED BY <2>2, <2>3
<1>5. w \in WindowState(Seqs) /\ Exact(w, SeqsOf(n.known, k) \cup {s})
  <2>1. SeqMax \in Nat
    OBVIOUS
  <2> QED BY <1>1, <1>4, <2>1, RecordState, RecordExact DEF Seqs
<1>6. Inserted(n.peers, k, w) = ps
  BY DEF Inserted
<1>7. r = [n EXCEPT !.peers = ps, !.known = n.known \cup {m}]
  BY <1>6 DEF Recorded
<1> HIDE DEF w, r, s
<1>8. ps \in Peers
  <2>1. DOMAIN ps = {k} \cup DOMAIN n.peers
    OBVIOUS
  <2>2. ps \in [DOMAIN ps -> WindowState(Seqs)]
    BY <1>3, <1>5
  <2> HIDE DEF ps
  <2> QED BY <1>1, <1>3, <2>1, <2>2, PeersAre
<1>9. /\ r \in Node /\ r.peers = ps /\ r.known = n.known \cup {m}
      /\ r.epoch = n.epoch /\ r.tx_seq = n.tx_seq
  <2> HIDE DEF ps
  <2> QED BY <1>2, <1>7, <1>8 DEF Node
<1>10. IsFiniteSet(DOMAIN ps)
  BY <1>2, FS_AddElement
<1>11. \A p \in r.known : p \in Genuine /\ KeyOf(p) \in DOMAIN ps
  BY <1>1, <1>2, <1>9
<1>12. ASSUME NEW j \in DOMAIN ps
       PROVE  Exact(ps[j], SeqsOf(r.known, j))
  <2>1. CASE j = k
    <3>1. SeqsOf(r.known, k) = SeqsOf(n.known, k) \cup {s}
      BY <1>9 DEF SeqsOf, s
    <3> QED BY <1>5, <2>1, <3>1
  <2>2. CASE j # k
    <3>1. SeqsOf(r.known, j) = SeqsOf(n.known, j)
      BY <1>9, <2>2 DEF SeqsOf
    <3> QED BY <1>2, <2>2, <3>1
  <2> QED BY <2>1, <2>2
<1>13. NodeFits(r, e)
  <2> HIDE DEF ps
  <2> QED BY <1>2, <1>9, <1>10, <1>11, <1>12 DEF NodeFits
<1> QED BY <1>9, <1>13 DEF r

-----------------------------------------------------------------------------
(* Containers.                                                             *)

LEMMA SealedIsNotEmpty == \A s \in [gen : Gens, payload : Node] : s # NoBytes
<1> QED BY ONLY DEF NoBytes

LEMMA Readable ==
    /\ \A c \in Container(Node) : c # Unreadable /\ c # NoFile /\ c # NoBlob
    /\ NoFile # Unreadable
<1>1. \A c \in Container(Node) : DOMAIN c = {"generation_a", "slot_a", "generation_b", "slot_b"}
  BY ONLY DEF Container
<1>2. DOMAIN NoFile = {"exists"} /\ DOMAIN Unreadable = {} /\ DOMAIN NoBlob = {}
  BY ONLY DEF NoFile, Unreadable, NoBlob
<1> QED BY ONLY <1>1, <1>2

LEMMA ContainerLater ==
    ASSUME NEW c, NEW e \in Int, NEW f \in Int, ContainerFits(c, e), e <= f
    PROVE  ContainerFits(c, f)
<1> QED BY NodeLater DEF ContainerFits

LEMMA NewContainerFits ==
    ASSUME NEW e
    PROVE  ContainerFits(NewContainer, e) /\ ~NewerIsA(NewContainer)
<1>1. NewContainer \in Container(Node)
  BY DEF NewContainer, Container, Slot, Gens
<1> QED BY <1>1 DEF NewContainer, ContainerFits, NewerIsA

LEMMA LatestFits ==
    ASSUME NEW c, NEW e, ContainerFits(c, e)
    PROVE  /\ LatestValid(c) # NoBytes => NodeFits(LatestValid(c).payload, e)
           /\ NewerIsA(c) => LatestValid(c) = c.slot_a /\ c.slot_a # NoBytes
<1> QED BY DEF ContainerFits, LatestValid, ValidIn, NewerIsA, Container, Gens

LEMMA CutKeepsA ==
    ASSUME NEW c \in Container(Node), NEW cut \in {"headB", "slotB"}
    PROVE  /\ FromBytes(c, cut) \in Container(Node)
           /\ FromBytes(c, cut).slot_a = c.slot_a
           /\ FromBytes(c, cut).generation_a = c.generation_a
           /\ FromBytes(c, cut).slot_b = NoBytes
<1> 0 \in Gens /\ NoBytes \in Slot(Node)
  BY DEF Gens, Slot
<1>1. CASE cut = "headB"
  <2>1. FromBytes(c, cut) = [c EXCEPT !.generation_b = 0, !.slot_b = NoBytes]
    BY <1>1 DEF FromBytes
  <2> QED BY <2>1 DEF Container
<1>2. CASE cut = "slotB"
  <2>1. FromBytes(c, cut) = [c EXCEPT !.slot_b = NoBytes]
    BY <1>2 DEF FromBytes
  <2> QED BY <2>1 DEF Container
<1> QED BY <1>1, <1>2

LEMMA CutFits ==
    ASSUME NEW c, NEW e, ContainerFits(c, e), NEW cut \in {"headB", "slotB"},
           c.slot_a # NoBytes
    PROVE  /\ ContainerFits(FromBytes(c, cut), e)
           /\ LatestValid(FromBytes(c, cut)) = c.slot_a
<1> QED BY CutKeepsA DEF ContainerFits, LatestValid, ValidIn

\* commit_state: what is committed is recovered, from slot A unless slot A
\* holds the commit before it.
LEMMA CommittedFits ==
    ASSUME NEW c, NEW n, NEW e, ContainerFits(c, e), NodeFits(n, e), GenFits(NextGen(c))
    PROVE  LET d == Committed(c, n) IN
           /\ ContainerFits(d, e)
           /\ LatestValid(d) # NoBytes /\ LatestValid(d).payload = n
           /\ d.slot_a # NoBytes
           /\ \/ d.slot_a.payload = n
              \/ NewerIsA(c) /\ ~NewerIsA(d) /\ d.slot_a = c.slot_a
<1> DEFINE g      == NextGen(c)
           sealed == [gen |-> g, payload |-> n]
           d      == Committed(c, n)
<1>1. /\ c \in Container(Node) /\ c.generation_a \in Nat /\ c.generation_b \in Nat
      /\ g \in Gens /\ g > c.generation_a /\ g > c.generation_b /\ g > 0
  BY DEF NextGen, GenFits, ContainerFits, Container, Gens
<1>2. /\ sealed \in Slot(Node) /\ sealed # NoBytes
      /\ sealed.gen = g /\ sealed.payload = n
  BY <1>1, SealedIsNotEmpty DEF Slot, NodeFits
<1>3. CASE OlderIsA(c)
  <2>1. d = [c EXCEPT !.slot_a = sealed, !.generation_a = g]
    BY <1>3 DEF Committed
  <2> HIDE DEF d, sealed, g
  <2>2. /\ d \in Container(Node) /\ d.slot_a = sealed /\ d.generation_a = g
        /\ d.slot_b = c.slot_b /\ d.generation_b = c.generation_b
    BY <1>1, <1>2, <2>1 DEF Container
  <2>3. ContainerFits(d, e)
    BY <1>1, <1>2, <2>2 DEF ContainerFits
  <2>4. LatestValid(d) = sealed
    BY <1>1, <1>2, <2>2 DEF LatestValid, ValidIn, Gens
  <2> QED BY <1>2, <2>2, <2>3, <2>4 DEF d
<1>4. CASE ~OlderIsA(c)
  <2>1. d = [c EXCEPT !.slot_b = sealed, !.generation_b = g]
    BY <1>4 DEF Committed
  <2> HIDE DEF d, sealed, g
  <2>2. /\ d \in Container(Node) /\ d.slot_b = sealed /\ d.generation_b = g
        /\ d.slot_a = c.slot_a /\ d.generation_a = c.generation_a
    BY <1>1, <1>2, <2>1 DEF Container
  <2>3. ContainerFits(d, e)
    BY <1>1, <1>2, <2>2 DEF ContainerFits
  <2>4. LatestValid(d) = sealed
    BY <1>1, <1>2, <2>2 DEF LatestValid, ValidIn, Gens
  <2>5. NewerIsA(c) /\ ~NewerIsA(d) /\ c.slot_a # NoBytes
    BY <1>1, <1>4, <2>2 DEF OlderIsA, NewerIsA, ContainerFits, Gens
  <2> QED BY <1>2, <2>2, <2>3, <2>4, <2>5 DEF d
<1> QED BY <1>3, <1>4

-----------------------------------------------------------------------------
(* The journal's frames, by their numbers.                                 *)

FirstPackets(frames, k) == [i \in 1 .. k |-> frames[i].packet]

LEMMA PacketsOfFirst ==
    ASSUME NEW fs \in Seq(ChainFrame), NEW k \in 0 .. Len(fs)
    PROVE  /\ PacketsOf(SubSeq(fs, 1, k)) = FirstPackets(fs, k)
           /\ PacketsOf(fs) = FirstPackets(fs, Len(fs))
           /\ FirstPackets(fs, k) \in Seq(Identities)
           /\ Len(FirstPackets(fs, k)) = k
<1>1. SubSeq(fs, 1, k) \in Seq(ChainFrame) /\ Len(SubSeq(fs, 1, k)) = k
  OBVIOUS
<1>2. \A i \in 1 .. k : SubSeq(fs, 1, k)[i] = fs[i] /\ fs[i].packet \in Identities
  <2>1. \A i \in 1 .. k : SubSeq(fs, 1, k)[i] = fs[i] /\ fs[i] \in ChainFrame
    OBVIOUS
  <2> QED BY <2>1 DEF ChainFrame
<1>3. PacketsOf(SubSeq(fs, 1, k)) = FirstPackets(fs, k)
  <2>1. PacketsOf(SubSeq(fs, 1, k)) = [i \in 1 .. k |-> SubSeq(fs, 1, k)[i].packet]
    BY <1>1 DEF PacketsOf
  <2> QED BY <1>2, <2>1 DEF FirstPackets
<1>4. PacketsOf(fs) = FirstPackets(fs, Len(fs))
  BY DEF PacketsOf, FirstPackets
<1>5. FirstPackets(fs, k) \in Seq(Identities) /\ Len(FirstPackets(fs, k)) = k
  <2>1. FirstPackets(fs, k) \in [1 .. k -> Identities]
    BY <1>2 DEF FirstPackets
  <2>2. k \in Nat
    OBVIOUS
  <2> QED BY <2>1, <2>2
<1> QED BY <1>3, <1>4, <1>5

LEMMA ChainIsIntact ==
    ASSUME NEW fs \in Seq(ChainFrame), \A i \in 1 .. Len(fs) : Chained(fs, i)
    PROVE  Intact(fs) = Len(fs)
<1> DEFINE P(n) == /\ \A i \in 1 .. n : Chained(fs, i)
                   /\ n < Len(fs) => ~Chained(fs, n + 1)
<1>1. P(Len(fs)) /\ Len(fs) \in 0 .. Len(fs)
  OBVIOUS
<1>2. \A n \in 0 .. Len(fs) : P(n) => n = Len(fs)
  OBVIOUS
<1>3. Intact(fs) = CHOOSE n \in 0 .. Len(fs) : P(n)
  BY DEF Intact
<1> HIDE DEF P
<1> QED BY <1>1, <1>2, <1>3

LEMMA ChainGrows ==
    ASSUME NEW fs \in Seq(ChainFrame), \A i \in 1 .. Len(fs) : Chained(fs, i),
           NEW f \in ChainFrame, f.prev = PacketsOf(fs), ~f.torn
    PROVE  /\ Append(fs, f) \in Seq(ChainFrame)
           /\ \A i \in 1 .. Len(Append(fs, f)) : Chained(Append(fs, f), i)
           /\ PacketsOf(Append(fs, f)) = Append(PacketsOf(fs), f.packet)
<1> DEFINE gs == Append(fs, f)
<1>1. /\ gs \in Seq(ChainFrame) /\ Len(gs) = Len(fs) + 1 /\ Len(fs) \in Nat
      /\ (\A i \in 1 .. Len(fs) : gs[i] = fs[i]) /\ gs[Len(fs) + 1] = f
  OBVIOUS
<1> HIDE DEF gs
<1>2. \A k \in 0 .. Len(fs) : FirstPackets(gs, k) = FirstPackets(fs, k)
  BY <1>1 DEF FirstPackets
<1>3. \A k \in 0 .. Len(fs) : PacketsOf(SubSeq(gs, 1, k)) = FirstPackets(gs, k)
  <2> SUFFICES ASSUME NEW k \in 0 .. Len(fs)
               PROVE  PacketsOf(SubSeq(gs, 1, k)) = FirstPackets(gs, k)
    OBVIOUS
  <2>1. k \in 0 .. Len(gs)
    BY <1>1
  <2> QED BY <1>1, <2>1, PacketsOfFirst
<1>4. ASSUME NEW i \in 1 .. Len(gs) PROVE Chained(gs, i)
  <2>1. CASE i \in 1 .. Len(fs)
    <3>1. i - 1 \in 0 .. Len(fs)
      BY <2>1
    <3>2. PacketsOf(SubSeq(gs, 1, i - 1)) = PacketsOf(SubSeq(fs, 1, i - 1))
      BY <1>2, <1>3, <3>1, PacketsOfFirst
    <3> QED BY <1>1, <2>1, <3>2 DEF Chained
  <2>2. CASE i = Len(fs) + 1
    <3>1. Len(fs) \in 0 .. Len(fs) /\ i - 1 = Len(fs)
      BY <1>1, <2>2
    <3>2. PacketsOf(SubSeq(gs, 1, i - 1)) = f.prev
      BY <1>2, <1>3, <3>1, PacketsOfFirst
    <3> QED BY <1>1, <2>2, <3>2 DEF Chained
  <2> QED BY <1>1, <2>1, <2>2
<1>5. PacketsOf(gs) = Append(PacketsOf(fs), f.packet)
  <2>1. Len(fs) \in 0 .. Len(fs) /\ Len(gs) \in 0 .. Len(gs)
    BY <1>1
  <2>2. /\ PacketsOf(gs) = FirstPackets(gs, Len(fs) + 1)
        /\ PacketsOf(fs) = FirstPackets(fs, Len(fs))
        /\ FirstPackets(gs, Len(fs) + 1) \in Seq(Identities)
        /\ Len(FirstPackets(gs, Len(fs) + 1)) = Len(fs) + 1
        /\ FirstPackets(fs, Len(fs)) \in Seq(Identities)
        /\ Len(FirstPackets(fs, Len(fs))) = Len(fs)
    BY <1>1, <2>1, PacketsOfFirst
  <2>3. \A i \in 1 .. Len(fs) + 1 :
           FirstPackets(gs, Len(fs) + 1)[i] = Append(FirstPackets(fs, Len(fs)), f.packet)[i]
    BY <1>1, <2>2 DEF FirstPackets
  <2>4. /\ Append(FirstPackets(fs, Len(fs)), f.packet) \in Seq(Identities)
        /\ Len(Append(FirstPackets(fs, Len(fs)), f.packet)) = Len(fs) + 1
    BY <2>2 DEF ChainFrame
  <2> QED BY <2>2, <2>3, <2>4, SeqEqual
<1> QED BY <1>1, <1>4, <1>5 DEF gs

-----------------------------------------------------------------------------
(* Starts and stops.                                                       *)

LEMMA Facts ==
    ASSUME IInv
    PROVE  /\ node \in Node /\ dual_slot \in Container(Node) /\ stops \in Nat
           /\ LastEpoch \in Int /\ LastEpoch <= BootEpoch + stops
           /\ seals \in Nat /\ wal \in Seq(Identities) /\ journal \in Seq(ChainFrame)
           /\ issued \subseteq Identities /\ safe \subseteq Inbox
           /\ node.epoch \in Nat /\ node.tx_seq \in Seqs
           /\ \A i \in issued : i[1] \in Nat /\ i[2] \in Nat
<1>1. /\ node \in Node /\ dual_slot \in Container(Node) /\ stops \in Nat
      /\ seals \in Nat /\ wal \in Seq(Identities) /\ issued \subseteq Identities
      /\ safe \subseteq Inbox
  BY DEF IInv, TypeOK, Identities
<1>2. LastEpoch \in Int /\ LastEpoch <= BootEpoch + stops
  BY <1>1 DEF LastEpoch
<1>3. \A i \in issued : i[1] \in Nat /\ i[2] \in Nat
  BY <1>1 DEF Identities, Epochs, Seqs
<1> QED BY <1>1, <1>2, <1>3, NodeFields DEF IInv, JournalFits

LEMMA EmptyJournal ==
    ASSUME journal' = <<>>, wal' = NewHead
    PROVE  JournalFits' /\ wal' \in Seq(Identities)
<1>1. <<>> \in Seq(ChainFrame) /\ Len(<<>>) = 0 /\ <<>> \in Seq(Identities)
  OBVIOUS
<1>2. PacketsOf(<<>>) = <<>>
  BY DEF PacketsOf
<1> QED BY <1>1, <1>2 DEF JournalFits, NewHead

LEMMA InitIInv == Init => IInv
<1> SUFFICES ASSUME Init PROVE IInv
  OBVIOUS
<1>1. /\ node = NewNode /\ dual_slot = NewContainer /\ wal = <<>> /\ cap = FirstCap
      /\ blob = NoBlob /\ journal = <<>> /\ phase = "down" /\ file = NoFile
      /\ read = {} /\ issued = {} /\ safe = {} /\ seals = 0 /\ saves = 0 /\ stops = 0
  BY DEF Init, NewHead
<1>2. /\ NodeFits(NewNode, BootEpoch) /\ NewNode \in Node
      /\ ContainerFits(NewContainer, LastEpoch) /\ ~NewerIsA(NewContainer)
      /\ NewContainer \in Container(Node)
  BY NewNodeFits, NewContainerFits DEF ContainerFits
<1>3. TypeOK
  BY <1>1, <1>2 DEF TypeOK
<1>4. HandleFits
  BY <1>1, <1>2 DEF HandleFits, Live
<1>5. FileFits
  BY <1>1 DEF FileFits
<1>6. SlotsFit
  BY <1>1, <1>2 DEF SlotsFit
<1>7. JournalFits
  <2>1. <<>> \in Seq(ChainFrame) /\ Len(<<>>) = 0 /\ PacketsOf(<<>>) = <<>>
    BY DEF PacketsOf
  <2> QED BY <1>1, <2>1 DEF JournalFits
<1>8. CountsFit
  BY <1>1, FS_EmptySet DEF CountsFit
<1> QED BY <1>3, <1>4, <1>5, <1>6, <1>7, <1>8 DEF IInv

\* A handle that was created, or is gone, holds nothing yet.
LEMMA EmptiedFits ==
    ASSUME IInv, Emptied, phase' \in {"down", "new"}, stops' \in 0 .. MaxStops,
           stops <= stops', UNCHANGED <<issued, safe, seals, saves>>, read' = read,
           file' \in {NoFile, Unreadable} \cup Container(Node), FileFits'
    PROVE  IInv'
<1>1. /\ node' = NewNode /\ dual_slot' = NewContainer /\ wal' = NewHead
      /\ cap' = FirstCap /\ blob' = NoBlob /\ journal' = <<>>
  BY DEF Emptied
<1>2. phase' \notin Live /\ phase' # "unsaved" /\ phase' # "serving"
  BY DEF Live
<1>3. /\ NodeFits(NewNode, BootEpoch) /\ NewNode \in Node
      /\ ContainerFits(NewContainer, LastEpoch') /\ ~NewerIsA(NewContainer)
      /\ NewContainer \in Container(Node)
  BY NewNodeFits, NewContainerFits DEF ContainerFits
<1>4. TypeOK'
  <2>1. wal' \in Seq(Epochs \X Seqs) /\ cap' \in Nat
    BY <1>1, EmptyJournal DEF Identities
  <2> QED BY <1>1, <1>3, <2>1 DEF IInv, TypeOK
<1>5. HandleFits'
  <2>1. NodeFits(NewNode, BootEpoch + stops')
    BY <1>3, NodeLater
  <2> QED BY <1>1, <1>2, <2>1 DEF HandleFits
<1>6. SlotsFit'
  BY <1>1, <1>3 DEF SlotsFit
<1>7. JournalFits'
  BY <1>1, EmptyJournal
<1>8. CountsFit'
  BY DEF IInv, CountsFit
<1> QED BY <1>4, <1>5, <1>6, <1>7, <1>8 DEF IInv

\* The file is there for a later handle.
LEMMA FileLater ==
    ASSUME IInv, phase' \in {"down", "new"}, stops' \in Nat, LastEpoch <= LastEpoch',
           UNCHANGED <<file, issued, safe>>
    PROVE  FileFits'
<1>1. LastEpoch' \in Int
  BY DEF LastEpoch
<1>2. file \notin {NoFile, Unreadable} => ContainerFits(file, LastEpoch')
  BY <1>1, Facts, ContainerLater DEF IInv, FileFits
<1> QED BY <1>2 DEF IInv, FileFits, Covers

LEMMA NewKeepsIInv == ASSUME IInv, New PROVE IInv'
<1>1. /\ phase = "down" /\ phase' = "new" /\ Emptied
      /\ UNCHANGED <<file, read, issued, safe, seals, saves, stops>>
  BY DEF New, counts
<1>2. LastEpoch' = LastEpoch /\ stops \in 0 .. MaxStops
  BY <1>1 DEF LastEpoch, Live, IInv, TypeOK
<1>3. FileFits'
  BY <1>1, <1>2, Facts, FileLater
<1>4. file' \in {NoFile, Unreadable} \cup Container(Node)
  BY <1>1 DEF IInv, TypeOK
<1> QED BY <1>1, <1>2, <1>3, <1>4, Facts, EmptiedFits

LEMMA FreeKeepsIInv == ASSUME IInv, Free PROVE IInv'
<1>1. /\ stops < MaxStops /\ stops' = stops + 1 /\ phase' = "down" /\ Emptied
      /\ UNCHANGED <<file, read, issued, safe, seals, saves>>
  BY DEF Free
<1>2. LastEpoch <= LastEpoch' /\ stops' \in 0 .. MaxStops /\ stops <= stops'
  BY <1>1, Facts, SMTT(30) DEF LastEpoch, Live
<1>3. FileFits'
  BY <1>1, <1>2, FileLater
<1>4. file' \in {NoFile, Unreadable} \cup Container(Node)
  BY <1>1 DEF IInv, TypeOK
<1> QED BY <1>1, <1>2, <1>3, <1>4, EmptiedFits

\* A cut within slot A leaves nothing to start from; any other leaves slot A.
LEMMA CutInWriteKeepsIInv ==
    ASSUME IInv, NEW cut \in Cuts, CutInWrite(cut)
    PROVE  IInv'
<1>1. /\ stops < MaxStops /\ stops' = stops + 1 /\ phase' = "down" /\ Emptied
      /\ blob # NoBlob /\ file' = FromBytes(blob, cut)
      /\ UNCHANGED <<read, issued, safe, seals, saves>>
  BY DEF CutInWrite
<1>2. /\ blob = dual_slot /\ ContainerFits(dual_slot, LastEpoch)
      /\ blob.slot_a # NoBytes /\ Covers(blob.slot_a.payload) /\ phase \in Live
  BY <1>1 DEF IInv, SlotsFit, SlotAServes
<1>3. LastEpoch' = LastEpoch /\ stops' \in 0 .. MaxStops /\ stops <= stops'
  BY <1>1, <1>2, Facts, SMTT(30) DEF LastEpoch, Live
<1>4. CASE cut = "slotA"
  <2>1. file' = Unreadable
    BY <1>1, <1>4 DEF FromBytes
  <2>2. FileFits'
    BY <1>1, <2>1, Readable DEF FileFits
  <2> QED BY <1>1, <1>3, <2>1, <2>2, EmptiedFits
<1>5. CASE cut \in {"headB", "slotB"}
  <2>1. ContainerFits(file', LastEpoch') /\ LatestValid(file') = blob.slot_a
    BY <1>1, <1>2, <1>3, <1>5, CutFits
  <2>2. file' \in Container(Node)
    BY <2>1 DEF ContainerFits
  <2>3. FileFits'
    BY <1>1, <1>2, <2>1, <2>2, Readable DEF FileFits, Covers
  <2> QED BY <1>1, <1>3, <2>2, <2>3, EmptiedFits
<1> QED BY <1>4, <1>5

-----------------------------------------------------------------------------
(* Imports and saves.                                                      *)

\* A handle goes on under an epoch that no saved payload has.
LEMMA RestoredFits ==
    ASSUME EnoughEpochs, stops \in 0 .. MaxStops, NEW n, n.epoch = BootEpoch,
           NEW p, NodeFits(p, BootEpoch + stops - 1)
    PROVE  /\ NodeFits(Restored(n, p), BootEpoch + stops)
           /\ Restored(n, p).epoch > p.epoch /\ Restored(n, p).known = p.known
<1> DEFINE r == Restored(n, p)
           e == IF n.epoch > Later(p.epoch) THEN n.epoch ELSE Later(p.epoch)
<1>1. /\ p \in Node /\ p.epoch \in Nat /\ p.epoch <= BootEpoch + stops - 1
      /\ IsFiniteSet(DOMAIN p.peers)
      /\ \A m \in p.known : m \in Genuine /\ KeyOf(m) \in DOMAIN p.peers
      /\ \A k \in DOMAIN p.peers : Exact(p.peers[k], SeqsOf(p.known, k))
  BY NodeFields DEF NodeFits
<1>2. Later(p.epoch) = p.epoch + 1 /\ BootEpoch + stops <= EpochMax
  BY <1>1 DEF Later, EnoughEpochs
<1>3. e \in Epochs /\ e > p.epoch /\ e <= BootEpoch + stops
  BY <1>1, <1>2 DEF Epochs
<1>4. r = [p EXCEPT !.epoch = e]
  BY DEF Restored
<1> HIDE DEF e, r
<1>5. /\ r \in Node /\ r.epoch = e /\ r.peers = p.peers /\ r.known = p.known
  BY <1>1, <1>3, <1>4 DEF Node
<1>6. NodeFits(r, BootEpoch + stops)
  BY <1>1, <1>3, <1>5 DEF NodeFits
<1> QED BY <1>3, <1>5, <1>6 DEF r

LEMMA ImportKeepsIInv == ASSUME EnoughEpochs, IInv, Import PROVE IInv'
<1> DEFINE p == LatestValid(file).payload
<1>1. /\ phase = "new" /\ phase' = "unsaved" /\ file \notin {NoFile, Unreadable}
      /\ LatestValid(file) # NoBytes
      /\ node' = Restored(node, p) /\ dual_slot' = file
      /\ UNCHANGED <<wal, cap, blob, journal, file, read, issued, safe, seals, saves, stops>>
  BY DEF Import, counts
<1>2. /\ node = NewNode /\ blob = NoBlob /\ LastEpoch = BootEpoch + stops - 1
      /\ LastEpoch' = BootEpoch + stops /\ stops \in 0 .. MaxStops /\ node.epoch = BootEpoch
  BY <1>1, NewNodeFits DEF IInv, HandleFits, Live, LastEpoch, TypeOK
<1>3. ContainerFits(file, LastEpoch) /\ Covers(p)
  BY <1>1 DEF IInv, FileFits
<1>4. NodeFits(p, BootEpoch + stops - 1)
  BY <1>1, <1>2, <1>3, LatestFits
<1>5. /\ NodeFits(node', BootEpoch + stops) /\ node'.epoch > p.epoch /\ node'.known = p.known
  BY <1>1, <1>2, <1>4, RestoredFits
<1>6. /\ ContainerFits(file, LastEpoch') /\ file \in Container(Node)
      /\ NewerIsA(file) => LatestValid(file) = file.slot_a /\ file.slot_a # NoBytes
  <2>1. LastEpoch \in Int /\ LastEpoch' \in Int /\ LastEpoch <= LastEpoch'
    BY <1>2, Facts
  <2> QED BY <1>3, <2>1, ContainerLater, LatestFits DEF ContainerFits
<1>7. \A i \in issued : i[1] < node'.epoch
  <2>1. \A i \in issued : i[1] <= p.epoch
    BY <1>3 DEF Covers
  <2>2. p.epoch \in Nat /\ node'.epoch \in Nat
    BY <1>4, <1>5, NodeFields DEF NodeFits
  <2> QED BY <1>5, <2>1, <2>2, Facts, SMTT(30)
<1> HIDE DEF p
<1>8. TypeOK'
  <2>1. node' \in Node /\ dual_slot' \in Container(Node)
    BY <1>1, <1>5, <1>6 DEF NodeFits
  <2>2. TypeOK /\ phase' \in {"down", "new"} \cup Live
    BY <1>1 DEF IInv, Live
  <2> QED BY <1>1, <2>1, <2>2 DEF TypeOK
<1>9. HandleFits'
  <2>1. Covers(node)'
    <3>1. node'.epoch \in Nat
      BY <1>5, NodeFields DEF NodeFits
    <3> QED BY <1>1, <1>3, <1>5, <1>7, <3>1, Facts, SMTT(30) DEF Covers
  <2> QED BY <1>1, <1>5, <1>7, <2>1 DEF HandleFits, Live
<1>10. FileFits'
  BY <1>1, <1>3, <1>6 DEF FileFits, Covers, p
<1>11. SlotsFit'
  BY <1>1, <1>2, <1>3, <1>6 DEF SlotsFit, SlotAServes, Covers, p
<1>12. JournalFits'
  BY <1>1 DEF IInv, JournalFits
<1>13. CountsFit'
  BY <1>1 DEF IInv, CountsFit
<1> QED BY <1>8, <1>9, <1>10, <1>11, <1>12, <1>13 DEF IInv

LEMMA NothingToImportKeepsIInv == ASSUME IInv, NothingToImport PROVE IInv'
<1>1. /\ phase = "new" /\ phase' = "unsaved" /\ file = NoFile
      /\ UNCHANGED <<node, dual_slot, wal, cap, blob, journal, file, read, issued, safe,
                     seals, saves, stops>>
  BY DEF NothingToImport, memory, counts
<1>2. /\ node = NewNode /\ blob = NoBlob /\ dual_slot = NewContainer
      /\ issued = {} /\ safe = {} /\ NodeFits(node, BootEpoch + stops)
  BY <1>1 DEF IInv, HandleFits, FileFits, Live
<1>3. TypeOK'
  BY <1>1 DEF IInv, TypeOK, Live
<1>4. HandleFits'
  BY <1>1, <1>2 DEF HandleFits, Live, Covers
<1>5. FileFits'
  BY <1>1, <1>2 DEF FileFits
<1>6. SlotsFit'
  BY <1>1, <1>2, NewContainerFits DEF SlotsFit
<1>7. JournalFits'
  BY <1>1 DEF IInv, JournalFits
<1>8. CountsFit'
  BY <1>1 DEF IInv, CountsFit
<1> QED BY <1>3, <1>4, <1>5, <1>6, <1>7, <1>8 DEF IInv

LEMMA SizeIsNat ==
    ASSUME NEW c, NEW e, ContainerFits(c, e)
    PROVE  Size(c) \in Nat
<1>1. \A n : NodeFits(n, e) => Cardinality(DOMAIN n.peers) \in Nat
  BY FS_CardinalityType DEF NodeFits
<1>2. SlotSize(c.slot_a) \in Nat /\ SlotSize(c.slot_b) \in Nat
  BY <1>1 DEF SlotSize, ContainerFits
<1> QED BY <1>2 DEF Size

LEMMA ExportKeepsIInv == ASSUME IInv, Export PROVE IInv'
<1> DEFINE d == Committed(dual_slot, node)
<1>1. /\ phase \in Live /\ blob = NoBlob /\ GenFits(NextGen(dual_slot)) /\ dual_slot' = d
      /\ phase = "unsaved" \/ saves < MaxSaves
      /\ saves' = IF phase = "unsaved" THEN saves ELSE saves + 1
      /\ blob' \in {d, NoBlob} /\ cap' \in {cap, Size(d)}
      /\ UNCHANGED <<phase, node, wal, journal, file, read, issued, safe, seals, stops>>
  BY DEF Export, WriteOutput
<1>2. /\ LastEpoch = BootEpoch + stops /\ LastEpoch' = LastEpoch
      /\ NodeFits(node, LastEpoch) /\ Covers(node) /\ ContainerFits(dual_slot, LastEpoch)
      /\ NewerIsA(dual_slot) => SlotAServes(dual_slot)
  BY <1>1 DEF IInv, HandleFits, SlotsFit, LastEpoch
<1>3. /\ ContainerFits(d, LastEpoch) /\ LatestValid(d) # NoBytes /\ LatestValid(d).payload = node
      /\ d.slot_a # NoBytes
      /\ \/ d.slot_a.payload = node
         \/ NewerIsA(dual_slot) /\ d.slot_a = dual_slot.slot_a
  BY <1>1, <1>2, CommittedFits
<1>4. d \in Container(Node) /\ Size(d) \in Nat
  BY <1>3, SizeIsNat DEF ContainerFits
<1> HIDE DEF d
<1>5. SlotAServes(d)
  <2>1. node.epoch >= node.epoch
    BY Facts
  <2> QED BY <1>2, <1>3, <2>1 DEF SlotAServes
<1>6. TypeOK'
  <2>1. saves' \in 0 .. MaxSaves /\ cap' \in Nat
    BY <1>1, <1>4 DEF IInv, TypeOK
  <2> QED BY <1>1, <1>4, <2>1 DEF IInv, TypeOK
<1>7. HandleFits'
  BY <1>1 DEF IInv, HandleFits, Covers
<1>8. FileFits'
  BY <1>1, <1>2 DEF IInv, FileFits, Covers
<1>9. SlotsFit'
  BY <1>1, <1>2, <1>3, <1>5 DEF SlotsFit, SlotAServes, Covers
<1>10. JournalFits'
  BY <1>1 DEF IInv, JournalFits
<1>11. CountsFit'
  BY <1>1 DEF IInv, CountsFit
<1> QED BY <1>6, <1>7, <1>8, <1>9, <1>10, <1>11 DEF IInv

\* A completed save: the file holds the node's windows and its epoch.
LEMMA WriteBlobKeepsIInv == ASSUME IInv, WriteBlob PROVE IInv'
<1> DEFINE p == LatestValid(blob).payload
<1>1. /\ blob # NoBlob /\ file' = blob /\ blob' = NoBlob /\ safe' = safe \cup p.known
      /\ phase' = IF phase = "unsaved" THEN "serving" ELSE phase
      /\ UNCHANGED <<node, dual_slot, wal, cap, journal, read, issued, seals, saves, stops>>
  BY DEF WriteBlob, counts
<1>2. /\ phase \in Live /\ blob = dual_slot /\ SlotAServes(blob) /\ LatestValid(blob) # NoBytes
      /\ Covers(p) /\ p.epoch = node.epoch /\ p.known \subseteq node.known
      /\ ContainerFits(blob, LastEpoch)
  BY <1>1 DEF IInv, SlotsFit
<1>3. phase' \in Live /\ LastEpoch' = LastEpoch /\ (phase' = "unsaved" <=> FALSE)
  BY <1>1, <1>2 DEF Live, LastEpoch
<1>4. NewerIsA(blob) => LatestValid(blob) = blob.slot_a /\ blob.slot_a # NoBytes
  BY <1>2, LatestFits
<1>5. blob \in Container(Node) /\ p.known \subseteq Inbox
  BY <1>2, LatestFits, NodeFields DEF ContainerFits, NodeFits
<1>6. safe' \subseteq p.known /\ safe' \subseteq node.known
  BY <1>1, <1>2 DEF Covers
<1>7. /\ \A i \in issued : i[1] <= p.epoch /\ i[1] <= node.epoch
      /\ p.epoch >= node.epoch
  BY <1>2, Facts DEF Covers
<1>8. TypeOK'
  <2>1. phase' \in {"down", "new"} \cup Live
    BY <1>3
  <2> QED BY <1>1, <1>5, <2>1 DEF IInv, TypeOK
<1>9. HandleFits'
  <2>1. NodeFits(node, BootEpoch + stops)
    BY DEF IInv, HandleFits
  <2>2. phase' = "serving" => \A i \in issued : i[1] = node.epoch => i[2] < node.tx_seq
    <3>1. CASE phase = "unsaved"
      BY <3>1, Facts DEF IInv, HandleFits
    <3>2. CASE phase # "unsaved"
      BY <1>1, <3>2 DEF IInv, HandleFits
    <3> QED BY <3>1, <3>2
  <2> QED BY <1>1, <1>3, <1>6, <1>7, <2>1, <2>2 DEF HandleFits, Covers
<1>10. FileFits'
  BY <1>1, <1>2, <1>3, <1>5, <1>6, <1>7, Readable DEF FileFits, Covers
<1>11. SlotsFit'
  BY <1>1, <1>2, <1>3, <1>4, <1>6, <1>7 DEF SlotsFit, SlotAServes, Covers
<1>12. JournalFits'
  BY <1>1 DEF IInv, JournalFits
<1>13. CountsFit'
  BY <1>1 DEF IInv, CountsFit
<1> QED BY <1>8, <1>9, <1>10, <1>11, <1>12, <1>13 DEF IInv

-----------------------------------------------------------------------------
(* Packets out and in.                                                     *)

LEMMA NextSeqIs ==
    ASSUME NEW q \in Seqs
    PROVE  NextSeq(q) \in Seqs /\ (q # SeqMax => NextSeq(q) = q + 1)
<1>1. SeqMax \in Nat
  OBVIOUS
<1>2. (q + 1) % (SeqMax + 1) \in 0 .. SeqMax
  BY <1>1 DEF Seqs
<1>3. q # SeqMax => (q + 1) % (SeqMax + 1) = q + 1
  BY <1>1 DEF Seqs
<1> QED BY <1>2, <1>3 DEF NextSeq, Seqs

\* A packet gets an identity that no other has, over all that was sealed
\* before; what the slots hold is of the epoch it is sealed under.
LEMMA SealFits ==
    ASSUME IInv, Seal, phase' = "spent" \/ (phase' = "serving" /\ ~TakesLast),
           UNCHANGED <<dual_slot, blob, file, safe, stops>>
    PROVE  /\ HandleFits' /\ FileFits' /\ SlotsFit' /\ CountsFit' /\ node' \in Node
           /\ issued' \subseteq Epochs \X Seqs /\ seals' \in 0 .. MaxSeals
<1>1. /\ phase = "serving" /\ (seals < MaxSeals \/ TakesLast)
      /\ seals' = IF TakesLast THEN seals ELSE seals + 1
      /\ node' = [node EXCEPT !.tx_seq = NextSeq(node.tx_seq)]
      /\ issued' = IF TakesLast THEN issued ELSE issued \cup {Identity}
  BY DEF Seal
<1>2. /\ NodeFits(node, BootEpoch + stops) /\ Covers(node)
      /\ \A i \in issued : i[1] = node.epoch => i[2] < node.tx_seq
      /\ IsFiniteSet(issued) /\ Cardinality(issued) = seals
      /\ LastEpoch' = LastEpoch
  BY <1>1 DEF IInv, HandleFits, CountsFit, Live, LastEpoch
<1>3. /\ node' \in Node /\ node'.epoch = node.epoch /\ node'.tx_seq = NextSeq(node.tx_seq)
      /\ node'.peers = node.peers /\ node'.known = node.known
  BY <1>1, Facts, NextSeqIs DEF Node
<1>4. /\ Identity \in Identities /\ Identity[1] = node.epoch /\ Identity[2] = node.tx_seq
  BY Facts, NodeFields DEF Identity, Identities
<1>5. Identity \notin issued
  BY <1>2, <1>4, Facts DEF Seqs
<1>6. NodeFits(node', BootEpoch + stops)
  BY <1>2, <1>3 DEF NodeFits
<1>7. /\ phase' \in Live /\ phase' \notin {"down", "new", "unsaved"} /\ phase \in Live
      /\ phase' = "serving" => ~TakesLast
  BY <1>1 DEF Live
<1>8. ASSUME NEW i \in issued' PROVE i \in issued \/ (i = Identity /\ ~TakesLast)
  BY <1>1, <1>8
<1>9. \A n : Covers(n) /\ n.epoch >= node.epoch => \A i \in issued' : i[1] <= n.epoch
  BY <1>4, <1>8 DEF Covers
<1>10. HandleFits'
  <2>1. node.epoch >= node.epoch
    BY Facts
  <2>2. \A i \in issued' : i[1] <= node.epoch
    BY <1>2, <1>9, <2>1
  <2>3. ~TakesLast => \A i \in issued' : i[1] = node.epoch => i[2] < node'.tx_seq
    <3> SUFFICES ASSUME ~TakesLast, NEW i \in issued', i[1] = node.epoch
                 PROVE  i[2] < node'.tx_seq
      OBVIOUS
    <3>1. node'.tx_seq = node.tx_seq + 1 /\ node.tx_seq \in Nat
      BY <1>3, Facts, NextSeqIs, SMTT(30) DEF TakesLast, Seqs
    <3>2. i[2] \in Nat /\ (i[2] < node.tx_seq \/ i[2] = node.tx_seq)
      BY <1>2, <1>4, <1>8, <3>1, Facts
    <3> QED BY <3>1, <3>2
  <2> QED BY <1>2, <1>3, <1>6, <1>7, <2>2, <2>3 DEF HandleFits, Covers
<1>11. FileFits'
  <2>1. /\ file \notin {NoFile, Unreadable} /\ ContainerFits(file, LastEpoch)
        /\ LatestValid(file) # NoBytes =>
              /\ Covers(LatestValid(file).payload)
              /\ LatestValid(file).payload.epoch >= node.epoch
    BY <1>1 DEF IInv, FileFits
  <2> QED BY <1>2, <1>3, <1>9, <2>1 DEF FileFits, Covers
<1>12. SlotsFit'
  <2>1. \A c : SlotAServes(c) => SlotAServes(c)'
    BY <1>1, <1>3, <1>9 DEF SlotAServes, Covers
  <2>2. /\ ContainerFits(dual_slot, LastEpoch)
        /\ NewerIsA(dual_slot) => SlotAServes(dual_slot)'
        /\ blob # NoBlob =>
              /\ blob = dual_slot /\ SlotAServes(blob)' /\ LatestValid(blob) # NoBytes
              /\ Covers(LatestValid(blob).payload)
              /\ LatestValid(blob).payload.epoch = node.epoch
              /\ LatestValid(blob).payload.known \subseteq node.known
    BY <2>1 DEF IInv, SlotsFit
  <2>3. blob # NoBlob => Covers(LatestValid(blob).payload)'
    <3>1. node.epoch >= node.epoch
      BY Facts
    <3> QED BY <1>9, <2>2, <3>1 DEF Covers
  <2> QED BY <1>2, <1>3, <1>7, <2>2, <2>3 DEF SlotsFit, SlotAServes
<1>13. CountsFit' /\ seals' \in 0 .. MaxSeals
  <2>1. seals \in 0 .. MaxSeals
    BY DEF IInv, TypeOK
  <2>2. CASE TakesLast
    BY <1>1, <1>2, <2>1, <2>2 DEF CountsFit
  <2>3. CASE ~TakesLast
    BY <1>1, <1>2, <1>5, <2>1, <2>3, FS_AddElement DEF CountsFit
  <2> QED BY <2>2, <2>3
<1>14. issued' \subseteq Epochs \X Seqs
  BY <1>1, <1>4, Facts DEF Identities
<1> QED BY <1>3, <1>10, <1>11, <1>12, <1>13, <1>14

LEMMA SealRealtimeKeepsIInv == ASSUME IInv, SealRealtime PROVE IInv'
<1>1. /\ Seal /\ phase = "serving" /\ phase' = IF TakesLast THEN "spent" ELSE phase
      /\ UNCHANGED <<dual_slot, wal, cap, blob, journal, file, read, safe, saves, stops>>
  BY DEF SealRealtime, Seal
<1>2. /\ HandleFits' /\ FileFits' /\ SlotsFit' /\ CountsFit' /\ node' \in Node
      /\ issued' \subseteq Epochs \X Seqs /\ seals' \in 0 .. MaxSeals
  BY <1>1, SealFits
<1>3. TypeOK'
  BY <1>1, <1>2 DEF IInv, TypeOK, Live
<1>4. JournalFits'
  BY <1>1 DEF IInv, JournalFits
<1> QED BY <1>2, <1>3, <1>4 DEF IInv

LEMMA SealWalFrameKeepsIInv ==
    ASSUME IInv, NEW fits \in BOOLEAN, SealWalFrame(fits)
    PROVE  IInv'
<1>1. /\ Seal /\ phase = "serving"
      /\ phase' = IF TakesLast \/ ~fits THEN "spent" ELSE phase
      /\ wal' = IF TakesLast THEN wal ELSE Append(wal, Identity)
      /\ journal' = IF TakesLast \/ ~fits THEN journal ELSE Append(journal, Frame)
      /\ UNCHANGED <<dual_slot, cap, blob, file, read, safe, saves, stops>>
  BY DEF SealWalFrame, Seal, Hash
<1>2. /\ HandleFits' /\ FileFits' /\ SlotsFit' /\ CountsFit' /\ node' \in Node
      /\ issued' \subseteq Epochs \X Seqs /\ seals' \in 0 .. MaxSeals
  BY <1>1, SealFits
<1>3. /\ Identity \in Identities /\ wal = PacketsOf(journal) /\ journal \in Seq(ChainFrame)
      /\ \A i \in 1 .. Len(journal) : Chained(journal, i)
  BY <1>1, Facts, NodeFields DEF Identity, Identities, IInv, JournalFits
<1>4. /\ Frame \in ChainFrame /\ Frame.prev = PacketsOf(journal) /\ ~Frame.torn
      /\ Frame.packet = Identity
  BY <1>3, Facts DEF Frame, ChainFrame
<1>5. JournalFits'
  <2>1. CASE TakesLast \/ ~fits
    BY <1>1, <1>3, <2>1 DEF JournalFits
  <2>2. CASE ~(TakesLast \/ ~fits)
    <3>1. journal' = Append(journal, Frame) /\ wal' = Append(wal, Identity)
      BY <1>1, <2>2
    <3> QED BY <1>3, <1>4, <3>1, ChainGrows DEF JournalFits
  <2> QED BY <2>1, <2>2
<1>6. TypeOK'
  <2>1. wal' \in Seq(Identities)
    BY <1>1, <1>3, Facts
  <2>2. journal' \in Seq(ChainFrame)
    BY <1>5 DEF JournalFits
  <2>3. \A i \in DOMAIN journal' : journal'[i].prev \in Seq(Epochs \X Seqs)
    <3>1. \A i \in DOMAIN journal' : journal'[i] \in ChainFrame
      BY <2>2
    <3> QED BY <3>1 DEF ChainFrame, Identities
  <2> QED BY <1>1, <1>2, <2>1, <2>3 DEF IInv, TypeOK, Live, Identities
<1> QED BY <1>2, <1>5, <1>6 DEF IInv

LEMMA OpenRealtimeKeepsIInv ==
    ASSUME IInv, NEW m \in Inbox, NEW fits \in BOOLEAN, OpenRealtime(m, fits)
    PROVE  IInv'
<1>1. /\ phase \in Live /\ AcceptsNow(node, m) /\ node' = Recorded(node, m)
      /\ read' \in {read, read \cup {m}}
      /\ UNCHANGED <<phase, dual_slot, wal, cap, blob, journal, file, issued, safe,
                     seals, saves, stops>>
  BY DEF OpenRealtime, counts
<1>2. /\ NodeFits(node, BootEpoch + stops) /\ Covers(node) /\ LastEpoch' = LastEpoch
  BY <1>1 DEF IInv, HandleFits, LastEpoch
<1>3. /\ NodeFits(node', BootEpoch + stops) /\ node' \in Node
      /\ node'.epoch = node.epoch /\ node'.tx_seq = node.tx_seq
      /\ node'.known = node.known \cup {m}
  BY <1>1, <1>2, RecordedFits DEF NodeFits
<1>4. TypeOK'
  BY <1>1, <1>3 DEF IInv, TypeOK
<1>5. HandleFits'
  BY <1>1, <1>2, <1>3 DEF IInv, HandleFits, Covers
<1>6. FileFits'
  BY <1>1, <1>2, <1>3 DEF IInv, FileFits, Covers
<1>7. SlotsFit'
  <2>1. \A c : SlotAServes(c)' <=> SlotAServes(c)
    BY <1>1, <1>3 DEF SlotAServes, Covers
  <2> QED BY <1>1, <1>2, <1>3, <2>1 DEF IInv, SlotsFit, Covers
<1>8. JournalFits'
  BY <1>1 DEF IInv, JournalFits
<1>9. CountsFit'
  BY <1>1 DEF IInv, CountsFit
<1> QED BY <1>4, <1>5, <1>6, <1>7, <1>8, <1>9 DEF IInv

LEMMA OpenPersistedKeepsIInv ==
    ASSUME IInv, NEW m \in Inbox, OpenPersisted(m)
    PROVE  IInv'
<1>1. /\ read' = read \cup {m}
      /\ UNCHANGED <<phase, node, dual_slot, wal, cap, blob, journal, file, issued, safe,
                     seals, saves, stops>>
  BY DEF OpenPersisted, memory, counts
<1>2. TypeOK'
  BY <1>1 DEF IInv, TypeOK
<1>3. HandleFits'
  BY <1>1 DEF IInv, HandleFits, Covers
<1>4. FileFits'
  BY <1>1 DEF IInv, FileFits, Covers, LastEpoch
<1>5. SlotsFit'
  BY <1>1 DEF IInv, SlotsFit, SlotAServes, Covers, LastEpoch
<1>6. JournalFits'
  BY <1>1 DEF IInv, JournalFits
<1>7. CountsFit'
  BY <1>1 DEF IInv, CountsFit
<1> QED BY <1>2, <1>3, <1>4, <1>5, <1>6, <1>7 DEF IInv

-----------------------------------------------------------------------------
(* The invariants.                                                         *)

LEMMA NextIInv == ASSUME EnoughEpochs, IInv, [Next]_vars PROVE IInv'
<1>1. CASE New              BY <1>1, NewKeepsIInv
<1>2. CASE Free             BY <1>2, FreeKeepsIInv
<1>3. CASE Import           BY <1>3, ImportKeepsIInv
<1>4. CASE NothingToImport  BY <1>4, NothingToImportKeepsIInv
<1>5. CASE Export           BY <1>5, ExportKeepsIInv
<1>6. CASE WriteBlob        BY <1>6, WriteBlobKeepsIInv
<1>7. CASE \E cut \in Cuts : CutInWrite(cut)
  BY <1>7, CutInWriteKeepsIInv
<1>8. CASE SealRealtime     BY <1>8, SealRealtimeKeepsIInv
<1>9. CASE \E fits \in BOOLEAN : SealWalFrame(fits)
  BY <1>9, SealWalFrameKeepsIInv
<1>10. CASE \E m \in Inbox, fits \in BOOLEAN : OpenRealtime(m, fits)
  BY <1>10, OpenRealtimeKeepsIInv
<1>11. CASE \E m \in Inbox : OpenPersisted(m)
  BY <1>11, OpenPersistedKeepsIInv
<1>12. CASE UNCHANGED vars
  <2> USE <1>12 DEF vars, memory, counts
  <2>1. TypeOK'
    BY DEF IInv, TypeOK
  <2>2. HandleFits'
    BY DEF IInv, HandleFits, Covers
  <2>3. FileFits'
    BY DEF IInv, FileFits, Covers, LastEpoch
  <2>4. SlotsFit'
    BY DEF IInv, SlotsFit, SlotAServes, Covers, LastEpoch
  <2>5. JournalFits'
    BY DEF IInv, JournalFits
  <2>6. CountsFit'
    BY DEF IInv, CountsFit
  <2> QED BY <2>1, <2>2, <2>3, <2>4, <2>5, <2>6 DEF IInv
<1> QED BY <1>1, <1>2, <1>3, <1>4, <1>5, <1>6, <1>7, <1>8, <1>9, <1>10, <1>11, <1>12 DEF Next

LEMMA AlwaysIInv ==
    ASSUME EnoughEpochs
    PROVE  Spec => []IInv
<1>1. IInv /\ [Next]_vars => IInv'
  BY NextIInv
<1> QED BY <1>1, InitIInv, PTL DEF Spec

\* The handle's state and the host's keep their types.
THEOREM TypesHold ==
    ASSUME EnoughEpochs
    PROVE  Spec => []TypeOK
<1>1. IInv => TypeOK
  BY DEF IInv
<1> QED BY <1>1, AlwaysIInv, PTL

\* No two packets are sealed under one epoch and sequence number, whenever the
\* host stops, whatever part of a save gets to the file, and wherever the
\* sequence numbers end.
THEOREM IdentitiesAreUnique ==
    ASSUME EnoughEpochs
    PROVE  Spec => []UniqueIdentity
<1>1. IInv => UniqueIdentity
  BY DEF IInv, CountsFit, UniqueIdentity
<1> QED BY <1>1, AlwaysIInv, PTL

\* What a completed save covers is refused in real time by every handle that
\* serves after it, whichever slot it starts from.
THEOREM SavedStaysRefused ==
    ASSUME EnoughEpochs
    PROVE  Spec => []SavedIsRefused
<1>1. ASSUME IInv PROVE SavedIsRefused
  <2> SUFFICES ASSUME phase \in Live, NEW m \in safe PROVE ~InWindow(node, m)
    BY DEF SavedIsRefused
  <2>1. m \in node.known /\ NodeFits(node, BootEpoch + stops)
    BY <1>1 DEF IInv, HandleFits, Covers
  <2> QED BY <2>1, KnownIsRefused
<1> QED BY <1>1, AlwaysIInv, PTL

\* The frames that fitted into the host's buffer are one chain from the first
\* on, so that recovery returns every one of them.
THEOREM JournalStaysWhole ==
    ASSUME EnoughEpochs
    PROVE  Spec => []JournalIsWhole
<1>1. ASSUME IInv PROVE JournalIsWhole
  BY <1>1, ChainIsIntact DEF IInv, JournalFits, JournalIsWhole
<1> QED BY <1>1, AlwaysIInv, PTL

\* Whatever is cut short or changed on the way: what a handle opens, in real
\* time or as a record, arrived exactly as another node sealed it.
THEOREM NothingForgedIsRead ==
    ASSUME EnoughEpochs
    PROVE  Spec => []OnlySealedIsRead
<1>1. Init => read \subseteq Genuine
  BY DEF Init
<1>2. ASSUME read \subseteq Genuine, [Next]_vars PROVE read' \subseteq Genuine
  <2>1. ASSUME NEW m \in Inbox, NEW fits \in BOOLEAN, OpenRealtime(m, fits)
        PROVE  read' \subseteq Genuine
    BY <1>2, <2>1 DEF OpenRealtime, AcceptsNow
  <2>2. ASSUME NEW m \in Inbox, OpenPersisted(m) PROVE read' \subseteq Genuine
    BY <1>2, <2>2 DEF OpenPersisted, AcceptsRecord
  <2>3. CASE UNCHANGED read
    BY <1>2, <2>3
  <2> QED
    BY <1>2, <2>1, <2>2, <2>3 DEF Next, vars, New, Free, Import, NothingToImport, Export,
       WriteBlob, CutInWrite, SealRealtime, SealWalFrame
<1>3. ASSUME IInv, read \subseteq Genuine PROVE OnlySealedIsRead
  <2>1. node.known \subseteq Genuine
    BY <1>3 DEF IInv, HandleFits, NodeFits
  <2> QED BY <1>3, <2>1, GenuineIsSent DEF OnlySealedIsRead
<1>4. read \subseteq Genuine /\ [Next]_vars => (read \subseteq Genuine)'
  BY <1>2
<1>5. IInv /\ read \subseteq Genuine => OnlySealedIsRead
  BY <1>3
<1> QED BY <1>1, <1>4, <1>5, AlwaysIInv, PTL DEF Spec
=============================================================================
