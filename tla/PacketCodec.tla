------------------------------ MODULE PacketCodec ------------------------------
(***************************************************************************)
(* Packet::to_bytes and ::from_bytes for the three wire versions, and the  *)
(* associated data and the tag of a mesh packet.                           *)
(*                                                                         *)
(* Bytes are records: [byte |-> b], or a byte of a nonce or of a tag, which *)
(* names what it was computed from.  Numbers are below 256, so that all    *)
(* their big-endian bytes but the last are zero.                           *)
(***************************************************************************)
EXTENDS Naturals, Sequences

V1_HEADER_LEN == 21
V2_HEADER_LEN == 22
V3_HEADER_LEN == 42
NONCE_LEN     == 12
TAG_LEN       == 16

Byte(b) == [byte |-> b]
ToBE(n, width) == [i \in 1 .. width |-> Byte(IF i = width THEN n ELSE 0)]

Huge == 256     \* any number that is not below 256

FromBE(bytes) ==
    LET n == Len(bytes) IN
    IF /\ \A i \in 1 .. n - 1 : bytes[i] = Byte(0)
       /\ DOMAIN bytes[n] = {"byte"}
    THEN bytes[n].byte ELSE Huge

-----------------------------------------------------------------------------
Corrupt == [version |-> 0]      \* PaqueteCorrupto or VersionNoSoportada

PacketToBytes(p) ==
    CASE p.version = 1 ->
           ToBE(1, 1) \o ToBE(p.sequence, 8) \o p.nonce \o p.ciphertext
      [] p.version = 3 ->
           ToBE(3, 1) \o ToBE(p.flags, 1) \o ToBE(p.node_id, 4) \o ToBE(p.epoch, 8)
           \o ToBE(p.sequence, 8) \o ToBE(p.timestamp_ms, 8) \o p.nonce \o p.ciphertext
      [] OTHER ->
           ToBE(p.version, 1) \o ToBE(p.flags, 1) \o ToBE(p.sequence, 8)
           \o p.nonce \o p.ciphertext

\* The bytes from offset a up to, not including, offset b.
Slice(raw, a, b) == SubSeq(raw, a + 1, b)

\* Fields that a version does not carry read as 0.
Read(version, flags, from, epoch, seq, ts, raw, header) ==
    [version |-> version, flags |-> flags, node_id |-> from, epoch |-> epoch,
     sequence |-> seq, timestamp_ms |-> ts,
     nonce |-> Slice(raw, header - NONCE_LEN, header),
     ciphertext |-> Slice(raw, header, Len(raw))]

ReadV1(raw) == Read(1, 0, 0, 0, FromBE(Slice(raw, 1, 9)), 0, raw, V1_HEADER_LEN)

ReadV2(raw) == Read(2, FromBE(Slice(raw, 1, 2)), 0, 0, FromBE(Slice(raw, 2, 10)), 0,
                    raw, V2_HEADER_LEN)

ReadV3(raw) ==
    Read(3, FromBE(Slice(raw, 1, 2)), FromBE(Slice(raw, 2, 6)), FromBE(Slice(raw, 6, 14)),
         FromBE(Slice(raw, 14, 22)), FromBE(Slice(raw, 22, 30)), raw, V3_HEADER_LEN)

PacketFromBytes(raw) ==
    LET fits(header) == Len(raw) >= header + TAG_LEN
        version      == FromBE(Slice(raw, 0, 1))
    IN  IF ~fits(V1_HEADER_LEN) THEN Corrupt
        ELSE CASE version = 3 /\ fits(V3_HEADER_LEN) -> ReadV3(raw)
               [] version = 2 /\ fits(V2_HEADER_LEN) -> ReadV2(raw)
               [] version = 1                        -> ReadV1(raw)
               [] OTHER                              -> Corrupt

-----------------------------------------------------------------------------
(* What the tag of a mesh packet covers.                                   *)

HasAad(flags) == flags % 2 = 1          \* FLAG_AAD_PRESENT

ContextHash == [i \in 1 .. 32 |-> [context |-> i]]

UserPart(flags, user_aad) ==
    IF HasAad(flags) THEN ToBE(Len(user_aad), 4) \o user_aad ELSE <<>>

\* Mutant: the flags are not covered.
AadV3NoFlags(flags, from, epoch, seq, ts, user_aad) ==
    ToBE(3, 1) \o ToBE(from, 4) \o ToBE(epoch, 8) \o ToBE(seq, 8)
    \o ToBE(ts, 8) \o ContextHash \o UserPart(flags, user_aad)

\* build_internal_aad_v3
AadV3(flags, from, epoch, seq, ts, user_aad) ==
    ToBE(3, 1) \o ToBE(flags, 1) \o ToBE(from, 4) \o ToBE(epoch, 8) \o ToBE(seq, 8)
    \o ToBE(ts, 8) \o ContextHash \o UserPart(flags, user_aad)

\* derive_packet_crypto: key and nonce depend on these four alone.
Crypto(from, epoch, seq, ts) == <<from, epoch, seq, ts>>
NonceOf(crypto) == [i \in 1 .. NONCE_LEN |-> [nonce |-> crypto, at |-> i]]

\* AES-GCM of a message of one byte.
Encrypt(crypto, aad, msg) ==
    <<Byte(msg)>> \o [i \in 1 .. TAG_LEN |-> [tag |-> <<crypto, aad, msg>>, at |-> i]]

SealV3(from, epoch, seq, ts, user_aad, msg) ==
    LET flags  == IF user_aad = <<>> THEN 0 ELSE 1
        crypto == Crypto(from, epoch, seq, ts)
    IN  [version |-> 3, flags |-> flags, node_id |-> from, epoch |-> epoch,
         sequence |-> seq, timestamp_ms |-> ts, nonce |-> NonceOf(crypto),
         ciphertext |-> Encrypt(crypto, AadV3(flags, from, epoch, seq, ts, user_aad), msg)]

\* The nonce is the derived one and the ciphertext decrypts, to some message.
Authentic(p, user_aad) ==
    LET crypto == Crypto(p.node_id, p.epoch, p.sequence, p.timestamp_ms)
        aad    == AadV3(p.flags, p.node_id, p.epoch, p.sequence, p.timestamp_ms, user_aad)
        msg    == p.ciphertext[1]
    IN  /\ p.nonce = NonceOf(crypto)
        /\ DOMAIN msg = {"byte"}
        /\ p.ciphertext = Encrypt(crypto, aad, msg.byte)
=============================================================================
