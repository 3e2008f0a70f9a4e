---------------------------- MODULE Sxer84321Proofs ----------------------------
(***************************************************************************)
(* Proofs about Sxer84321, for every set of scripts, every nonce, and      *)
(* every window, match length and literal run that the tags can express.   *)
(***************************************************************************)
EXTENDS Sxer84321, SequenceTheorems, InductionLemmas

-----------------------------------------------------------------------------
(* Sequences of bytes                                                      *)

LEMMA FunctionIsSeq ==
  ASSUME NEW S, NEW n \in Nat, NEW f \in [1 .. n -> S]
  PROVE  f \in Seq(S) /\ Len(f) = n
  OBVIOUS

\* The bytes that are appended, where they end up.
LEMMA ConcatTail ==
  ASSUME NEW S, NEW p \in Seq(S), NEW b \in Seq(S)
  PROVE  /\ Len(p \o b) = Len(p) + Len(b)
         /\ \A i \in 1 .. Len(b) : (p \o b)[Len(p) + i] = b[i]
<1>1. Len(p) \in Nat /\ Len(b) \in Nat
  BY LenProperties
<1>2. /\ Len(p \o b) = Len(p) + Len(b)
      /\ \A i \in 1 .. Len(p) + Len(b) :
           (p \o b)[i] = IF i <= Len(p) THEN p[i] ELSE b[i - Len(p)]
  BY ConcatProperties
<1>3. ASSUME NEW i \in 1 .. Len(b) PROVE (p \o b)[Len(p) + i] = b[i]
  <2>1. /\ Len(p) + i \in 1 .. Len(p) + Len(b) /\ ~(Len(p) + i <= Len(p))
        /\ (Len(p) + i) - Len(p) = i
    BY <1>1
  <2>2. QED
    BY <1>2, <2>1
<1>4. QED
  BY <1>2, <1>3

LEMMA InputFacts ==
  ASSUME input \in Inputs
  PROVE  /\ input \in Seq(Byte) /\ Len(input) \in Nat
         /\ \A i \in 1 .. Len(input) : input[i] \in Byte
         /\ Mask \in Seq(Byte) /\ Len(Mask) \in Nat /\ Len(input) <= Len(Mask)
         /\ \A i \in 1 .. Len(Mask) : Mask[i] \in Byte
<1>1. input \in Seq(Byte) /\ Mask \in Seq(Byte) /\ Len(input) <= Len(Mask)
  BY CodecAssumption
<1>2. QED
  BY <1>1, LenProperties, ElementOfSeq

\* What masking yields, and that it undoes itself.
LEMMA XorFacts ==
  ASSUME NEW b \in Byte, NEW i \in 1 .. Len(Mask)
  PROVE  /\ BitXor(b, Mask[i]) \in Byte
         /\ BitXor(BitXor(b, Mask[i]), Mask[i]) = b
<1>1. DOMAIN Mask = 1 .. Len(Mask)
  BY CodecAssumption, LenProperties
<1>2. QED
  BY <1>1, XorAssumption

LEMMA ByteSplit ==
  ASSUME NEW x \in Int, 0 <= x, x <= 4095
  PROVE  /\ x \div 256 \in Int /\ 0 <= x \div 256 /\ x \div 256 <= 15
         /\ x % 256 \in Int /\ 0 <= x % 256 /\ x % 256 <= 255
         /\ x = 256 * (x \div 256) + (x % 256)
  BY SMTT(30)

\* What CodecAssumption says of the limits.
LEMMA LimitFacts ==
  /\ \A l \in MinMatch .. MaxMatch : l \in Nat /\ 4 <= l /\ l <= 10
  /\ \A o \in 1 .. MaxOffset : o \in Nat /\ 1 <= o /\ o <= 4096
  /\ \A n \in 1 .. MaxLiteral : n \in Nat /\ 1 <= n /\ n <= 128
  BY CodecAssumption

\* The first byte of a back reference, and what decode makes of it.
LEMMA TagArithmetic ==
  ASSUME NEW l \in Int, 4 <= l, l <= 10, NEW h \in Int, 0 <= h, h <= 15
  PROVE  /\ (l - 3) % 8 = l - 3 /\ h % 16 = h
         /\ 128 + (l - 3) * 16 + h \in Byte
         /\ ((128 + (l - 3) * 16 + h) \div 16) % 8 = l - 3
         /\ (128 + (l - 3) * 16 + h) % 16 = h
  BY SMTT(30) DEF Byte

\* The two bytes of a back reference.
LEMMA TagFacts ==
  ASSUME NEW m \in [len : MinMatch .. MaxMatch, offset : 1 .. MaxOffset]
  PROVE  /\ TagBytes(m) \in Seq(Byte) /\ Len(TagBytes(m)) = 2
         /\ TagBytes(m)[1] = 128 + (m.len - 3) * 16 + ((m.offset - 1) \div 256)
         /\ TagBytes(m)[2] = (m.offset - 1) % 256
<1>1. PICK l \in MinMatch .. MaxMatch, o \in 1 .. MaxOffset : m.len = l /\ m.offset = o
  OBVIOUS
<1>2. l \in Int /\ 4 <= l /\ l <= 10 /\ o \in Int /\ 0 <= o - 1 /\ o - 1 <= 4095
  BY LimitFacts
<1> DEFINE h == (o - 1) \div 256
           b == (o - 1) % 256
<1>3. h \in Int /\ 0 <= h /\ h <= 15 /\ b \in Byte
  <2>1. o - 1 \in Int
    BY <1>2
  <2>2. QED
    BY <1>2, <2>1, ByteSplit DEF Byte
<1>4. TagBytes(m) = <<128 + ((l - 3) % 8) * 16 + (h % 16), b>>
  BY <1>1 DEF TagBytes
<1>5. m.offset - 1 = o - 1 /\ m.len = l
  BY <1>1
<1> HIDE DEF h, b
<1>6. TagBytes(m) = <<128 + (l - 3) * 16 + h, b>> /\ 128 + (l - 3) * 16 + h \in Byte
  <2>1. l \in Int /\ 4 <= l /\ l <= 10
    BY <1>2
  <2>2. h \in Int /\ 0 <= h /\ h <= 15
    BY <1>3
  <2>3. (l - 3) % 8 = l - 3
    BY <2>1
  <2>4. h % 16 = h
    BY <2>2
  <2>5. 128 + (l - 3) * 16 + h \in Byte
    BY <2>1, <2>2 DEF Byte
  <2>6. QED
    BY <1>4, <2>3, <2>4, <2>5
<1>7. /\ TagBytes(m) \in Seq(Byte) /\ Len(TagBytes(m)) = 2
      /\ TagBytes(m)[1] = 128 + (l - 3) * 16 + h /\ TagBytes(m)[2] = b
  BY <1>3, <1>6
<1>8. QED
  BY <1>5, <1>7 DEF h, b

\* A literal run: its length, and the masked bytes.
LEMMA LiteralFacts ==
  ASSUME input \in Inputs, NEW n \in 1 .. MaxLiteral, in_pos \in Nat, mask_pos \in Nat,
         in_pos + n <= Len(input), mask_pos <= in_pos
  PROVE  /\ LiteralBytes(n) \in Seq(Byte) /\ Len(LiteralBytes(n)) = n + 1
         /\ LiteralBytes(n)[1] = n - 1
         /\ \A i \in 1 .. n : LiteralBytes(n)[1 + i] =
                                BitXor(input[in_pos + i], Mask[mask_pos + i])
         /\ n \in 1 .. 128
<1> DEFINE run == [i \in 1 .. n |-> BitXor(input[in_pos + i], Mask[mask_pos + i])]
<1>1. n \in 1 .. 128
  BY CodecAssumption
<1>2. ASSUME NEW i \in 1 .. n
      PROVE  BitXor(input[in_pos + i], Mask[mask_pos + i]) \in Byte
  <2>1. in_pos + i \in 1 .. Len(input) /\ mask_pos + i \in 1 .. Len(Mask)
    BY <1>1, InputFacts
  <2>2. QED
    BY <2>1, InputFacts, XorFacts
<1>3. run \in [1 .. n -> Byte]
  BY <1>2
<1>4. <<n - 1>> \in Seq(Byte) /\ Len(<<n - 1>>) = 1 /\ <<n - 1>>[1] = n - 1
  BY <1>1 DEF Byte
<1>5. \A i \in 1 .. n : run[i] = BitXor(input[in_pos + i], Mask[mask_pos + i])
  OBVIOUS
<1>6. LiteralBytes(n) = <<n - 1>> \o run
  BY DEF LiteralBytes
<1> HIDE DEF run
<1>7. run \in Seq(Byte) /\ Len(run) = n
  <2>1. n \in Nat
    BY <1>1
  <2>2. QED
    BY <2>1, <1>3, FunctionIsSeq
<1>8. /\ LiteralBytes(n) \in Seq(Byte) /\ Len(LiteralBytes(n)) = 1 + n
      /\ \A i \in 1 .. 1 + n : LiteralBytes(n)[i] =
                                 IF i <= 1 THEN <<n - 1>>[i] ELSE run[i - 1]
  BY <1>7, <1>4, <1>6, ConcatProperties
<1>9. \A i \in 1 .. n : LiteralBytes(n)[1 + i] = run[i]
  BY <1>1, <1>8
<1>10. LiteralBytes(n)[1] = n - 1
  BY <1>1, <1>4, <1>8
<1>11. \A i \in 1 .. n : LiteralBytes(n)[1 + i] =
                           BitXor(input[in_pos + i], Mask[mask_pos + i])
  BY <1>5, <1>9
<1>12. QED
  BY <1>1, <1>8, <1>10, <1>11

-----------------------------------------------------------------------------
(* Bounds                                                                  *)

Token == [at : Nat, pos : Nat, mask : Nat, len : Nat, offset : Nat]

CodecTypes ==
  /\ input \in Inputs /\ payload \in Seq(Byte) /\ output \in Seq(Byte)
  /\ in_pos \in Nat /\ mask_pos \in Nat /\ decoded \in Nat
  /\ copy \in [left : Nat, offset : Nat]
  /\ tampered \in BOOLEAN /\ tokens \in Seq(Token)
  /\ pc \in {"invalid_argument", "encode", "buffer_too_small", "stored", "decode",
             "copy", "corrupted_data", "ok"}

\* Where the operation under way is, and that decode has written nothing before
\* it starts.  The mask runs with the literals, so it is never ahead.
Places ==
  /\ pc = "encode" => in_pos <= Len(input) /\ mask_pos <= in_pos
  /\ pc \in {"encode", "stored"} => output = <<>>
  /\ pc # "copy" => copy = NoCopy
  /\ pc = "copy" => copy.left >= 1 /\ copy.offset >= 1
  /\ pc \in {"decode", "copy"} => mask_pos <= Len(output) /\ in_pos <= Len(payload)
  /\ Len(output) + copy.left <= Len(input) /\ copy.offset <= Len(output)

BoundsInv == CodecTypes /\ Places

\* A back reference that sxer84321_find_match found.
LEMMA MatchFacts ==
  ASSUME BoundsInv, NEW p \in Nat, NEW m \in Matches(p)
  PROVE  /\ m \in [len : MinMatch .. MaxMatch, offset : 1 .. MaxOffset]
         /\ m.len \in Nat /\ m.len >= 4 /\ m.len <= 10
         /\ m.offset \in Nat /\ 1 <= m.offset /\ m.offset <= 4096 /\ m.offset <= p
         /\ p + m.len <= Len(input)
         /\ \A i \in 1 .. m.len : input[p + i] = input[p + i - m.offset]
<1>1. /\ m \in [len : MinMatch .. MaxMatch, offset : 1 .. MaxOffset]
      /\ m.offset <= p /\ p + m.len <= Len(input)
      /\ \A i \in 1 .. m.len : input[p + i] = input[p + i - m.offset]
  BY DEF Matches
<1>2. m.len \in MinMatch .. MaxMatch /\ m.offset \in 1 .. MaxOffset
  BY <1>1
<1>3. QED
  BY <1>1, <1>2, LimitFacts

\* A token that the encoder appends.
LEMMA BoundsEmit ==
  ASSUME BoundsInv, pc = "encode", NEW bytes \in Seq(Byte), NEW n \in Nat, NEW offset \in Nat,
         in_pos + n <= Len(input), Emit(bytes, n, offset),
         UNCHANGED <<input, crcs, output, copy, tampered, decoded>>
  PROVE  BoundsInv'
<1> USE DEF BoundsInv
<1>1. CASE pc' = "buffer_too_small" /\ UNCHANGED <<in_pos, mask_pos, payload, tokens>>
  BY <1>1 DEF CodecTypes, Places
<1>2. CASE /\ payload' = payload \o bytes
           /\ tokens' = Append(tokens, [at |-> Len(payload), pos |-> in_pos,
                                        mask |-> mask_pos, len |-> n, offset |-> offset])
           /\ in_pos' = in_pos + n
           /\ mask_pos' = IF offset = 0 THEN mask_pos + n ELSE mask_pos
           /\ pc' = pc
  <2>1. payload' \in Seq(Byte)
    BY <1>2, ConcatProperties DEF CodecTypes
  <2>2. Len(payload) \in Nat
    BY LenProperties DEF CodecTypes
  <2>3. [at |-> Len(payload), pos |-> in_pos, mask |-> mask_pos, len |-> n, offset |-> offset]
          \in Token
    BY <2>2 DEF CodecTypes, Token
  <2>4. tokens' \in Seq(Token)
    BY <1>2, <2>3, AppendProperties DEF CodecTypes
  <2>5. CodecTypes'
    BY <1>2, <2>1, <2>4 DEF CodecTypes
  <2>6. Places'
    BY <1>2 DEF CodecTypes, Places
  <2>7. QED
    BY <2>5, <2>6
<1>3. QED
  BY <1>1, <1>2 DEF Emit

LEMMA BoundsEncode == BoundsInv /\ (EncodeMatch \/ EncodeLiterals \/ EncodeEnds) => BoundsInv'
<1> SUFFICES ASSUME BoundsInv, EncodeMatch \/ EncodeLiterals \/ EncodeEnds PROVE BoundsInv'
  OBVIOUS
<1>1. CASE EncodeMatch
  <2>1. PICK m \in Matches(in_pos) : Emit(TagBytes(m), m.len, m.offset)
    BY <1>1 DEF EncodeMatch
  <2>2. in_pos \in Nat
    BY DEF BoundsInv, CodecTypes
  <2>3. TagBytes(m) \in Seq(Byte) /\ m.len \in Nat /\ m.offset \in Nat
        /\ in_pos + m.len <= Len(input)
    BY <2>2, MatchFacts, TagFacts
  <2>4. QED
    BY <1>1, <2>1, <2>3, BoundsEmit DEF EncodeMatch
<1>2. CASE EncodeLiterals
  <2>1. PICK n \in 1 .. MaxLiteral : LiteralRun(n) /\ Emit(LiteralBytes(n), n, 0)
    BY <1>2 DEF EncodeLiterals
  <2>2. in_pos + n <= Len(input) /\ n \in Nat
    BY <2>1, LimitFacts DEF LiteralRun
  <2>3. in_pos \in Nat /\ mask_pos \in Nat /\ mask_pos <= in_pos /\ input \in Inputs
    BY <1>2 DEF EncodeLiterals, BoundsInv, CodecTypes, Places
  <2>4. LiteralBytes(n) \in Seq(Byte)
    BY <2>2, <2>3, LiteralFacts
  <2>5. QED
    BY <1>2, <2>1, <2>2, <2>4, BoundsEmit DEF EncodeLiterals
<1>3. CASE EncodeEnds
  BY <1>3 DEF EncodeEnds, BoundsInv, CodecTypes, Places
<1>4. QED
  BY <1>1, <1>2, <1>3

LEMMA BoundsTamper == BoundsInv /\ Tamper => BoundsInv'
<1> SUFFICES ASSUME BoundsInv, Tamper PROVE BoundsInv'
  OBVIOUS
<1>1. PICK k \in DOMAIN payload, b \in Damage : payload' = [payload EXCEPT ![k] = b]
  BY DEF Tamper
<1>2. payload \in Seq(Byte) /\ b \in Byte
  BY CodecAssumption DEF BoundsInv, CodecTypes
<1>3. k \in 1 .. Len(payload)
  BY <1>2, LenProperties
<1>4. payload' \in Seq(Byte)
  BY <1>1, <1>2, <1>3, ExceptSeq
<1>5. QED
  BY <1>4 DEF Tamper, BoundsInv, CodecTypes, Places

LEMMA BoundsStart == BoundsInv /\ DecodeStarts => BoundsInv'
<1> SUFFICES ASSUME BoundsInv, DecodeStarts PROVE BoundsInv'
  OBVIOUS
<1>1. Len(output) \in Nat /\ Len(payload) \in Nat
  BY LenProperties DEF BoundsInv, CodecTypes
<1>2. QED
  BY <1>1 DEF DecodeStarts, BoundsInv, CodecTypes, Places

\* The tag that decode is about to read.
LEMMA TagType ==
  ASSUME BoundsInv, in_pos < Len(payload)
  PROVE  Tag \in Byte /\ Len(payload) \in Nat
<1>1. Len(payload) \in Nat /\ in_pos + 1 \in 1 .. Len(payload)
  BY LenProperties DEF BoundsInv, CodecTypes
<1>2. QED
  BY <1>1, ElementOfSeq DEF BoundsInv, CodecTypes, Tag

LEMMA BoundsMatch == BoundsInv /\ DecodeMatch => BoundsInv'
<1> SUFFICES ASSUME BoundsInv, DecodeMatch PROVE BoundsInv'
  OBVIOUS
<1> DEFINE length == ((Tag \div 16) % 8) + 3
           offset == (Tag % 16) * 256 + payload[in_pos + 2] + 1
<1>1. /\ pc = "decode" /\ in_pos < Len(payload)
      /\ UNCHANGED <<input, mask_pos, payload, crcs, output, tampered, tokens, decoded>>
  BY DEF DecodeMatch
<1>2. Tag \in Byte /\ Len(payload) \in Nat
  BY <1>1, TagType
<1>3. length \in Nat /\ length >= 3
  <2>1. (Tag \div 16) % 8 \in Nat
    BY <1>2 DEF Byte
  <2>2. QED
    BY <2>1
<1>4. CASE pc' = "corrupted_data" /\ UNCHANGED <<in_pos, copy>>
  BY <1>1, <1>4 DEF BoundsInv, CodecTypes, Places
<1>5. CASE /\ ~(in_pos + 1 >= Len(payload))
           /\ ~(offset > Len(output)) /\ ~(Len(output) + length > Len(input))
           /\ pc' = "copy" /\ in_pos' = in_pos + 2
           /\ copy' = [left |-> length, offset |-> offset]
  <2>1. in_pos + 2 \in 1 .. Len(payload) /\ in_pos \in Nat
    BY <1>2, <1>5 DEF BoundsInv, CodecTypes
  <2>2. payload[in_pos + 2] \in Byte
    BY <2>1, ElementOfSeq DEF BoundsInv, CodecTypes
  <2>3. offset \in Nat /\ offset >= 1
    <3>1. (Tag % 16) * 256 \in Nat
      BY <1>2 DEF Byte
    <3>2. QED
      BY <2>2, <3>1 DEF Byte
  <2>4. Len(output) \in Nat /\ Len(input) \in Nat
    BY LenProperties, InputFacts DEF BoundsInv, CodecTypes
  <2> HIDE DEF length, offset
  <2>5. Len(output) + length <= Len(input) /\ offset <= Len(output)
    BY <1>3, <1>5, <2>3, <2>4
  <2>6. CodecTypes'
    BY <1>1, <1>3, <1>5, <2>1, <2>3 DEF BoundsInv, CodecTypes
  <2>7. Places'
    BY <1>1, <1>3, <1>5, <2>1, <2>3, <2>5 DEF BoundsInv, CodecTypes, Places
  <2>8. QED
    BY <2>6, <2>7 DEF BoundsInv
<1>6. QED
  BY <1>4, <1>5 DEF DecodeMatch

LEMMA BoundsCopy == BoundsInv /\ CopyByte => BoundsInv'
<1> SUFFICES ASSUME BoundsInv, CopyByte PROVE BoundsInv'
  OBVIOUS
<1> DEFINE byte == output[Len(output) + 1 - copy.offset]
<1>1. /\ pc = "copy" /\ output' = Append(output, byte)
      /\ UNCHANGED <<input, in_pos, mask_pos, payload, crcs, tampered, tokens>>
  BY DEF CopyByte
<1>2. /\ output \in Seq(Byte) /\ Len(output) \in Nat /\ Len(input) \in Nat
      /\ copy.left \in Nat /\ copy.offset \in Nat /\ decoded \in Nat
  BY LenProperties, InputFacts DEF BoundsInv, CodecTypes
<1>3. /\ copy.left >= 1 /\ copy.offset >= 1 /\ copy.offset <= Len(output)
      /\ Len(output) + copy.left <= Len(input) /\ mask_pos <= Len(output)
  BY <1>1 DEF BoundsInv, Places
<1>4. Len(output) + 1 - copy.offset \in 1 .. Len(output)
  BY <1>2, <1>3
<1>5. byte \in Byte
  BY <1>2, <1>4, ElementOfSeq
<1> HIDE DEF byte
<1>6. output' \in Seq(Byte) /\ Len(output') = Len(output) + 1
  BY <1>1, <1>2, <1>5, AppendProperties
<1>7. \/ /\ copy.left = 1 /\ pc' = "decode" /\ copy' = NoCopy /\ decoded' = decoded + 1
      \/ /\ copy.left # 1 /\ copy' = [copy EXCEPT !.left = @ - 1] /\ UNCHANGED <<pc, decoded>>
  BY DEF CopyByte
<1>8. copy' \in [left : Nat, offset : Nat] /\ decoded' \in Nat
      /\ pc' \in {"decode", "copy"}
  BY <1>1, <1>2, <1>3, <1>7 DEF BoundsInv, CodecTypes, NoCopy
<1>9. CodecTypes'
  BY <1>1, <1>6, <1>8 DEF BoundsInv, CodecTypes
<1>10. Places'
  BY <1>1, <1>2, <1>3, <1>6, <1>7 DEF BoundsInv, CodecTypes, Places, NoCopy
<1>11. QED
  BY <1>9, <1>10 DEF BoundsInv

\* What a literal run decodes to.
Unmasked(length) ==
  [i \in 1 .. length |-> BitXor(payload[in_pos + 1 + i], Mask[mask_pos + i])]

LEMMA UnmaskedFacts ==
  ASSUME BoundsInv, NEW length \in Nat, in_pos + 1 + length <= Len(payload),
         mask_pos + length <= Len(Mask)
  PROVE  Unmasked(length) \in Seq(Byte) /\ Len(Unmasked(length)) = length
<1>1. in_pos \in Nat /\ mask_pos \in Nat /\ payload \in Seq(Byte) /\ Len(payload) \in Nat
  BY LenProperties DEF BoundsInv, CodecTypes
<1>2. ASSUME NEW i \in 1 .. length
      PROVE  BitXor(payload[in_pos + 1 + i], Mask[mask_pos + i]) \in Byte
  <2>1. Len(Mask) \in Nat
    BY InputFacts DEF BoundsInv, CodecTypes
  <2>2. in_pos + 1 + i \in 1 .. Len(payload) /\ mask_pos + i \in 1 .. Len(Mask)
    BY <1>1, <2>1
  <2>3. payload[in_pos + 1 + i] \in Byte
    BY <1>1, <2>2, ElementOfSeq
  <2>4. QED
    BY <2>2, <2>3, XorFacts
<1>3. Unmasked(length) \in [1 .. length -> Byte]
  BY <1>2 DEF Unmasked
<1>4. QED
  BY <1>3, FunctionIsSeq

LEMMA BoundsLiterals == BoundsInv /\ DecodeLiterals => BoundsInv'
<1> SUFFICES ASSUME BoundsInv, DecodeLiterals PROVE BoundsInv'
  OBVIOUS
<1> DEFINE length == Tag + 1
<1>1. /\ pc = "decode" /\ in_pos < Len(payload)
      /\ UNCHANGED <<input, payload, crcs, copy, tampered, tokens>>
  BY DEF DecodeLiterals
<1>2. length \in Nat /\ Len(payload) \in Nat
  <2>1. Tag \in Byte /\ Len(payload) \in Nat
    BY <1>1, TagType
  <2>2. QED
    BY <2>1 DEF Byte
<1>3. CASE pc' = "corrupted_data" /\ UNCHANGED <<in_pos, mask_pos, output, decoded>>
  BY <1>1, <1>3 DEF BoundsInv, CodecTypes, Places
<1>4. CASE /\ ~(in_pos + 1 + length > Len(payload)) /\ ~(Len(output) + length > Len(input))
           /\ output' = output \o Unmasked(length)
           /\ in_pos' = in_pos + 1 + length /\ mask_pos' = mask_pos + length
           /\ decoded' = decoded + 1 /\ pc' = pc
  <2> HIDE DEF length
  <2>1. /\ in_pos \in Nat /\ mask_pos \in Nat /\ Len(output) \in Nat /\ Len(input) \in Nat
        /\ Len(Mask) \in Nat /\ Len(input) <= Len(Mask) /\ mask_pos <= Len(output)
        /\ output \in Seq(Byte) /\ copy = NoCopy
    BY <1>1, LenProperties, InputFacts DEF BoundsInv, CodecTypes, Places
  <2>2. /\ in_pos + 1 + length <= Len(payload) /\ mask_pos + length <= Len(Mask)
        /\ Len(output) + length <= Len(input)
    BY <1>2, <1>4, <2>1
  <2>3. Unmasked(length) \in Seq(Byte) /\ Len(Unmasked(length)) = length
    BY <1>2, <2>2, UnmaskedFacts
  <2>4. output' \in Seq(Byte) /\ Len(output') = Len(output) + length
    BY <1>4, <2>1, <2>3, ConcatProperties
  <2>5. CodecTypes'
    BY <1>1, <1>2, <1>4, <2>1, <2>4 DEF BoundsInv, CodecTypes
  <2>6. Places'
    BY <1>1, <1>2, <1>4, <2>1, <2>2, <2>4 DEF Places, NoCopy
  <2>7. QED
    BY <2>5, <2>6 DEF BoundsInv
<1>5. QED
  BY <1>3, <1>4 DEF DecodeLiterals, Unmasked

LEMMA BoundsEnd == BoundsInv /\ DecodeEnds => BoundsInv'
  BY DEF DecodeEnds, BoundsInv, CodecTypes, Places

LEMMA BoundsStep == BoundsInv /\ [CodecNext]_codecVars => BoundsInv'
<1>1. BoundsInv /\ UNCHANGED codecVars => BoundsInv'
  BY DEF codecVars, BoundsInv, CodecTypes, Places
<1>2. QED
  BY <1>1, BoundsEncode, BoundsTamper, BoundsStart, BoundsMatch, BoundsCopy,
     BoundsLiterals, BoundsEnd DEF CodecNext

LEMMA BoundsInit == CodecInit => BoundsInv
<1> SUFFICES ASSUME CodecInit PROVE BoundsInv
  OBVIOUS
<1>1. Len(input) \in Nat
  BY InputFacts DEF CodecInit
<1>2. CodecTypes
  <2>1. <<>> \in Seq(Byte) /\ <<>> \in Seq(Token)
    BY EmptySeq
  <2>2. QED
    BY <2>1 DEF CodecInit, CodecTypes, NoCopy
<1>3. Places
  BY <1>1 DEF CodecInit, Places, NoCopy
<1>4. QED
  BY <1>2, <1>3 DEF BoundsInv

LEMMA BoundsAlways == CodecSpec => []BoundsInv
  BY BoundsInit, BoundsStep, PTL DEF CodecSpec

\* Whatever byte of the payload the store changes, sxer84321_decode stays within the
\* payload, the mask and the buffer, and copies only bytes it has written.
THEOREM DecodeNeverOverruns == CodecSpec => []DecodeInBounds
<1>1. BoundsInv => DecodeInBounds
  <2> SUFFICES ASSUME BoundsInv PROVE DecodeInBounds
    OBVIOUS
  <2>1. /\ Len(input) \in Nat /\ Len(Mask) \in Nat /\ Len(input) <= Len(Mask)
        /\ Len(output) \in Nat /\ copy.left \in Nat /\ mask_pos \in Nat
    BY InputFacts, LenProperties DEF BoundsInv, CodecTypes
  <2>2. QED
    BY <2>1 DEF BoundsInv, Places, DecodeInBounds
<1>2. QED
  BY <1>1, BoundsAlways, PTL

-----------------------------------------------------------------------------
(* The round trip                                                          *)

\* The bytes of a token t, and that the payload pl and the script s say what it
\* says.
Size(t) == IF t.offset = 0 THEN 1 + t.len ELSE 2

Literal(t, pl, s) ==
  /\ t.len <= 128 /\ t.mask + t.len <= Len(Mask) /\ pl[t.at + 1] = t.len - 1
  /\ \A i \in 1 .. t.len : pl[t.at + 1 + i] = BitXor(s[t.pos + i], Mask[t.mask + i])

Reference(t, pl, s) ==
  /\ 4 <= t.len /\ t.len <= 10 /\ t.offset <= 4096 /\ t.offset <= t.pos
  /\ pl[t.at + 1] = 128 + (t.len - 3) * 16 + ((t.offset - 1) \div 256)
  /\ pl[t.at + 2] = (t.offset - 1) % 256
  /\ \A i \in 1 .. t.len : s[t.pos + i] = s[t.pos + i - t.offset]

Describes(t, pl, s) ==
  /\ t.len >= 1 /\ t.at + Size(t) <= Len(pl) /\ t.pos + t.len <= Len(s)
  /\ IF t.offset = 0 THEN Literal(t, pl, s) ELSE Reference(t, pl, s)

\* The places in the payload, in the script and in the mask after k tokens.
AtAfter(tks, k) == IF k = 0 THEN 0 ELSE tks[k].at + Size(tks[k])
PosAfter(tks, k) == IF k = 0 THEN 0 ELSE tks[k].pos + tks[k].len
MaskAfter(tks, k) ==
  IF k = 0 THEN 0 ELSE tks[k].mask + (IF tks[k].offset = 0 THEN tks[k].len ELSE 0)

\* Token t starts where the first k end.
Follows(t, tks, k) == /\ t.at = AtAfter(tks, k) /\ t.pos = PosAfter(tks, k)
                      /\ t.mask = MaskAfter(tks, k)

\* The tokens follow each other without a gap.
Chained(tks, pl, s) ==
  \A k \in 1 .. Len(tks) : Describes(tks[k], pl, s) /\ Follows(tks[k], tks, k - 1)

Encoding == /\ Len(payload) = AtAfter(tokens, Len(tokens))
            /\ in_pos = PosAfter(tokens, Len(tokens))
            /\ mask_pos = MaskAfter(tokens, Len(tokens)) /\ decoded = 0

\* The payload is complete, and the checksums are its own and the script's.
Complete == /\ Len(payload) = AtAfter(tokens, Len(tokens))
            /\ Len(input) = PosAfter(tokens, Len(tokens))
            /\ crcs.source = Checksum(input) /\ crcs.payload = Checksum(payload)

\* What has been decoded is a prefix of the script.
Prefix == \A i \in 1 .. Len(output) : output[i] = input[i]

Decoding == /\ Prefix /\ decoded <= Len(tokens)
            /\ in_pos = AtAfter(tokens, decoded) /\ Len(output) = PosAfter(tokens, decoded)
            /\ mask_pos = MaskAfter(tokens, decoded)

Copying ==
  LET t == tokens[decoded + 1] IN
  /\ Prefix /\ decoded < Len(tokens)
  /\ t.offset # 0 /\ copy.offset = t.offset /\ copy.left <= t.len
  /\ in_pos = t.at + 2 /\ mask_pos = t.mask
  /\ Len(output) = t.pos + t.len - copy.left

TokenInv ==
  ~tampered =>
    /\ pc \in {"encode", "stored", "decode", "copy"} => Chained(tokens, payload, input)
    /\ pc = "encode" => Encoding
    /\ pc \in {"stored", "decode", "copy"} => Complete
    /\ pc = "stored" => decoded = 0
    /\ pc = "decode" => Decoding
    /\ pc = "copy" => Copying
    /\ pc # "corrupted_data" /\ (pc = "ok" => output = input)

\* A literal run that is not the longest is followed by a back reference, which
\* makes up for its tag, or by the end.
Fits ==
  /\ pc # "buffer_too_small"
  /\ pc = "encode" =>
       \E short \in {0, 1} :
         /\ (Len(payload) - in_pos - short) * MaxLiteral <= in_pos
         /\ short = 1 => in_pos = Len(input) \/ Matches(in_pos) # {}

TripInv == BoundsInv /\ TokenInv /\ Fits

\* The places of a token that ends by l.
LEMMA TokenPlaces ==
  ASSUME NEW a \in Nat, NEW n \in Nat, NEW l \in Nat, a + 1 + n <= l
  PROVE  a + 1 \in 1 .. l /\ \A i \in 1 .. n : a + 1 + i \in 1 .. l
  OBVIOUS

\* A token stays described when the payload grows.
LEMMA DescribesKept ==
  ASSUME NEW pl \in Seq(Byte), NEW bytes \in Seq(Byte), NEW s, NEW t \in Token,
         Describes(t, pl, s)
  PROVE  Describes(t, pl \o bytes, s)
<1> DEFINE longer == pl \o bytes
<1>1. /\ Len(pl) \in Nat /\ Len(bytes) \in Nat /\ Len(longer) = Len(pl) + Len(bytes)
      /\ \A i \in 1 .. Len(pl) : longer[i] = pl[i]
  BY LenProperties, ConcatProperties
<1>2. t.at \in Nat /\ t.len \in Nat /\ t.pos \in Nat /\ t.offset \in Nat /\ t.mask \in Nat
  BY DEF Token
<1> HIDE DEF longer
<1>3. CASE t.offset = 0
  <2>1. t.at + 1 + t.len <= Len(pl) /\ t.len >= 1 /\ Literal(t, pl, s)
    BY <1>2, <1>3 DEF Describes, Size
  <2>2. t.at + 1 \in 1 .. Len(pl) /\ \A i \in 1 .. t.len : t.at + 1 + i \in 1 .. Len(pl)
    BY <1>1, <1>2, <2>1, TokenPlaces
  <2>3. /\ longer[t.at + 1] = pl[t.at + 1]
        /\ \A i \in 1 .. t.len : longer[t.at + 1 + i] = pl[t.at + 1 + i]
    BY <1>1, <2>2, Zenon
  <2>4. Literal(t, longer, s)
    BY <2>1, <2>3 DEF Literal
  <2>5. t.at + Size(t) <= Len(longer) /\ t.pos + t.len <= Len(s)
    BY <1>1, <1>2, <1>3, <2>1 DEF Describes, Size
  <2>6. QED
    BY <1>3, <2>1, <2>4, <2>5 DEF Describes, longer
<1>4. CASE t.offset # 0
  <2>1. t.at + 2 <= Len(pl) /\ t.len >= 1 /\ Reference(t, pl, s)
    BY <1>2, <1>4 DEF Describes, Size
  <2>2. longer[t.at + 1] = pl[t.at + 1] /\ longer[t.at + 2] = pl[t.at + 2]
    <3>1. t.at + 1 \in 1 .. Len(pl) /\ t.at + 2 \in 1 .. Len(pl)
      BY <1>1, <1>2, <2>1
    <3>2. QED
      BY <1>1, <3>1, Zenon
  <2>3. Reference(t, longer, s)
    BY <2>1, <2>2 DEF Reference
  <2>4. t.at + Size(t) <= Len(longer) /\ t.pos + t.len <= Len(s)
    BY <1>1, <1>2, <1>4, <2>1 DEF Describes, Size
  <2>5. QED
    BY <1>4, <2>1, <2>3, <2>4 DEF Describes, longer
<1>5. QED
  BY <1>3, <1>4

\* A token that follows the others and describes the new bytes extends them.
LEMMA ChainedAppend ==
  ASSUME NEW pl \in Seq(Byte), NEW bytes \in Seq(Byte), NEW s, NEW tks \in Seq(Token),
         NEW t \in Token, Chained(tks, pl, s), Describes(t, pl \o bytes, s),
         Follows(t, tks, Len(tks))
  PROVE  LET more == Append(tks, t) IN
         /\ Chained(more, pl \o bytes, s)
         /\ AtAfter(more, Len(more)) = t.at + Size(t)
         /\ PosAfter(more, Len(more)) = t.pos + t.len
         /\ MaskAfter(more, Len(more)) = t.mask + (IF t.offset = 0 THEN t.len ELSE 0)
<1> DEFINE more == Append(tks, t)
           longer == pl \o bytes
<1>1. /\ Len(tks) \in Nat /\ Len(more) = Len(tks) + 1
      /\ \A i \in 1 .. Len(tks) : more[i] = tks[i]
      /\ more[Len(tks) + 1] = t
  BY LenProperties, AppendProperties
<1> HIDE DEF more, longer
<1>2. \A k \in 0 .. Len(tks) : /\ AtAfter(more, k) = AtAfter(tks, k)
                               /\ PosAfter(more, k) = PosAfter(tks, k)
                               /\ MaskAfter(more, k) = MaskAfter(tks, k)
  BY <1>1 DEF AtAfter, PosAfter, MaskAfter
<1>3. ASSUME NEW k \in 1 .. Len(more)
      PROVE  Describes(more[k], longer, s) /\ Follows(more[k], more, k - 1)
  <2>1. CASE k <= Len(tks)
    <3>1. k \in 1 .. Len(tks) /\ k - 1 \in 0 .. Len(tks) /\ more[k] = tks[k]
      BY <1>1, <2>1
    <3>2. Describes(tks[k], pl, s) /\ Follows(tks[k], tks, k - 1)
      BY <3>1 DEF Chained
    <3>3. tks[k] \in Token
      BY <3>1, ElementOfSeq
    <3>4. Describes(tks[k], longer, s)
      BY <3>2, <3>3, DescribesKept DEF longer
    <3>5. QED
      BY <1>2, <3>1, <3>2, <3>4 DEF Follows
  <2>2. CASE k = Len(tks) + 1
    <3>1. more[k] = t /\ k - 1 = Len(tks) /\ k - 1 \in 0 .. Len(tks)
      BY <1>1, <2>2
    <3>2. Describes(more[k], longer, s)
      BY <3>1 DEF longer
    <3>3. QED
      BY <1>2, <3>1, <3>2 DEF Follows
  <2>3. QED
    BY <1>1, <1>3, <2>1, <2>2
<1>4. Chained(more, longer, s)
  BY <1>3 DEF Chained
<1>5. Len(more) # 0 /\ more[Len(more)] = t
  BY <1>1
<1>6. QED
  BY <1>4, <1>5 DEF more, longer, AtAfter, PosAfter, MaskAfter

-----------------------------------------------------------------------------
(* The round trip: encode                                                  *)

NewToken(n, offset) ==
  [at |-> Len(payload), pos |-> in_pos, mask |-> mask_pos, len |-> n, offset |-> offset]

LEMMA NewTokenFacts ==
  ASSUME BoundsInv, NEW n \in Nat, NEW offset \in Nat
  PROVE  LET t == NewToken(n, offset) IN
         /\ t \in Token /\ t.at = Len(payload) /\ t.pos = in_pos /\ t.mask = mask_pos
         /\ t.len = n /\ t.offset = offset
         /\ Len(payload) \in Nat /\ in_pos \in Nat /\ mask_pos \in Nat
<1>1. Len(payload) \in Nat /\ in_pos \in Nat /\ mask_pos \in Nat
  BY LenProperties DEF BoundsInv, CodecTypes
<1>2. QED
  BY <1>1 DEF NewToken, Token

LEMMA TokenEmit ==
  ASSUME BoundsInv, TokenInv, pc = "encode", NEW bytes \in Seq(Byte), NEW n \in Nat,
         NEW offset \in Nat, Describes(NewToken(n, offset), payload \o bytes, input),
         Len(bytes) = Size(NewToken(n, offset)), Emit(bytes, n, offset),
         UNCHANGED <<input, crcs, output, copy, tampered, decoded>>
  PROVE  TokenInv'
<1> DEFINE t == NewToken(n, offset)
<1>1. CASE tampered
  BY <1>1 DEF TokenInv
<1>2. CASE ~tampered /\ pc' = "buffer_too_small"
  BY <1>2 DEF TokenInv
<1>3. CASE ~tampered /\ pc' # "buffer_too_small"
  <2>1. /\ payload' = payload \o bytes /\ tokens' = Append(tokens, t)
        /\ in_pos' = in_pos + n /\ pc' = pc
        /\ mask_pos' = IF offset = 0 THEN mask_pos + n ELSE mask_pos
    BY <1>3 DEF Emit, NewToken
  <2>2. payload \in Seq(Byte) /\ tokens \in Seq(Token)
    BY DEF BoundsInv, CodecTypes
  <2>3. /\ t \in Token /\ t.at = Len(payload) /\ t.pos = in_pos /\ t.mask = mask_pos
        /\ t.len = n /\ t.offset = offset
        /\ Len(payload) \in Nat /\ in_pos \in Nat /\ mask_pos \in Nat
    BY NewTokenFacts
  <2>4. Chained(tokens, payload, input) /\ Encoding
    BY <1>3 DEF TokenInv
  <2> HIDE DEF t
  <2>5. Follows(t, tokens, Len(tokens))
    BY <2>3, <2>4 DEF Encoding, Follows
  <2>6. Describes(t, payload \o bytes, input) /\ Len(bytes) = Size(t)
    BY DEF t
  <2>7. /\ Chained(tokens', payload', input)
        /\ AtAfter(tokens', Len(tokens')) = t.at + Size(t)
        /\ PosAfter(tokens', Len(tokens')) = t.pos + t.len
        /\ MaskAfter(tokens', Len(tokens')) = t.mask + (IF t.offset = 0 THEN t.len ELSE 0)
    <3> DEFINE more == Append(tokens, t)
    <3>1. t \in Token /\ Chained(tokens, payload, input)
      BY <2>3, <2>4
    <3>2. /\ Chained(more, payload \o bytes, input)
          /\ AtAfter(more, Len(more)) = t.at + Size(t)
          /\ PosAfter(more, Len(more)) = t.pos + t.len
          /\ MaskAfter(more, Len(more)) = t.mask + (IF t.offset = 0 THEN t.len ELSE 0)
      BY <2>2, <2>5, <2>6, <3>1, ChainedAppend
    <3> HIDE DEF more
    <3>3. tokens' = more /\ payload' = payload \o bytes
      BY <2>1 DEF more
    <3>4. QED
      BY <3>2, <3>3
  <2>8. Len(payload') = Len(payload) + Len(bytes)
    BY <2>1, <2>2, ConcatProperties
  <2>9. Encoding'
    BY <2>1, <2>3, <2>4, <2>6, <2>7, <2>8 DEF Encoding
  <2>10. QED
    BY <2>1, <2>7, <2>9 DEF TokenInv
<1>4. QED
  BY <1>1, <1>2, <1>3

LEMMA TokenEncodeMatch == BoundsInv /\ TokenInv /\ EncodeMatch => TokenInv'
<1> SUFFICES ASSUME BoundsInv, TokenInv, EncodeMatch PROVE TokenInv'
  OBVIOUS
<1>1. PICK m \in Matches(in_pos) : Emit(TagBytes(m), m.len, m.offset)
  BY DEF EncodeMatch
<1>2. in_pos \in Nat /\ payload \in Seq(Byte)
  BY DEF BoundsInv, CodecTypes
<1>3. /\ m.len \in Nat /\ m.len >= 4 /\ m.len <= 10
      /\ m.offset \in Nat /\ 1 <= m.offset /\ m.offset <= 4096 /\ m.offset <= in_pos
      /\ in_pos + m.len <= Len(input)
      /\ \A i \in 1 .. m.len : input[in_pos + i] = input[in_pos + i - m.offset]
  BY <1>2, MatchFacts
<1>4. /\ TagBytes(m) \in Seq(Byte) /\ Len(TagBytes(m)) = 2
      /\ TagBytes(m)[1] = 128 + (m.len - 3) * 16 + ((m.offset - 1) \div 256)
      /\ TagBytes(m)[2] = (m.offset - 1) % 256
  BY <1>2, MatchFacts, TagFacts
<1> DEFINE t == NewToken(m.len, m.offset)
           longer == payload \o TagBytes(m)
<1>5. /\ t.at = Len(payload) /\ t.pos = in_pos
      /\ t.len = m.len /\ t.offset = m.offset /\ Len(payload) \in Nat
  <2>1. m.len \in Nat /\ m.offset \in Nat
    BY <1>3
  <2>2. QED
    BY <2>1, NewTokenFacts
<1>6. /\ Len(longer) = Len(payload) + 2
      /\ longer[Len(payload) + 1] = TagBytes(m)[1]
      /\ longer[Len(payload) + 2] = TagBytes(m)[2]
  <2>1. /\ Len(longer) = Len(payload) + Len(TagBytes(m))
        /\ \A i \in 1 .. Len(TagBytes(m)) : longer[Len(payload) + i] = TagBytes(m)[i]
    <3>1. TagBytes(m) \in Seq(Byte)
      BY <1>4
    <3>2. QED
      BY <1>2, <3>1, ConcatTail
  <2>2. 1 \in 1 .. Len(TagBytes(m)) /\ 2 \in 1 .. Len(TagBytes(m))
    BY <1>4
  <2>3. QED
    BY <1>4, <2>1, <2>2
<1> HIDE DEF t, longer
<1>7. Size(t) = 2 /\ t.offset # 0
  BY <1>3, <1>5 DEF Size
<1>8. Reference(t, longer, input)
  BY <1>3, <1>4, <1>5, <1>6 DEF Reference
<1>9. Describes(t, longer, input)
  BY <1>3, <1>5, <1>6, <1>7, <1>8 DEF Describes
<1>10. QED
  <2>1. m.len \in Nat /\ m.offset \in Nat /\ TagBytes(m) \in Seq(Byte) /\ pc = "encode"
    BY <1>3, <1>4 DEF EncodeMatch
  <2>2. Describes(NewToken(m.len, m.offset), payload \o TagBytes(m), input)
    BY <1>9 DEF t, longer
  <2>3. Len(TagBytes(m)) = Size(NewToken(m.len, m.offset))
    BY <1>4, <1>7 DEF t
  <2>4. UNCHANGED <<input, crcs, output, copy, tampered, decoded>>
    BY DEF EncodeMatch
  <2>5. QED
    BY <1>1, <2>1, <2>2, <2>3, <2>4, TokenEmit

LEMMA TokenEncodeLiterals == BoundsInv /\ TokenInv /\ EncodeLiterals => TokenInv'
<1> SUFFICES ASSUME BoundsInv, TokenInv, EncodeLiterals PROVE TokenInv'
  OBVIOUS
<1>1. PICK n \in 1 .. MaxLiteral : LiteralRun(n) /\ Emit(LiteralBytes(n), n, 0)
  BY DEF EncodeLiterals
<1>2. /\ in_pos \in Nat /\ mask_pos \in Nat /\ mask_pos <= in_pos /\ input \in Inputs
      /\ payload \in Seq(Byte)
  BY DEF EncodeLiterals, BoundsInv, CodecTypes, Places
<1>3. in_pos + n <= Len(input) /\ n \in Nat /\ n >= 1 /\ n <= 128
  BY <1>1, LimitFacts DEF LiteralRun
<1>4. /\ LiteralBytes(n) \in Seq(Byte) /\ Len(LiteralBytes(n)) = n + 1
      /\ LiteralBytes(n)[1] = n - 1
      /\ \A i \in 1 .. n : LiteralBytes(n)[1 + i] =
                             BitXor(input[in_pos + i], Mask[mask_pos + i])
  BY <1>2, <1>3, LiteralFacts
<1> DEFINE t == NewToken(n, 0)
           longer == payload \o LiteralBytes(n)
<1>5. /\ t.at = Len(payload) /\ t.pos = in_pos /\ t.mask = mask_pos
      /\ t.len = n /\ t.offset = 0 /\ Len(payload) \in Nat
  BY <1>3, NewTokenFacts
<1>6. /\ Len(longer) = Len(payload) + (n + 1)
      /\ \A i \in 1 .. n + 1 : longer[Len(payload) + i] = LiteralBytes(n)[i]
  BY <1>2, <1>4, ConcatTail
<1> HIDE DEF t, longer
<1>7. longer[Len(payload) + 1] = n - 1
  BY <1>3, <1>4, <1>6
<1>8. ASSUME NEW i \in 1 .. n
      PROVE  longer[Len(payload) + 1 + i] = BitXor(input[in_pos + i], Mask[mask_pos + i])
  <2>1. 1 + i \in 1 .. n + 1 /\ Len(payload) + (1 + i) = Len(payload) + 1 + i
    BY <1>3, <1>5
  <2>2. QED
    BY <1>4, <1>6, <2>1
<1>9. Size(t) = n + 1
  BY <1>3, <1>5 DEF Size
<1>10. mask_pos + n <= Len(Mask)
  BY <1>2, <1>3, InputFacts
<1>11. Literal(t, longer, input)
  BY <1>3, <1>5, <1>7, <1>8, <1>10 DEF Literal
<1>12. Describes(t, longer, input)
  BY <1>3, <1>5, <1>6, <1>9, <1>11 DEF Describes
<1>13. QED
  BY <1>1, <1>3, <1>4, <1>9, <1>12, TokenEmit DEF EncodeLiterals, t, longer

LEMMA TokenEncodeEnds == BoundsInv /\ TokenInv /\ EncodeEnds => TokenInv'
<1> SUFFICES ASSUME BoundsInv, TokenInv, EncodeEnds, ~tampered PROVE TokenInv'
  BY DEF EncodeEnds, TokenInv
<1>1. /\ pc = "encode" /\ in_pos = Len(input) /\ pc' = "stored"
      /\ crcs' = [source |-> Checksum(input), payload |-> Checksum(payload)]
      /\ UNCHANGED <<input, in_pos, mask_pos, payload, output, copy, tampered, tokens, decoded>>
  BY DEF EncodeEnds
<1>2. Chained(tokens, payload, input) /\ Encoding
  BY <1>1 DEF TokenInv
<1>3. Complete' /\ decoded' = 0
  <2>1. Checksum(input)' = Checksum(input) /\ Checksum(payload)' = Checksum(payload)
    BY <1>1 DEF Checksum
  <2>2. QED
    BY <1>1, <1>2, <2>1 DEF Encoding, Complete, AtAfter, PosAfter, Size
<1>4. Chained(tokens', payload', input')
  BY <1>1, <1>2
<1>5. QED
  BY <1>1, <1>3, <1>4 DEF TokenInv

-----------------------------------------------------------------------------
(* The round trip: decode                                                  *)

LEMMA TokenTamper == TokenInv /\ Tamper => TokenInv'
  BY DEF Tamper, TokenInv

LEMMA CompleteKept ==
  ASSUME Chained(tokens, payload, input), Complete, UNCHANGED <<input, payload, crcs, tokens>>
  PROVE  Chained(tokens', payload', input') /\ Complete'
<1>1. Checksum(input)' = Checksum(input) /\ Checksum(payload)' = Checksum(payload)
  BY DEF Checksum
<1>2. QED
  BY <1>1 DEF Complete, AtAfter, PosAfter, Size

LEMMA TokenStarts == BoundsInv /\ TokenInv /\ DecodeStarts => TokenInv'
<1> SUFFICES ASSUME BoundsInv, TokenInv, DecodeStarts, ~tampered PROVE TokenInv'
  BY DEF DecodeStarts, TokenInv
<1>1. /\ pc = "stored" /\ in_pos' = 0 /\ mask_pos' = 0
      /\ UNCHANGED <<input, payload, crcs, output, copy, tampered, tokens, decoded>>
  BY DEF DecodeStarts
<1>2. Chained(tokens, payload, input) /\ Complete /\ decoded = 0
  BY <1>1 DEF TokenInv
<1>3. pc' = "decode"
  BY <1>2 DEF DecodeStarts, Complete
<1>4. Chained(tokens', payload', input') /\ Complete'
  BY <1>1, <1>2, CompleteKept
<1>5. Decoding'
  <2>1. Len(tokens) \in Nat /\ output = <<>>
    BY <1>1, LenProperties DEF BoundsInv, CodecTypes, Places
  <2>2. Len(output') = 0 /\ decoded' = 0 /\ Len(tokens') \in Nat
    BY <1>1, <1>2, <2>1
  <2>3. QED
    BY <1>1, <2>2 DEF Decoding, Prefix, AtAfter, PosAfter, MaskAfter
<1>6. QED
  BY <1>1, <1>3, <1>4, <1>5 DEF TokenInv

\* The token that decode reads next is the one the encoder wrote there.
LEMMA NextToken ==
  ASSUME BoundsInv, TokenInv, ~tampered, pc = "decode", decoded # Len(tokens)
  PROVE  LET t == tokens[decoded + 1] IN
         /\ decoded < Len(tokens) /\ t \in Token /\ Describes(t, payload, input)
         /\ t.at = in_pos /\ t.pos = Len(output) /\ t.mask = mask_pos
<1>1. Chained(tokens, payload, input) /\ Decoding
  BY DEF TokenInv
<1>2. tokens \in Seq(Token) /\ Len(tokens) \in Nat /\ decoded \in Nat
  BY LenProperties DEF BoundsInv, CodecTypes
<1>3. decoded < Len(tokens) /\ decoded + 1 \in 1 .. Len(tokens) /\ (decoded + 1) - 1 = decoded
  BY <1>1, <1>2 DEF Decoding
<1>4. tokens[decoded + 1] \in Token
  BY <1>2, <1>3, ElementOfSeq
<1>5. Describes(tokens[decoded + 1], payload, input) /\ Follows(tokens[decoded + 1], tokens, decoded)
  BY <1>1, <1>3 DEF Chained
<1>6. QED
  BY <1>1, <1>3, <1>4, <1>5 DEF Follows, Decoding

\* Decode is at the end of the payload exactly when it has read every token.
LEMMA EndOfTokens ==
  ASSUME BoundsInv, TokenInv, ~tampered, pc = "decode"
  PROVE  (in_pos = Len(payload)) <=> (decoded = Len(tokens))
<1>1. Complete /\ Decoding
  BY DEF TokenInv
<1>2. decoded = Len(tokens) => in_pos = Len(payload)
  BY <1>1 DEF Complete, Decoding
<1>3. ASSUME decoded # Len(tokens) PROVE in_pos # Len(payload)
  <2>1. PICK t \in Token : Describes(t, payload, input) /\ t.at = in_pos
    BY <1>3, NextToken
  <2>2. t.at + Size(t) <= Len(payload) /\ t.len >= 1
    BY <2>1 DEF Describes
  <2>3. t.at \in Nat /\ t.len \in Nat /\ Len(payload) \in Nat
    BY LenProperties DEF Token, BoundsInv, CodecTypes
  <2>4. Size(t) \in Nat /\ Size(t) >= 2
    BY <2>2, <2>3 DEF Size
  <2>5. QED
    BY <2>1, <2>2, <2>3, <2>4
<1>4. QED
  BY <1>2, <1>3

\* Which of the two forms the tag announces.
LEMMA TagOfToken ==
  ASSUME NEW t \in Token, NEW pl, NEW s, Describes(t, pl, s)
  PROVE  /\ t.offset = 0 => /\ pl[t.at + 1] = t.len - 1 /\ pl[t.at + 1] < 128
                            /\ Literal(t, pl, s)
         /\ t.offset # 0 =>
              /\ pl[t.at + 1] >= 128 /\ Reference(t, pl, s)
              /\ ((pl[t.at + 1] \div 16) % 8) + 3 = t.len
              /\ (pl[t.at + 1] % 16) * 256 + pl[t.at + 2] + 1 = t.offset
<1>1. PICK l \in Nat, o \in Nat : t.len = l /\ t.offset = o
  BY DEF Token
<1>2. CASE t.offset = 0
  <2>1. Literal(t, pl, s)
    BY <1>2 DEF Describes
  <2>2. pl[t.at + 1] = l - 1 /\ l <= 128
    BY <1>1, <2>1 DEF Literal
  <2>3. l - 1 < 128
    BY <2>2
  <2>4. QED
    BY <1>1, <1>2, <2>1, <2>2, <2>3
<1>3. CASE t.offset # 0
  <2>1. Reference(t, pl, s)
    BY <1>3 DEF Describes
  <2>2. /\ 4 <= l /\ l <= 10 /\ o <= 4096
        /\ pl[t.at + 1] = 128 + (l - 3) * 16 + ((o - 1) \div 256)
        /\ pl[t.at + 2] = (o - 1) % 256
    BY <1>1, <2>1 DEF Reference
  <2>3. o # 0
    BY <1>1, <1>3
  <2>4. o - 1 \in Int /\ 0 <= o - 1 /\ o - 1 <= 4095 /\ l \in Int
    BY <2>2, <2>3
  <2>5. PICK h \in Int, b \in Int : /\ h = (o - 1) \div 256 /\ b = (o - 1) % 256
                                    /\ 0 <= h /\ h <= 15 /\ o - 1 = 256 * h + b
    BY <2>4, ByteSplit
  <2>6. /\ ((128 + (l - 3) * 16 + h) \div 16) % 8 = l - 3
        /\ (128 + (l - 3) * 16 + h) % 16 = h
    BY <2>2, <2>4, <2>5, TagArithmetic
  <2>7. pl[t.at + 1] = 128 + (l - 3) * 16 + h /\ pl[t.at + 2] = b
    BY <2>2, <2>5
  <2>8. ((pl[t.at + 1] \div 16) % 8) + 3 = l
    BY <2>4, <2>6, <2>7
  <2>9. (pl[t.at + 1] % 16) * 256 + pl[t.at + 2] + 1 = o
    <3>1. pl[t.at + 1] % 16 = h
      BY <2>6, <2>7
    <3>2. h * 256 + b + 1 = o
      BY <2>5
    <3>3. QED
      BY <2>7, <3>1, <3>2
  <2>10. pl[t.at + 1] >= 128
    BY <2>2, <2>5, <2>7
  <2>11. QED
    BY <1>1, <1>3, <2>1, <2>8, <2>9, <2>10
<1>4. QED
  BY <1>2, <1>3

LEMMA TokenMatch == BoundsInv /\ TokenInv /\ DecodeMatch => TokenInv'
<1> SUFFICES ASSUME BoundsInv, TokenInv, DecodeMatch, ~tampered PROVE TokenInv'
  BY DEF DecodeMatch, TokenInv
<1>1. /\ pc = "decode" /\ in_pos < Len(payload) /\ Tag >= 128
      /\ UNCHANGED <<input, mask_pos, payload, crcs, output, tampered, tokens, decoded>>
  BY DEF DecodeMatch
<1>2. Chained(tokens, payload, input) /\ Complete /\ Decoding
  BY <1>1 DEF TokenInv
<1>3. Len(payload) \in Nat /\ in_pos \in Nat /\ Len(output) \in Nat /\ Len(input) \in Nat
  BY LenProperties, InputFacts DEF BoundsInv, CodecTypes
<1>4. decoded # Len(tokens)
  BY <1>1, <1>3, EndOfTokens
<1>5. PICK t \in Token : /\ t = tokens[decoded + 1] /\ decoded < Len(tokens)
                         /\ Describes(t, payload, input)
                         /\ t.at = in_pos /\ t.pos = Len(output) /\ t.mask = mask_pos
  BY <1>1, <1>4, NextToken
<1>6. Tag = payload[t.at + 1] /\ payload[in_pos + 2] = payload[t.at + 2]
  BY <1>5 DEF Tag
<1>7. Tag \in Int
  <2>1. Tag \in Byte
    BY <1>1, TagType
  <2>2. QED
    BY <2>1 DEF Byte
<1>8. t.offset # 0
  BY <1>1, <1>5, <1>6, <1>7, TagOfToken
<1>9. /\ Reference(t, payload, input) /\ ((Tag \div 16) % 8) + 3 = t.len
      /\ (Tag % 16) * 256 + payload[in_pos + 2] + 1 = t.offset
  BY <1>5, <1>6, <1>8, TagOfToken
<1>10. PICK l \in Nat, o \in Nat : t.len = l /\ t.offset = o
  BY DEF Token
<1>11. in_pos + 2 <= Len(payload) /\ Len(output) + l <= Len(input) /\ o <= Len(output)
  <2>1. t.at + 2 <= Len(payload) /\ t.pos + t.len <= Len(input)
    BY <1>5, <1>8 DEF Describes, Size
  <2>2. t.offset <= t.pos
    BY <1>9 DEF Reference
  <2>3. QED
    BY <1>5, <1>10, <2>1, <2>2
<1>12. /\ ~(in_pos + 1 >= Len(payload)) /\ ~(o > Len(output))
       /\ ~(Len(output) + l > Len(input))
  BY <1>3, <1>11
<1>13. pc' = "copy" /\ in_pos' = in_pos + 2 /\ copy' = [left |-> l, offset |-> o]
  BY <1>9, <1>10, <1>12 DEF DecodeMatch
<1>14. Copying'
  <2>1. tokens'[decoded' + 1] = t /\ decoded' < Len(tokens') /\ Prefix'
    BY <1>1, <1>2, <1>5 DEF Decoding, Prefix
  <2>2. /\ copy'.offset = t.offset /\ copy'.left = t.len /\ copy'.left \in Nat
    BY <1>10, <1>13
  <2>3. in_pos' = t.at + 2 /\ mask_pos' = t.mask /\ Len(output') = t.pos
    BY <1>1, <1>5, <1>13
  <2>4. copy'.left <= t.len /\ t.pos = t.pos + t.len - copy'.left
    BY <1>3, <1>5, <1>10, <2>2
  <2>5. QED
    BY <1>8, <2>1, <2>2, <2>3, <2>4 DEF Copying
<1>15. Chained(tokens', payload', input') /\ Complete'
  BY <1>1, <1>2, CompleteKept
<1>16. QED
  BY <1>1, <1>13, <1>14, <1>15 DEF TokenInv

LEMMA TokenCopy == BoundsInv /\ TokenInv /\ CopyByte => TokenInv'
<1> SUFFICES ASSUME BoundsInv, TokenInv, CopyByte, ~tampered PROVE TokenInv'
  BY DEF CopyByte, TokenInv
<1>1. /\ pc = "copy" /\ output' = Append(output, output[Len(output) + 1 - copy.offset])
      /\ UNCHANGED <<input, in_pos, mask_pos, payload, crcs, tampered, tokens>>
  BY DEF CopyByte
<1>2. Chained(tokens, payload, input) /\ Complete /\ Copying
  BY <1>1 DEF TokenInv
<1>3. /\ output \in Seq(Byte) /\ Len(output) \in Nat /\ decoded \in Nat
      /\ tokens \in Seq(Token) /\ Len(tokens) \in Nat
      /\ copy.left \in Nat /\ copy.offset \in Nat
      /\ copy.left >= 1 /\ copy.offset >= 1 /\ copy.offset <= Len(output)
  BY <1>1, LenProperties DEF BoundsInv, CodecTypes, Places
<1>4. decoded + 1 \in 1 .. Len(tokens) /\ decoded < Len(tokens)
  BY <1>2, <1>3 DEF Copying
<1>5. PICK t \in Token : t = tokens[decoded + 1]
  BY <1>3, <1>4, ElementOfSeq
<1>6. /\ t.offset # 0 /\ copy.offset = t.offset /\ copy.left <= t.len
      /\ in_pos = t.at + 2 /\ mask_pos = t.mask
      /\ Len(output) = t.pos + t.len - copy.left
  BY <1>2, <1>5 DEF Copying
<1>7. Describes(t, payload, input)
  BY <1>2, <1>4, <1>5 DEF Chained
<1>8. \A i \in 1 .. t.len : input[t.pos + i] = input[t.pos + i - t.offset]
  BY <1>6, <1>7 DEF Describes, Reference
<1>9. PICK l \in Nat, o \in Nat, p \in Nat, left \in Nat :
        t.len = l /\ t.offset = o /\ t.pos = p /\ copy.left = left
  BY <1>3 DEF Token
<1>10. PICK n \in Nat : n = Len(output)
  BY <1>3
<1>11. n = p + l - left /\ left <= l /\ left >= 1 /\ o >= 1 /\ o <= n /\ copy.offset = o
  BY <1>3, <1>6, <1>9, <1>10
<1>12. input[n + 1] = input[n + 1 - o]
  <2>1. l - left + 1 \in 1 .. l /\ p + (l - left + 1) = n + 1
        /\ p + (l - left + 1) - o = n + 1 - o
    BY <1>11
  <2>2. input[p + (l - left + 1)] = input[p + (l - left + 1) - o]
    BY <1>8, <1>9, <2>1
  <2>3. QED
    BY <2>1, <2>2
<1>13. output[n + 1 - o] = input[n + 1 - o] /\ n + 1 - o \in 1 .. n
  <2>1. n + 1 - o \in 1 .. n
    BY <1>11
  <2>2. \A i \in 1 .. n : output[i] = input[i]
    BY <1>2, <1>10 DEF Copying, Prefix
  <2>3. QED
    BY <2>1, <2>2
<1>14. output' = Append(output, input[n + 1])
  BY <1>1, <1>10, <1>11, <1>12, <1>13
<1>15. input[n + 1] \in Byte
  <2>1. output[n + 1 - o] \in Byte
    BY <1>3, <1>10, <1>13, ElementOfSeq
  <2>2. QED
    BY <1>12, <1>13, <2>1
<1>16. /\ Len(output') = n + 1 /\ output'[n + 1] = input[n + 1]
       /\ \A i \in 1 .. n : output'[i] = output[i]
  BY <1>3, <1>10, <1>14, <1>15, AppendProperties
<1>17. Prefix'
  <2>1. \A i \in 1 .. n : output[i] = input[i]
    BY <1>2, <1>10 DEF Copying, Prefix
  <2>2. \A i \in 1 .. n + 1 : i \in 1 .. n \/ i = n + 1
    BY <1>10
  <2>3. \A i \in 1 .. n + 1 : output'[i] = input[i]
    BY <1>16, <2>1, <2>2
  <2>4. QED
    BY <1>1, <1>16, <2>3 DEF Prefix
<1>18. Chained(tokens', payload', input') /\ Complete'
  BY <1>1, <1>2, CompleteKept
<1>19. CASE copy.left = 1
  <2>1. pc' = "decode" /\ decoded' = decoded + 1
    BY <1>19 DEF CopyByte
  <2>2. decoded' # 0 /\ decoded' <= Len(tokens') /\ tokens'[decoded'] = t
    BY <1>1, <1>3, <1>4, <1>5, <2>1
  <2>3. Len(output') = t.pos + t.len
    <3>1. n + 1 = p + l
      BY <1>9, <1>11, <1>19
    <3>2. QED
      BY <1>9, <1>16, <3>1
  <2>4. in_pos' = t.at + Size(t) /\ mask_pos' = t.mask + 0
    <3>1. t.mask \in Nat
      BY DEF Token
    <3>2. QED
      BY <1>1, <1>6, <3>1 DEF Size
  <2>5. Decoding'
    BY <1>6, <1>17, <2>2, <2>3, <2>4 DEF Decoding, AtAfter, PosAfter, MaskAfter
  <2>6. QED
    BY <1>18, <2>1, <2>5 DEF TokenInv
<1>20. CASE copy.left # 1
  <2>1. copy' = [copy EXCEPT !.left = @ - 1] /\ UNCHANGED <<pc, decoded>>
    BY <1>20 DEF CopyByte
  <2>2. copy'.left = left - 1 /\ copy'.offset = o
    BY <1>9, <1>11, <2>1 DEF BoundsInv, CodecTypes
  <2>3. copy'.left <= t.len /\ Len(output') = t.pos + t.len - copy'.left
    <3>1. left - 1 <= l /\ n + 1 = p + l - (left - 1)
      BY <1>11
    <3>2. QED
      BY <1>9, <1>16, <2>2, <3>1
  <2>4. tokens'[decoded' + 1] = t /\ decoded' < Len(tokens')
    BY <1>1, <1>4, <1>5, <2>1
  <2>5. Copying'
    BY <1>1, <1>6, <1>9, <1>17, <2>2, <2>3, <2>4 DEF Copying
  <2>6. QED
    BY <1>1, <1>18, <2>1, <2>5 DEF TokenInv
<1>21. QED
  BY <1>19, <1>20

LEMMA TokenLiterals == BoundsInv /\ TokenInv /\ DecodeLiterals => TokenInv'
<1>0. DecodeLiterals => tampered' = tampered
  BY DEF DecodeLiterals
<1> SUFFICES ASSUME BoundsInv, TokenInv, DecodeLiterals, ~tampered PROVE TokenInv'
  BY <1>0 DEF TokenInv
<1>1. /\ pc = "decode" /\ in_pos < Len(payload) /\ Tag < 128
      /\ UNCHANGED <<input, payload, crcs, copy, tampered, tokens>>
  BY DEF DecodeLiterals
<1>2. Chained(tokens, payload, input) /\ Complete /\ Decoding
  BY <1>1 DEF TokenInv
<1>3. /\ Len(payload) \in Nat /\ in_pos \in Nat /\ Len(input) \in Nat /\ decoded \in Nat
      /\ output \in Seq(Byte) /\ Len(output) \in Nat /\ mask_pos \in Nat /\ input \in Inputs
  BY LenProperties, InputFacts DEF BoundsInv, CodecTypes
<1>4. decoded # Len(tokens)
  BY <1>1, <1>3, EndOfTokens
<1>5. PICK t \in Token : /\ t = tokens[decoded + 1] /\ decoded < Len(tokens)
                         /\ Describes(t, payload, input)
                         /\ t.at = in_pos /\ t.pos = Len(output) /\ t.mask = mask_pos
  BY <1>1, <1>4, NextToken
<1>6. Tag = payload[t.at + 1]
  BY <1>5 DEF Tag
<1>7. Tag \in Int
  <2>1. Tag \in Byte
    BY <1>1, TagType
  <2>2. QED
    BY <2>1 DEF Byte
<1>8. t.offset = 0
  BY <1>1, <1>5, <1>6, <1>7, TagOfToken
<1>9. Tag = t.len - 1 /\ Literal(t, payload, input)
  BY <1>5, <1>6, <1>8, TagOfToken
<1>10. PICK l \in Nat : t.len = l
  BY DEF Token
<1>11. /\ in_pos + 1 + l <= Len(payload) /\ Len(output) + l <= Len(input)
       /\ mask_pos + l <= Len(Mask) /\ Tag + 1 = l
       /\ \A i \in 1 .. l : payload[in_pos + 1 + i] =
                              BitXor(input[Len(output) + i], Mask[mask_pos + i])
  <2>1. t.at + (1 + l) <= Len(payload) /\ t.pos + l <= Len(input)
    BY <1>5, <1>8, <1>10 DEF Describes, Size
  <2>2. /\ t.mask + l <= Len(Mask)
        /\ \A i \in 1 .. l : payload[t.at + 1 + i] = BitXor(input[t.pos + i], Mask[t.mask + i])
    BY <1>9, <1>10 DEF Literal
  <2>3. in_pos + 1 + l <= Len(payload) /\ Tag + 1 = l
    BY <1>3, <1>5, <1>9, <1>10, <2>1
  <2>4. QED
    BY <1>5, <2>1, <2>2, <2>3
<1>12. /\ output' = output \o Unmasked(l)
       /\ in_pos' = in_pos + 1 + l /\ mask_pos' = mask_pos + l
       /\ decoded' = decoded + 1 /\ pc' = pc
  <2>1. ~(in_pos + 1 + l > Len(payload)) /\ ~(Len(output) + l > Len(input))
    BY <1>3, <1>11
  <2>2. Tag + 1 = l
    BY <1>11
  <2>3. QED
    BY <2>1, <2>2 DEF DecodeLiterals, Unmasked
<1>13. Unmasked(l) \in Seq(Byte) /\ Len(Unmasked(l)) = l
  BY <1>11, UnmaskedFacts
<1>14. ASSUME NEW i \in 1 .. l PROVE Unmasked(l)[i] = input[Len(output) + i]
  <2>1. Len(output) + i \in 1 .. Len(input) /\ mask_pos + i \in 1 .. Len(Mask)
    <3>1. Len(Mask) \in Nat
      BY <1>3, InputFacts
    <3>2. QED
      BY <1>3, <1>11, <3>1
  <2>2. input[Len(output) + i] \in Byte
    BY <1>3, <2>1, InputFacts
  <2>3. BitXor(BitXor(input[Len(output) + i], Mask[mask_pos + i]), Mask[mask_pos + i])
          = input[Len(output) + i]
    BY <2>1, <2>2, XorFacts
  <2>4. Unmasked(l)[i] = BitXor(payload[in_pos + 1 + i], Mask[mask_pos + i])
    BY DEF Unmasked
  <2>5. QED
    BY <1>11, <2>3, <2>4
<1>15. /\ Len(output') = Len(output) + l
       /\ \A i \in 1 .. l : output'[Len(output) + i] = input[Len(output) + i]
  <2>1. /\ Len(output') = Len(output) + Len(Unmasked(l))
        /\ \A i \in 1 .. Len(Unmasked(l)) : output'[Len(output) + i] = Unmasked(l)[i]
    BY <1>3, <1>12, <1>13, ConcatTail
  <2>2. QED
    BY <1>13, <1>14, <2>1
<1>16. \A i \in 1 .. Len(output) : output'[i] = output[i]
  BY <1>3, <1>12, <1>13, ConcatProperties
<1>17. Prefix'
  <2>1. PICK n \in Nat : n = Len(output)
    BY <1>3
  <2>2. ASSUME NEW i \in 1 .. n + l PROVE output'[i] = input[i]
    <3>1. CASE i \in 1 .. n
      <4>1. output'[i] = output[i]
        BY <1>16, <2>1, <3>1
      <4>2. output[i] = input[i]
        BY <1>2, <2>1, <3>1 DEF Decoding, Prefix
      <4>3. QED
        BY <4>1, <4>2
    <3>2. CASE i \notin 1 .. n
      <4>1. i - n \in 1 .. l /\ n + (i - n) = i
        BY <3>2
      <4>2. output'[n + (i - n)] = input[n + (i - n)]
        BY <1>15, <2>1, <4>1
      <4>3. QED
        BY <4>1, <4>2
    <3>3. QED
      BY <3>1, <3>2
  <2>3. Len(output') = n + l
    BY <1>15, <2>1
  <2>4. QED
    BY <1>1, <2>2, <2>3 DEF Prefix
<1>18. Decoding'
  <2>1. decoded' # 0 /\ decoded' <= Len(tokens') /\ tokens'[decoded'] = t
    <3>1. Len(tokens) \in Nat
      BY LenProperties DEF BoundsInv, CodecTypes
    <3>2. QED
      BY <1>1, <1>3, <1>5, <1>12, <3>1
  <2>2. in_pos' = t.at + Size(t)
    BY <1>3, <1>5, <1>8, <1>10, <1>12 DEF Size
  <2>3. mask_pos' = t.mask + t.len /\ Len(output') = t.pos + t.len
    BY <1>5, <1>10, <1>12, <1>15
  <2>4. QED
    BY <1>8, <1>17, <2>1, <2>2, <2>3 DEF Decoding, AtAfter, PosAfter, MaskAfter
<1>19. Chained(tokens', payload', input') /\ Complete'
  BY <1>1, <1>2, CompleteKept
<1>20. QED
  BY <1>1, <1>12, <1>18, <1>19 DEF TokenInv

LEMMA TokenEnd == BoundsInv /\ TokenInv /\ DecodeEnds => TokenInv'
<1> SUFFICES ASSUME BoundsInv, TokenInv, DecodeEnds, ~tampered PROVE TokenInv'
  BY DEF DecodeEnds, TokenInv
<1>1. /\ pc = "decode" /\ in_pos = Len(payload)
      /\ UNCHANGED <<input, in_pos, mask_pos, payload, crcs, output, copy, tampered, tokens,
                     decoded>>
  BY DEF DecodeEnds
<1>2. Complete /\ Decoding /\ decoded = Len(tokens)
  BY <1>1, EndOfTokens DEF TokenInv
<1>3. Len(output) = Len(input) /\ Prefix
  BY <1>2 DEF Complete, Decoding
<1>4. output = input
  <2>1. output \in Seq(Byte) /\ input \in Seq(Byte)
    BY InputFacts DEF BoundsInv, CodecTypes
  <2>2. QED
    BY <1>3, <2>1, SeqEqual DEF Prefix
<1>5. pc' = "ok"
  BY <1>2, <1>4 DEF DecodeEnds, Complete
<1>6. QED
  BY <1>1, <1>4, <1>5 DEF TokenInv

-----------------------------------------------------------------------------
(* The round trip: the buffer of max_encoded_size bytes                    *)

LEMMA DivFacts ==
  ASSUME NEW y \in Nat, NEW m \in Nat, m >= 1
  PROVE  /\ y \div m \in Nat /\ (y \div m) * m <= y /\ y < (y \div m) * m + m
  BY SMTT(30)

LEMMA TimesMonotone ==
  ASSUME NEW x \in Int, NEW y \in Int, NEW m \in Nat, x <= y
  PROVE  x * m <= y * m
  BY SMTT(30)

LEMMA DivBound ==
  ASSUME NEW x \in Int, NEW y \in Nat, NEW m \in Nat, m >= 1, x * m <= y
  PROVE  x <= y \div m
<1>1. PICK q \in Nat : q = y \div m /\ q * m <= y /\ y < q * m + m
  BY DivFacts
<1>2. ASSUME q + 1 <= x PROVE FALSE
  <2>1. (q + 1) * m <= x * m
    BY <1>2, TimesMonotone
  <2>2. (q + 1) * m = q * m + m
    BY SMTT(30)
  <2>3. q * m \in Int /\ x * m \in Int
    OBVIOUS
  <2>4. QED
    BY <1>1, <2>1, <2>2, <2>3
<1>3. QED
  BY <1>1, <1>2

LEMMA DivMonotone ==
  ASSUME NEW x \in Nat, NEW y \in Nat, NEW m \in Nat, m >= 1, x <= y
  PROVE  x \div m <= y \div m
<1>1. PICK q \in Nat : q = x \div m /\ q * m <= x
  BY DivFacts
<1>2. q * m <= y
  <2>1. q * m \in Int
    OBVIOUS
  <2>2. QED
    BY <1>1, <2>1
<1>3. QED
  BY <1>1, <1>2, DivBound

\* A back reference of l bytes, after P bytes of payload for p of the script.
LEMMA MatchFits ==
  ASSUME NEW P \in Nat, NEW p \in Nat, NEW l \in Nat, NEW L \in Nat, NEW m \in Nat,
         NEW short \in {0, 1}, NEW slack \in Nat, m >= 1, l >= 4, p + l <= L,
         (P - p - short) * m <= p
  PROVE  P + 2 <= L + L \div m + slack /\ ((P + 2) - (p + l) - 0) * m <= p + l
<1>1. P - p - short <= p \div m /\ p \div m <= L \div m /\ L \div m \in Nat /\ p \div m \in Nat
  BY DivBound, DivMonotone, DivFacts
<1>2. PICK a \in Nat, b \in Nat : a = p \div m /\ b = L \div m
  BY <1>1
<1>3. P + 2 <= L + b + slack
  BY <1>1, <1>2
<1>4. ((P + 2) - (p + l) - 0) * m <= (P - p - short) * m
  BY TimesMonotone
<1>5. ((P + 2) - (p + l) - 0) * m \in Int /\ (P - p - short) * m \in Int
  OBVIOUS
<1>6. QED
  BY <1>2, <1>3, <1>4, <1>5

\* A literal run of n bytes, when no tag is outstanding.
LEMMA LiteralsFit ==
  ASSUME NEW P \in Nat, NEW p \in Nat, NEW n \in Nat, NEW L \in Nat, NEW m \in Nat,
         NEW slack \in Nat, m >= 1, slack >= 1, p + n <= L, (P - p - 0) * m <= p
  PROVE  /\ P + (n + 1) <= L + L \div m + slack
         /\ ((P + (n + 1)) - (p + n) - 1) * m <= p + n
         /\ n = m => ((P + (n + 1)) - (p + n) - 0) * m <= p + n
<1>1. P - p - 0 <= p \div m /\ p \div m <= L \div m /\ L \div m \in Nat /\ p \div m \in Nat
  BY DivBound, DivMonotone, DivFacts
<1>2. PICK a \in Nat, b \in Nat : a = p \div m /\ b = L \div m
  BY <1>1
<1>3. P + (n + 1) <= L + b + slack
  BY <1>1, <1>2
<1>4. PICK d \in Int : d = P - p - 0
  OBVIOUS
<1>5. (P + (n + 1)) - (p + n) - 1 = d /\ (P + (n + 1)) - (p + n) - 0 = d + 1
  BY <1>4
<1>6. d * m \in Int /\ d * m <= p /\ (d + 1) * m = d * m + m
  BY <1>4, SMTT(30)
<1>7. d * m <= p + n /\ (n = m => (d + 1) * m <= p + n)
  BY <1>6
<1>8. QED
  BY <1>2, <1>3, <1>5, <1>7

LEMMA FitsEncode == BoundsInv /\ Fits /\ (EncodeMatch \/ EncodeLiterals) => Fits'
<1> SUFFICES ASSUME BoundsInv, Fits, EncodeMatch \/ EncodeLiterals PROVE Fits'
  OBVIOUS
<1>1. /\ pc = "encode" /\ in_pos < Len(input)
      /\ UNCHANGED <<input, crcs, output, copy, tampered, decoded>>
  BY DEF EncodeMatch, EncodeLiterals
<1>2. PICK P \in Nat, p \in Nat, L \in Nat : P = Len(payload) /\ p = in_pos /\ L = Len(input)
  BY LenProperties, InputFacts DEF BoundsInv, CodecTypes
<1>3. MaxLiteral \in Nat /\ MaxLiteral >= 1 /\ Slack \in Nat /\ Slack >= 1
  BY CodecAssumption
<1>4. PICK short \in {0, 1} :
        /\ (P - p - short) * MaxLiteral <= p
        /\ short = 1 => p = L \/ Matches(p) # {}
  BY <1>1, <1>2 DEF Fits
<1>5. MaxEncodedSize(Len(input)) = L + L \div MaxLiteral + Slack
  BY <1>2 DEF MaxEncodedSize
<1>6. payload \in Seq(Byte)
  BY DEF BoundsInv, CodecTypes
<1>7. CASE EncodeMatch
  <2>1. PICK m \in Matches(in_pos) : Emit(TagBytes(m), m.len, m.offset)
    BY <1>7 DEF EncodeMatch
  <2>2. PICK l \in Nat : m.len = l /\ l >= 4 /\ p + l <= L
    BY <1>2, MatchFacts
  <2>3. TagBytes(m) \in Seq(Byte) /\ Len(TagBytes(m)) = 2
    BY <1>2, MatchFacts, TagFacts
  <2>4. /\ P + 2 <= L + L \div MaxLiteral + Slack
        /\ ((P + 2) - (p + l) - 0) * MaxLiteral <= p + l
    BY <1>3, <1>4, <2>2, MatchFits
  <2>5. ~(Len(payload) + Len(TagBytes(m)) > MaxEncodedSize(Len(input)))
    <3>1. L \div MaxLiteral \in Nat
      BY <1>3, DivFacts
    <3>2. QED
      BY <1>2, <1>3, <1>5, <2>3, <2>4, <3>1
  <2>6. payload' = payload \o TagBytes(m) /\ in_pos' = p + l /\ pc' = "encode"
    BY <1>1, <1>2, <2>1, <2>2, <2>5 DEF Emit
  <2>7. Len(payload') = P + 2
    <3>1. Len(payload \o TagBytes(m)) = Len(payload) + Len(TagBytes(m))
      BY <1>6, <2>3, ConcatTail, Zenon
    <3>2. QED
      BY <1>2, <2>3, <2>6, <3>1
  <2>8. (Len(payload') - in_pos' - 0) * MaxLiteral <= in_pos'
    BY <2>4, <2>6, <2>7
  <2>9. QED
    BY <2>6, <2>8 DEF Fits
<1>8. CASE EncodeLiterals
  <2>1. PICK n \in 1 .. MaxLiteral : LiteralRun(n) /\ Emit(LiteralBytes(n), n, 0)
    BY <1>8 DEF EncodeLiterals
  <2>2. n \in Nat /\ n >= 1
    BY LimitFacts
  <2>3. /\ p + n <= L /\ Matches(p) = {}
        /\ n = MaxLiteral \/ p + n = L \/ Matches(p + n) # {}
    <3>1. /\ \A i \in 0 .. n - 1 : Matches(p + i) = {}
          /\ p + n <= L /\ (n = MaxLiteral \/ p + n = L \/ Matches(p + n) # {})
      BY <1>2, <2>1 DEF LiteralRun
    <3>2. 0 \in 0 .. n - 1 /\ p + 0 = p
      BY <2>2
    <3>3. QED
      BY <3>1, <3>2
  <2>4. short = 0
    BY <1>1, <1>2, <1>4, <2>3
  <2>5. /\ P + (n + 1) <= L + L \div MaxLiteral + Slack
        /\ ((P + (n + 1)) - (p + n) - 1) * MaxLiteral <= p + n
        /\ n = MaxLiteral => ((P + (n + 1)) - (p + n) - 0) * MaxLiteral <= p + n
    BY <1>3, <1>4, <2>2, <2>3, <2>4, LiteralsFit
  <2>6. LiteralBytes(n) \in Seq(Byte) /\ Len(LiteralBytes(n)) = n + 1
    <3>1. in_pos \in Nat /\ mask_pos \in Nat /\ mask_pos <= in_pos /\ input \in Inputs
          /\ in_pos + n <= Len(input)
      BY <1>1, <1>2, <2>3 DEF BoundsInv, CodecTypes, Places
    <3>2. QED
      BY <3>1, LiteralFacts
  <2>7. ~(Len(payload) + Len(LiteralBytes(n)) > MaxEncodedSize(Len(input)))
    <3>1. L \div MaxLiteral \in Nat
      BY <1>3, DivFacts
    <3>2. QED
      BY <1>2, <1>3, <1>5, <2>2, <2>5, <2>6, <3>1
  <2>8. payload' = payload \o LiteralBytes(n) /\ in_pos' = p + n /\ pc' = "encode"
    BY <1>1, <1>2, <2>1, <2>7 DEF Emit
  <2>9. Len(payload') = P + (n + 1) /\ Len(input') = L
    <3>1. Len(payload \o LiteralBytes(n)) = Len(payload) + Len(LiteralBytes(n))
      BY <1>6, <2>6, ConcatTail, Zenon
    <3>2. QED
      BY <1>1, <1>2, <2>6, <2>8, <3>1
  <2>10. CASE n = MaxLiteral
    <3>1. (Len(payload') - in_pos' - 0) * MaxLiteral <= in_pos'
      BY <2>5, <2>8, <2>9, <2>10
    <3>2. QED
      BY <2>8, <3>1 DEF Fits
  <2>11. CASE n # MaxLiteral
    <3>1. (Len(payload') - in_pos' - 1) * MaxLiteral <= in_pos'
      BY <2>5, <2>8, <2>9
    <3>2. in_pos' = Len(input') \/ Matches(in_pos') # {}
      BY <2>3, <2>8, <2>9, <2>11
    <3>3. in_pos' = Len(input') \/ Matches(in_pos)' # {}
      BY <1>1, <3>2 DEF Matches
    <3>4. QED
      BY <2>8, <3>1, <3>3 DEF Fits
  <2>12. QED
    BY <2>10, <2>11
<1>9. QED
  BY <1>7, <1>8

LEMMA TripStep == TripInv /\ [CodecNext]_codecVars => TripInv'
<1> SUFFICES ASSUME BoundsInv, TokenInv, Fits, [CodecNext]_codecVars PROVE TripInv'
  BY DEF TripInv
<1>1. BoundsInv'
  BY BoundsStep
<1>2. TokenInv'
  <2>1. CASE UNCHANGED codecVars
    <3>1. UNCHANGED <<input, pc, in_pos, mask_pos, payload, crcs, output, copy, tampered,
                      tokens, decoded>>
      BY <2>1 DEF codecVars
    <3>2. Complete => Complete'
      <4>1. Checksum(input)' = Checksum(input) /\ Checksum(payload)' = Checksum(payload)
        BY <3>1 DEF Checksum
      <4>2. QED
        BY <3>1, <4>1 DEF Complete, AtAfter, PosAfter, Size
    <3>3. (Encoding => Encoding') /\ (Decoding => Decoding') /\ (Copying => Copying')
      BY <3>1 DEF Encoding, Decoding, Copying, Prefix
    <3>4. Chained(tokens, payload, input) => Chained(tokens', payload', input')
      BY <3>1
    <3>5. QED
      BY <3>1, <3>2, <3>3, <3>4 DEF TokenInv
  <2>2. QED
    BY <2>1, TokenEncodeMatch, TokenEncodeLiterals, TokenEncodeEnds, TokenTamper,
       TokenStarts, TokenMatch, TokenCopy, TokenLiterals, TokenEnd DEF CodecNext
<1>3. Fits'
  <2>1. CASE UNCHANGED codecVars
    BY <2>1 DEF codecVars, Fits, Matches
  <2>2. CASE EncodeEnds \/ Tamper \/ DecodeStarts \/ DecodeEnds
    BY <2>2 DEF EncodeEnds, Tamper, DecodeStarts, DecodeEnds, Fits
  <2>3. CASE DecodeMatch \/ CopyByte \/ DecodeLiterals
    <3>1. pc' \in {"decode", "copy", "corrupted_data"}
      BY <2>3 DEF DecodeMatch, CopyByte, DecodeLiterals
    <3>2. QED
      BY <3>1 DEF Fits
  <2>4. QED
    BY <2>1, <2>2, <2>3, FitsEncode DEF CodecNext
<1>4. QED
  BY <1>1, <1>2, <1>3 DEF TripInv

LEMMA TripInit == CodecInit => TripInv
<1> SUFFICES ASSUME CodecInit PROVE TripInv
  OBVIOUS
<1>1. BoundsInv
  BY BoundsInit
<1>2. Len(tokens) = 0 /\ Len(payload) = 0
  BY DEF CodecInit
<1>3. TokenInv
  BY <1>2 DEF CodecInit, TokenInv, Chained, Encoding, AtAfter, PosAfter, MaskAfter
<1>4. Fits
  <2>1. in_pos = 0 /\ MaxLiteral \in Nat
    BY CodecAssumption DEF CodecInit
  <2>2. (Len(payload) - in_pos - 0) * MaxLiteral <= in_pos
    BY <1>2, <2>1
  <2>3. QED
    BY <2>2 DEF CodecInit, Fits
<1>5. QED
  BY <1>1, <1>3, <1>4 DEF TripInv

\* For every script: encode never runs out of the buffer that max_encoded_size
\* asks for, and decode gives back the script from the payload it wrote.
THEOREM EncodeThenDecode == CodecSpec => []RoundTrip
<1>1. TripInv => RoundTrip
  BY DEF TripInv, TokenInv, Fits, RoundTrip
<1>2. QED
  BY <1>1, TripInit, TripStep, PTL DEF CodecSpec

-----------------------------------------------------------------------------
(* Damage                                                                  *)

\* The hash of a prefix, which Checksum defines by recursion.
Hashing(hash, data) ==
  /\ hash \in [0 .. Len(data) -> Hashes] /\ hash[0] = HashBasis
  /\ \A n \in 1 .. Len(data) : hash[n] = HashByte(hash[n - 1], data[n])

\* Different hashes stay different, and different bytes make them different.
LEMMA HashFacts ==
  ASSUME NEW h \in Hashes, NEW b \in Byte
  PROVE  /\ HashByte(h, b) \in Hashes
         /\ \A g \in Hashes : HashByte(g, b) = HashByte(h, b) => g = h
         /\ \A c \in Byte : HashByte(h, c) = HashByte(h, b) => c = b
<1>1. \A g \in Hashes, c \in Byte : /\ BitXor(g, c) \in Hashes
                                    /\ BitXor(BitXor(g, c), c) = g
                                    /\ BitXor(g, BitXor(g, c)) = c
  BY HashAssumption
<1>2. \A g \in Hashes : Times(g) \in Hashes
  <2> SUFFICES ASSUME NEW g \in Hashes PROVE Times(g) \in Hashes
    OBVIOUS
  <2>1. g \in Int /\ HashPrime \in Int /\ HashModulus \in Nat \ {0}
    BY HashAssumption DEF Hashes
  <2>2. g * HashPrime \in Int
    BY <2>1
  <2> DEFINE x == g * HashPrime
  <2>3. x \in Int
    BY <2>2
  <2> HIDE DEF x
  <2>4. x % HashModulus \in 0 .. HashModulus - 1
    BY <2>1, <2>3
  <2>5. QED
    BY <2>4 DEF Times, Hashes, x
<1>3. \A g, k \in Hashes : Times(g) = Times(k) => g = k
  BY HashAssumption
<1>4. HashByte(h, b) \in Hashes
  BY <1>1, <1>2 DEF HashByte
<1>5. ASSUME NEW g \in Hashes, HashByte(g, b) = HashByte(h, b) PROVE g = h
  <2>1. BitXor(g, b) = BitXor(h, b)
    BY <1>1, <1>3, <1>5 DEF HashByte
  <2>2. QED
    BY <1>1, <2>1
<1>6. ASSUME NEW c \in Byte, HashByte(h, c) = HashByte(h, b) PROVE c = b
  <2>1. BitXor(h, c) = BitXor(h, b)
    BY <1>1, <1>3, <1>6 DEF HashByte
  <2>2. QED
    BY <1>1, <2>1
<1>7. QED
  BY <1>4, <1>5, <1>6

LEMMA ChecksumHashes ==
  ASSUME NEW data \in Seq(Byte)
  PROVE  \E hash : Hashing(hash, data) /\ Checksum(data) = hash[Len(data)]
<1> DEFINE L == Len(data)
           g == [n \in 1 .. L |-> [h \in Hashes |-> HashByte(h, data[n])]]
           F(f) == f = [n \in 0 .. L |-> IF n = 0 THEN HashBasis ELSE HashByte(f[n - 1], data[n])]
           u == CHOOSE f : F(f)
<1>1. L \in Nat /\ \A n \in 1 .. L : data[n] \in Byte
  BY LenProperties, ElementOfSeq
<1>2. IsStep(g, L, Hashes) /\ HashBasis \in Hashes
  BY <1>1, HashFacts, HashAssumption DEF IsStep
<1>3. \E f : Unfolds(f, HashBasis, g, L, Hashes)
  <2> HIDE DEF g, L
  <2>1. QED
    BY <1>1, <1>2, FiniteRecursion
<1>4. PICK f : Unfolds(f, HashBasis, g, L, Hashes)
  BY <1>3
<1> HIDE DEF L
<1>5. f \in [0 .. L -> Hashes] /\ f[0] = HashBasis
      /\ \A n \in 1 .. L : f[n] = HashByte(f[n - 1], data[n])
  <2>1. \A n \in 1 .. L : n - 1 \in 0 .. L
    BY <1>1
  <2>2. QED
    BY <2>1, <1>4 DEF Unfolds
<1>6. F(f)
  <2>1. \A n \in 0 .. L : n = 0 \/ n \in 1 .. L
    BY <1>1
  <2>2. \A n \in 0 .. L : f[n] = IF n = 0 THEN HashBasis ELSE HashByte(f[n - 1], data[n])
    BY <2>1, <1>5
  <2>3. f = [n \in 0 .. L |-> f[n]]
    BY <1>5
  <2>4. QED
    BY <2>2, <2>3
<1>7. F(u)
  BY <1>6
<1>8. Checksum(data) = u[L]
  BY DEF Checksum, L
<1> HIDE DEF u
<1>9. DOMAIN u = 0 .. L /\ u[0] = HashBasis
      /\ \A n \in 1 .. L : u[n] = HashByte(u[n - 1], data[n])
  <2>1. 0 \in 0 .. L /\ \A n \in 1 .. L : n \in 0 .. L /\ n # 0
    BY <1>1
  <2>2. \A n \in 0 .. L : u[n] = IF n = 0 THEN HashBasis ELSE HashByte(u[n - 1], data[n])
    BY <1>7
  <2>3. DOMAIN u = 0 .. L
    BY <1>7
  <2>4. QED
    BY <2>1, <2>2, <2>3
<1> HIDE DEF F
<1> DEFINE T == {n \in Nat : n <= L => u[n] \in Hashes}
<1>10. 0 \in T
  BY <1>2, <1>9
<1>11. \A n \in Nat : n \in T => n + 1 \in T
  <2> SUFFICES ASSUME NEW n \in Nat, n \in T, n + 1 <= L PROVE u[n + 1] \in Hashes
    BY <1>1
  <2>1. n + 1 \in 1 .. L /\ (n + 1) - 1 = n /\ n <= L
    BY <1>1
  <2>2. u[n + 1] = HashByte(u[n], data[n + 1]) /\ u[n] \in Hashes
    BY <2>1, <1>9
  <2>3. QED
    BY <2>1, <2>2, <1>1, HashFacts
<1>12. Nat \subseteq T
  <2> HIDE DEF T
  <2>1. QED
    BY <1>10, <1>11, NatInd
<1>13. \A n \in 0 .. L : u[n] \in Hashes
  <2> SUFFICES ASSUME NEW n \in 0 .. L PROVE u[n] \in Hashes
    OBVIOUS
  <2>1. n \in Nat /\ n <= L
    BY <1>1
  <2>2. n \in T
    <3> HIDE DEF T
    <3>1. QED
      BY <1>12, <2>1
  <2>3. QED
    BY <2>1, <2>2
<1>14. u \in [0 .. L -> Hashes]
  <2>1. u = [n \in 0 .. L |-> u[n]]
    BY <1>7 DEF F
  <2>2. QED
    BY <2>1, <1>13
<1>15. QED
  BY <1>8, <1>9, <1>14 DEF Hashing, L

\* Data that differ in one byte have different checksums.
LEMMA ChecksumTells ==
  ASSUME NEW data \in Seq(Byte), NEW k \in DOMAIN data, NEW b \in Byte, b # data[k]
  PROVE  Checksum([data EXCEPT ![k] = b]) # Checksum(data)
<1> DEFINE other == [data EXCEPT ![k] = b]
           L == Len(data)
<1>1. L \in Nat /\ DOMAIN data = 1 .. L /\ \A n \in 1 .. L : data[n] \in Byte
  BY LenProperties, ElementOfSeq
<1>2. /\ other \in Seq(Byte) /\ Len(other) = L /\ other[k] = b
      /\ \A n \in 1 .. L : n # k => other[n] = data[n]
  <2>1. other \in [1 .. L -> Byte]
    BY <1>1
  <2>2. other[k] = b /\ \A n \in 1 .. L : n # k => other[n] = data[n]
    BY <1>1
  <2> HIDE DEF other
  <2>3. QED
    BY <1>1, <2>1, <2>2, FunctionIsSeq
<1> HIDE DEF other, L
<1>3. PICK h : Hashing(h, data) /\ Checksum(data) = h[L]
  BY ChecksumHashes DEF L
<1>4. PICK g : Hashing(g, other) /\ Checksum(other) = g[L]
  BY <1>2, ChecksumHashes
<1>5. /\ h \in [0 .. L -> Hashes] /\ h[0] = HashBasis
      /\ \A n \in 1 .. L : h[n] = HashByte(h[n - 1], data[n])
      /\ g \in [0 .. L -> Hashes] /\ g[0] = HashBasis
      /\ \A n \in 1 .. L : g[n] = HashByte(g[n - 1], other[n])
  BY <1>2, <1>3, <1>4 DEF Hashing, L
<1> DEFINE T == {n \in Nat : n <= L => (g[n] = h[n] <=> n < k)}
<1>6. k \in 1 .. L /\ k \in Nat
  BY <1>1
<1>7. 0 \in T
  BY <1>5, <1>6
<1>8. \A n \in Nat : n \in T => n + 1 \in T
  <2> SUFFICES ASSUME NEW n \in Nat, n \in T, n + 1 <= L
               PROVE  g[n + 1] = h[n + 1] <=> n + 1 < k
    BY <1>1
  <2>1. n + 1 \in 1 .. L /\ (n + 1) - 1 = n /\ n \in 0 .. L /\ n <= L
    BY <1>1
  <2>2. /\ g[n] \in Hashes /\ h[n] \in Hashes /\ (g[n] = h[n] <=> n < k)
        /\ g[n + 1] = HashByte(g[n], other[n + 1]) /\ h[n + 1] = HashByte(h[n], data[n + 1])
        /\ other[n + 1] \in Byte /\ data[n + 1] \in Byte
    <3>1. (g[n] = h[n]) <=> n < k
      BY <2>1
    <3>2. g[n] \in Hashes /\ h[n] \in Hashes
      BY <2>1, <1>5
    <3>3. g[n + 1] = HashByte(g[n], other[n + 1]) /\ h[n + 1] = HashByte(h[n], data[n + 1])
      BY <2>1, <1>5
    <3>4. other[n + 1] \in Byte /\ data[n + 1] \in Byte
      BY <2>1, <1>1, <1>2
    <3>5. QED
      BY <3>1, <3>2, <3>3, <3>4
  <2>3. CASE n + 1 < k
    <3>1. n < k /\ n + 1 # k
      BY <2>3, <1>6
    <3>2. g[n] = h[n] /\ other[n + 1] = data[n + 1]
      BY <3>1, <2>1, <2>2, <1>2
    <3>3. QED
      BY <2>2, <2>3, <3>2
  <2>4. CASE n + 1 = k
    <3>1. n < k
      BY <2>4
    <3>2. g[n] = h[n] /\ other[n + 1] # data[n + 1]
      BY <3>1, <2>2, <2>4, <1>2
    <3>3. g[n + 1] # h[n + 1]
      <4>1. \A c \in Byte : HashByte(h[n], c) = HashByte(h[n], data[n + 1]) => c = data[n + 1]
        BY <2>2, HashFacts
      <4>2. QED
        BY <4>1, <2>2, <3>2
    <3>4. QED
      BY <2>4, <3>3
  <2>5. CASE n + 1 > k
    <3>1. ~(n < k) /\ n + 1 # k /\ ~(n + 1 < k)
      BY <2>5, <1>6
    <3>2. g[n] # h[n] /\ other[n + 1] = data[n + 1]
      BY <3>1, <2>1, <2>2, <1>2
    <3>3. g[n + 1] # h[n + 1]
      <4>1. \A f \in Hashes : HashByte(f, data[n + 1]) = HashByte(h[n], data[n + 1]) => f = h[n]
        BY <2>2, HashFacts
      <4>2. QED
        BY <4>1, <2>2, <3>2
    <3>4. QED
      BY <3>1, <3>3
  <2>6. QED
    BY <2>3, <2>4, <2>5, <1>6
<1>9. L \in T
  <2> HIDE DEF T
  <2>1. QED
    BY <1>1, <1>7, <1>8, NatInd
<1>10. g[L] # h[L]
  BY <1>1, <1>6, <1>9
<1>11. QED
  BY <1>3, <1>4, <1>10 DEF other

\* While the payload is stored, it has its checksum until it is damaged, and
\* another one from then on.
DamageInv ==
  /\ BoundsInv /\ DamageDetected
  /\ pc = "encode" => ~tampered
  /\ pc = "stored" => (Checksum(payload) = crcs.payload <=> ~tampered)

LEMMA DamageStep == DamageInv /\ [CodecNext]_codecVars => DamageInv'
<1> SUFFICES ASSUME DamageInv, [CodecNext]_codecVars PROVE DamageInv'
  OBVIOUS
<1>1. BoundsInv' /\ payload \in Seq(Byte) /\ tampered \in BOOLEAN
  BY BoundsStep DEF DamageInv, BoundsInv, CodecTypes
<1>2. CASE EncodeMatch \/ EncodeLiterals
  <2>1. pc' \in {"encode", "buffer_too_small"} /\ tampered' = tampered /\ pc = "encode"
    BY <1>2 DEF EncodeMatch, EncodeLiterals, Emit
  <2>2. QED
    BY <1>1, <2>1 DEF DamageInv, DamageDetected
<1>3. CASE EncodeEnds
  <2>1. /\ pc = "encode" /\ pc' = "stored" /\ tampered' = tampered /\ payload' = payload
        /\ crcs' = [source |-> Checksum(input), payload |-> Checksum(payload)]
    BY <1>3 DEF EncodeEnds
  <2>2. Checksum(payload)' = Checksum(payload)
    BY <2>1 DEF Checksum
  <2>3. QED
    BY <1>1, <2>1, <2>2 DEF DamageInv, DamageDetected
<1>4. CASE Tamper
  <2>1. /\ pc = "stored" /\ ~tampered /\ tampered' = TRUE /\ pc' = "stored" /\ crcs' = crcs
        /\ \E k \in DOMAIN payload, b \in Damage :
             b # payload[k] /\ payload' = [payload EXCEPT ![k] = b]
    BY <1>4 DEF Tamper
  <2>2. PICK k \in DOMAIN payload, b \in Damage :
          b # payload[k] /\ payload' = [payload EXCEPT ![k] = b]
    BY <2>1
  <2>3. Checksum(payload') # Checksum(payload)
    <3>1. b \in Byte
      BY <2>2, CodecAssumption
    <3>2. Checksum([payload EXCEPT ![k] = b]) # Checksum(payload)
      BY <1>1, <2>2, <3>1, ChecksumTells
    <3>3. QED
      BY <2>2, <3>2
  <2>4. Checksum(payload)' = Checksum(payload')
    BY DEF Checksum
  <2>5. QED
    BY <1>1, <2>1, <2>3, <2>4 DEF DamageInv, DamageDetected
<1>5. CASE DecodeStarts
  <2>1. /\ pc = "stored" /\ tampered' = tampered /\ crcs' = crcs
        /\ pc' = IF crcs.payload # 0 /\ Checksum(payload) # crcs.payload
                 THEN "corrupted_data" ELSE "decode"
    BY <1>5 DEF DecodeStarts
  <2>2. QED
    BY <1>1, <2>1 DEF DamageInv, DamageDetected
<1>6. CASE DecodeMatch \/ CopyByte \/ DecodeLiterals \/ DecodeEnds
  <2>1. /\ pc \in {"decode", "copy"} /\ tampered' = tampered /\ crcs' = crcs
        /\ pc' \notin {"encode", "stored"}
    BY <1>6 DEF DecodeMatch, CopyByte, DecodeLiterals, DecodeEnds
  <2>2. QED
    BY <1>1, <2>1 DEF DamageInv, DamageDetected
<1>7. CASE UNCHANGED codecVars
  <2>1. pc' = pc /\ tampered' = tampered /\ crcs' = crcs /\ payload' = payload
    BY <1>7 DEF codecVars
  <2>2. Checksum(payload)' = Checksum(payload)
    BY <2>1 DEF Checksum
  <2>3. QED
    BY <1>1, <2>1, <2>2 DEF DamageInv, DamageDetected
<1>8. QED
  BY <1>2, <1>3, <1>4, <1>5, <1>6, <1>7 DEF CodecNext

\* For every script and every damaged byte: sxer84321_decode refuses the payload,
\* unless the checksum stored for it happens to be 0 (sxer84321.c:179).
THEOREM DamageRefused == CodecSpec => []DamageDetected
<1>1. CodecInit => DamageInv
  BY BoundsInit DEF CodecInit, DamageInv, DamageDetected
<1>2. DamageInv => DamageDetected
  BY DEF DamageInv
<1>3. QED
  BY <1>1, <1>2, DamageStep, PTL DEF CodecSpec
=============================================================================
