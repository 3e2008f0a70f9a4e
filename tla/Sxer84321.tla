------------------------------ MODULE Sxer84321 ------------------------------
(***************************************************************************)
(* The codec of protected XER scripts (xer/encode/sxer84321.c): a script   *)
(* is encoded, its payload may be damaged by the store, and is decoded.    *)
(*                                                                         *)
(* One iteration of a loop of sxer84321_encode or sxer84321_decode is one  *)
(* action; the search for a match and the scan for the end of a literal    *)
(* run are operators.  Positions count from 0, as in the code.             *)
(***************************************************************************)
EXTENDS Integers, Sequences

CONSTANTS Inputs,           \* the scripts, as sequences of bytes
          Damage,           \* the bytes a damaged byte may turn into
          MinMatch, MaxMatch, MaxOffset, MaxLiteral,
          Slack,            \* what max_encoded_size adds to the worst case
          BitXor(_, _),        \* bitwise exclusive or
          Mask,             \* the masks of the nonce at the first positions
          HashBasis, HashPrime, HashModulus

Byte == 0 .. 255

\* The code has 4, 10, 4096, 128 and 32, and 32-bit FNV-1a.
ASSUME CodecAssumption ==
  /\ Inputs \subseteq Seq(Byte) /\ Damage \subseteq Byte
  /\ MinMatch \in 4 .. 10 /\ MaxMatch \in MinMatch .. 10
  /\ MaxOffset \in 1 .. 4096 /\ MaxLiteral \in 1 .. 128 /\ Slack \in Nat \ {0}
  /\ Mask \in Seq(Byte) /\ \A s \in Inputs : Len(s) <= Len(Mask)
ASSUME XorAssumption ==
  \A b \in Byte, i \in DOMAIN Mask : /\ BitXor(b, Mask[i]) \in Byte
                                      /\ BitXor(BitXor(b, Mask[i]), Mask[i]) = b

\* One byte of FNV-1a.  To take exclusive or with a byte is one to one in both
\* arguments, and so is to multiply by an odd number modulo a power of two.
Hashes == 0 .. HashModulus - 1
Times(h) == (h * HashPrime) % HashModulus
HashByte(h, b) == Times(BitXor(h, b))
ASSUME HashAssumption ==
  /\ HashModulus \in Nat \ {0} /\ HashPrime \in Nat /\ HashBasis \in Hashes
  /\ \A h \in Hashes, b \in Byte : /\ BitXor(h, b) \in Hashes
                                   /\ BitXor(BitXor(h, b), b) = h
                                   /\ BitXor(h, BitXor(h, b)) = b
  /\ \A g, h \in Hashes : Times(g) = Times(h) => g = h

VARIABLES input,            \* the script
          pc,               \* where the codec is, or the status it returned
          in_pos, mask_pos, \* in the source of the operation under way
          payload,          \* what encode has written
          crcs,             \* source_crc and payload_crc
          output,           \* what decode has written
          copy,             \* the back reference being copied: bytes left, offset
          tampered,         \* history: the store damaged the payload
          tokens, decoded   \* history: the tokens of the payload, and how many
                            \* of them have been decoded

codecVars == <<input, pc, in_pos, mask_pos, payload, crcs, output, copy,
               tampered, tokens, decoded>>

NoCopy == [left |-> 0, offset |-> 0]

\* sxer84321_checksum: FNV-1a, to the width of the model.
Checksum(data) ==
  LET hash[n \in 0 .. Len(data)] ==
        IF n = 0 THEN HashBasis ELSE HashByte(hash[n - 1], data[n])
  IN hash[Len(data)]

MaxEncodedSize(size) == size + size \div MaxLiteral + Slack

CodecInit ==
  /\ input \in Inputs
  /\ pc = IF input = <<>> THEN "invalid_argument" ELSE "encode"
  /\ in_pos = 0 /\ mask_pos = 0 /\ payload = <<>> /\ output = <<>>
  /\ crcs = [source |-> 0, payload |-> 0]
  /\ copy = NoCopy /\ tampered = FALSE /\ tokens = <<>> /\ decoded = 0

(***************************************************************************)
(* sxer84321_encode.                                                       *)
(***************************************************************************)
\* The back references sxer84321_find_match considers: as long as MinMatch and
\* no longer than MaxMatch, within the window; a match may run into itself.
Matches(position) ==
  {m \in [len : MinMatch .. MaxMatch, offset : 1 .. MaxOffset] :
     /\ m.offset <= position /\ position + m.len <= Len(input)
     /\ \A i \in 1 .. m.len :
          input[position + i] = input[position + i - m.offset]}

\* It keeps the longest, and the nearest of those.
Best(m, position) ==
  \A n \in Matches(position) :
    n.len < m.len \/ (n.len = m.len /\ m.offset <= n.offset)

\* The literal run that starts here has length n: it ends before the first
\* match, at the longest length or at the end.
LiteralRun(n) ==
  /\ in_pos + n <= Len(input)
  /\ \A i \in 0 .. n - 1 : Matches(in_pos + i) = {}
  /\ n = MaxLiteral \/ in_pos + n = Len(input) \/ Matches(in_pos + n) # {}

\* A token of the given bytes for the next n bytes of the source.
Emit(bytes, n, offset) ==
  IF Len(payload) + Len(bytes) > MaxEncodedSize(Len(input))
  THEN /\ pc' = "buffer_too_small"
       /\ UNCHANGED <<in_pos, mask_pos, payload, tokens>>
  ELSE /\ payload' = payload \o bytes
       /\ tokens' = Append(tokens, [at |-> Len(payload), pos |-> in_pos, mask |-> mask_pos,
                                    len |-> n, offset |-> offset])
       /\ in_pos' = in_pos + n
       /\ mask_pos' = IF offset = 0 THEN mask_pos + n ELSE mask_pos
       /\ pc' = pc

\* Fault: the length is written as it is, not less 3.
TagBytesLong(m) ==
  <<128 + (m.len % 8) * 16 + (((m.offset - 1) \div 256) % 16), (m.offset - 1) % 256>>

TagBytes(m) ==
  <<128 + ((m.len - 3) % 8) * 16 + (((m.offset - 1) \div 256) % 16), (m.offset - 1) % 256>>

EncodeMatch ==
  /\ pc = "encode" /\ in_pos < Len(input)
  /\ \E m \in Matches(in_pos) : Best(m, in_pos) /\ Emit(TagBytes(m), m.len, m.offset)
  /\ UNCHANGED <<input, crcs, output, copy, tampered, decoded>>

\* Fault: the mask runs with the position in the script.
LiteralBytesAt(n) ==
  <<n - 1>> \o [i \in 1 .. n |-> BitXor(input[in_pos + i], Mask[in_pos + i])]

LiteralBytes(n) ==
  <<n - 1>> \o [i \in 1 .. n |-> BitXor(input[in_pos + i], Mask[mask_pos + i])]

EncodeLiterals ==
  /\ pc = "encode" /\ in_pos < Len(input)
  /\ \E n \in 1 .. MaxLiteral : LiteralRun(n) /\ Emit(LiteralBytes(n), n, 0)
  /\ UNCHANGED <<input, crcs, output, copy, tampered, decoded>>

EncodeEnds ==
  /\ pc = "encode" /\ in_pos = Len(input)
  /\ crcs' = [source |-> Checksum(input), payload |-> Checksum(payload)]
  /\ pc' = "stored"
  /\ UNCHANGED <<input, in_pos, mask_pos, payload, output, copy, tampered, tokens, decoded>>

(***************************************************************************)
(* The store: a byte of the payload may change.  Payloads that are cut     *)
(* short, or that no encoder made, are left out.                           *)
(***************************************************************************)
Tamper ==
  /\ pc = "stored" /\ ~tampered
  /\ \E k \in DOMAIN payload, b \in Damage :
       b # payload[k] /\ payload' = [payload EXCEPT ![k] = b]
  /\ tampered' = TRUE
  /\ UNCHANGED <<input, pc, in_pos, mask_pos, crcs, output, copy, tokens, decoded>>

(***************************************************************************)
(* sxer84321_decode, into a buffer of the size of the script.              *)
(***************************************************************************)
\* Fault: a payload is taken on trust.
DecodeTrusts ==
  /\ pc = "stored"
  /\ in_pos' = 0 /\ mask_pos' = 0 /\ pc' = "decode"
  /\ UNCHANGED <<input, payload, crcs, output, copy, tampered, tokens, decoded>>

DecodeStarts ==
  /\ pc = "stored"
  /\ in_pos' = 0 /\ mask_pos' = 0
  /\ pc' = IF crcs.payload # 0 /\ Checksum(payload) # crcs.payload
           THEN "corrupted_data" ELSE "decode"
  /\ UNCHANGED <<input, payload, crcs, output, copy, tampered, tokens, decoded>>

Tag == payload[in_pos + 1]

\* Fault: the length is not checked against the room left.
DecodeMatchUnchecked ==
  /\ pc = "decode" /\ in_pos < Len(payload) /\ Tag >= 128
  /\ LET length == ((Tag \div 16) % 8) + 3
         offset == (Tag % 16) * 256 + payload[in_pos + 2] + 1
     IN IF \/ in_pos + 1 >= Len(payload)
           \/ offset > Len(output)
        THEN pc' = "corrupted_data" /\ UNCHANGED <<in_pos, copy>>
        ELSE /\ pc' = "copy" /\ in_pos' = in_pos + 2
             /\ copy' = [left |-> length, offset |-> offset]
  /\ UNCHANGED <<input, mask_pos, payload, crcs, output, tampered, tokens, decoded>>

DecodeMatch ==
  /\ pc = "decode" /\ in_pos < Len(payload) /\ Tag >= 128
  /\ LET length == ((Tag \div 16) % 8) + 3
         offset == (Tag % 16) * 256 + payload[in_pos + 2] + 1
     IN IF \/ in_pos + 1 >= Len(payload)
           \/ offset > Len(output) \/ Len(output) + length > Len(input)
        THEN pc' = "corrupted_data" /\ UNCHANGED <<in_pos, copy>>
        ELSE /\ pc' = "copy" /\ in_pos' = in_pos + 2
             /\ copy' = [left |-> length, offset |-> offset]
  /\ UNCHANGED <<input, mask_pos, payload, crcs, output, tampered, tokens, decoded>>

\* One byte of a back reference, which may be one the copy has just written.
CopyByte ==
  /\ pc = "copy"
  /\ output' = Append(output, output[Len(output) + 1 - copy.offset])
  /\ IF copy.left = 1
     THEN pc' = "decode" /\ copy' = NoCopy /\ decoded' = decoded + 1
     ELSE copy' = [copy EXCEPT !.left = @ - 1] /\ UNCHANGED <<pc, decoded>>
  /\ UNCHANGED <<input, in_pos, mask_pos, payload, crcs, tampered, tokens>>

DecodeLiterals ==
  /\ pc = "decode" /\ in_pos < Len(payload) /\ Tag < 128
  /\ LET length == Tag + 1
     IN IF \/ in_pos + 1 + length > Len(payload) \/ Len(output) + length > Len(input)
        THEN pc' = "corrupted_data" /\ UNCHANGED <<in_pos, mask_pos, output, decoded>>
        ELSE /\ output' = output \o
                  [i \in 1 .. length |-> BitXor(payload[in_pos + 1 + i], Mask[mask_pos + i])]
             /\ in_pos' = in_pos + 1 + length /\ mask_pos' = mask_pos + length
             /\ decoded' = decoded + 1 /\ pc' = pc
  /\ UNCHANGED <<input, payload, crcs, copy, tampered, tokens>>

DecodeEnds ==
  /\ pc = "decode" /\ in_pos = Len(payload)
  /\ pc' = IF crcs.source # 0 /\ Checksum(output) # crcs.source THEN "corrupted_data" ELSE "ok"
  /\ UNCHANGED <<input, in_pos, mask_pos, payload, crcs, output, copy, tampered, tokens,
                 decoded>>

CodecNext ==
  \/ EncodeMatch \/ EncodeLiterals \/ EncodeEnds \/ Tamper
  \/ DecodeStarts \/ DecodeMatch \/ CopyByte \/ DecodeLiterals \/ DecodeEnds

CodecSpec == CodecInit /\ [][CodecNext]_codecVars

(***************************************************************************)
(* Properties.                                                             *)
(***************************************************************************)
\* A payload that is stored whole is never refused and decodes to the script
\* it was made from, whatever matches, overlapping ones too, and literal runs
\* the encoder chose; and the buffer of max_encoded_size bytes is enough.
RoundTrip ==
  /\ ~tampered => pc # "corrupted_data" /\ (pc = "ok" => output = input)
  /\ pc # "buffer_too_small"

\* Of a payload that the encoder made, or one with a byte of it changed, decode
\* reads the payload and the bytes it has already written, and writes its buffer,
\* only within their bounds.
DecodeInBounds ==
  /\ Len(output) + copy.left <= Len(input) /\ copy.offset <= Len(output)
  /\ pc \in {"decode", "copy"} => in_pos <= Len(payload) /\ mask_pos <= Len(Mask)

\* A change of one byte of the payload is found out, unless the checksum
\* stored for it is 0, which decode takes for none (sxer84321.c:179).
DamageDetected == tampered /\ crcs.payload # 0 => pc \notin {"ok", "decode", "copy"}
=============================================================================
