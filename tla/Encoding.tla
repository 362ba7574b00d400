------------------------------ MODULE Encoding ------------------------------
(***************************************************************************)
(* The byte strings behind Canonical's terms: the length-prefixed Encoder  *)
(* of internal/crypto/canonical.go, and the JSON document of a checkpoint  *)
(* in internal/checkpoint/codec.go.  A byte is a number below Base, a      *)
(* uint64 has Width of them.                                               *)
(***************************************************************************)
EXTENDS Integers, SequencesExt

CONSTANTS
    Base,   \* values of a byte; a square, for its two hex digits
    Digit,  \* values of a hex digit
    Width   \* bytes of a uint64

ASSUME EncodingConstants == /\ Digit \in Nat \ {0} /\ Base = Digit * Digit
                            /\ Width \in Nat \ {0}

\* n >> (8 * k), for k from 0 to Width.
Shifted(n) == LET S[k \in 0 .. Width] == IF k = 0 THEN n ELSE S[k - 1] \div Base IN S

\* binary.BigEndian.PutUint64; the number is taken modulo the word.
BigEndian(n) == [i \in 1 .. Width |-> Shifted(n)[Width - i] % Base]

\* Nothing of n is lost.
IsWord(n) == Shifted(n)[Width] = 0

\* Mutant: fields follow each other without their lengths.
BareField(b) == b

\* Encoder.field.
Field(b) == BigEndian(Len(b)) \o b

\* Encoder.Raw after the fields were written: NewEncoder(domain), then Str,
\* Bytes and Uint.
Raw(fields) == FlattenSeq([i \in 1 .. Len(fields) |-> Field(fields[i])])

\* What CheckpointID hashes.  Numbers are fields of their Width bytes.
CheckpointBytes(domain, version, cp) ==
    Raw(<<domain, BigEndian(version), cp.tenant, BigEndian(cp.seqStart), BigEndian(cp.seqEnd),
          BigEndian(cp.entryCount), cp.headHash, cp.merkleRoot, cp.prev, BigEndian(cp.anchoredAt)>>)

-----------------------------------------------------------------------------
(* codec.go.  A nil and an empty byte string are not told apart: neither   *)
(* the Encoder nor bytes.Equal does.                                       *)

HexEncode(b) ==
    [i \in 1 .. 2 * Len(b) |->
        LET byte == b[(i + 1) \div 2] IN IF i % 2 = 1 THEN byte \div Digit ELSE byte % Digit]

\* Mutant: the digits of a byte are swapped.
HexDecodeSwapped(s) ==
    [i \in 1 .. Len(s) \div 2 |-> s[2 * i] * Digit + s[2 * i - 1]]

HexDecode(s) == [i \in 1 .. Len(s) \div 2 |-> s[2 * i - 1] * Digit + s[2 * i]]

\* json writes and reads a uint64 in decimal without loss; hashes are hex.
Marshal(cp) ==
    [cp EXCEPT !.headHash = HexEncode(@), !.merkleRoot = HexEncode(@),
               !.prev = HexEncode(@), !.id = HexEncode(@)]

Dec(s) == IF s = <<>> THEN <<>> ELSE HexDecode(s)

Unmarshal(w) ==
    [w EXCEPT !.headHash = Dec(@), !.merkleRoot = Dec(@), !.prev = Dec(@), !.id = Dec(@)]
=============================================================================
