------------------------------ MODULE Formats ------------------------------
(***************************************************************************)
(* What the formats behind the hashes promise: the Merkle root, the        *)
(* canonical encoding and the checkpoint's JSON document, and the body of  *)
(* a request to the gateway, for inputs that are built up piece by piece:  *)
(* two lists of entry hashes, a list of fields, and a list of lines.       *)
(***************************************************************************)
EXTENDS Checkpoint, Encoding, IngestBody

CONSTANTS
    EntryHashes,  \* entry hashes
    MaxHashes,    \* bound: hashes per list
    MaxField,     \* bound: bytes per field
    MaxFields,    \* bound: fields per list
    MaxLines      \* bound: lines per body

\* The length of a Go slice is a uint64.
ASSUME FormatsConstants == MaxField \in Nat /\ \A n \in 0 .. MaxField : IsWord(n)

VARIABLES left, right, fields, lines

formats == <<left, right, fields, lines>>

FormatsInit == left = <<>> /\ right = <<>> /\ fields = <<>> /\ lines = <<>>

GrowLeft ==
    /\ Len(left) < MaxHashes
    /\ \E h \in EntryHashes : left' = Append(left, h)
    /\ UNCHANGED <<right, fields, lines>>

GrowRight ==
    /\ Len(right) < MaxHashes
    /\ \E h \in EntryHashes : right' = Append(right, h)
    /\ UNCHANGED <<left, fields, lines>>

ByteStrings == BoundedSeq(0 .. Base - 1, MaxField)

AddField ==
    /\ Len(fields) < MaxFields
    /\ \E b \in ByteStrings : fields' = Append(fields, b)
    /\ UNCHANGED <<left, right, lines>>

\* A line of a body, on its way to the gateway: it is whole.  An object takes up
\* two bytes at least.
AddLine ==
    /\ Len(lines) < MaxLines
    /\ \E len \in 0 .. MaxLine : \E ink \in SUBSET (1 .. len) :
          \E object \in {0} \cup {p \in ink : \E q \in ink : q < p} :
              lines' = Append(lines, [line |-> Len(lines) + 1, len |-> len, ink |-> ink,
                                      object |-> object, whole |-> TRUE])
    /\ UNCHANGED <<left, right, fields>>

FormatsNext == GrowLeft \/ GrowRight \/ AddField \/ AddLine

FormatsSpec == FormatsInit /\ [][FormatsNext]_formats

-----------------------------------------------------------------------------
(* Properties.                                                             *)

\* MerkleRoot commits to the hashes once their number is known, which is why
\* CheckpointID hashes the entry count beside the root: two windows of equal
\* length with equal roots are equal.
RootBinds ==
    Len(left) = Len(right) /\ MerkleRoot(left) = MerkleRoot(right) => left = right

\* 2 ^ k, for k up to n.
PowersOfTwo(n) == LET P[k \in 0 .. n] == IF k = 0 THEN 1 ELSE 2 * P[k - 1] IN P

\* The smallest tree over the hashes in which every level is full, but that an
\* absent right half repeats the left one.  Trees are found by their depth and
\* their first leaf.
Reference(hashes) ==
    LET n == Len(hashes)
        Tree[d \in 0 .. n] ==
            [from \in 1 .. n |->
                IF d = 0 THEN <<"leaf", hashes[from]>>
                ELSE LET middle == from + PowersOfTwo(n)[d - 1]
                         half   == Tree[d - 1]
                     IN  <<"node", half[from], half[IF middle <= n THEN middle ELSE from]>>]
        depth == CHOOSE d \in 0 .. n : /\ PowersOfTwo(n)[d] >= n
                                       /\ \A c \in 0 .. d - 1 : PowersOfTwo(n)[c] < n
    IN  IF n = 0 THEN <<"leaf">> ELSE Tree[depth][1]

\* The level-by-level loop of MerkleRoot computes that tree.
RootMatchesReference == MerkleRoot(left) = Reference(left)

\* The fields of an encoding, read from the front: a length, then that many
\* bytes.  What cannot be read so is dropped.
FieldsOf(bytes) ==
    LET From[at \in 1 .. Len(bytes) + 1] ==
            LET lengths == {n \in 0 .. Len(bytes) + 1 - at - Width :
                               SubSeq(bytes, at, at + Width - 1) = BigEndian(n)}
                start   == at + Width
                next    == start + Min(lengths)
            IN  IF lengths = {} THEN <<>>
                ELSE <<SubSeq(bytes, start, next - 1)>> \o From[next]
    IN  From[1]

\* Encoder: "no two distinct field sequences can ever collide into the same
\* encoding", since each can be read back from its encoding.
EncodingBinds == FieldsOf(Raw(fields)) = fields

Pad(b) == IF Len(fields) >= b THEN fields[b] ELSE <<>>

\* A checkpoint that took the way through WORM or Postgres hashes to the id it
\* was stored with, also the first one, whose previous id is nil: Unmarshal
\* gives CheckpointID the bytes that Marshal was given.
IdSurvivesCodec ==
    LET cp == [tenant |-> <<1>>, seqStart |-> 0, seqEnd |-> 2, entryCount |-> 3, anchoredAt |-> 5,
               headHash |-> Pad(1), merkleRoot |-> Pad(2), prev |-> Pad(3), id |-> Pad(1)]
        back == Unmarshal(Marshal(cp))
    IN  /\ CheckpointBytes(<<2>>, 1, back) = CheckpointBytes(<<2>>, 1, cp)
        /\ back.id = cp.id

\* No body that is accepted loses more than its tail, be it an array, with or
\* without lines after it, or lines.
BodyKeptOrCut == \A array \in 0 .. Len(lines) : BodyKept(array, lines)
=============================================================================
