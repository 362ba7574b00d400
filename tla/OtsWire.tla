------------------------------ MODULE OtsWire ------------------------------
(***************************************************************************)
(* internal/witness/opentimestamps/wire.go: the proof tree and its wire    *)
(* format.  A string of bytes is a sequence; the header magic, the 8-byte  *)
(* attestation tags and a 32-byte digest count as one byte each, and what  *)
(* a digest hashes is kept in it.  A tree is a sequence of nodes, the root *)
(* first; a child is pointed to by its place in it.  A reader is a         *)
(* position in the bytes; what a read returns carries the position after   *)
(* it, or ok = FALSE.                                                      *)
(***************************************************************************)
EXTENDS Integers, SequencesExt

CONSTANTS
    GroupSize,  \* values of the payload of one varuint byte (0x80)
    WordSize    \* values of the uint64 that a varuint is read into

ASSUME WireConstants == GroupSize \in Nat /\ GroupSize > 1 /\ WordSize \in Nat /\ WordSize > 1

opAppend == 240
opPrepend == 241
opSHA1 == 2
opRIPEMD160 == 3
opSHA256 == 8
tagPending == 131
tagBitcoin == 5
headerMagic == 79
more == 255  \* the byte before every edge of a node but the last

\* What a length prefix can count.
Countable == {s \in Seq(Nat) : Len(s) < WordSize}

\* The operations that deserializeOp knows; only two have an argument.
Operations == [tag: {opAppend, opPrepend}, arg: Countable]
              \cup [tag: {opSHA1, opRIPEMD160, opSHA256}, arg: {<<>>}]

\* op.apply: what the operation makes of a message.
Apply(o, msg) ==
    CASE o.tag = opAppend  -> msg \o o.arg
      [] o.tag = opPrepend -> o.arg \o msg
      [] OTHER             -> <<[alg |-> o.tag, of |-> msg]>>

-----------------------------------------------------------------------------
(* Writing.                                                                *)

\* Mutant: a last byte of exactly GroupSize is written without continuation.
VaruintOffByOne(n) ==
    LET Groups[m \in 0 .. n] ==
            IF m <= GroupSize THEN <<m>>
            ELSE <<GroupSize + (m % GroupSize)>> \o Groups[m \div GroupSize]
    IN  Groups[n]

\* Groups of bits, the lowest first, all but the last with the continuation bit.
WriteVaruint(n) ==
    LET Groups[m \in 0 .. n] ==
            IF m < GroupSize THEN <<m>>
            ELSE <<GroupSize + (m % GroupSize)>> \o Groups[m \div GroupSize]
    IN  Groups[n]

WriteVarbytes(b) == WriteVaruint(Len(b)) \o b

WriteOp(o) ==
    IF o.tag \in {opAppend, opPrepend} THEN <<o.tag>> \o WriteVarbytes(o.arg) ELSE <<o.tag>>

\* The body is a URI, a block height, or kept as it came.
WriteAttestation(a) ==
    LET body == CASE a.tag = tagPending -> WriteVarbytes(a.body)
                  [] a.tag = tagBitcoin -> WriteVaruint(a.body)
                  [] OTHER              -> a.body
    IN  <<a.tag>> \o WriteVarbytes(body)

\* A calendar's URI, a block height, and what this version does not know.
Attestations == {a \in [tag: {tagPending}, body: Seq(Nat)] : Len(WriteVarbytes(a.body)) < WordSize}
                \cup [tag: {tagBitcoin}, body: 0 .. WordSize - 1]
                \cup [tag: Nat \ {tagPending, tagBitcoin}, body: Countable]

\* timestamp.serialize: first the attestations, then the operations, each with
\* the node it leads to.
WriteTree(tree) ==
    LET Bytes[i \in 1 .. Len(tree)] ==
            LET atts    == tree[i].atts
                ops     == tree[i].ops
                n       == Len(atts)
                total   == n + Len(ops)
                Edge(k) == IF k <= n THEN <<0>> \o WriteAttestation(atts[k])
                           ELSE WriteOp(ops[k - n].op) \o Bytes[ops[k - n].child]
            IN  FlattenSeq([k \in 1 .. total |->
                    IF k < total THEN <<more>> \o Edge(k) ELSE Edge(k)])
    IN  Bytes[1]

\* detachedFile.serialize, with version 1.
WriteFile(tree) == <<headerMagic>> \o WriteVaruint(1) \o <<opSHA256>> \o tree[1].msg \o WriteTree(tree)

-----------------------------------------------------------------------------
(* Reading.                                                                *)

Fail == [ok |-> FALSE]
Got(val, at) == [ok |-> TRUE, val |-> val, at |-> at]

\* Mutant: a short read returns what there is.
ReadShort(b, at, n) == Got(SubSeq(b, at, IF at + n - 1 <= Len(b) THEN at + n - 1 ELSE Len(b)), at + n)

ReadN(b, at, n) == IF at + n - 1 <= Len(b) THEN Got(SubSeq(b, at, at + n - 1), at + n) ELSE Fail
ReadByte(b, at) == IF at <= Len(b) THEN Got(b[at], at + 1) ELSE Fail

\* The groups up to the first byte without the continuation bit, lowest first.
\* What is shifted out of the word is lost.
ReadVaruint(b, at) ==
    LET ends   == {i \in at .. Len(b) : b[i] < GroupSize}
        end    == Min(ends)
        Word[i \in at .. end + 1] ==
            IF i > end THEN 0 ELSE ((b[i] % GroupSize) + GroupSize * Word[i + 1]) % WordSize
    IN  IF ends = {} THEN Fail ELSE Got(Word[at], end + 1)

ReadVarbytes(b, at) ==
    LET len == ReadVaruint(b, at) IN IF len.ok THEN ReadN(b, len.at, len.val) ELSE Fail

ReadOp(tag, b, at) ==
    LET arg == ReadVarbytes(b, at)
    IN  CASE tag \in {opAppend, opPrepend} ->
                 IF arg.ok THEN Got([tag |-> tag, arg |-> arg.val], arg.at) ELSE Fail
          [] tag \in {opSHA1, opRIPEMD160, opSHA256} -> Got([tag |-> tag, arg |-> <<>>], at)
          [] OTHER -> Fail

\* What is left over of a body is not looked at.
ReadBody(tag, raw) ==
    CASE tag = tagPending -> ReadVarbytes(raw, 1)
      [] tag = tagBitcoin -> ReadVaruint(raw, 1)
      [] OTHER            -> Got(raw, Len(raw) + 1)

ReadAttestation(b, at) ==
    LET tag  == ReadByte(b, at)
        raw  == ReadVarbytes(b, tag.at)
        body == ReadBody(tag.val, raw.val)
    IN  IF tag.ok /\ raw.ok /\ body.ok
        THEN Got([tag |-> tag.val, body |-> body.val], raw.at)
        ELSE Fail

Node(msg) == [msg |-> msg, atts |-> <<>>, ops |-> <<>>]

\* Mutant: a digest the parser has no function for leaves the message as it was.
ChildMessageUnapplied(o, msg) == IF o.tag = opRIPEMD160 THEN msg ELSE Apply(o, msg)

\* The message at the child that operation o leads to.
ChildMessage(o, msg) == Apply(o, msg)

\* deserializeTimestamp, on its way: where it reads next, the nodes it has made,
\* and those of them that an edge is still expected of, the one whose turn it is
\* last.  (open is the call stack, without the calls that have read their last edge.)
Reader(at, tree, open) == [ok |-> TRUE, at |-> at, tree |-> tree, open |-> open]

\* One turn of the loop with the closure `one': an edge of the node whose turn it
\* is.  After a 0xff the node expects another.
ReadEdge(b, r) ==
    LET first == ReadByte(b, r.at)
        again == first.val = more
        tag   == IF again THEN ReadByte(b, first.at) ELSE first
        i     == Last(r.open)
        open  == IF again THEN r.open ELSE Front(r.open)
        att   == ReadAttestation(b, tag.at)
        op    == ReadOp(tag.val, b, tag.at)
        child == Len(r.tree) + 1
    IN  CASE ~first.ok \/ ~tag.ok -> Fail
          [] first.ok /\ tag.ok /\ tag.val = 0 ->
                 IF ~att.ok THEN Fail
                 ELSE Reader(att.at, [r.tree EXCEPT ![i].atts = Append(@, att.val)], open)
          [] first.ok /\ tag.ok /\ tag.val # 0 ->
                 IF ~op.ok THEN Fail
                 ELSE Reader(op.at,
                             Append([r.tree EXCEPT ![i].ops = Append(@, [op |-> op.val, child |-> child])],
                                    Node(ChildMessage(op.val, r.tree[i].msg))),
                             Append(open, child))

\* What the last turn leaves: every node has its last edge, or the bytes ran out.
ReadEnd(end) == IF ~end.ok THEN Fail ELSE IF end.open = <<>> THEN Got(end.tree, end.at) ELSE Fail

\* deserializeTimestamp from a position on.  No edge is without a byte.
ReadTree(b, msg, from) ==
    LET Turn[k \in 0 .. Len(b)] ==
            IF k = 0 THEN Reader(from, <<Node(msg)>>, <<1>>)
            ELSE LET r == Turn[k - 1] IN IF ~r.ok THEN r ELSE IF r.open = <<>> THEN r ELSE ReadEdge(b, r)
    IN  ReadEnd(Turn[Len(b)])

\* parseDetachedFile: the version may be any.
ReadFile(b) ==
    LET magic   == ReadByte(b, 1)
        version == ReadVaruint(b, magic.at)
        hashOp  == ReadByte(b, version.at)
        digest  == ReadN(b, hashOp.at, 1)
    IN  IF /\ magic.ok /\ magic.val = headerMagic
           /\ version.ok
           /\ hashOp.ok /\ hashOp.val = opSHA256
           /\ digest.ok
        THEN ReadTree(b, digest.val, digest.at)
        ELSE Fail
=============================================================================
