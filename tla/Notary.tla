------------------------------- MODULE Notary -------------------------------
(***************************************************************************)
(* The two notaries behind Witness!Stamp: OpenTimestamps, whose Stamp asks *)
(* one calendar after the other and keeps what the reachable ones answered *)
(* (internal/witness/opentimestamps), and an RFC 3161 timestamp authority  *)
(* (internal/witness/rfc3161).  A calendar answers with a tree rooted at   *)
(* the digest it was sent; the answer may be cut off (do reads at most     *)
(* 1 MiB) or not come.                                                     *)
(***************************************************************************)
EXTENDS OtsWire

CONSTANTS
    Ids,        \* checkpoint ids, as one-byte digests
    Nonce,      \* the random bytes of a Stamp
    Calendars,  \* Notary.calendars: the sequence of what each one adds to a tree
    None        \* no token, no answer

\* What is sent to a calendar fits its lengths, and what it answers attests
\* something.
ASSUME NotaryConstants ==
    /\ Ids \subseteq Seq(Nat) /\ \A id \in Ids : Len(id) = 1
    /\ Nonce \in Countable
    /\ Calendars \in Seq([path: Seq(Operations), atts: Seq(Attestations) \ {<<>>}])
    /\ None \notin Seq(Nat)

VARIABLE
    stamp  \* the Stamp calls on one checkpoint id: their locals and results

NotStamping == [pc |-> "idle", id |-> None, next |-> 1, node |-> None,
                ok |-> FALSE, whole |-> {}, ots |-> None, tsa |-> None]

-----------------------------------------------------------------------------
(* OpenTimestamps.                                                         *)

Edge(tag, arg, child) == [op |-> [tag |-> tag, arg |-> arg], child |-> child]

\* What is submitted: the hash of the id and the nonce.
Submitted(id) == Apply([tag |-> opSHA256, arg |-> <<>>], id \o Nonce)

\* A calendar's tree over msg: it applies the operations of path, in order,
\* and attests what they make of it.
CalendarTree(msg, path, atts) ==
    LET n == Len(path)
        Msg[i \in 1 .. n + 1] == IF i = 1 THEN msg ELSE Apply(path[i - 1], Msg[i - 1])
    IN  [i \in 1 .. n + 1 |->
            [msg |-> Msg[i],
             atts |-> IF i = n + 1 THEN atts ELSE <<>>,
             ops |-> IF i <= n THEN <<[op |-> path[i], child |-> i + 1]>> ELSE <<>>]]

\* What calendar k answers to a submission for id, in full.
Answer(k, id) == WriteTree(CalendarTree(Submitted(id), Calendars[k].path, Calendars[k].atts))

StampStarts(id) ==
    /\ stamp.pc = "idle"
    /\ stamp' = [NotStamping EXCEPT !.pc = "submit", !.id = id, !.node = <<Node(Submitted(id))>>]

\* The nodes of a tree when n others are put before them.
Moved(node, n) ==
    [node EXCEPT !.ops = [k \in 1 .. Len(@) |-> [op |-> @[k].op, child |-> @[k].child + n]]]

\* Mutant: a later answer replaces an earlier one.
MergeReplaces(tree, ts) == ts

\* The calendar's attestations and operations join those at the submitted node;
\* what they lead to comes after the nodes that are there.
Merge(tree, ts) ==
    LET n     == Len(tree)
        added == Moved(ts[1], n - 1)
    IN  [i \in 1 .. n + Len(ts) - 1 |->
            CASE i = 1          -> [tree[1] EXCEPT !.atts = @ \o added.atts, !.ops = @ \o added.ops]
              [] 1 < i /\ i <= n -> tree[i]
              [] n < i          -> Moved(ts[i - n + 1], n - 1)]

\* calendar.submit, of whose answer the first n bytes are read.  What does not
\* parse counts as a calendar that failed.  (whole: the calendars whose answer
\* was read to its end.)
Submit ==
    LET k      == stamp.next
        answer == Answer(k, stamp.id)
    IN  /\ stamp.pc = "submit"
        /\ k <= Len(Calendars)
        /\ \E n \in 0 .. Len(answer) :
              LET tree  == ReadTree(SubSeq(answer, 1, n), Submitted(stamp.id), 1)
                  asked == [stamp EXCEPT !.next = k + 1,
                                         !.whole = IF n = Len(answer) THEN @ \cup {k} ELSE @]
              IN  stamp' = IF tree.ok
                           THEN [asked EXCEPT !.node = Merge(@, tree.val), !.ok = TRUE]
                           ELSE asked

\* No connection, a timeout, or a status other than 200.
SubmitFails ==
    /\ stamp.pc = "submit"
    /\ stamp.next <= Len(Calendars)
    /\ stamp' = [stamp EXCEPT !.next = @ + 1]

\* id --append(nonce)--> appended --sha256--> submitted --> calendars
ProofTree(id, tree) ==
    <<[Node(id) EXCEPT !.ops = <<Edge(opAppend, Nonce, 2)>>],
      [Node(id \o Nonce) EXCEPT !.ops = <<Edge(opSHA256, <<>>, 3)>>]>>
    \o [i \in 1 .. Len(tree) |-> Moved(tree[i], 2)]

\* Every calendar was asked: without any answer Stamp returns an error.
StampEnds ==
    /\ stamp.pc = "submit"
    /\ stamp.next > Len(Calendars)
    /\ stamp' = [stamp EXCEPT
          !.pc = "timestamp",
          !.ots = IF ~stamp.ok THEN None
                  ELSE WriteFile(ProofTree(stamp.id, stamp.node))]

\* The attestations of a tree, with the messages they attest.
Collect(tree) ==
    LET From[i \in 1 .. Len(tree)] ==
            LET node == tree[i]
            IN  [k \in 1 .. Len(node.atts) |->
                    [tag |-> node.atts[k].tag, body |-> node.atts[k].body, msg |-> node.msg]]
                \o FlattenSeq([k \in 1 .. Len(node.ops) |-> From[node.ops[k].child]])
    IN  From[1]

\* The attestations that calendar k adds to a proof for id, with what they attest.
Adds(k, id) == Collect(CalendarTree(Submitted(id), Calendars[k].path, Calendars[k].atts))

\* A block has one Merkle root, whoever wrote to it.
ASSUME BlocksHaveOneRoot ==
    \A id \in Ids : \A a, b \in UNION {ToSet(Adds(k, id)) : k \in 1 .. Len(Calendars)} :
        a.tag = tagBitcoin /\ b.tag = tagBitcoin /\ a.body = b.body => a.msg = b.msg

\* Notary.Verify: the tree parses, is rooted at the id and attests something.
OtsVerify(token, id) ==
    LET file == ReadFile(token)
    IN  file.ok /\ file.val[1].msg = id /\ Collect(file.val) # <<>>

PendingURIs(token) ==
    LET pending == SelectSeq(Collect(ReadFile(token).val), LAMBDA a : a.tag = tagPending)
    IN  [i \in 1 .. Len(pending) |-> pending[i].body]

\* The places of the Bitcoin attestations, in the order findBitcoin walks the tree.
Bitcoin(atts) == {i \in 1 .. Len(atts) : atts[i].tag = tagBitcoin}
HasBitcoin(token) == Bitcoin(Collect(ReadFile(token).val)) # {}

\* VerifyBitcoin: the first Bitcoin attestation against the Merkle root of the
\* block at its height.
VerifyBitcoin(token, id, merkleRoot) ==
    LET atts  == Collect(ReadFile(token).val)
        first == atts[Min(Bitcoin(atts))]
    IN  OtsVerify(token, id) /\ Bitcoin(atts) # {} /\ first.msg = merkleRoot[first.body]

-----------------------------------------------------------------------------
(* RFC 3161.                                                               *)

\* The responses of a timestamp authority: a signed token over a digest, or
\* something that does not parse or whose signature is wrong.
Responses == [ok: BOOLEAN, alg: {opSHA256, opSHA1}, digest: Ids]

\* Mutant: the response is kept as it came.
TokenAccepted(token, id) == token.ok

ParseAndCheck(token, id) == token.ok /\ token.alg = opSHA256 /\ token.digest = id

\* The response is kept when it attests this id; otherwise, and when the
\* request fails, Stamp returns an error.
TsaStamp(response) ==
    /\ stamp.pc = "timestamp"
    /\ stamp' = [stamp EXCEPT
          !.pc = "done",
          !.tsa = IF ParseAndCheck(response, stamp.id) THEN response ELSE None]

TsaFails ==
    /\ stamp.pc = "timestamp"
    /\ stamp' = [stamp EXCEPT !.pc = "done"]

StampNext ==
    \/ \E id \in Ids : StampStarts(id)
    \/ Submit \/ SubmitFails \/ StampEnds \/ TsaFails
    \/ \E response \in Responses : TsaStamp(response)

StampSpec == stamp = NotStamping /\ [][StampNext]_stamp

-----------------------------------------------------------------------------
(* Properties.                                                             *)

\* Stamp's proof is worth keeping: it parses back, to its last byte, to the
\* tree that was built from the calendars' answers, and Verify accepts it, and
\* the authority's token, for the checkpoint id that was stamped and no other.
StampedVerifies ==
    /\ stamp.ots # None =>
          /\ ReadFile(stamp.ots) = Got(ProofTree(stamp.id, stamp.node), Len(stamp.ots) + 1)
          /\ \A id \in Ids : OtsVerify(stamp.ots, id) <=> id = stamp.id
    /\ stamp.tsa # None => \A id \in Ids : ParseAndCheck(stamp.tsa, id) <=> id = stamp.id

\* "no calendar reachable": Stamp fails only when no calendar's answer was read
\* whole, and otherwise the proof has every attestation of those that were and
\* none of an answer that was cut off, wherever the cut fell.
AnswersKept ==
    stamp.pc = "done" =>
        /\ stamp.ots = None <=> stamp.whole = {}
        /\ stamp.ots # None =>
              ToSet(Collect(ReadFile(stamp.ots).val)) = UNION {ToSet(Adds(k, stamp.id)) : k \in stamp.whole}

BitcoinOf(k) == {a \in ToSet(Adds(k, stamp.id)) : a.tag = tagBitcoin}

\* The messages recomputed while parsing are those the calendars computed: a
\* proof with a Bitcoin attestation passes VerifyBitcoin against the Merkle
\* roots of the blocks the calendars wrote to, for its own id only.
BitcoinVerifies ==
    LET atts == UNION {BitcoinOf(k) : k \in stamp.whole}
        merkleRoot == [h \in {a.body : a \in atts} |-> (CHOOSE a \in atts : a.body = h).msg]
    IN  stamp.ots # None =>
            \A id \in Ids : VerifyBitcoin(stamp.ots, id, merkleRoot) <=> id = stamp.id /\ atts # {}
=============================================================================
