------------------------------- MODULE Verify -------------------------------
(***************************************************************************)
(* internal/verify: what a verification run reports, as a function of what *)
(* it was given.  For one tenant that is                                   *)
(*   entries   its rows as chain.Store holds them, sorted by seq           *)
(*   anchored  what WORM.All returns: its checkpoints sorted by seqEnd     *)
(*   ledger    the proofs held, as in Witness                           *)
(* and `notaries' is the set of notary names this verifier knows.          *)
(***************************************************************************)
EXTENDS Checkpoint, Witness, FiniteSetsExt, SequencesExt

Issue(kind, seq) == [kind |-> kind, seq |-> seq]

\* Mutant: the stored entry hash is trusted.
ChainIssuesUnhashed(t, entries) ==
    LET prev(i) == IF i = 1 THEN Genesis(t) ELSE entries[i - 1].hash
        bad == {i \in 1 .. Len(entries) : entries[i].seq # i - 1 \/ entries[i].prev # prev(i)}
    IN  IF bad = {} THEN {} ELSE {Issue("chain-break", Min(bad) - 1)}

\* verifyChain stops at the first entry that is out of sequence, does not link
\* to its predecessor, or does not hash to its stored hash.
ChainIssues(t, entries) ==
    LET prev(i)   == IF i = 1 THEN Genesis(t) ELSE entries[i - 1].hash
        gap(i)    == entries[i].seq # i - 1
        broken(i) == entries[i].prev # prev(i)
        edited(i) == entries[i].hash #
                        ChainHash(prev(i), EntryLeaf(t, entries[i].seq, entries[i].rec))
        bad       == {i \in 1 .. Len(entries) : gap(i) \/ broken(i) \/ edited(i)}
        first     == Min(bad)
        kind      == IF gap(first) THEN "sequence-gap"
                     ELSE IF broken(first) THEN "chain-break" ELSE "entry-tamper"
    IN  IF bad = {} THEN {} ELSE {Issue(kind, first - 1)}

\* chain.Store.Range indexes the rows by seq; of two with one seq the later
\* one is kept.
RowAt(entries, s) == entries[Max({i \in 1 .. Len(entries) : entries[i].seq = s})]
RangeOf(entries, start, end) == [i \in 1 .. end - start + 1 |-> RowAt(entries, start + i - 1)]

\* chain.Store.Delete: the entries with another seq stay, in their order.
Delete(entries, s) ==
    LET kept == {i \in 1 .. Len(entries) : entries[i].seq # s}
    IN  [k \in 1 .. Cardinality(kept) |-> entries[InOrder(kept)[k]]]

\* Mutant: only the presence of the committed entries is checked.
CheckpointIssuesByCount(t, entries, anchored, ledger, notaries, k) ==
    LET missing == {s \in anchored[k].seqStart .. anchored[k].seqEnd :
                       \A i \in 1 .. Len(entries) : entries[i].seq # s}
    IN  IF missing = {} THEN {} ELSE {Issue("truncation", Min(missing))}

\* One round of verifyCheckpoints, for the k-th anchored checkpoint.
CheckpointIssues(t, entries, anchored, ledger, notaries, k) ==
    LET cp      == anchored[k]
        prevID  == IF k = 1 THEN <<>> ELSE anchored[k - 1].id
        missing == {s \in cp.seqStart .. cp.seqEnd :
                       \A i \in 1 .. Len(entries) : entries[i].seq # s}
        rebuilt == Build(t, RangeOf(entries, cp.seqStart, cp.seqEnd), prevID, cp.anchoredAt)
    IN  IF missing # {}
        THEN {Issue("truncation", Min(missing))}
        ELSE {i \in {Issue("checkpoint-mismatch", cp.seqEnd)} : rebuilt.id # cp.id}
             \cup {i \in {Issue("notary-mismatch", cp.seqEnd)} :
                      \E p \in LedgerGet(ledger, cp.seqEnd) :
                          p.notary \in notaries /\ ~VerifyProof(p.notary, p, rebuilt.id)}

\* Verify's loop body.  It runs for store.Tenants(), the tenants with a row.
TenantIssues(t, entries, anchored, ledger, notaries) ==
    IF entries = <<>> THEN {}
    ELSE ChainIssues(t, entries)
         \cup UNION {CheckpointIssues(t, entries, anchored, ledger, notaries, k) :
                        k \in 1 .. Len(anchored)}
=============================================================================
