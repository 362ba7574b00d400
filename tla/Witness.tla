------------------------------ MODULE Witness ------------------------------
(***************************************************************************)
(* internal/witness: what a store of checkpoints lists, the notaries, and  *)
(* the proofs held from them.  A store's objects of one tenant are a map   *)
(* seqEnd -> checkpoint; Worm has how they come to be.  Only the notary    *)
(* can make its proof of an id (an HMAC under its secret, or a signed      *)
(* timestamp), so a proof is who made it and the id it attests.  A ledger  *)
(* is what is held for one tenant: <<seqEnd, notary>> -> proof.            *)
(***************************************************************************)
EXTENDS Naturals, FiniteSets

\* The members of a finite set of numbers in increasing order.
InOrder(S) ==
    CHOOSE order \in [1 .. Cardinality(S) -> S] :
        \A i, j \in 1 .. Cardinality(S) : i < j => order[i] < order[j]

\* CheckpointStore.All: the checkpoints sorted by seqEnd.
All(objects) ==
    [k \in 1 .. Cardinality(DOMAIN objects) |-> objects[InOrder(DOMAIN objects)[k]]]

Stamp(notary, checkpointID) == [notary |-> notary, attests |-> checkpointID]

\* Notary.Verify returns nil.
VerifyProof(notary, proof, checkpointID) == proof = Stamp(notary, checkpointID)

\* ProofLedger.Get: the proofs held for the checkpoint that ends at seqEnd.
LedgerGet(ledger, seqEnd) == {ledger[k] : k \in {key \in DOMAIN ledger : key[1] = seqEnd}}
=============================================================================
