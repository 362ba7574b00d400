----------------------------- MODULE Canonical -----------------------------
(***************************************************************************)
(* internal/crypto/canonical.go: the hashes every component must agree on. *)
(*                                                                         *)
(* SHA-256 over the length-prefixed, domain-tagged encoding is taken to be *)
(* free of collisions, so a digest IS what was hashed.  A chain hash is    *)
(* H(prev || leaf) iterated from a tenant's genesis value: it is kept flat,*)
(* as the tenant of the genesis value and the leaves absorbed since.  Two  *)
(* chain hashes are equal exactly when they absorbed the same leaves in    *)
(* the same order from the same genesis.  A checkpoint id is the one-field *)
(* sequence of what was hashed, the previous id among it; the nil previous *)
(* id of the first checkpoint is <<>>.                                     *)
(***************************************************************************)
EXTENDS Naturals, Sequences

Genesis(tenant) == [tenant |-> tenant, leaves |-> <<>>]

\* The record stands for event time, ingest time, source and raw line.
EntryLeaf(tenant, seq, rec) == [tenant |-> tenant, seq |-> seq, rec |-> rec]

ChainHash(prevHash, leaf) ==
    [tenant |-> prevHash.tenant, leaves |-> Append(prevHash.leaves, leaf)]

\* CanonVersion is constant.
CheckpointID(tenant, seqStart, seqEnd, entryCount, headHash, merkleRoot, prev, anchoredAt) ==
    <<[tenant |-> tenant, seqStart |-> seqStart, seqEnd |-> seqEnd,
       entryCount |-> entryCount, headHash |-> headHash, merkleRoot |-> merkleRoot,
       prev |-> prev, anchoredAt |-> anchoredAt]>>

Leaf(Tenants, Recs) == [tenant: Tenants, seq: Nat, rec: Recs]
Hash(Tenants, Recs) == [tenant: Tenants, leaves: Seq(Leaf(Tenants, Recs))]
=============================================================================
