----------------------------- MODULE Checkpoint -----------------------------
(***************************************************************************)
(* internal/checkpoint: the Merkle root over a window of entry hashes, and *)
(* the checkpoint that commits to the window.  Hash(0x00 || h) is          *)
(* <<"leaf", h>> and Hash(0x01 || l || r) is <<"node", l, r>>.             *)
(***************************************************************************)
EXTENDS Canonical

\* Mutant: an odd last node is left out.
NextLevelPairsOnly(level) ==
    [i \in 1 .. Len(level) \div 2 |-> <<"node", level[2 * i - 1], level[2 * i]>>]

\* One round of the loop: pairs are hashed, an odd last node is paired with
\* itself.
NextLevel(level) ==
    [i \in 1 .. (Len(level) + 1) \div 2 |->
        LET left  == level[2 * i - 1]
            right == IF 2 * i <= Len(level) THEN level[2 * i] ELSE left
        IN  <<"node", left, right>>]

\* The loop runs until one node is left.
MerkleRoot(entryHashes) ==
    LET n == Len(entryHashes)
        Level[k \in 0 .. n] ==
            IF k = 0 THEN [i \in 1 .. n |-> <<"leaf", entryHashes[i]>>]
                     ELSE NextLevel(Level[k - 1])
        rounds == CHOOSE k \in 0 .. n :
                      Len(Level[k]) = 1 /\ \A j \in 0 .. k - 1 : Len(Level[j]) > 1
    IN  IF n = 0 THEN <<"leaf">> ELSE Level[rounds][1]

\* A checkpoint over a non-empty slice of entries.
Build(tenant, entries, prevCheckpointID, anchoredAt) ==
    LET n     == Len(entries)
        start == entries[1].seq
        end   == entries[n].seq
        head  == entries[n].hash
        root  == MerkleRoot([i \in 1 .. n |-> entries[i].hash])
    IN  [seqStart |-> start, seqEnd |-> end, entryCount |-> n,
         prev |-> prevCheckpointID, anchoredAt |-> anchoredAt,
         id |-> CheckpointID(tenant, start, end, n, head, root,
                             prevCheckpointID, anchoredAt)]
=============================================================================
