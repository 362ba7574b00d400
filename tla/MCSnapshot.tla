----------------------------- MODULE MCSnapshot -----------------------------
(* Snapshot for TLC: anchoring alone, for what verification would say of it. *)
EXTENDS Snapshot, TLC

NoNotary == <<>>

Symmetry == Permutations(Recs)
=============================================================================
