----------------------------- MODULE MCPipeline -----------------------------
(* Pipeline for TLC.                                                       *)
EXTENDS Pipeline, TLC

OneNotary == <<"TSA">>

Symmetry == Permutations(Requests)
=============================================================================
