----------------------------- MODULE MCGateway -----------------------------
(* Gateway with the invariants behind its properties, for TLC.             *)
EXTENDS GatewayInvariant, TLC

Symmetry == Permutations(Requests)
=============================================================================
