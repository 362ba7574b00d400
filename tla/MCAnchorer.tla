----------------------------- MODULE MCAnchorer -----------------------------
(* Anchorer for TLC.                                                       *)
EXTENDS Anchorer

OneNotary == <<"TSA">>
=============================================================================
