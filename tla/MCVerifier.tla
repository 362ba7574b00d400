----------------------------- MODULE MCVerifier -----------------------------
(* Verifier with the instances TLC is given.                               *)
EXTENDS Verifier

TwoNotaries == <<"TSA", "OTS">>
OneNotary == <<"TSA">>
=============================================================================
