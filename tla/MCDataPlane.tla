---------------------------- MODULE MCDataPlane ----------------------------
(* DataPlane for TLC.                                                      *)
EXTENDS DataPlane, TLC

MCQueries ==
    {Params(None, None, Recs, 0), Params(1, None, Recs, 2), Params(None, 0, Recs, 3),
     Params(None, None, {CHOOSE rec \in Recs : TRUE}, 2)}

Symmetry == Permutations(Requests) \cup Permutations(Keys) \cup Permutations(Tenants)
=============================================================================
