------------------------------ MODULE Snapshot ------------------------------
(***************************************************************************)
(* What verification says when it reads the rows, the proofs and the WORM  *)
(* objects of the system at one moment, beside any anchoring runs.         *)
(* Verifier has the sweep as it runs.                                      *)
(***************************************************************************)
EXTENDS Anchorer, Verify

NotaryNames == {Notaries[i] : i \in 1 .. Len(Notaries)}

\* WORM.All: the newest version of each object, sorted by seqEnd.
WormAll(t) == All(worm[t])

\* EntriesAsc(tenant, 0, 0): at most QueryLimit rows.
AllEntries(t, recs) == SubSeq(Chain!Entries(t, recs), 1, Min({Len(recs), QueryLimit}))

\* What verification says about tenant t when its rows are those of recs.
IssuesGiven(t, recs) ==
    TenantIssues(t, AllEntries(t, recs), WormAll(t), proofs[t], NotaryNames)

-----------------------------------------------------------------------------
(* Properties.                                                             *)

\* verify_test.go: "honest system should verify".  A verification that reads
\* everything at one moment finds nothing to report, at any moment, also in
\* the middle of an anchoring run.
HonestVerifies == \A t \in Tenants : IssuesGiven(t, log[t]) = {}

CoveredSeqs(t) == {s \in 0 .. MaxLog - 1 : Covered(t, s)}

\* The purpose of the whole construction: verification passes only on rows
\* that agree with what was sealed, wherever a WORM checkpoint covers it.  The
\* rows may be any chain that is consistent in itself.
VerifyBinds ==
    \A t \in Tenants : \A recs \in BoundedSeq(Recs, MaxLog) \ {<<>>} :
        IssuesGiven(t, recs) = {} =>
            \A s \in CoveredSeqs(t) : s < Len(recs) /\ recs[s + 1] = log[t][s + 1]

\* verifyChain "catches a naive edit ... and any deletion in the body": rows
\* with one record changed, or one row but the last missing, and no hash
\* recomputed, are reported whether or not anything was anchored.
NaiveChangeCaught ==
    \A t \in Tenants :
        LET rows == Chain!Entries(t, log[t])
        IN  \A i \in 1 .. Len(rows) :
              /\ \A rec \in Recs \ {rows[i].rec} :
                    ChainIssues(t, [rows EXCEPT ![i].rec = rec]) # {}
              /\ i < Len(rows) => ChainIssues(t, Delete(rows, rows[i].seq)) # {}
=============================================================================
