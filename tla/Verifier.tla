------------------------------ MODULE Verifier ------------------------------
(***************************************************************************)
(* internal/verifylive and cmd/verifier: a verification sweep that runs    *)
(* while the gateway seals and the anchorer anchors.  verifyTenants reads  *)
(* every tenant's rows and proofs first; only then does Verify read the    *)
(* WORM objects, tenant by tenant.                                         *)
(***************************************************************************)
EXTENDS Snapshot

VARIABLE sweep  \* the sweep's locals

verifierVars == <<vars, sweep>>

NotSweeping ==
    [pc |-> "idle", todo |-> {}, tenant |-> None,
     entries |-> EmptyMap, ledger |-> EmptyMap, issues |-> {}]

VerifierInit == Init /\ sweep = NotSweeping

\* Run: Load lists the tenants that have logs.
Load ==
    /\ sweep.pc = "idle"
    /\ sweep' = [NotSweeping EXCEPT !.pc = "entries",
                                    !.todo = {t \in Tenants : log[t] # <<>>}]
    /\ UNCHANGED vars

\* RunTenant: a single tenant, named by the caller.
LoadTenant(t) ==
    /\ sweep.pc = "idle"
    /\ sweep' = [NotSweeping EXCEPT !.pc = "entries", !.todo = {t}]
    /\ UNCHANGED vars

ReadEntries(t) ==
    /\ sweep.pc = "entries"
    /\ t \in sweep.todo
    /\ sweep' = [sweep EXCEPT !.pc = "ledger", !.todo = @ \ {t}, !.tenant = t,
                              !.entries = With(@, t, AllEntries(t, log[t]))]
    /\ UNCHANGED vars

LoadLedger ==
    /\ sweep.pc = "ledger"
    /\ sweep' = [sweep EXCEPT !.pc = "entries", !.tenant = None,
                              !.ledger = With(@, sweep.tenant, proofs[sweep.tenant])]
    /\ UNCHANGED vars

StartVerify ==
    /\ sweep.pc = "entries"
    /\ sweep.todo = {}
    /\ sweep' = [sweep EXCEPT !.pc = "verify", !.todo = DOMAIN sweep.entries]
    /\ UNCHANGED vars

VerifyTenant(t) ==
    /\ sweep.pc = "verify"
    /\ t \in sweep.todo
    /\ sweep' = [sweep EXCEPT
          !.todo = @ \ {t},
          !.issues = @ \cup {[tenant |-> t, issue |-> i] :
              i \in TenantIssues(t, sweep.entries[t], WormAll(t), sweep.ledger[t], NotaryNames)}]
    /\ UNCHANGED vars

\* WORM.All fails: that is an issue of its own, and the tenant's checkpoints
\* are not checked.
WormReadFails(t) ==
    /\ sweep.pc = "verify"
    /\ t \in sweep.todo
    /\ sweep.entries[t] # <<>>
    /\ sweep' = [sweep EXCEPT
          !.todo = @ \ {t},
          !.issues = @ \cup {[tenant |-> t, issue |-> i] :
              i \in ChainIssues(t, sweep.entries[t]) \cup {Issue("worm-error", None)}}]
    /\ UNCHANGED vars

\* The report is logged, or answered to GET /verify.
Report ==
    /\ sweep.pc = "verify"
    /\ sweep.todo = {}
    /\ sweep' = NotSweeping
    /\ UNCHANGED vars

\* A query fails: the sweep logs the error and reports nothing.
SweepFails ==
    /\ sweep.pc \in {"entries", "ledger"}
    /\ sweep' = NotSweeping
    /\ UNCHANGED vars

SweepStep ==
    \/ Load \/ LoadLedger \/ StartVerify \/ Report \/ SweepFails
    \/ \E t \in Tenants :
          LoadTenant(t) \/ ReadEntries(t) \/ VerifyTenant(t) \/ WormReadFails(t)

VerifierNext == SweepStep \/ (Next /\ UNCHANGED sweep)

VerifierSpec == VerifierInit /\ [][VerifierNext]_verifierVars

-----------------------------------------------------------------------------
(* Properties.                                                             *)

\* verify_test.go: "honest system should verify", of a sweep that runs beside
\* the gateway and the anchorer.  A WORM store it could not read is set aside.
SweepReportsNothing == \A i \in sweep.issues : i.issue.kind = "worm-error"

\* The only thing a sweep reports about honest data is that a checkpoint
\* covers entries sealed after the sweep read the rows.  (The gateway seals in
\* order, so no entry the sweep did read can be concerned.)
SweepReportsOnlyNewEntries ==
    \A i \in sweep.issues : i.issue.kind # "worm-error" =>
        /\ i.issue.kind = "truncation"
        /\ i.issue.seq >= Len(sweep.entries[i.tenant])
        /\ i.issue.seq < Len(log[i.tenant])
=============================================================================
