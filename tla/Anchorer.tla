------------------------------ MODULE Anchorer ------------------------------
(***************************************************************************)
(* internal/anchor over the stores it writes: the WORM bucket              *)
(* (internal/witness/s3worm), the Postgres working copy                    *)
(* (internal/anchorstore) and the notaries' proofs.  cmd/anchorer starts a *)
(* run from a ticker and one for each POST /anchor; nothing keeps two runs *)
(* of one process apart.                                                   *)
(*                                                                         *)
(* The log is the abstract one of AppendLog, given by its records: the     *)
(* entries follow from them.  A run reads a slice of it once and works on  *)
(* that slice, which, the log being append-only, is given by its bounds.   *)
(***************************************************************************)
EXTENDS Checkpoint, Witness, FiniteSetsExt

CONSTANTS
    Tenants,     \* tenant ids
    Recs,        \* contents of log records
    Runs,        \* concurrent runs of AnchorAll
    Ticker,      \* the run of the ticker, which starts again and again
    Notaries,    \* Anchorer.Notaries: the sequence of notary names
    WindowMax,   \* Anchorer.WindowMax: entries per checkpoint
    QueryLimit,  \* rows EntriesAsc returns when asked for "no limit"
    MaxLog,      \* bound: entries of all tenants together
    MaxFaults,   \* bound: runs that end early
    LatePuts,    \* whether a PutObject may land after its caller gave up
    None         \* no tenant, no checkpoint

ASSUME AnchorerConstants ==
    /\ Ticker \in Runs
    /\ WindowMax \in Nat \ {0}
    /\ QueryLimit \in Nat \ {0}
    /\ Notaries \in Seq(STRING)
    /\ MaxLog \in Nat
    /\ MaxFaults \in Nat
    /\ LatePuts \in BOOLEAN
    /\ None \notin Tenants

VARIABLES
    log,     \* per tenant, the records sealed so far
    worm,    \* per tenant, the WORM objects: seqEnd -> newest version
    cps,     \* per tenant, table checkpoints: seqEnd -> checkpoint
    proofs,  \* per tenant, table checkpoint_proofs: <<seqEnd, notary>> -> proof
    clock,   \* the trusted clock; no two readings are equal
    run,     \* per run, the locals of AnchorAll and AnchorTenant
    late,    \* the PutObject requests on their way whose caller gave up
    faults   \* runs that ended early so far

vars == <<log, worm, cps, proofs, clock, run, late, faults>>
stores == <<worm, cps, proofs>>

Chain == INSTANCE AppendLog
MemStore == INSTANCE Worm WITH records <- worm

EmptyMap == [x \in {} |-> None]
With(map, key, value) ==
    [x \in DOMAIN map \cup {key} |-> IF x = key THEN value ELSE map[x]]

\* INSERT ... ON CONFLICT DO NOTHING.
InsertOnce(map, key, value) == IF key \in DOMAIN map THEN map ELSE With(map, key, value)

NotRunning ==
    [pc |-> "idle", todo |-> {}, tenant |-> None, next |-> 0, upto |-> 0,
     prev |-> <<>>, cp |-> None, left |-> <<>>]

\* Between two calls of AnchorTenant only the rest of the tenants is left.
BetweenTenants(todo) == [NotRunning EXCEPT !.pc = "tenant", !.todo = todo]

Init ==
    /\ log = [t \in Tenants |-> <<>>]
    /\ worm = [t \in Tenants |-> EmptyMap]
    /\ cps = [t \in Tenants |-> EmptyMap]
    /\ proofs = [t \in Tenants |-> EmptyMap]
    /\ clock = 0
    /\ run = [r \in Runs |-> NotRunning]
    /\ late = {}
    /\ faults = 0

-----------------------------------------------------------------------------
\* The gateway seals another record.
Seal(t, rec) ==
    /\ MapThenSumSet(LAMBDA u : Len(log[u]), Tenants) < MaxLog
    /\ log' = [log EXCEPT ![t] = Append(@, rec)]
    /\ UNCHANGED <<stores, clock, run, late, faults>>

\* AnchorAll asks for the tenants that have logs; they come in no set order.
AnchorAll(r) ==
    /\ run[r].pc = "idle"
    /\ run' = [run EXCEPT ![r] = BetweenTenants({t \in Tenants : log[t] # <<>>})]
    /\ UNCHANGED <<log, stores, clock, late, faults>>

AnchorAllDone(r) ==
    /\ run[r].pc = "tenant"
    /\ run[r].todo = {}
    /\ run' = [run EXCEPT ![r] = NotRunning]
    /\ UNCHANGED <<log, stores, clock, late, faults>>

\* Mutant: the run resumes one entry too late.
LastCheckpointSkips(r, t) ==
    LET ends == DOMAIN cps[t]
        last == Max(ends)
    IN  /\ run[r].pc = "tenant"
        /\ t \in run[r].todo
        /\ run' = [run EXCEPT
              ![r].pc = "entries", ![r].todo = @ \ {t}, ![r].tenant = t,
              ![r].next = IF ends = {} THEN 0 ELSE last + 2,
              ![r].prev = IF ends = {} THEN <<>> ELSE cps[t][last].id]
        /\ UNCHANGED <<log, stores, clock, late, faults>>

\* AnchorTenant: where the Postgres copy says to resume.
LastCheckpoint(r, t) ==
    LET ends == DOMAIN cps[t]
        last == Max(ends)
    IN  /\ run[r].pc = "tenant"
        /\ t \in run[r].todo
        /\ run' = [run EXCEPT
              ![r].pc = "entries", ![r].todo = @ \ {t}, ![r].tenant = t,
              ![r].next = IF ends = {} THEN 0 ELSE last + 1,
              ![r].prev = IF ends = {} THEN <<>> ELSE cps[t][last].id]
        /\ UNCHANGED <<log, stores, clock, late, faults>>

\* EntriesAsc(tenant, start, 0): the slice next .. upto - 1 of the log.
EntriesAsc(r) ==
    LET upto == Min({Len(log[run[r].tenant]), run[r].next + QueryLimit})
    IN  /\ run[r].pc = "entries"
        /\ run' = [run EXCEPT ![r] =
              IF upto <= run[r].next
              THEN BetweenTenants(run[r].todo)
              ELSE [run[r] EXCEPT !.pc = "build", !.upto = upto]]
        /\ UNCHANGED <<log, stores, clock, late, faults>>

\* The entries of tenant t with sequence numbers from .. to - 1.
Slice(t, from, to) == SubSeq(Chain!Entries(t, log[t]), from + 1, to)

BuildWindow(r) ==
    LET t   == run[r].tenant
        end == Min({run[r].next + WindowMax, run[r].upto})
    IN  /\ run[r].pc = "build"
        /\ run' = [run EXCEPT
              ![r].cp = Build(t, Slice(t, run[r].next, end), run[r].prev, clock),
              ![r].pc = "get"]
        /\ clock' = clock + 1
        /\ UNCHANGED <<log, stores, late, faults>>

\* Mutant: every error of WORM.Put is taken for ErrImmutable.
WormGetAnyError(r) ==
    /\ run[r].pc = "get"
    /\ \E next \in {"put", "record"} : run' = [run EXCEPT ![r].pc = next]
    /\ UNCHANGED <<log, stores, clock, late, faults>>

\* Mutant: Put does not look for an existing object.
WormGetBlind(r) ==
    /\ run[r].pc = "get"
    /\ run' = [run EXCEPT ![r].pc = "put"]
    /\ UNCHANGED <<log, stores, clock, late, faults>>

\* s3worm.Put, first half: an object under this key is ErrImmutable, which
\* AnchorTenant takes to mean that the window is anchored already.
WormGet(r) ==
    /\ run[r].pc = "get"
    /\ run' = [run EXCEPT ![r].pc =
          IF run[r].cp.seqEnd \in DOMAIN worm[run[r].tenant] THEN "record" ELSE "put"]
    /\ UNCHANGED <<log, stores, clock, late, faults>>

\* Mutant: the object key counts the entries instead of naming the last one.
WormPutCountKey(r) ==
    /\ run[r].pc = "put"
    /\ worm' = [worm EXCEPT ![run[r].tenant] = With(@, run[r].cp.seqEnd + 1, run[r].cp)]
    /\ run' = [run EXCEPT ![r].pc = "record"]
    /\ UNCHANGED <<log, cps, proofs, clock, late, faults>>

\* s3worm.Put, second half: PutObject.  On a versioned bucket it succeeds
\* whatever is there, and readers get the newest version.
WormPut(r) ==
    /\ run[r].pc = "put"
    /\ worm' = [worm EXCEPT ![run[r].tenant] = With(@, run[r].cp.seqEnd, run[r].cp)]
    /\ run' = [run EXCEPT ![r].pc = "record"]
    /\ UNCHANGED <<log, cps, proofs, clock, late, faults>>

\* The working copy, keyed by (tenant_id, seq_end).
PutCheckpoint(r) ==
    /\ run[r].pc = "record"
    /\ cps' = [cps EXCEPT ![run[r].tenant] = InsertOnce(@, run[r].cp.seqEnd, run[r].cp)]
    /\ run' = [run EXCEPT ![r].pc = "stamp", ![r].left = Notaries]
    /\ UNCHANGED <<log, worm, proofs, clock, late, faults>>

\* Mutant: the previous checkpoint's id is stamped.
StampPrevious(r) ==
    LET cp     == run[r].cp
        notary == Head(run[r].left)
    IN  /\ run[r].pc = "stamp"
        /\ run[r].left # <<>>
        /\ proofs' = [proofs EXCEPT ![run[r].tenant] =
              InsertOnce(@, <<cp.seqEnd, notary>>, Stamp(notary, cp.prev))]
        /\ run' = [run EXCEPT ![r].left = Tail(@)]
        /\ UNCHANGED <<log, worm, cps, clock, late, faults>>

\* Stamp by the next notary, then PutProof, keyed by (tenant_id, seq_end, notary).
StampAndPutProof(r) ==
    LET cp     == run[r].cp
        notary == Head(run[r].left)
    IN  /\ run[r].pc = "stamp"
        /\ run[r].left # <<>>
        /\ proofs' = [proofs EXCEPT ![run[r].tenant] =
              InsertOnce(@, <<cp.seqEnd, notary>>, Stamp(notary, cp.id))]
        /\ run' = [run EXCEPT ![r].left = Tail(@)]
        /\ UNCHANGED <<log, worm, cps, clock, late, faults>>

\* Mutant: prevID is not moved on to the new checkpoint.
WindowDoneSamePrev(r) ==
    LET next == run[r].cp.seqEnd + 1
    IN  /\ run[r].pc = "stamp"
        /\ run[r].left = <<>>
        /\ run' = [run EXCEPT ![r] =
              IF next < run[r].upto
              THEN [run[r] EXCEPT !.pc = "build", !.next = next, !.cp = None]
              ELSE BetweenTenants(run[r].todo)]
        /\ UNCHANGED <<log, stores, clock, late, faults>>

\* The window is done: the next one chains to this checkpoint's id.
WindowDone(r) ==
    LET next == run[r].cp.seqEnd + 1
    IN  /\ run[r].pc = "stamp"
        /\ run[r].left = <<>>
        /\ run' = [run EXCEPT ![r] =
              IF next < run[r].upto
              THEN [run[r] EXCEPT !.pc = "build", !.prev = run[r].cp.id,
                                  !.next = next, !.cp = None]
              ELSE BetweenTenants(run[r].todo)]
        /\ UNCHANGED <<log, stores, clock, late, faults>>

\* A call fails (before or after it took effect) and AnchorAll returns the
\* error, the remaining tenants unserved; or the process dies.
Abort(r) ==
    /\ run[r].pc # "idle"
    /\ faults < MaxFaults
    /\ run' = [run EXCEPT ![r] = NotRunning]
    /\ \/ late' = late
       \/ /\ LatePuts /\ run[r].pc = "put"
          /\ late' = late \cup {[tenant |-> run[r].tenant, cp |-> run[r].cp]}
    /\ faults' = faults + 1
    /\ UNCHANGED <<log, stores, clock>>

\* The bucket executes a PutObject that timed out, or whose anchorer died.
LatePut(put) ==
    /\ put \in late
    /\ late' = late \ {put}
    /\ worm' = [worm EXCEPT ![put.tenant] = With(@, put.cp.seqEnd, put.cp)]
    /\ UNCHANGED <<log, cps, proofs, clock, run, faults>>

-----------------------------------------------------------------------------
Step(r) ==
    \/ AnchorAllDone(r)
    \/ \E t \in Tenants : LastCheckpoint(r, t)
    \/ EntriesAsc(r) \/ BuildWindow(r) \/ WormGet(r) \/ WormPut(r)
    \/ PutCheckpoint(r) \/ StampAndPutProof(r) \/ WindowDone(r)

Next ==
    \/ \E t \in Tenants, rec \in Recs : Seal(t, rec)
    \/ \E r \in Runs : AnchorAll(r) \/ Step(r) \/ Abort(r)
    \/ \E put \in late : LatePut(put)

Spec == Init /\ [][Next]_vars

(***************************************************************************)
(* A run that has started goes on (its calls return, if only with an       *)
(* error: Abort), and the ticker starts its next one.  Nobody has to send  *)
(* POST /anchor.                                                           *)
(***************************************************************************)
FairSpec ==
    /\ Spec
    /\ \A r \in Runs : WF_vars(Step(r))
    /\ WF_vars(AnchorAll(Ticker))

-----------------------------------------------------------------------------
(* Properties.                                                             *)

TypeOK ==
    /\ log \in [Tenants -> Seq(Recs)]
    /\ \A t \in Tenants : DOMAIN worm[t] \cup DOMAIN cps[t] \subseteq 0 .. Len(log[t]) - 1
    /\ \A t \in Tenants : DOMAIN proofs[t] \subseteq (0 .. Len(log[t]) - 1) \X STRING
    /\ clock \in Nat
    /\ faults \in 0 .. MaxFaults
    /\ \A put \in late :
          put.tenant \in Tenants /\ put.cp.seqEnd \in 0 .. Len(log[put.tenant]) - 1
    /\ \A r \in Runs :
          /\ run[r].pc \in {"idle", "tenant", "entries", "build", "get", "put", "record", "stamp"}
          /\ run[r].todo \subseteq Tenants
          /\ run[r].tenant \in Tenants \cup {None}
          /\ run[r].next \in Nat /\ run[r].upto \in Nat

Covered(t, s) ==
    \E e \in DOMAIN worm[t] : worm[t][e].seqStart <= s /\ s <= worm[t][e].seqEnd

\* AnchorTenant writes WORM first, so what Postgres says is anchored is
\* anchored: no entry at or below the resume point is missing from WORM, and
\* neither a crash between the two writes nor a PutObject that lands late makes
\* a later run skip an entry.
ResumePointCovered ==
    \A t \in Tenants : \A e \in DOMAIN cps[t] :
        /\ e \in DOMAIN worm[t]
        /\ \A s \in 0 .. e : Covered(t, s)

\* Every WORM object commits to what the log holds in its window, also when
\* it was written by a run that then failed, or raced with another run.
WormMatchesLog ==
    \A t \in Tenants : \A e \in DOMAIN worm[t] :
        LET cp == worm[t][e]
        IN  /\ cp.seqEnd = e
            /\ e < Len(log[t])
            /\ cp = Build(t, Slice(t, cp.seqStart, e + 1), cp.prev, cp.anchoredAt)

\* PutProof keys a proof by (tenant, seq_end): it attests the checkpoint that
\* the working copy records under that key.
ProofAttestsRecord ==
    \A t \in Tenants : \A k \in DOMAIN proofs[t] :
        k[1] \in DOMAIN cps[t] /\ VerifyProof(k[2], proofs[t][k], cps[t][k[1]].id)

\* PutCheckpoint: "the full document is the same JSON written to WORM".
WorkingCopyMatchesWorm ==
    \A t \in Tenants : \A e \in DOMAIN cps[t] :
        e \in DOMAIN worm[t] /\ cps[t][e] = worm[t][e]

\* ErrImmutable: "refusing to overwrite an already-anchored checkpoint".  What
\* Get and All return for a key never changes.
WormImmutable ==
    [][\A t \in Tenants : \A e \in DOMAIN worm[t] :
          e \in DOMAIN worm'[t] /\ worm'[t][e] = worm[t][e]]_vars

\* s3worm's two requests per Put, driven by one run at a time, implement the
\* write-once store: each step fills one free key or leaves the bucket alone,
\* also when the run fails or dies between its calls and another one repeats
\* the window.
ImplementsMemStore == MemStore!Spec

\* The anchorer "reads entries sealed since the last checkpoint": every sealed
\* entry comes to be covered by a WORM checkpoint.
EventuallyAnchored ==
    \A t \in Tenants : \A s \in 0 .. MaxLog - 1 : s < Len(log[t]) ~> Covered(t, s)
=============================================================================
