------------------------------ MODULE Pipeline ------------------------------
(***************************************************************************)
(* The gateway's real table under the anchorer and the verifier.  Anchorer *)
(* and Verifier read the linear log that AppendLog promises; when a failed *)
(* INSERT may still take effect the table can hold two rows with one seq,  *)
(* and this module has the anchorer resume, read and cut windows over      *)
(* whatever rows there are, while requests are sealed, fail and retry.     *)
(*                                                                         *)
(* One run of AnchorTenant at a time: two at once are Anchorer's subject.  *)
(* It may end between any two of its calls, and its PutObject may still be *)
(* executed afterwards.                                                    *)
(***************************************************************************)
EXTENDS Gateway, Verify

CONSTANTS
    Notaries,    \* Anchorer.Notaries: the sequence of notary names
    WindowMax,   \* Anchorer.WindowMax: entries per checkpoint
    QueryLimit,  \* rows EntriesAsc returns when asked for "no limit"
    MaxBuilds    \* bound: checkpoints built

ASSUME PipelineConstants ==
    /\ Notaries \in Seq(STRING)
    /\ WindowMax \in Nat \ {0}
    /\ QueryLimit \in Nat \ {0}
    /\ MaxBuilds \in Nat

VARIABLES
    worm,    \* per tenant, the WORM objects: seqEnd -> newest version
    cps,     \* per tenant, the working copy: seqEnd -> checkpoint
    proofs,  \* per tenant, table checkpoint_proofs: <<seqEnd, notary>> -> proof
    clock,   \* the trusted clock; no two readings are equal
    run,     \* the locals of AnchorTenant
    late,    \* the PutObject requests on their way whose run has ended
    leaves,  \* history: per tenant, seqEnd -> the rows that object commits to
    cut      \* history: the tenants of which a run ended with its WORM object
             \* put, or on its way, and not recorded in the working copy

anchorVars == <<worm, cps, proofs, clock, run, late, leaves, cut>>
pipelineVars == <<vars, anchorVars>>

EmptyMap == [x \in {} |-> None]
With(map, key, value) ==
    [x \in DOMAIN map \cup {key} |-> IF x = key THEN value ELSE map[x]]

\* INSERT ... ON CONFLICT DO NOTHING.
InsertOnce(map, key, value) == IF key \in DOMAIN map THEN map ELSE With(map, key, value)

Idle == [pc |-> "idle", tenant |-> None, entries |-> <<>>, prev |-> <<>>, cp |-> None, left |-> <<>>]

PipelineInit ==
    /\ Init
    /\ worm = [t \in Tenants |-> EmptyMap]
    /\ cps = [t \in Tenants |-> EmptyMap]
    /\ proofs = [t \in Tenants |-> EmptyMap]
    /\ clock = 0
    /\ run = Idle
    /\ late = {}
    /\ leaves = [t \in Tenants |-> EmptyMap]
    /\ cut = {}

-----------------------------------------------------------------------------
\* The orders ORDER BY seq can give: rows with one seq come in any order.
BySeq(S) ==
    LET Lowest(T) == {row \in T : \A other \in T : row.seq <= other.seq}
        Orders[T \in SUBSET S] ==
            IF T = {} THEN {<<>>}
            ELSE UNION {{<<row>> \o rest : rest \in Orders[T \ {row}]} : row \in Lowest(T)}
    IN  Orders[S]

\* EntriesAsc over the rows S, asked for no limit: the first rows of an order.
EntriesAsc(S) == {SubSeq(order, 1, Min({QueryLimit, Len(order)})) : order \in BySeq(S)}

\* Mutant: the entry after the last checkpoint is skipped.
ResumeAtSkips(t) == IF cps[t] = EmptyMap THEN 0 ELSE Max(DOMAIN cps[t]) + 2

\* LastCheckpoint: the seq from which AnchorTenant reads on.
ResumeAt(t) == IF cps[t] = EmptyMap THEN 0 ELSE Max(DOMAIN cps[t]) + 1

\* LastCheckpoint and EntriesAsc.  Without rows to anchor the run is over.
AnchorTenant(t) ==
    LET pending == {row \in rows[t] : row.seq >= ResumeAt(t)}
        prev    == IF cps[t] = EmptyMap THEN <<>> ELSE cps[t][Max(DOMAIN cps[t])].id
    IN  /\ run = Idle
        /\ pending # {}
        /\ \E entries \in EntriesAsc(pending) :
              run' = [Idle EXCEPT !.pc = "build", !.tenant = t, !.entries = entries, !.prev = prev]
        /\ UNCHANGED <<vars, worm, cps, proofs, clock, late, leaves, cut>>

\* run.entries are what the loop has left: the window in hand and the rest.
Window(entries) == SubSeq(entries, 1, Min({WindowMax, Len(entries)}))
Rest(entries) == SubSeq(entries, Min({WindowMax, Len(entries)}) + 1, Len(entries))

\* Build, and s3worm.Put up to its Get: a window whose last seq has an object
\* (ErrImmutable) is taken for anchored.
BuildAndGet ==
    LET cp == Build(run.tenant, Window(run.entries), run.prev, clock)
    IN  /\ run.pc = "build"
        /\ clock < MaxBuilds
        /\ clock' = clock + 1
        /\ run' = [run EXCEPT
              !.cp = cp,
              !.pc = IF cp.seqEnd \in DOMAIN worm[run.tenant] THEN "record" ELSE "put"]
        /\ UNCHANGED <<vars, worm, cps, proofs, late, leaves, cut>>

\* The bucket executes a PutObject; it succeeds whatever is under the key.
PutObject(t, cp, committed) ==
    /\ worm' = [worm EXCEPT ![t] = With(@, cp.seqEnd, cp)]
    /\ leaves' = [leaves EXCEPT ![t] = With(@, cp.seqEnd, committed)]

\* The rest of s3worm.Put.
PutWorm ==
    /\ run.pc = "put"
    /\ PutObject(run.tenant, run.cp, Range(Window(run.entries)))
    /\ run' = [run EXCEPT !.pc = "record"]
    /\ UNCHANGED <<vars, cps, proofs, clock, late, cut>>

PutCheckpoint ==
    /\ run.pc = "record"
    /\ cps' = [cps EXCEPT ![run.tenant] = InsertOnce(@, run.cp.seqEnd, run.cp)]
    /\ run' = [run EXCEPT !.pc = "stamp", !.left = Notaries]
    /\ UNCHANGED <<vars, worm, proofs, clock, late, leaves, cut>>

\* Stamp by the next notary, then PutProof.
StampAndPutProof ==
    LET notary == Head(run.left)
    IN  /\ run.pc = "stamp"
        /\ run.left # <<>>
        /\ proofs' = [proofs EXCEPT ![run.tenant] =
              InsertOnce(@, <<run.cp.seqEnd, notary>>, Stamp(notary, run.cp.id))]
        /\ run' = [run EXCEPT !.left = Tail(@)]
        /\ UNCHANGED <<vars, worm, cps, clock, late, leaves, cut>>

\* Mutant: the previous id is not moved on.
WindowDoneSamePrev ==
    /\ run.pc = "stamp"
    /\ run.left = <<>>
    /\ run' = IF Rest(run.entries) = <<>> THEN Idle
              ELSE [run EXCEPT !.pc = "build", !.entries = Rest(@), !.cp = None]
    /\ UNCHANGED <<vars, worm, cps, proofs, clock, late, leaves, cut>>

\* The next window chains to this checkpoint's id.
WindowDone ==
    /\ run.pc = "stamp"
    /\ run.left = <<>>
    /\ run' = IF Rest(run.entries) = <<>> THEN Idle
              ELSE [run EXCEPT !.pc = "build", !.entries = Rest(@), !.prev = run.cp.id,
                               !.cp = None]
    /\ UNCHANGED <<vars, worm, cps, proofs, clock, late, leaves, cut>>

\* A call fails, before or after it took effect, or the anchorer dies.
AnchorFails ==
    /\ run # Idle
    /\ run' = Idle
    /\ \/ /\ late' = late
          /\ cut' = IF run.pc = "record" THEN cut \cup {run.tenant} ELSE cut
       \/ /\ run.pc = "put"
          /\ late' = late \cup {[tenant |-> run.tenant, cp |-> run.cp,
                                 rows |-> Range(Window(run.entries))]}
          /\ cut' = cut \cup {run.tenant}
    /\ UNCHANGED <<vars, worm, cps, proofs, clock, leaves>>

\* A PutObject is executed whose run has ended.
LatePut(put) ==
    /\ put \in late
    /\ late' = late \ {put}
    /\ PutObject(put.tenant, put.cp, put.rows)
    /\ UNCHANGED <<vars, cps, proofs, clock, run, cut>>

PipelineNext ==
    \/ Next /\ UNCHANGED anchorVars
    \/ \E t \in Tenants : AnchorTenant(t)
    \/ BuildAndGet \/ PutWorm \/ PutCheckpoint \/ StampAndPutProof \/ WindowDone
    \/ AnchorFails
    \/ \E put \in late : LatePut(put)

PipelineSpec == PipelineInit /\ [][PipelineNext]_pipelineVars

-----------------------------------------------------------------------------
(* Properties.                                                             *)

\* What verification of tenant t may report now, of rows, WORM and proofs.
Silent(t) ==
    \E entries \in EntriesAsc(rows[t]) :
        TenantIssues(t, entries, All(worm[t]), proofs[t], Range(Notaries)) = {}

\* Row e is among the leaves of a WORM checkpoint.
Committed(t, e) == \E end \in DOMAIN leaves[t] : e \in leaves[t][end]

UniqueSeqs(t) == \A a, b \in rows[t] : a.seq = b.seq => a = b

\* One read returns all rows of the tenant.
FitsOneRead(t) == Cardinality(rows[t]) <= QueryLimit

AckedBelow(t) ==
    {e \in UNION {draft[r].entries : r \in {q \in Requests : Acked(q) /\ tenant[q] = t}} :
        e.seq < ResumeAt(t)}

\* AnchorTenant "anchors all entries sealed since the tenant's last checkpoint":
\* an acknowledged entry that the resume point has passed is committed to.
AckedCommitted == \A t \in Tenants : \A e \in AckedBelow(t) : Committed(t, e)

\* A doubled seq is the only way to lose an entry so: where seqs are unique,
\* every row below the resume point is committed to, whatever INSERTs failed
\* and came late, however little one read returned, between whatever calls runs
\* ended, and although a late PutObject replaces an object.
ResumePointCommitted ==
    \A t \in Tenants : UniqueSeqs(t) =>
        \A row \in rows[t] : row.seq < ResumeAt(t) => Committed(t, row)

\* What verification says of the live tables, as long as one read returns all
\* rows.  A doubled seq is always reported; and whatever is reported is due to
\* a doubled seq or to a run that left an object in WORM and not in the working
\* copy (the next run builds that window anew, under another id).  Failed and
\* late INSERTs, restarts, and runs that end elsewhere raise no alarm.
AlarmsExplained ==
    \A t \in Tenants : FitsOneRead(t) =>
        /\ Silent(t) => UniqueSeqs(t)
        /\ UniqueSeqs(t) /\ t \notin cut => Silent(t)
=============================================================================
