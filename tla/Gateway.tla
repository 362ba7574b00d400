------------------------------ MODULE Gateway ------------------------------
(***************************************************************************)
(* The ingest gateway: internal/ingest (HTTP handler and persistent        *)
(* sealer) writing to the ClickHouse table of internal/logstore.           *)
(*                                                                         *)
(* Every POST /ingest is a goroutine of its own.  SealBatch holds s.mu     *)
(* across two network calls: Head, when this process has not yet cached    *)
(* the tenant's chain head, and Append.  The head cache lives only as long *)
(* as the process.                                                         *)
(*                                                                         *)
(* Append is one INSERT: the rows of a batch appear together (a batch has  *)
(* one tenant and one ingest time, hence one partition).  The table is a   *)
(* plain MergeTree, which accepts two rows with the same (tenant, seq).    *)
(* An INSERT is first on the wire, then lands or is lost.  With            *)
(* AmbiguousAppend, an Append that returned an error (a timeout, a client  *)
(* that hung up and so cancelled r.Context(), a dropped connection), or    *)
(* whose gateway died, may have landed already or land later; without it,  *)
(* an error means that the rows were not and will not be written.          *)
(***************************************************************************)
EXTENDS Canonical, FiniteSets

CONSTANTS
    Tenants,          \* tenant ids
    Requests,         \* POST /ingest requests; a client's retry is another one
    MaxBatch,         \* bound: records per request
    AmbiguousAppend,  \* whether a failed INSERT may still take effect
    None              \* no holder, no cached head, no tenant

ASSUME GatewayConstants ==
    /\ MaxBatch \in Nat \ {0}
    /\ AmbiguousAppend \in BOOLEAN
    /\ None \notin Tenants
    /\ None \notin Requests

VARIABLES
    rows,    \* per tenant, the rows of the logs table
    wire,    \* the requests whose INSERT is on its way to ClickHouse
    mu,      \* the request that holds Sealer.mu, or None
    heads,   \* Sealer.heads, per tenant: None when not cached
    pc,      \* where each request's handler is
    tenant,  \* per request, the tenant its key resolved to
    size,    \* per request, the number of records in its body
    draft    \* per request, SealBatch's locals seq, prev and entries

vars == <<rows, wire, mu, heads, pc, tenant, size, draft>>

\* The number of log objects parseLogObjects may find in a body.
BodySizes == 0 .. MaxBatch

\* Record: the i-th of a request.  Its event time, source and
\* raw line are not told apart further; its ingest time is the request's own.
Rec == Requests \X (Nat \ {0})
Digest == Hash(Tenants, Rec)
Row == [seq: Nat, rec: Rec, prev: Digest, hash: Digest]
HeadState == [nextSeq: Nat, prevHash: Digest]
NoDraft == [seq |-> 0, prev |-> None, entries |-> {}]

TypeOK ==
    /\ rows \in [Tenants -> SUBSET Row]
    /\ wire \subseteq Requests
    /\ mu \in Requests \cup {None}
    /\ heads \in [Tenants -> HeadState \cup {None}]
    /\ pc \in [Requests -> {"new", "queued", "locked", "sealing", "appending", "ok", "failed"}]
    /\ tenant \in [Requests -> Tenants \cup {None}]
    /\ size \in [Requests -> BodySizes]
    /\ draft \in [Requests -> [seq: Nat, prev: Digest \cup {None}, entries: SUBSET Row]]

Init ==
    /\ rows = [t \in Tenants |-> {}]
    /\ wire = {}
    /\ mu = None
    /\ heads = [t \in Tenants |-> None]
    /\ pc = [r \in Requests |-> "new"]
    /\ tenant = [r \in Requests |-> None]
    /\ size = [r \in Requests |-> 0]
    /\ draft = [r \in Requests |-> NoDraft]

-----------------------------------------------------------------------------
(* ServeHTTP up to the call of SealBatch.                                  *)

\* Wrong method, no key, unknown or revoked key, a failed key lookup, an
\* unreadable or unparsable body.
Reject(r) ==
    /\ pc[r] = "new"
    /\ pc' = [pc EXCEPT ![r] = "failed"]
    /\ UNCHANGED <<rows, wire, mu, heads, tenant, size, draft>>

\* A body without log objects is answered at once with "accepted": 0.
AcceptEmpty(r, t) ==
    /\ pc[r] = "new"
    /\ pc' = [pc EXCEPT ![r] = "ok"]
    /\ tenant' = [tenant EXCEPT ![r] = t]
    /\ UNCHANGED <<rows, wire, mu, heads, size, draft>>

\* The key resolved to tenant t and the body holds n records.
Receive(r, t, n) ==
    /\ pc[r] = "new"
    /\ pc' = [pc EXCEPT ![r] = "queued"]
    /\ tenant' = [tenant EXCEPT ![r] = t]
    /\ size' = [size EXCEPT ![r] = n]
    /\ UNCHANGED <<rows, wire, mu, heads, draft>>

-----------------------------------------------------------------------------
(* SealBatch.                                                              *)

Lock(r) ==
    /\ pc[r] = "queued"
    /\ mu = None
    /\ mu' = r
    /\ pc' = [pc EXCEPT ![r] = "locked"]
    /\ UNCHANGED <<rows, wire, heads, tenant, size, draft>>

\* Mutant: an empty tenant resumes from a nil hash, not from its genesis hash.
HeadWithoutGenesis(t) ==
    IF rows[t] = {} THEN {[nextSeq |-> 0, prevHash |-> None]}
    ELSE {[nextSeq |-> row.seq + 1, prevHash |-> row.hash] : row \in rows[t]}

\* Mutant: the sequence number of the last row is given out once more.
HeadRepeatsSeq(t) ==
    IF rows[t] = {}
    THEN {[nextSeq |-> 0, prevHash |-> Genesis(t)]}
    ELSE {[nextSeq |-> row.seq, prevHash |-> row.hash] :
              row \in {top \in rows[t] : \A other \in rows[t] : other.seq <= top.seq}}

\* logstore.Head: ORDER BY seq DESC LIMIT 1, so any one of the rows with the
\* highest seq; the genesis hash when the tenant has no row.
HeadAnswers(t) ==
    IF rows[t] = {}
    THEN {[nextSeq |-> 0, prevHash |-> Genesis(t)]}
    ELSE {[nextSeq |-> row.seq + 1, prevHash |-> row.hash] :
              row \in {top \in rows[t] : \A other \in rows[t] : other.seq <= top.seq}}

LoadHead(r) ==
    /\ pc[r] = "locked"
    /\ heads[tenant[r]] = None
    /\ \E h \in HeadAnswers(tenant[r]) : heads' = [heads EXCEPT ![tenant[r]] = h]
    /\ UNCHANGED <<rows, wire, mu, pc, tenant, size, draft>>

\* Mutant: an early return without the deferred unlock.
LoadHeadFailsLocked(r) ==
    /\ pc[r] = "locked"
    /\ heads[tenant[r]] = None
    /\ pc' = [pc EXCEPT ![r] = "failed"]
    /\ UNCHANGED <<rows, wire, mu, heads, tenant, size, draft>>

\* The query failed: the error goes to the client and the lock is released.
LoadHeadFails(r) ==
    /\ pc[r] = "locked"
    /\ heads[tenant[r]] = None
    /\ pc' = [pc EXCEPT ![r] = "failed"]
    /\ mu' = None
    /\ UNCHANGED <<rows, wire, heads, tenant, size, draft>>

StartBatch(r) ==
    /\ pc[r] = "locked"
    /\ heads[tenant[r]] # None
    /\ draft' = [draft EXCEPT ![r] = [seq     |-> heads[tenant[r]].nextSeq,
                                      prev    |-> heads[tenant[r]].prevHash,
                                      entries |-> {}]]
    /\ pc' = [pc EXCEPT ![r] = "sealing"]
    /\ UNCHANGED <<rows, wire, mu, heads, tenant, size>>

\* The entry the loop body builds from record i.
SealedEntry(t, d, rec) ==
    [seq |-> d.seq, rec |-> rec, prev |-> d.prev,
     hash |-> ChainHash(d.prev, EntryLeaf(t, d.seq, rec))]

SealRecord(r) ==
    LET sealed == draft[r].seq - heads[tenant[r]].nextSeq
        entry  == SealedEntry(tenant[r], draft[r], <<r, sealed + 1>>)
    IN  /\ pc[r] = "sealing"
        /\ sealed < size[r]
        /\ draft' = [draft EXCEPT ![r] = [seq     |-> draft[r].seq + 1,
                                          prev    |-> entry.hash,
                                          entries |-> draft[r].entries \cup {entry}]]
        /\ UNCHANGED <<rows, wire, mu, heads, pc, tenant, size>>

\* Mutant: the batch is prepared and never sent.
SendNothing(r) ==
    /\ pc[r] = "sealing"
    /\ draft[r].seq = heads[tenant[r]].nextSeq + size[r]
    /\ pc' = [pc EXCEPT ![r] = "appending"]
    /\ UNCHANGED <<rows, wire, mu, heads, tenant, size, draft>>

\* store.Append: batch.Send puts the INSERT on the wire.
SendBatch(r) ==
    /\ pc[r] = "sealing"
    /\ draft[r].seq = heads[tenant[r]].nextSeq + size[r]
    /\ wire' = wire \cup {r}
    /\ pc' = [pc EXCEPT ![r] = "appending"]
    /\ UNCHANGED <<rows, mu, heads, tenant, size, draft>>

\* ClickHouse executes the INSERT, whether or not anyone still waits for it.
Land(r) ==
    /\ r \in wire
    /\ wire' = wire \ {r}
    /\ rows' = [rows EXCEPT ![tenant[r]] = @ \cup draft[r].entries]
    /\ UNCHANGED <<mu, heads, pc, tenant, size, draft>>

\* Append returned nil: only now is the head advanced, and 200 is answered
\* with the first and the last seq of the batch.
AppendOK(r) ==
    /\ pc[r] = "appending"
    /\ r \notin wire
    /\ heads' = [heads EXCEPT ![tenant[r]] = [nextSeq  |-> draft[r].seq,
                                              prevHash |-> draft[r].prev]]
    /\ pc' = [pc EXCEPT ![r] = "ok"]
    /\ mu' = None
    /\ UNCHANGED <<rows, wire, tenant, size, draft>>

\* Mutant: the head is advanced before the write is known to have succeeded.
AppendFailsAdvanced(r) ==
    /\ pc[r] = "appending"
    /\ \/ r \in wire /\ wire' = wire \ {r}
       \/ AmbiguousAppend /\ wire' = wire
    /\ heads' = [heads EXCEPT ![tenant[r]] = [nextSeq  |-> draft[r].seq,
                                              prevHash |-> draft[r].prev]]
    /\ pc' = [pc EXCEPT ![r] = "failed"]
    /\ mu' = None
    /\ UNCHANGED <<rows, tenant, size, draft>>

\* Append returned an error: the head stays, 500 is answered.
AppendFails(r) ==
    /\ pc[r] = "appending"
    /\ \/ r \in wire /\ wire' = wire \ {r}
       \/ AmbiguousAppend /\ wire' = wire
    /\ pc' = [pc EXCEPT ![r] = "failed"]
    /\ mu' = None
    /\ UNCHANGED <<rows, heads, tenant, size, draft>>

InHandler == {"queued", "locked", "sealing", "appending"}

\* The gateway process dies and is restarted: the head cache is empty again
\* and the clients of the requests it was serving see a failure.
Crash ==
    /\ pc' = [r \in Requests |-> IF pc[r] \in InHandler THEN "failed" ELSE pc[r]]
    /\ mu' = None
    /\ heads' = [t \in Tenants |-> None]
    /\ wire' = IF AmbiguousAppend THEN wire ELSE {}
    /\ UNCHANGED <<rows, tenant, size, draft>>

-----------------------------------------------------------------------------
SealStep(r) ==
    \/ LoadHead(r) \/ LoadHeadFails(r) \/ StartBatch(r) \/ SealRecord(r)
    \/ SendBatch(r) \/ AppendOK(r) \/ AppendFails(r)

Next ==
    \/ \E r \in Requests :
          \/ Reject(r)
          \/ \E t \in Tenants : AcceptEmpty(r, t)
          \/ \E t \in Tenants, n \in BodySizes \ {0} : Receive(r, t, n)
          \/ Lock(r)
          \/ SealStep(r)
          \/ Land(r)
    \/ Crash

Spec == Init /\ [][Next]_vars

(***************************************************************************)
(* The goroutine that holds the lock is scheduled, both network calls end  *)
(* (the driver's read timeout turns silence into an error), and Go's mutex *)
(* hands the lock to a waiter that has waited too long (starvation mode).  *)
(***************************************************************************)
FairSpec ==
    /\ Spec
    /\ \A r \in Requests : WF_vars(SealStep(r)) /\ SF_vars(Lock(r))

-----------------------------------------------------------------------------
(* Properties.                                                             *)

\* h is the hash the entry with sequence number s of tenant t must link to,
\* going by the rows of S.
At(S, t, s, h) ==
    IF s = 0 THEN h = Genesis(t) ELSE \E p \in S : p.seq + 1 = s /\ p.hash = h

\* SealBatch links each entry to its predecessor: whatever fails or crashes,
\* every stored row hashes its own contents onto the hash of a STORED row with
\* the preceding seq (or onto the tenant's genesis).  In particular a tenant's
\* sequence numbers have no gap.
ChainRooted ==
    \A t \in Tenants : \A row \in rows[t] :
        /\ row.hash = ChainHash(row.prev, EntryLeaf(t, row.seq, row.rec))
        /\ At(rows[t], t, row.seq, row.prev)

Acked(r) == pc[r] = "ok"
AckedSeqs(r) == {e.seq : e \in draft[r].entries}

\* A 200 answer means that each entry of the batch is a row of the table.
AckedStored ==
    \A r \in Requests : Acked(r) =>
        /\ \A e \in draft[r].entries : e \in rows[tenant[r]]
        /\ Cardinality(draft[r].entries) = size[r]

\* The first_seq..last_seq ranges answered to two requests of a tenant never
\* overlap, whatever failed or crashed in between: a position that was
\* acknowledged is never given out again.
AckedDisjoint ==
    \A r1, r2 \in Requests :
        Acked(r1) /\ Acked(r2) /\ r1 # r2 /\ tenant[r1] = tenant[r2]
            => AckedSeqs(r1) \cap AckedSeqs(r2) = {}

\* seq is the position in the chain: no two rows of a tenant share one.  The
\* comment on SealBatch promises it ("a failed append can be safely retried").
SeqUnique ==
    \A t \in Tenants : \A a, b \in rows[t] : a.seq = b.seq => a = b

\* A request that entered SealBatch's queue is answered: no path keeps s.mu.
EveryRequestAnswered ==
    \A r \in Requests : pc[r] = "queued" ~> pc[r] \in {"ok", "failed"}
=============================================================================
