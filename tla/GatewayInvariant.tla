-------------------------- MODULE GatewayInvariant --------------------------
(***************************************************************************)
(* The inductive invariant behind the gateway's safety properties.  The    *)
(* properties alone are not inductive: that an acknowledged position is    *)
(* never given out again rests on how the cached head, the draft of the    *)
(* request that holds s.mu and the INSERTs still on the wire relate to the *)
(* rows that are already in the table.                                     *)
(***************************************************************************)
EXTENDS Gateway

\* Entry e is sealed, and its predecessor is among S.
Linked(t, S, e) ==
    /\ e.hash = ChainHash(e.prev, EntryLeaf(t, e.seq, e.rec))
    /\ At(S, t, e.seq, e.prev)

\* s.mu: held by the one request between Lock and Unlock.
LockInv == \A r \in Requests : pc[r] \in {"locked", "sealing", "appending"} <=> mu = r

\* What a request's position in its handler says of its locals.
RequestInv ==
    \A r \in Requests :
        /\ pc[r] \notin {"new", "failed"} \/ r \in wire => tenant[r] \in Tenants
        /\ r \in wire => pc[r] \in {"appending", "failed"}
        /\ pc[r] = "new" => size[r] = 0 /\ draft[r] = NoDraft

\* A cached head continues a stored row (or the genesis).
HeadInv ==
    \A t \in Tenants :
        heads[t] # None => At(rows[t], t, heads[t].nextSeq, heads[t].prevHash)

\* The lock holder's draft continues the cached head.
DraftInv ==
    \A r \in Requests : pc[r] \in {"sealing", "appending"} =>
        LET head == heads[tenant[r]]
            d    == draft[r]
        IN  /\ head # None
            /\ d.prev \in Digest
            /\ head.nextSeq <= d.seq
            /\ \A e \in d.entries : head.nextSeq <= e.seq /\ e.seq < d.seq
            /\ IsFiniteSet(d.entries)
            /\ Cardinality(d.entries) = d.seq - head.nextSeq
            /\ At(rows[tenant[r]] \cup d.entries, tenant[r], d.seq, d.prev)
            /\ pc[r] = "appending" =>
                  /\ d.seq = head.nextSeq + size[r]
                  /\ r \in wire \/ d.entries \subseteq rows[tenant[r]]

\* Whatever has been drafted and may still land is linked to the rows.
WireInv ==
    \A r \in Requests : pc[r] \in {"sealing", "appending"} \/ r \in wire =>
        \A e \in draft[r].entries :
            Linked(tenant[r], rows[tenant[r]] \cup draft[r].entries, e)

\* Acknowledged entries are stored and lie below the cached head.
AckInv ==
    \A r \in Requests : Acked(r) =>
        /\ draft[r].entries \subseteq rows[tenant[r]]
        /\ Cardinality(draft[r].entries) = size[r]
        /\ heads[tenant[r]] # None =>
              \A e \in draft[r].entries : e.seq < heads[tenant[r]].nextSeq

\* The conjunction that every step of the gateway, its crashes and its late
\* INSERTs included, preserves.
Inv ==
    /\ TypeOK
    /\ LockInv
    /\ RequestInv
    /\ HeadInv
    /\ DraftInv
    /\ WireInv
    /\ AckInv
    /\ ChainRooted
    /\ AckedDisjoint

-----------------------------------------------------------------------------
(* What holds besides when an INSERT that failed has no effect.            *)

\* An INSERT on the wire is one that SealBatch still waits for.
WireOwned == \A r \in wire : pc[r] = "appending"

\* SealBatch gives each entry of a batch a seq of its own.
DraftUnique ==
    \A r \in Requests : pc[r] \in {"sealing", "appending"} =>
        \A a, b \in draft[r].entries : a.seq = b.seq => a = b

\* Rows at or above a cached head are those of the batch that has landed and
\* whose Append is about to return.
RowsBelowHead ==
    \A t \in Tenants : heads[t] # None =>
        \A row \in rows[t] :
            \/ row.seq < heads[t].nextSeq
            \/ \E r \in Requests : /\ pc[r] = "appending" /\ tenant[r] = t
                                   /\ r \notin wire /\ row \in draft[r].entries

\* Together with Inv it is inductive when SealBatch can trust an error.
ReliableInv == WireOwned /\ DraftUnique /\ RowsBelowHead /\ SeqUnique

-----------------------------------------------------------------------------
(* The append-only log that the readers of the table rely on.              *)

\* Rows in sequence order.
Ordered(S) ==
    [n \in 1 .. Cardinality({row.seq : row \in S}) |-> CHOOSE row \in S : row.seq = n - 1]

Log == INSTANCE AppendLog WITH log <- [t \in Tenants |-> Ordered(rows[t])]

\* The sealer and its table implement the append-only log: each INSERT that
\* lands extends one tenant's chain at its end, nothing else changes it.
ImplementsAppendLog == Log!Spec
=============================================================================
