--------------------------- MODULE GatewayProofs ---------------------------
(***************************************************************************)
(* The gateway's safety properties for any tenants, any number of requests *)
(* and any batch size, with failed INSERTs ambiguous or not.               *)
(***************************************************************************)
EXTENDS GatewayInvariant, Induction, FiniteSetTheorems, SequenceTheorems, TLAPS

-----------------------------------------------------------------------------
(* The operators the model is built from.                                  *)

\* Genesis gives every tenant a digest of its own.
LEMMA GenesisType ==
    ASSUME NEW t \in Tenants
    PROVE  Genesis(t) \in Digest
BY DEF Genesis, Digest, Hash

\* ChainHash of a digest and an entry's leaf is a digest.
LEMMA ChainHashType ==
    ASSUME NEW t \in Tenants, NEW p \in Digest, NEW s \in Nat, NEW rec \in Rec
    PROVE  ChainHash(p, EntryLeaf(t, s, rec)) \in Digest
<1>1. EntryLeaf(t, s, rec) \in Leaf(Tenants, Rec)
  BY DEF EntryLeaf, Leaf
<1>2. p.tenant \in Tenants /\ p.leaves \in Seq(Leaf(Tenants, Rec))
  BY DEF Digest, Hash
<1>3. Append(p.leaves, EntryLeaf(t, s, rec)) \in Seq(Leaf(Tenants, Rec))
  BY <1>1, <1>2
<1> QED
  BY <1>2, <1>3 DEF ChainHash, Digest, Hash

\* The entry SealBatch's loop body builds is a row that links to the draft.
LEMMA SealedEntryType ==
    ASSUME NEW t \in Tenants, NEW d, d.seq \in Nat, d.prev \in Digest, NEW rec \in Rec
    PROVE  /\ SealedEntry(t, d, rec) \in Row
           /\ SealedEntry(t, d, rec).seq = d.seq
           /\ SealedEntry(t, d, rec).prev = d.prev
           /\ SealedEntry(t, d, rec).hash \in Digest
           /\ SealedEntry(t, d, rec).hash =
                 ChainHash(d.prev, EntryLeaf(t, d.seq, SealedEntry(t, d, rec).rec))
BY ChainHashType DEF SealedEntry, Row

\* More rows never take a predecessor away.
LEMMA AtMonotone ==
    ASSUME NEW S, NEW T, S \subseteq T, NEW t, NEW s, NEW h, At(S, t, s, h)
    PROVE  At(T, t, s, h)
BY DEF At

\* Hence a linked entry of SealBatch stays linked as rows are added.
LEMMA LinkedMonotone ==
    ASSUME NEW S, NEW T, S \subseteq T, NEW t, NEW e, Linked(t, S, e)
    PROVE  Linked(t, T, e)
BY AtMonotone DEF Linked

\* logstore.Head answers with a position that continues the stored rows and
\* lies above all of them.
LEMMA HeadAnswersCorrect ==
    ASSUME TypeOK, NEW t \in Tenants, NEW h \in HeadAnswers(t)
    PROVE  /\ h \in HeadState
           /\ At(rows[t], t, h.nextSeq, h.prevHash)
           /\ \A row \in rows[t] : row.seq < h.nextSeq
<1> rows[t] \subseteq Row
  BY DEF TypeOK
<1>1. CASE rows[t] = {}
  <2>1. h = [nextSeq |-> 0, prevHash |-> Genesis(t)]
    BY <1>1 DEF HeadAnswers
  <2> QED
    BY <1>1, <2>1, GenesisType DEF HeadState, At
<1>2. CASE rows[t] # {}
  <2>1. PICK top \in rows[t] :
           /\ \A other \in rows[t] : other.seq <= top.seq
           /\ h = [nextSeq |-> top.seq + 1, prevHash |-> top.hash]
    BY <1>2 DEF HeadAnswers
  <2>2. top.seq \in Nat /\ top.hash \in Digest
    BY DEF Row
  <2>3. At(rows[t], t, h.nextSeq, h.prevHash)
    BY <2>1, <2>2 DEF At
  <2>4. \A row \in rows[t] : row.seq < h.nextSeq
    BY <2>1, <2>2 DEF Row
  <2> QED
    BY <2>1, <2>2, <2>3, <2>4 DEF HeadState
<1> QED
  BY <1>1, <1>2

-----------------------------------------------------------------------------
(* The invariant holds initially and every step preserves it.              *)

\* A new table and a new Sealer satisfy the invariant.
LEMMA InvInit == Init => Inv
<1> SUFFICES ASSUME Init PROVE Inv
  OBVIOUS
<1> USE GatewayConstants DEF Init
<1>1. TypeOK
  BY DEF TypeOK, NoDraft, BodySizes
<1>2. LockInv /\ RequestInv /\ HeadInv /\ DraftInv /\ WireInv /\ AckInv
  BY DEF LockInv, RequestInv, HeadInv, DraftInv, WireInv, AckInv, Acked
<1>3. ChainRooted /\ AckedDisjoint
  BY DEF ChainRooted, AckedDisjoint, Acked
<1> QED
  BY <1>1, <1>2, <1>3 DEF Inv

\* An answer before SealBatch leaves the sealer and the table alone.
LEMMA RejectPreserves ==
    ASSUME Inv, NEW r \in Requests, Reject(r)
    PROVE  Inv'
<1> USE GatewayConstants DEF Inv, Reject
<1>1. TypeOK'
  BY DEF TypeOK
<1>2. LockInv' /\ RequestInv'
  BY DEF LockInv, RequestInv, TypeOK
<1>3. HeadInv' /\ DraftInv' /\ WireInv' /\ AckInv'
  BY DEF HeadInv, DraftInv, WireInv, AckInv, Acked, TypeOK
<1>4. ChainRooted' /\ AckedDisjoint'
  BY DEF ChainRooted, AckedDisjoint, Acked, AckedSeqs, TypeOK
<1> QED
  BY <1>1, <1>2, <1>3, <1>4

\* The 200 answer to an empty body acknowledges no entry.
LEMMA AcceptEmptyPreserves ==
    ASSUME Inv, NEW r \in Requests, NEW t \in Tenants, AcceptEmpty(r, t)
    PROVE  Inv'
<1> USE GatewayConstants DEF Inv, AcceptEmpty
<1>1. TypeOK'
  BY DEF TypeOK
<1>2. LockInv' /\ RequestInv'
  BY DEF LockInv, RequestInv, TypeOK
<1>3. HeadInv' /\ DraftInv' /\ WireInv'
  BY DEF HeadInv, DraftInv, WireInv, TypeOK, RequestInv
<1>4. draft[r].entries = {} /\ size[r] = 0 /\ Cardinality({}) = 0
  BY FS_EmptySet DEF RequestInv, NoDraft
<1>5. AckInv'
  BY <1>4 DEF AckInv, Acked, TypeOK
<1>6. ChainRooted' /\ AckedDisjoint'
  BY <1>4 DEF ChainRooted, AckedDisjoint, Acked, AckedSeqs, TypeOK
<1> QED
  BY <1>1, <1>2, <1>3, <1>5, <1>6

\* A parsed request waits for SealBatch; nothing is shared yet.
LEMMA ReceivePreserves ==
    ASSUME Inv, NEW r \in Requests, NEW t \in Tenants, NEW n \in BodySizes \ {0},
           Receive(r, t, n)
    PROVE  Inv'
<1> USE GatewayConstants DEF Inv, Receive
<1>1. TypeOK'
  BY DEF TypeOK
<1>2. LockInv' /\ RequestInv'
  BY DEF LockInv, RequestInv, TypeOK
<1>3. HeadInv' /\ DraftInv' /\ WireInv' /\ AckInv'
  BY DEF HeadInv, DraftInv, WireInv, AckInv, Acked, TypeOK, RequestInv
<1>4. ChainRooted' /\ AckedDisjoint'
  BY DEF ChainRooted, AckedDisjoint, Acked, AckedSeqs, TypeOK
<1> QED
  BY <1>1, <1>2, <1>3, <1>4

\* s.mu.Lock(): there was no holder, so the new one is the only one.
LEMMA LockPreserves ==
    ASSUME Inv, NEW r \in Requests, Lock(r)
    PROVE  Inv'
<1> USE GatewayConstants DEF Inv, Lock
<1>1. TypeOK'
  BY DEF TypeOK
<1>2. LockInv' /\ RequestInv'
  BY DEF LockInv, RequestInv, TypeOK
<1>3. HeadInv' /\ DraftInv' /\ WireInv' /\ AckInv'
  BY DEF HeadInv, DraftInv, WireInv, AckInv, Acked, TypeOK
<1>4. ChainRooted' /\ AckedDisjoint'
  BY DEF ChainRooted, AckedDisjoint, Acked, AckedSeqs, TypeOK
<1> QED
  BY <1>1, <1>2, <1>3, <1>4

\* SealBatch returns the error of Head; the deferred unlock releases s.mu.
LEMMA LoadHeadFailsPreserves ==
    ASSUME Inv, NEW r \in Requests, LoadHeadFails(r)
    PROVE  Inv'
<1> USE GatewayConstants DEF Inv, LoadHeadFails
<1>1. TypeOK'
  BY DEF TypeOK
<1>2. LockInv' /\ RequestInv'
  BY DEF LockInv, RequestInv, TypeOK
<1>3. HeadInv' /\ DraftInv' /\ WireInv' /\ AckInv'
  BY DEF HeadInv, DraftInv, WireInv, AckInv, Acked, TypeOK
<1>4. ChainRooted' /\ AckedDisjoint'
  BY DEF ChainRooted, AckedDisjoint, Acked, AckedSeqs, TypeOK
<1> QED
  BY <1>1, <1>2, <1>3, <1>4

\* The loaded head continues the rows, and everything acknowledged is stored,
\* so it lies below the loaded head.
LEMMA LoadHeadPreserves ==
    ASSUME Inv, NEW r \in Requests, LoadHead(r)
    PROVE  Inv'
<1> USE GatewayConstants DEF Inv
<1> DEFINE t == tenant[r]
<1>1. t \in Tenants
  BY DEF LoadHead, RequestInv
<1>2. PICK h \in HeadAnswers(t) : heads' = [heads EXCEPT ![t] = h]
  BY DEF LoadHead
<1>3. h \in HeadState /\ At(rows[t], t, h.nextSeq, h.prevHash)
      /\ \A row \in rows[t] : row.seq < h.nextSeq
  BY <1>1, HeadAnswersCorrect
<1> HIDE DEF t
<1>4. TypeOK'
  BY <1>1, <1>2, <1>3 DEF TypeOK, LoadHead
<1>5. LockInv' /\ RequestInv'
  BY DEF LockInv, RequestInv, LoadHead
<1>6. HeadInv'
  BY <1>1, <1>2, <1>3 DEF HeadInv, LoadHead, TypeOK
<1>7. \A r2 \in Requests : pc[r2] \notin {"sealing", "appending"}
  BY DEF LockInv, LoadHead
<1>8. DraftInv' /\ WireInv'
  BY <1>7 DEF DraftInv, WireInv, LoadHead
<1>9. AckInv'
  <2> SUFFICES ASSUME NEW r2 \in Requests, Acked(r2)
               PROVE  /\ draft[r2].entries \subseteq rows[tenant[r2]]
                      /\ Cardinality(draft[r2].entries) = size[r2]
                      /\ heads'[tenant[r2]] # None =>
                            \A e \in draft[r2].entries : e.seq < heads'[tenant[r2]].nextSeq
    BY DEF AckInv, Acked, LoadHead
  <2>1. tenant[r2] \in Tenants
    BY DEF Acked, RequestInv
  <2>2. CASE tenant[r2] = t
    BY <1>1, <1>2, <1>3, <2>2 DEF AckInv, TypeOK
  <2>3. CASE tenant[r2] # t
    BY <1>1, <1>2, <2>1, <2>3 DEF AckInv, TypeOK
  <2> QED
    BY <2>2, <2>3
<1>10. ChainRooted' /\ AckedDisjoint'
  BY DEF ChainRooted, AckedDisjoint, Acked, AckedSeqs, LoadHead
<1> QED
  BY <1>4, <1>5, <1>6, <1>8, <1>9, <1>10

\* The draft starts at the cached head with no entries.
LEMMA StartBatchPreserves ==
    ASSUME Inv, NEW r \in Requests, StartBatch(r)
    PROVE  Inv'
<1> USE GatewayConstants DEF Inv
<1> DEFINE head == heads[tenant[r]]
           d == [seq |-> head.nextSeq, prev |-> head.prevHash, entries |-> {}]
<1>1. tenant[r] \in Tenants /\ r \notin wire /\ mu = r
  BY DEF StartBatch, RequestInv, LockInv
<1>2. head # None /\ head \in HeadState
  BY <1>1 DEF StartBatch, TypeOK
<1>3. head.nextSeq \in Nat /\ head.prevHash \in Digest
  BY <1>2 DEF HeadState
<1>4. TypeOK'
  BY <1>3 DEF TypeOK, StartBatch
<1>5. LockInv' /\ RequestInv'
  BY DEF LockInv, RequestInv, StartBatch, TypeOK
<1>6. HeadInv' /\ AckInv'
  BY DEF HeadInv, AckInv, Acked, StartBatch, TypeOK
<1>7. \A r2 \in Requests : pc'[r2] \in {"sealing", "appending"} => r2 = r
  BY <1>1 DEF LockInv, StartBatch, TypeOK
<1>8. /\ draft'[r] = d /\ pc'[r] = "sealing"
      /\ \A r2 \in Requests \ {r} : draft'[r2] = draft[r2]
  BY DEF StartBatch, TypeOK
<1>9. At(rows[tenant[r]] \cup {}, tenant[r], head.nextSeq, head.prevHash)
  BY <1>1, <1>2, AtMonotone DEF HeadInv
<1>10. DraftInv'
  <2> SUFFICES /\ head # None /\ d.prev \in Digest /\ head.nextSeq <= d.seq
               /\ \A e \in d.entries : head.nextSeq <= e.seq /\ e.seq < d.seq
               /\ IsFiniteSet(d.entries)
               /\ Cardinality(d.entries) = d.seq - head.nextSeq
               /\ At(rows[tenant[r]] \cup d.entries, tenant[r], d.seq, d.prev)
    BY <1>7, <1>8 DEF DraftInv, StartBatch
  <2>1. IsFiniteSet({}) /\ Cardinality({}) = 0
    BY FS_EmptySet
  <2> QED
    BY <1>2, <1>3, <1>9, <2>1
<1>11. WireInv'
  <2> SUFFICES ASSUME NEW r2 \in Requests,
                      pc'[r2] \in {"sealing", "appending"} \/ r2 \in wire,
                      NEW e \in draft'[r2].entries
               PROVE  Linked(tenant[r2], rows[tenant[r2]] \cup draft'[r2].entries, e)
    BY DEF WireInv, StartBatch
  <2>1. draft'[r].entries = {}
    BY <1>8
  <2>2. r2 # r /\ r2 \in wire /\ draft'[r2] = draft[r2]
    BY <1>7, <1>8, <2>1
  <2> QED
    BY <2>2 DEF WireInv
<1>12. ChainRooted' /\ AckedDisjoint'
  BY <1>8 DEF ChainRooted, AckedDisjoint, Acked, AckedSeqs, StartBatch, TypeOK
<1> QED
  BY <1>4, <1>5, <1>6, <1>10, <1>11, <1>12

\* The holder of s.mu between the head lookup and the unlock.
LEMMA SealerFacts ==
    ASSUME Inv, NEW r \in Requests, pc[r] \in {"sealing", "appending"}
    PROVE  /\ tenant[r] \in Tenants /\ mu = r
           /\ heads[tenant[r]] \in HeadState
           /\ heads[tenant[r]].nextSeq \in Nat
           /\ draft[r].seq \in Nat /\ draft[r].prev \in Digest /\ size[r] \in Nat
           /\ draft[r].entries \subseteq Row
           /\ rows[tenant[r]] \subseteq Row
           /\ \A r2 \in Requests : pc[r2] \in {"sealing", "appending"} => r2 = r
<1> USE GatewayConstants DEF Inv
<1>1. tenant[r] \in Tenants /\ mu = r
  BY DEF RequestInv, LockInv
<1>2. heads[tenant[r]] # None /\ draft[r].prev \in Digest
  BY DEF DraftInv
<1>3. heads[tenant[r]] \in HeadState
  BY <1>1, <1>2 DEF TypeOK
<1>4. /\ draft[r].seq \in Nat /\ draft[r].entries \subseteq Row
      /\ size[r] \in Nat /\ rows[tenant[r]] \subseteq Row
  BY <1>1 DEF TypeOK, BodySizes
<1>5. \A r2 \in Requests : pc[r2] \in {"sealing", "appending"} => r2 = r
  BY <1>1 DEF LockInv
<1> QED
  BY <1>1, <1>2, <1>3, <1>4, <1>5 DEF HeadState

\* One round of the loop appends one linked entry to the draft.
LEMMA SealRecordPreserves ==
    ASSUME Inv, NEW r \in Requests, SealRecord(r)
    PROVE  Inv'
<1> USE GatewayConstants DEF Inv
<1> DEFINE t      == tenant[r]
           head   == heads[t]
           d      == draft[r]
           sealed == d.seq - head.nextSeq
           entry  == SealedEntry(t, d, <<r, sealed + 1>>)
           new    == [seq |-> d.seq + 1, prev |-> entry.hash,
                      entries |-> d.entries \cup {entry}]
<1>1. /\ pc[r] = "sealing" /\ sealed < size[r]
      /\ draft' = [draft EXCEPT ![r] = new]
      /\ UNCHANGED <<rows, wire, mu, heads, pc, tenant, size>>
  BY DEF SealRecord
<1>2. /\ t \in Tenants /\ head \in HeadState /\ head.nextSeq \in Nat
      /\ d.seq \in Nat /\ d.prev \in Digest /\ size[r] \in Nat
      /\ d.entries \subseteq Row /\ rows[t] \subseteq Row
      /\ \A r2 \in Requests : pc[r2] \in {"sealing", "appending"} => r2 = r
  BY <1>1, SealerFacts
<1>3. /\ head # None /\ head.nextSeq <= d.seq
      /\ \A e \in d.entries : head.nextSeq <= e.seq /\ e.seq < d.seq
      /\ IsFiniteSet(d.entries) /\ Cardinality(d.entries) = d.seq - head.nextSeq
      /\ At(rows[t] \cup d.entries, t, d.seq, d.prev)
  BY <1>1 DEF DraftInv
<1>4. <<r, sealed + 1>> \in Rec
  BY <1>2, <1>3 DEF Rec
<1>5. /\ entry \in Row /\ entry.seq = d.seq /\ entry.prev = d.prev /\ entry.hash \in Digest
      /\ entry.hash = ChainHash(d.prev, EntryLeaf(t, d.seq, entry.rec))
  <2> HIDE DEF t, d, sealed
  <2> QED
    BY <1>2, <1>4, SealedEntryType
<1>6. r \notin wire
  BY <1>1 DEF RequestInv
<1> HIDE DEF entry
<1>7. /\ draft'[r] = new
      /\ \A r2 \in Requests \ {r} : draft'[r2] = draft[r2]
  BY <1>1 DEF TypeOK
<1>8. TypeOK'
  <2>1. new \in [seq: Nat, prev: Digest \cup {None}, entries: SUBSET Row]
    BY <1>2, <1>5
  <2> HIDE DEF new
  <2> QED
    BY <1>1, <2>1 DEF TypeOK
<1>9. LockInv' /\ RequestInv' /\ HeadInv'
  <2> HIDE DEF new
  <2> QED
    BY <1>1, <1>7 DEF LockInv, RequestInv, HeadInv
<1>10. DraftInv'
  <2> SUFFICES /\ head # None /\ new.prev \in Digest /\ head.nextSeq <= new.seq
               /\ \A e \in new.entries : head.nextSeq <= e.seq /\ e.seq < new.seq
               /\ IsFiniteSet(new.entries)
               /\ Cardinality(new.entries) = new.seq - head.nextSeq
               /\ At(rows[t] \cup new.entries, t, new.seq, new.prev)
    <3> HIDE DEF new
    <3> QED
      BY <1>1, <1>2, <1>7 DEF DraftInv
  <2>1. entry \notin d.entries
    BY <1>2, <1>3, <1>5
  <2>2. /\ IsFiniteSet(d.entries \cup {entry})
        /\ Cardinality(d.entries \cup {entry}) = Cardinality(d.entries) + 1
    BY <1>3, <2>1, FS_AddElement
  <2>3. \A e \in new.entries : head.nextSeq <= e.seq /\ e.seq < new.seq
    BY <1>2, <1>3, <1>5 DEF Row
  <2>4. At(rows[t] \cup new.entries, t, new.seq, new.prev)
    BY <1>2, <1>5 DEF At
  <2>5. Cardinality(new.entries) = new.seq - head.nextSeq
    BY <1>2, <1>3, <2>2
  <2> QED
    BY <1>2, <1>3, <1>5, <2>2, <2>3, <2>4, <2>5
<1>11. WireInv'
  <2> SUFFICES ASSUME NEW r2 \in Requests,
                      pc[r2] \in {"sealing", "appending"} \/ r2 \in wire,
                      NEW e \in draft'[r2].entries
               PROVE  Linked(tenant[r2], rows[tenant[r2]] \cup draft'[r2].entries, e)
    BY <1>1 DEF WireInv
  <2>1. CASE r2 # r
    BY <1>7, <2>1 DEF WireInv
  <2>2. CASE r2 = r
    <3>1. rows[t] \cup d.entries \subseteq rows[t] \cup new.entries
      OBVIOUS
    <3>2. CASE e \in d.entries
      <4>1. Linked(t, rows[t] \cup d.entries, e)
        BY <1>1, <3>2 DEF WireInv
      <4> QED
        BY <1>7, <2>2, <3>1, <4>1, LinkedMonotone
    <3>3. CASE e = entry
      <4>1. At(rows[t] \cup new.entries, t, d.seq, d.prev)
        BY <1>3, <3>1, AtMonotone
      <4> QED
        BY <1>5, <1>7, <2>2, <3>3, <4>1 DEF Linked
    <3> QED
      BY <1>7, <2>2, <3>2, <3>3
  <2> QED
    BY <2>1, <2>2
<1>12. AckInv' /\ ChainRooted' /\ AckedDisjoint'
  <2> HIDE DEF new
  <2> QED
    BY <1>1, <1>7 DEF AckInv, ChainRooted, AckedDisjoint, Acked, AckedSeqs
<1> QED
  BY <1>8, <1>9, <1>10, <1>11, <1>12

\* The INSERT goes on its way with the whole batch.
LEMMA SendBatchPreserves ==
    ASSUME Inv, NEW r \in Requests, SendBatch(r)
    PROVE  Inv'
<1> USE GatewayConstants DEF Inv
<1>1. tenant[r] \in Tenants
  BY DEF SendBatch, RequestInv
<1>2. TypeOK'
  BY DEF TypeOK, SendBatch
<1>3. LockInv' /\ RequestInv'
  BY <1>1 DEF LockInv, RequestInv, SendBatch, TypeOK
<1>4. HeadInv' /\ AckInv'
  BY DEF HeadInv, AckInv, Acked, SendBatch, TypeOK
<1>5. DraftInv'
  BY DEF DraftInv, SendBatch, TypeOK
<1>6. WireInv'
  BY DEF WireInv, SendBatch, TypeOK
<1>7. ChainRooted' /\ AckedDisjoint'
  BY DEF ChainRooted, AckedDisjoint, Acked, AckedSeqs, SendBatch, TypeOK
<1> QED
  BY <1>2, <1>3, <1>4, <1>5, <1>6, <1>7

\* Landing rows are linked among themselves and to the rows before them, and
\* take nothing away, whoever still waits for the INSERT.
LEMMA LandPreserves ==
    ASSUME Inv, NEW r \in Requests, Land(r)
    PROVE  Inv'
<1> USE GatewayConstants DEF Inv
<1> DEFINE t == tenant[r]
<1>1. /\ r \in wire /\ wire' = wire \ {r}
      /\ rows' = [rows EXCEPT ![t] = @ \cup draft[r].entries]
      /\ UNCHANGED <<mu, heads, pc, tenant, size, draft>>
  BY DEF Land
<1>2. t \in Tenants /\ draft[r].entries \subseteq Row
  BY <1>1 DEF RequestInv, TypeOK
<1>3. /\ rows'[t] = rows[t] \cup draft[r].entries
      /\ \A t2 \in Tenants : t2 # t => rows'[t2] = rows[t2]
      /\ \A t2 \in Tenants : rows[t2] \subseteq rows'[t2]
  BY <1>1, <1>2 DEF TypeOK
<1>4. TypeOK'
  BY <1>1, <1>2 DEF TypeOK
<1>5. LockInv' /\ RequestInv'
  BY <1>1 DEF LockInv, RequestInv
<1>6. HeadInv'
  BY <1>1, <1>3, AtMonotone DEF HeadInv
<1>7. DraftInv'
  <2> SUFFICES ASSUME NEW r2 \in Requests, pc[r2] \in {"sealing", "appending"}
               PROVE  /\ At(rows'[tenant[r2]] \cup draft[r2].entries, tenant[r2],
                             draft[r2].seq, draft[r2].prev)
                      /\ pc[r2] = "appending" =>
                            r2 \in wire' \/ draft[r2].entries \subseteq rows'[tenant[r2]]
    BY <1>1 DEF DraftInv
  <2>1. tenant[r2] \in Tenants
    BY DEF RequestInv
  <2>2. rows[tenant[r2]] \cup draft[r2].entries \subseteq rows'[tenant[r2]] \cup draft[r2].entries
    BY <1>3, <2>1
  <2>3. At(rows[tenant[r2]] \cup draft[r2].entries, tenant[r2], draft[r2].seq, draft[r2].prev)
    BY DEF DraftInv
  <2>4. ASSUME pc[r2] = "appending"
        PROVE  r2 \in wire' \/ draft[r2].entries \subseteq rows'[tenant[r2]]
    BY <1>1, <1>3, <2>1, <2>4 DEF DraftInv
  <2> QED
    BY <2>2, <2>3, <2>4, AtMonotone
<1>8. WireInv'
  <2> SUFFICES ASSUME NEW r2 \in Requests,
                      pc[r2] \in {"sealing", "appending"} \/ r2 \in wire,
                      NEW e \in draft[r2].entries
               PROVE  Linked(tenant[r2], rows'[tenant[r2]] \cup draft[r2].entries, e)
    BY <1>1 DEF WireInv
  <2>1. tenant[r2] \in Tenants
    BY DEF RequestInv
  <2>2. rows[tenant[r2]] \cup draft[r2].entries \subseteq rows'[tenant[r2]] \cup draft[r2].entries
    BY <1>3, <2>1
  <2>3. Linked(tenant[r2], rows[tenant[r2]] \cup draft[r2].entries, e)
    BY DEF WireInv
  <2> QED
    BY <2>2, <2>3, LinkedMonotone
<1>9. AckInv'
  <2> SUFFICES ASSUME NEW r2 \in Requests, Acked(r2)
               PROVE  draft[r2].entries \subseteq rows'[tenant[r2]]
    BY <1>1 DEF AckInv, Acked
  <2>1. tenant[r2] \in Tenants
    BY DEF RequestInv, Acked
  <2> QED
    BY <1>3, <2>1 DEF AckInv
<1>10. ChainRooted'
  <2> SUFFICES ASSUME NEW t2 \in Tenants, NEW row \in rows'[t2]
               PROVE  Linked(t2, rows'[t2], row)
    BY DEF ChainRooted, Linked
  <2>1. CASE row \in rows[t2]
    <3>1. Linked(t2, rows[t2], row)
      BY <2>1 DEF ChainRooted, Linked
    <3> QED
      BY <1>3, <3>1, LinkedMonotone
  <2>2. CASE row \notin rows[t2]
    <3>1. t2 = t /\ row \in draft[r].entries
      BY <1>3, <2>2
    <3> QED
      BY <1>1, <1>3, <3>1 DEF WireInv
  <2> QED
    BY <2>1, <2>2
<1>11. AckedDisjoint'
  BY <1>1 DEF AckedDisjoint, Acked, AckedSeqs
<1> QED
  BY <1>4, <1>5, <1>6, <1>7, <1>8, <1>9, <1>10, <1>11

\* The batch is stored, so the head may move past it; the positions it was
\* acknowledged with start at the old head, above all acknowledged before.
LEMMA AppendOKPreserves ==
    ASSUME Inv, NEW r \in Requests, AppendOK(r)
    PROVE  Inv'
<1> USE GatewayConstants DEF Inv
<1> DEFINE t    == tenant[r]
           head == heads[t]
           d    == draft[r]
           new  == [nextSeq |-> d.seq, prevHash |-> d.prev]
<1>1. /\ pc[r] = "appending" /\ r \notin wire
      /\ heads' = [heads EXCEPT ![t] = new]
      /\ pc' = [pc EXCEPT ![r] = "ok"] /\ mu' = None
      /\ UNCHANGED <<rows, wire, tenant, size, draft>>
  BY DEF AppendOK
<1>2. /\ t \in Tenants /\ mu = r /\ head.nextSeq \in Nat
      /\ d.seq \in Nat /\ d.prev \in Digest /\ size[r] \in Nat
      /\ d.entries \subseteq Row /\ rows[t] \subseteq Row
      /\ \A r2 \in Requests : pc[r2] \in {"sealing", "appending"} => r2 = r
  BY <1>1, SealerFacts
<1>3. /\ head # None /\ head.nextSeq <= d.seq
      /\ \A e \in d.entries : head.nextSeq <= e.seq /\ e.seq < d.seq
      /\ Cardinality(d.entries) = d.seq - head.nextSeq
      /\ At(rows[t] \cup d.entries, t, d.seq, d.prev)
      /\ d.seq = head.nextSeq + size[r]
      /\ d.entries \subseteq rows[t]
  BY <1>1 DEF DraftInv
<1>4. /\ heads'[t] = new
      /\ \A t2 \in Tenants : t2 # t => heads'[t2] = heads[t2]
      /\ pc'[r] = "ok" /\ \A r2 \in Requests : r2 # r => pc'[r2] = pc[r2]
  BY <1>1, <1>2 DEF TypeOK
<1>5. new \in HeadState
  BY <1>2 DEF HeadState
<1>6. new.nextSeq = d.seq /\ new.prevHash = d.prev
  OBVIOUS
<1> HIDE DEF new
<1>7. TypeOK'
  BY <1>1, <1>5 DEF TypeOK
<1>8. LockInv' /\ RequestInv'
  BY <1>1, <1>2, <1>4 DEF LockInv, RequestInv
<1>9. HeadInv'
  <2>1. At(rows[t], t, d.seq, d.prev)
    BY <1>3, AtMonotone
  <2> QED
    BY <1>1, <1>4, <1>6, <2>1 DEF HeadInv
<1>10. \A r2 \in Requests : pc'[r2] \notin {"sealing", "appending"}
  BY <1>2, <1>4
<1>11. DraftInv' /\ WireInv'
  BY <1>1, <1>10 DEF DraftInv, WireInv
<1>12. \A r2 \in Requests : Acked(r2) /\ tenant[r2] = t =>
          \A e \in draft[r2].entries : e \in Row /\ e.seq < head.nextSeq
  BY <1>2, <1>3 DEF AckInv, TypeOK
<1>13. AckInv'
  <2> SUFFICES ASSUME NEW r2 \in Requests, pc'[r2] = "ok"
               PROVE  /\ draft[r2].entries \subseteq rows[tenant[r2]]
                      /\ Cardinality(draft[r2].entries) = size[r2]
                      /\ heads'[tenant[r2]] # None =>
                            \A e \in draft[r2].entries : e.seq < heads'[tenant[r2]].nextSeq
    BY <1>1 DEF AckInv, Acked
  <2>1. CASE r2 = r
    BY <1>2, <1>3, <1>4, <1>6, <2>1
  <2>2. CASE r2 # r
    <3>1. Acked(r2) /\ tenant[r2] \in Tenants
      BY <1>4, <2>2 DEF Acked, RequestInv
    <3>2. CASE tenant[r2] = t
      <4>1. \A e \in draft[r2].entries : e.seq < d.seq
        BY <1>2, <1>3, <1>12, <3>1, <3>2 DEF Row
      <4> QED
        BY <1>4, <1>6, <3>1, <3>2, <4>1 DEF AckInv
    <3>3. CASE tenant[r2] # t
      BY <1>4, <3>1, <3>3 DEF AckInv
    <3> QED
      BY <3>2, <3>3
  <2> QED
    BY <2>1, <2>2
<1>14. ChainRooted'
  BY <1>1 DEF ChainRooted
<1>15. AckedDisjoint'
  <2>1. \A r2 \in Requests : Acked(r2) /\ tenant[r2] = t =>
           \A e \in d.entries, e2 \in draft[r2].entries : e.seq # e2.seq
    BY <1>2, <1>3, <1>12 DEF Row
  <2>2. \A r2 \in Requests : Acked(r2) /\ tenant[r2] = t =>
           AckedSeqs(r) \cap AckedSeqs(r2) = {}
    BY <2>1 DEF AckedSeqs
  <2>3. \A r2 \in Requests : AckedSeqs(r2)' = AckedSeqs(r2)
    BY <1>1 DEF AckedSeqs
  <2> QED
    BY <1>1, <1>4, <2>2, <2>3 DEF AckedDisjoint, Acked
<1> QED
  BY <1>7, <1>8, <1>9, <1>11, <1>13, <1>14, <1>15

\* The head stays; the INSERT may stay on the wire.
LEMMA AppendFailsPreserves ==
    ASSUME Inv, NEW r \in Requests, AppendFails(r)
    PROVE  Inv'
<1> USE GatewayConstants DEF Inv
<1>1. /\ pc[r] = "appending" /\ pc' = [pc EXCEPT ![r] = "failed"]
      /\ mu' = None /\ wire' \subseteq wire
      /\ UNCHANGED <<rows, heads, tenant, size, draft>>
  BY DEF AppendFails
<1>2. /\ mu = r /\ tenant[r] \in Tenants
      /\ \A r2 \in Requests : pc[r2] \in {"sealing", "appending"} => r2 = r
  BY <1>1, SealerFacts
<1>3. TypeOK'
  BY <1>1 DEF TypeOK
<1>4. pc'[r] = "failed" /\ \A r2 \in Requests : r2 # r => pc'[r2] = pc[r2]
  BY <1>1 DEF TypeOK
<1>5. LockInv' /\ RequestInv'
  BY <1>1, <1>2, <1>4 DEF LockInv, RequestInv
<1>6. HeadInv' /\ ChainRooted'
  BY <1>1 DEF HeadInv, ChainRooted
<1>7. DraftInv'
  BY <1>2, <1>4 DEF DraftInv
<1>8. WireInv'
  BY <1>1, <1>2, <1>4 DEF WireInv
<1>9. AckInv' /\ AckedDisjoint'
  BY <1>1, <1>4 DEF AckInv, AckedDisjoint, Acked, AckedSeqs
<1> QED
  BY <1>3, <1>5, <1>6, <1>7, <1>8, <1>9

\* A restart forgets the heads and the lock, never a row or an INSERT under way.
LEMMA CrashPreserves ==
    ASSUME Inv, Crash
    PROVE  Inv'
<1> USE GatewayConstants DEF Inv
<1>1. /\ mu' = None /\ heads' = [t \in Tenants |-> None]
      /\ wire' \subseteq wire /\ UNCHANGED <<rows, tenant, size, draft>>
  BY DEF Crash
<1>2. \A r \in Requests :
         pc'[r] = IF pc[r] \in InHandler THEN "failed" ELSE pc[r]
  BY DEF Crash
<1>3. TypeOK'
  BY <1>1 DEF TypeOK, Crash
<1>4. LockInv' /\ RequestInv'
  BY <1>1, <1>2 DEF LockInv, RequestInv, InHandler, TypeOK
<1>5. HeadInv' /\ ChainRooted'
  BY <1>1 DEF HeadInv, ChainRooted
<1>6. \A r \in Requests : pc'[r] \notin {"sealing", "appending"}
  BY <1>2 DEF InHandler
<1>7. DraftInv' /\ WireInv'
  BY <1>1, <1>6 DEF DraftInv, WireInv
<1>8. \A r \in Requests : Acked(r)' => Acked(r) /\ tenant[r] \in Tenants
  BY <1>2 DEF Acked, RequestInv
<1>9. AckInv' /\ AckedDisjoint'
  BY <1>1, <1>8 DEF AckInv, AckedDisjoint, AckedSeqs
<1> QED
  BY <1>3, <1>4, <1>5, <1>7, <1>9

\* Every step of the handlers, of ClickHouse and every restart preserves Inv.
LEMMA InvNext == Inv /\ [Next]_vars => Inv'
<1> SUFFICES ASSUME Inv, [Next]_vars PROVE Inv'
  OBVIOUS
<1>1. CASE UNCHANGED vars
  BY <1>1 DEF vars, Inv, TypeOK, LockInv, RequestInv, HeadInv, DraftInv, WireInv,
              AckInv, ChainRooted, AckedDisjoint, Acked, AckedSeqs
<1>2. ASSUME NEW r \in Requests, SealStep(r) PROVE Inv'
  BY <1>2, LoadHeadPreserves, LoadHeadFailsPreserves, StartBatchPreserves,
     SealRecordPreserves, SendBatchPreserves, AppendOKPreserves, AppendFailsPreserves
     DEF SealStep
<1> QED
  BY <1>1, <1>2, RejectPreserves, AcceptEmptyPreserves, ReceivePreserves,
     LockPreserves, LandPreserves, CrashPreserves DEF Next

-----------------------------------------------------------------------------
(* The theorems.                                                           *)

\* The inductive invariant holds in every reachable state of the gateway.
THEOREM Invariance == Spec => []Inv
BY InvInit, InvNext, PTL DEF Spec

\* SealBatch, the handler around it and the table keep to their types.
THEOREM TypeCorrectness == Spec => []TypeOK
<1>1. Inv => TypeOK
  BY DEF Inv
<1> QED
  BY <1>1, Invariance, PTL

\* Every stored row hashes its contents onto a stored predecessor, whatever
\* INSERT failed, came late or was retried, and however often SealBatch's
\* process restarted.
THEOREM ChainStaysRooted == Spec => []ChainRooted
<1>1. Inv => ChainRooted
  BY DEF Inv
<1> QED
  BY <1>1, Invariance, PTL

\* A batch that ServeHTTP answered with 200 is in the table, all of it.
THEOREM AcknowledgedIsStored == Spec => []AckedStored
<1>1. Inv => AckedStored
  BY DEF Inv, AckInv, AckedStored
<1> QED
  BY <1>1, Invariance, PTL

\* No two 200 answers of ServeHTTP for one tenant name a common position.
THEOREM AcknowledgedIsDisjoint == Spec => []AckedDisjoint
<1>1. Inv => AckedDisjoint
  BY DEF Inv
<1> QED
  BY <1>1, Invariance, PTL

-----------------------------------------------------------------------------
(* Sequence numbers are unique when a failed INSERT has no effect.         *)

\* Steps that touch neither the table, the wire, the heads nor a draft, and
\* leave whoever is appending alone.
LEMMA ReliableQuietStep ==
    ASSUME Inv, ReliableInv, UNCHANGED <<rows, wire, heads, draft>>,
           \A r \in Requests : pc[r] = "appending" => pc'[r] = "appending" /\ tenant'[r] = tenant[r],
           \A r \in Requests : pc'[r] \in {"sealing", "appending"} =>
                                   pc[r] \in {"sealing", "appending"}
    PROVE  ReliableInv'
<1>1. WireOwned' /\ DraftUnique'
  BY DEF ReliableInv, WireOwned, DraftUnique, Inv, TypeOK
<1>2. RowsBelowHead'
  BY DEF ReliableInv, RowsBelowHead
<1>3. SeqUnique'
  BY DEF ReliableInv, SeqUnique
<1> QED
  BY <1>1, <1>2, <1>3 DEF ReliableInv

\* LoadHead and StartBatch: nobody is appending, and Head answers above all
\* the rows.
LEMMA ReliableHead ==
    ASSUME Inv, ReliableInv, NEW r \in Requests, LoadHead(r) \/ StartBatch(r)
    PROVE  ReliableInv'
<1> USE GatewayConstants
<1>1. tenant[r] \in Tenants /\ \A r2 \in Requests : pc[r2] \notin {"sealing", "appending"}
  BY DEF LoadHead, StartBatch, Inv, RequestInv, LockInv
<1>2. WireOwned'
  BY <1>1 DEF ReliableInv, WireOwned, LoadHead, StartBatch, Inv, TypeOK
<1>3. DraftUnique'
  BY <1>1 DEF DraftUnique, LoadHead, StartBatch, Inv, TypeOK
<1>4. RowsBelowHead'
  <2>1. CASE LoadHead(r)
    <3>1. PICK h \in HeadAnswers(tenant[r]) : heads' = [heads EXCEPT ![tenant[r]] = h]
      BY <2>1 DEF LoadHead
    <3>2. \A row \in rows[tenant[r]] : row.seq < h.nextSeq
      BY <1>1, HeadAnswersCorrect DEF Inv
    <3> QED
      BY <1>1, <2>1, <3>1, <3>2 DEF ReliableInv, RowsBelowHead, LoadHead, Inv, TypeOK
  <2>2. CASE StartBatch(r)
    BY <1>1, <2>2 DEF ReliableInv, RowsBelowHead, StartBatch
  <2> QED
    BY <2>1, <2>2
<1>5. SeqUnique'
  BY DEF ReliableInv, SeqUnique, LoadHead, StartBatch
<1> QED
  BY <1>2, <1>3, <1>4, <1>5 DEF ReliableInv

\* The loop's new entry has a higher seq than the ones before it; sending the
\* batch changes no entry.
LEMMA ReliableSeal ==
    ASSUME Inv, ReliableInv, NEW r \in Requests, SealRecord(r) \/ SendBatch(r)
    PROVE  ReliableInv'
<1> USE GatewayConstants
<1>1. pc[r] = "sealing"
  BY DEF SealRecord, SendBatch
<1>2. /\ tenant[r] \in Tenants /\ heads[tenant[r]].nextSeq \in Nat
      /\ draft[r].seq \in Nat /\ draft[r].prev \in Digest
      /\ draft[r].entries \subseteq Row
      /\ \A r2 \in Requests : pc[r2] \in {"sealing", "appending"} => r2 = r
  BY <1>1, SealerFacts
<1>3. wire = {}
  BY <1>1, <1>2 DEF ReliableInv, WireOwned, Inv, TypeOK
<1>4. \A r2 \in Requests : pc[r2] # "appending"
  BY <1>1, <1>2
<1>5. WireOwned'
  BY <1>1, <1>3 DEF WireOwned, SealRecord, SendBatch, Inv, TypeOK
<1>6. DraftUnique'
  <2>1. CASE SendBatch(r)
    BY <1>1, <2>1 DEF ReliableInv, DraftUnique, SendBatch, Inv, TypeOK
  <2>2. CASE SealRecord(r)
    <3> DEFINE rec   == <<r, draft[r].seq - heads[tenant[r]].nextSeq + 1>>
               entry == SealedEntry(tenant[r], draft[r], rec)
    <3>1. entry.seq = draft[r].seq
      BY DEF SealedEntry
    <3>2. \A e \in draft[r].entries : e.seq < draft[r].seq /\ e.seq \in Nat
      BY <1>1, <1>2 DEF Inv, DraftInv, Row
    <3>3. /\ draft'[r].entries = draft[r].entries \cup {entry}
          /\ \A r2 \in Requests : r2 # r => draft'[r2] = draft[r2]
          /\ pc' = pc
      BY <2>2 DEF SealRecord, Inv, TypeOK
    <3> HIDE DEF entry
    <3> QED
      BY <1>1, <1>2, <3>1, <3>2, <3>3 DEF ReliableInv, DraftUnique
  <2> QED
    BY <2>1, <2>2
<1>7. RowsBelowHead'
  BY <1>4 DEF ReliableInv, RowsBelowHead, SealRecord, SendBatch
<1>8. SeqUnique'
  BY DEF ReliableInv, SeqUnique, SealRecord, SendBatch
<1> QED
  BY <1>5, <1>6, <1>7, <1>8 DEF ReliableInv

\* The INSERT that lands is the lock holder's: all other rows are below it.
LEMMA ReliableLand ==
    ASSUME Inv, ReliableInv, NEW r \in Requests, Land(r)
    PROVE  ReliableInv'
<1> USE GatewayConstants
<1>1. /\ r \in wire /\ wire' = wire \ {r} /\ pc[r] = "appending"
      /\ rows' = [rows EXCEPT ![tenant[r]] = @ \cup draft[r].entries]
      /\ UNCHANGED <<mu, heads, pc, tenant, size, draft>>
  BY DEF Land, ReliableInv, WireOwned
<1>2. /\ tenant[r] \in Tenants /\ heads[tenant[r]].nextSeq \in Nat
      /\ draft[r].entries \subseteq Row /\ rows[tenant[r]] \subseteq Row
      /\ \A r2 \in Requests : pc[r2] \in {"sealing", "appending"} => r2 = r
  BY <1>1, SealerFacts
<1>3. /\ rows'[tenant[r]] = rows[tenant[r]] \cup draft[r].entries
      /\ \A t \in Tenants : t # tenant[r] => rows'[t] = rows[t]
  BY <1>1, <1>2 DEF Inv, TypeOK
<1>4. /\ heads[tenant[r]] # None
      /\ \A e \in draft[r].entries : heads[tenant[r]].nextSeq <= e.seq
  BY <1>1 DEF Inv, DraftInv
<1>5. \A row \in rows[tenant[r]] : row.seq < heads[tenant[r]].nextSeq
  BY <1>1, <1>2, <1>4 DEF ReliableInv, RowsBelowHead
<1>6. WireOwned' /\ DraftUnique'
  BY <1>1 DEF ReliableInv, WireOwned, DraftUnique
<1>7. RowsBelowHead'
  <2> SUFFICES ASSUME NEW t \in Tenants, heads[t] # None, NEW row \in rows'[t]
               PROVE  \/ row.seq < heads[t].nextSeq
                      \/ \E r2 \in Requests : /\ pc[r2] = "appending" /\ tenant[r2] = t
                                              /\ r2 \notin wire' /\ row \in draft[r2].entries
    BY <1>1 DEF RowsBelowHead
  <2>1. CASE row \in rows[t]
    BY <1>1, <2>1 DEF ReliableInv, RowsBelowHead
  <2>2. CASE row \notin rows[t]
    BY <1>1, <1>3, <2>2
  <2> QED
    BY <2>1, <2>2
<1>8. SeqUnique'
  <2> SUFFICES ASSUME NEW t \in Tenants, NEW a \in rows'[t], NEW b \in rows'[t], a.seq = b.seq
               PROVE  a = b
    BY DEF SeqUnique
  <2>1. CASE t # tenant[r]
    BY <1>3, <2>1 DEF ReliableInv, SeqUnique
  <2>2. CASE t = tenant[r]
    <3>1. CASE a \in rows[t] /\ b \in rows[t]
      BY <3>1 DEF ReliableInv, SeqUnique
    <3>2. CASE a \in draft[r].entries /\ b \in draft[r].entries
      BY <1>1, <3>2 DEF ReliableInv, DraftUnique
    <3>3. \A x \in rows[t], y \in draft[r].entries : x.seq # y.seq
      BY <1>2, <1>4, <1>5, <2>2 DEF Row
    <3> QED
      BY <1>3, <2>2, <3>1, <3>2, <3>3
  <2> QED
    BY <2>1, <2>2
<1> QED
  BY <1>6, <1>7, <1>8 DEF ReliableInv

\* AppendOK moves the head past the batch that has landed.  AppendFails finds
\* the INSERT still on the wire and takes it off: nothing has landed.
LEMMA ReliableAppend ==
    ASSUME Inv, ReliableInv, ~AmbiguousAppend, NEW r \in Requests,
           AppendOK(r) \/ AppendFails(r)
    PROVE  ReliableInv'
<1> USE GatewayConstants
<1>1. pc[r] = "appending"
  BY DEF AppendOK, AppendFails
<1>2. /\ tenant[r] \in Tenants /\ heads[tenant[r]].nextSeq \in Nat
      /\ draft[r].seq \in Nat /\ rows[tenant[r]] \subseteq Row
      /\ \A r2 \in Requests : pc[r2] \in {"sealing", "appending"} => r2 = r
  BY <1>1, SealerFacts
<1>3. \A r2 \in Requests : pc'[r2] \notin {"sealing", "appending"}
  BY <1>2 DEF AppendOK, AppendFails, Inv, TypeOK
<1>4. wire' = {}
  BY <1>1, <1>2 DEF ReliableInv, WireOwned, Inv, TypeOK, AppendOK, AppendFails
<1>5. WireOwned' /\ DraftUnique'
  BY <1>3, <1>4 DEF WireOwned, DraftUnique
<1>6. /\ heads[tenant[r]] # None /\ heads[tenant[r]].nextSeq <= draft[r].seq
      /\ \A e \in draft[r].entries : e.seq < draft[r].seq
  BY <1>1 DEF Inv, DraftInv
<1>7. RowsBelowHead'
  <2>1. CASE AppendOK(r)
    <3>1. \A row \in rows[tenant[r]] : row.seq < draft[r].seq
      <4>1. \A row \in rows[tenant[r]] :
               row.seq < heads[tenant[r]].nextSeq \/ row \in draft[r].entries
        BY <1>2, <1>6 DEF ReliableInv, RowsBelowHead
      <4> QED
        BY <1>2, <1>6, <4>1 DEF Row
    <3>2. /\ heads'[tenant[r]].nextSeq = draft[r].seq
          /\ \A t \in Tenants : t # tenant[r] => heads'[t] = heads[t]
      BY <1>2, <2>1 DEF AppendOK, Inv, TypeOK
    <3>3. rows' = rows /\ \A t \in Tenants : t # tenant[r] /\ heads[t] # None =>
             \A row \in rows[t] : row.seq < heads[t].nextSeq
      BY <1>2, <2>1 DEF AppendOK, ReliableInv, RowsBelowHead
    <3> QED
      BY <3>1, <3>2, <3>3 DEF RowsBelowHead
  <2>2. CASE AppendFails(r)
    <3>1. r \in wire /\ rows' = rows /\ heads' = heads
      BY <2>2 DEF AppendFails
    <3> QED
      BY <1>2, <3>1 DEF ReliableInv, RowsBelowHead
  <2> QED
    BY <2>1, <2>2
<1>8. SeqUnique'
  BY DEF ReliableInv, SeqUnique, AppendOK, AppendFails
<1> QED
  BY <1>5, <1>7, <1>8 DEF ReliableInv

\* Every step keeps the sequence numbers unique when errors can be trusted.
LEMMA ReliableNext ==
    ASSUME Inv, ReliableInv, ~AmbiguousAppend, [Next]_vars
    PROVE  ReliableInv'
<1>1. CASE UNCHANGED vars
  BY <1>1, ReliableQuietStep DEF vars
<1>2. CASE Crash
  <2>1. /\ wire' = {} /\ rows' = rows /\ heads' = [t \in Tenants |-> None]
        /\ \A r \in Requests : pc'[r] \notin {"sealing", "appending"}
    BY <1>2 DEF Crash, InHandler
  <2> QED
    BY <2>1 DEF ReliableInv, WireOwned, DraftUnique, RowsBelowHead, SeqUnique
<1>3. ASSUME NEW r \in Requests,
             \/ Reject(r) \/ Lock(r) \/ LoadHeadFails(r)
             \/ \E t \in Tenants : AcceptEmpty(r, t)
             \/ \E t \in Tenants, n \in BodySizes \ {0} : Receive(r, t, n)
      PROVE  ReliableInv'
  <2>1. /\ UNCHANGED <<rows, wire, heads, draft>>
        /\ pc[r] # "appending"
        /\ pc'[r] \notin {"sealing", "appending"}
        /\ \A r2 \in Requests : r2 # r => pc'[r2] = pc[r2] /\ tenant'[r2] = tenant[r2]
    BY <1>3 DEF Reject, Lock, LoadHeadFails, AcceptEmpty, Receive, Inv, TypeOK
  <2> QED
    BY <2>1, ReliableQuietStep
<1>4. ASSUME NEW r \in Requests, SealStep(r), ~LoadHeadFails(r) PROVE ReliableInv'
  BY <1>4, ReliableHead, ReliableSeal, ReliableAppend DEF SealStep
<1> QED
  BY <1>1, <1>2, <1>3, <1>4, ReliableLand DEF Next, SealStep

\* ReliableInv is what SealBatch keeps up when an INSERT that failed has no
\* effect: nothing of another request is on the wire, and no row but those of
\* the batch just sent lies at or above a cached head.
THEOREM ReliableInvariance ==
    ASSUME ~AmbiguousAppend
    PROVE  Spec => []ReliableInv
<1>1. Init => ReliableInv
  BY DEF Init, ReliableInv, WireOwned, DraftUnique, RowsBelowHead, SeqUnique
<1>2. Inv /\ ReliableInv /\ [Next]_vars => ReliableInv'
  BY ReliableNext
<1> QED
  BY <1>1, <1>2, Invariance, PTL DEF Spec

\* SealBatch's "a failed append can be safely retried" holds of a store whose
\* failed INSERTs have no effect: no two rows of a tenant share a seq.
THEOREM SeqUniqueIfReliable ==
    ASSUME ~AmbiguousAppend
    PROVE  Spec => []SeqUnique
<1>1. ReliableInv => SeqUnique
  BY DEF ReliableInv
<1> QED
  BY <1>1, ReliableInvariance, PTL

-----------------------------------------------------------------------------
(* The table is an append-only log.                                        *)

\* No number is left out: the rows of a tenant are numbered 0, 1, 2, ...
Seqs(S) == {row.seq : row \in S}
Dense == \A t \in Tenants : \E n \in Nat : Seqs(rows[t]) = 0 .. n - 1

\* An INSERT lands: the tenant's rows end where its cached head says, and
\* those of the batch follow without a gap.
LEMMA LandNumbers ==
    ASSUME Inv, ReliableInv, Dense, NEW r \in Requests, Land(r)
    PROVE  LET t == tenant[r]
           IN  /\ t \in Tenants /\ rows'[t] = rows[t] \cup draft[r].entries
               /\ \A u \in Tenants \ {t} : rows'[u] = rows[u]
               /\ \E n \in Nat : \E m \in Nat : /\ n <= m /\ Seqs(rows[t]) = 0 .. n - 1
                                             /\ Seqs(rows'[t]) = 0 .. m - 1
<1> USE GatewayConstants
<1> DEFINE t  == tenant[r]
           es == draft[r].entries
           h  == heads[t].nextSeq
           d  == draft[r].seq
<1>1. r \in wire /\ pc[r] = "appending"
  BY DEF Land, ReliableInv, WireOwned
<1>2. /\ t \in Tenants /\ h \in Nat /\ d \in Nat /\ rows[t] \subseteq Row
      /\ \A r2 \in Requests : pc[r2] \in {"sealing", "appending"} => r2 = r
  BY <1>1, SealerFacts
<1>3. /\ heads[t] # None /\ h <= d /\ \A e \in es : h <= e.seq /\ e.seq < d
      /\ At(rows[t] \cup es, t, d, draft[r].prev)
      /\ \A e \in es : Linked(t, rows[t] \cup es, e)
      /\ At(rows[t], t, h, heads[t].prevHash)
  BY <1>1, <1>2 DEF Inv, DraftInv, WireInv, HeadInv
<1>4. es \subseteq Row
  BY DEF Inv, TypeOK
<1>5. \A row \in rows[t] : row.seq < h
  BY <1>1, <1>2, <1>3 DEF ReliableInv, RowsBelowHead
<1>6. rows'[t] = rows[t] \cup es /\ \A u \in Tenants \ {t} : rows'[u] = rows[u]
  BY <1>2 DEF Land, Inv, TypeOK
<1> HIDE DEF t, es, h, d
<1>7. /\ \A row \in rows[t] : row.seq \in Nat
      /\ \A row \in es : row.seq \in Nat
  BY <1>2, <1>4 DEF Row
<1>8. Seqs(rows[t]) = 0 .. h - 1
  <2>1. PICK n \in Nat : Seqs(rows[t]) = 0 .. n - 1
    BY <1>2 DEF Dense
  <2>2. n <= h
    <3>1. n - 1 \in 0 .. n - 1 => \E row \in rows[t] : row.seq = n - 1
      BY <2>1 DEF Seqs
    <3> QED
      BY <1>2, <1>5, <3>1
  <2>3. h <= n
    <3>1. h # 0 => \E p \in rows[t] : p.seq + 1 = h
      BY <1>3 DEF At
    <3>2. h # 0 => \E s \in 0 .. n - 1 : s + 1 = h
      BY <2>1, <3>1 DEF Seqs
    <3> QED
      BY <1>2, <3>2
  <2>4. n = h
    BY <1>2, <2>2, <2>3
  <2> QED
    BY <2>1, <2>4
<1> DEFINE gaps == (h .. d - 1) \ Seqs(es)
<1>9. gaps = {}
  <2> SUFFICES ASSUME gaps # {} PROVE FALSE
    OBVIOUS
  <2>1. gaps \subseteq Nat /\ \A s \in gaps : s <= d
    BY <1>2
  <2> HIDE DEF gaps
  <2>2. PICK last \in gaps : \A s \in gaps : last >= s
    BY <1>2, <2>1, LargestElement
  <2>3. last \in Nat /\ h <= last /\ last < d /\ last \notin Seqs(es)
    BY <1>2, <2>1 DEF gaps
  <2>4. ASSUME NEW p \in rows[t] \cup es, p.seq + 1 = last + 1 PROVE FALSE
    <3>1. p.seq = last
      BY <1>7, <2>3, <2>4
    <3>2. p \in es
      BY <1>2, <1>5, <2>3, <3>1
    <3> QED
      BY <2>3, <3>1, <3>2 DEF Seqs
  <2>5. CASE last + 1 = d
    <3>1. \E p \in rows[t] \cup es : p.seq + 1 = d
      BY <1>3, <2>3, <2>5 DEF At
    <3> QED
      BY <2>4, <2>5, <3>1
  <2>6. CASE last + 1 # d
    <3>1. last + 1 \in h .. d - 1
      BY <1>2, <2>3, <2>6
    <3>2. last + 1 \in Seqs(es)
      BY <2>2, <2>3, <3>1 DEF gaps
    <3>3. PICK e \in es : e.seq = last + 1
      BY <3>2 DEF Seqs
    <3>4. \E p \in rows[t] \cup es : p.seq + 1 = last + 1
      BY <1>3, <2>3, <3>3 DEF Linked, At
    <3> QED
      BY <2>4, <3>4
  <2> QED
    BY <2>5, <2>6
<1>10. Seqs(rows'[t]) = 0 .. d - 1
  <2>1. Seqs(rows'[t]) = Seqs(rows[t]) \cup Seqs(es)
    BY <1>6 DEF Seqs
  <2>2. Seqs(es) = h .. d - 1
    <3>1. \A e \in es : e.seq \in h .. d - 1
      BY <1>2, <1>3, <1>7
    <3> QED
      BY <1>9, <3>1 DEF Seqs
  <2>3. (0 .. h - 1) \cup (h .. d - 1) = 0 .. d - 1
    BY <1>2, <1>3
  <2> QED
    BY <1>8, <2>1, <2>2, <2>3
<1> QED
  BY <1>2, <1>3, <1>6, <1>8, <1>10 DEF t, es

LEMMA DenseNext ==
    ASSUME Inv, ReliableInv, Dense, [Next]_vars
    PROVE  Dense'
<1>1. CASE \E r \in Requests : Land(r)
  <2>1. PICK r \in Requests : Land(r)
    BY <1>1
  <2>2. /\ \A u \in Tenants \ {tenant[r]} : rows'[u] = rows[u]
        /\ \E m \in Nat : Seqs(rows'[tenant[r]]) = 0 .. m - 1
    BY <2>1, LandNumbers
  <2> QED
    BY <2>2 DEF Dense
<1>2. CASE rows' = rows
  BY <1>2 DEF Dense
<1> QED
  BY <1>1, <1>2 DEF Next, SealStep, vars, Reject, AcceptEmpty, Receive, Lock, LoadHead, LoadHeadFails,
     StartBatch, SealRecord, SendBatch, AppendOK, AppendFails, Crash

\* The rows of a tenant: numbered without a gap, no number twice, each linked
\* to its predecessor.
Numbered(t, S, n) ==
    /\ n \in Nat /\ S \subseteq Row /\ Seqs(S) = 0 .. n - 1
    /\ \A a, b \in S : a.seq = b.seq => a = b
    /\ \A row \in S : Linked(t, S, row)

\* Such rows in sequence order.
LEMMA OrderedCorrect ==
    ASSUME NEW t, NEW S, NEW n, Numbered(t, S, n)
    PROVE  /\ Ordered(S) = [k \in 1 .. n |-> Ordered(S)[k]] /\ Len(Ordered(S)) = n
           /\ \A k \in 1 .. n : Ordered(S)[k] \in S /\ Ordered(S)[k].seq = k - 1
           /\ \A row \in S : row.seq + 1 \in 1 .. n /\ Ordered(S)[row.seq + 1] = row
<1> DEFINE at(k) == CHOOSE row \in S : row.seq = k - 1
<1>1. n \in Nat /\ Seqs(S) = 0 .. n - 1
  BY DEF Numbered
<1>2. Cardinality({row.seq : row \in S}) = n
  <2>1. {row.seq : row \in S} = 0 .. n - 1
    BY <1>1 DEF Seqs
  <2>2. Cardinality(0 .. n - 1) = n
    <3>1. n >= 1 => Cardinality(0 .. n - 1) = (n - 1) - 0 + 1
      BY <1>1, FS_Interval
    <3>2. n = 0 => Cardinality(0 .. n - 1) = 0
      BY FS_Interval
    <3> QED
      BY <1>1, <3>1, <3>2
  <2> QED
    BY <2>1, <2>2
<1>3. Ordered(S) = [k \in 1 .. n |-> at(k)]
  BY <1>2 DEF Ordered
<1>4. ASSUME NEW k \in 1 .. n PROVE at(k) \in S /\ at(k).seq = k - 1
  <2>1. k - 1 \in 0 .. n - 1
    BY <1>1
  <2>2. \E row \in S : row.seq = k - 1
    BY <1>1, <2>1 DEF Seqs
  <2> QED
    BY <2>2
<1> HIDE DEF at
<1>5. ASSUME NEW row \in S PROVE row.seq + 1 \in 1 .. n /\ at(row.seq + 1) = row
  <2>1. row.seq \in 0 .. n - 1
    BY <1>1 DEF Seqs
  <2>2. row.seq + 1 \in 1 .. n /\ (row.seq + 1) - 1 = row.seq
    BY <1>1, <2>1
  <2>3. at(row.seq + 1) \in S /\ at(row.seq + 1).seq = row.seq
    BY <1>4, <2>2
  <2> QED
    BY <2>2, <2>3 DEF Numbered
<1> QED
  BY <1>1, <1>3, <1>4, <1>5

\* One more record absorbed.
LEMMA AbsorbStep ==
    ASSUME NEW t, NEW recs, NEW k \in Nat
    PROVE  /\ Log!ChainDigest(t, recs, 0) = Genesis(t)
           /\ ChainHash(Log!ChainDigest(t, recs, k), EntryLeaf(t, k, recs[k + 1]))
                 = Log!ChainDigest(t, recs, k + 1)
<1>1. Log!ChainDigest(t, recs, 0) = Genesis(t)
  BY DEF Log!ChainDigest, Genesis
<1> DEFINE leaf(i) == EntryLeaf(t, i - 1, recs[i])
           short == [i \in 1 .. k |-> leaf(i)]
           long  == [i \in 1 .. k + 1 |-> leaf(i)]
           S == {leaf(i) : i \in 1 .. k + 1}
<1>2. /\ Log!ChainDigest(t, recs, k) = [tenant |-> t, leaves |-> short]
      /\ Log!ChainDigest(t, recs, k + 1) = [tenant |-> t, leaves |-> long]
  BY DEF Log!ChainDigest, Log!EntryLeaf, EntryLeaf
<1>3. leaf(k + 1) = EntryLeaf(t, k, recs[k + 1])
  BY DEF EntryLeaf
<1>4. short \in Seq(S) /\ long \in Seq(S) /\ leaf(k + 1) \in S
  <2>1. \A i \in 1 .. k + 1 : leaf(i) \in S
    OBVIOUS
  <2>2. \A i \in 1 .. k : i \in 1 .. k + 1
    OBVIOUS
  <2> HIDE DEF leaf, S
  <2> QED
    BY <2>1, <2>2
<1>5. Len(short) = k /\ Len(long) = k + 1
  OBVIOUS
<1> HIDE DEF leaf, S
<1>6. Append(short, leaf(k + 1)) = long
  <2>1. Append(short, leaf(k + 1)) \in Seq(S) /\ Len(Append(short, leaf(k + 1))) = k + 1
    BY <1>4, <1>5
  <2>2. ASSUME NEW i \in 1 .. k + 1 PROVE Append(short, leaf(k + 1))[i] = long[i]
    <3>1. CASE i = k + 1
      BY <1>4, <1>5, <3>1
    <3>2. CASE i # k + 1
      BY <1>4, <1>5, <3>2
    <3> QED
      BY <3>1, <3>2
  <2> QED
    BY <1>4, <1>5, <2>1, <2>2
<1> HIDE DEF short, long
<1>7. ChainHash(Log!ChainDigest(t, recs, k), EntryLeaf(t, k, recs[k + 1]))
         = Log!ChainDigest(t, recs, k + 1)
  BY <1>2, <1>3, <1>6 DEF ChainHash
<1> QED
  BY <1>1, <1>7

\* In sequence order the rows are the entries that AppendLog makes of their
\* records.
LEMMA OrderedIsLog ==
    ASSUME NEW t, NEW S, NEW n, Numbered(t, S, n)
    PROVE  Ordered(S) = Log!Entries(t, Log!Records(Ordered(S)))
<1> DEFINE c    == Ordered(S)
           recs == Log!Records(c)
           D(k) == Log!ChainDigest(t, recs, k)
           Good(k) == k \in 1 .. n => c[k].prev = D(k - 1) /\ c[k].hash = D(k)
           T    == {k \in Nat : Good(k)}
<1>1. /\ n \in Nat /\ c = [k \in 1 .. n |-> c[k]] /\ Len(c) = n
      /\ \A k \in 1 .. n : c[k] \in S /\ c[k].seq = k - 1
      /\ \A row \in S : row.seq + 1 \in 1 .. n /\ c[row.seq + 1] = row
  <2>1. n \in Nat
    BY DEF Numbered
  <2> QED
    BY <2>1, OrderedCorrect
<1>2. \A k \in 1 .. n : c[k] \in Row /\ Linked(t, S, c[k])
  BY <1>1 DEF Numbered
<1> HIDE DEF c
<1>3. recs = [k \in 1 .. n |-> c[k].rec] /\ Len(recs) = n
  BY <1>1 DEF Log!Records
<1> HIDE DEF recs
<1>4. ASSUME NEW k \in Nat, k + 1 \in 1 .. n, c[k + 1].prev = D(k)
      PROVE  c[k + 1].hash = D(k + 1)
  <2>1. c[k + 1].seq = k /\ c[k + 1].rec = recs[k + 1]
    BY <1>1, <1>3, <1>4
  <2>2. c[k + 1].hash = ChainHash(c[k + 1].prev, EntryLeaf(t, c[k + 1].seq, c[k + 1].rec))
    BY <1>2, <1>4 DEF Linked
  <2> QED
    BY <1>4, <2>1, <2>2, AbsorbStep
<1>5. ASSUME NEW k \in Nat, Good(k) PROVE Good(k + 1)
  <2> SUFFICES ASSUME k + 1 \in 1 .. n PROVE c[k + 1].prev = D(k)
    <3>1. (k + 1) - 1 = k
      OBVIOUS
    <3> QED
      BY <1>4, <3>1
  <2>1. c[k + 1].seq = k /\ At(S, t, k, c[k + 1].prev)
    BY <1>1, <1>2 DEF Linked
  <2>2. CASE k = 0
    BY <2>1, <2>2, AbsorbStep DEF At
  <2>3. CASE k # 0
    <3>1. PICK p \in S : p.seq + 1 = k /\ p.hash = c[k + 1].prev
      BY <2>1, <2>3 DEF At
    <3>2. k \in 1 .. n /\ c[k] = p
      BY <1>1, <3>1
    <3> QED
      BY <1>5, <3>1, <3>2
  <2> QED
    BY <2>2, <2>3
<1>6. Good(0)
  OBVIOUS
<1> HIDE DEF Good
<1>7. 0 \in T /\ \A k \in Nat : k \in T => k + 1 \in T
  BY <1>5, <1>6
<1>8. \A k \in Nat : k \in T
  <2> HIDE DEF T
  <2> QED
    BY <1>7, InductionStep
<1>9. ASSUME NEW k \in 1 .. n
      PROVE  c[k] = [seq |-> k - 1, rec |-> recs[k], prev |-> D(k - 1), hash |-> D(k)]
  <2>1. k \in T
    BY <1>1, <1>8
  <2>2. c[k].prev = D(k - 1) /\ c[k].hash = D(k)
    BY <2>1 DEF Good
  <2>3. c[k].seq = k - 1 /\ c[k].rec = recs[k]
    BY <1>1, <1>3
  <2>4. c[k] = [seq |-> c[k].seq, rec |-> c[k].rec, prev |-> c[k].prev, hash |-> c[k].hash]
    BY <1>2 DEF Row
  <2> QED
    BY <2>2, <2>3, <2>4
<1>10. Log!Entries(t, recs) =
          [k \in 1 .. n |-> [seq |-> k - 1, rec |-> recs[k], prev |-> D(k - 1), hash |-> D(k)]]
  BY <1>3 DEF Log!Entries
<1>11. c = Log!Entries(t, recs)
  <2> HIDE DEF D
  <2> QED
    BY <1>1, <1>9, <1>10
<1> QED
  BY <1>11 DEF c, recs

\* Rows that follow without a gap extend the log at its end.
LEMMA OrderedExtends ==
    ASSUME NEW t, NEW S, NEW n, Numbered(t, S, n),
           NEW T, NEW m, Numbered(t, T, m), S \subseteq T, n <= m
    PROVE  /\ Log!IsStrictPrefix(Ordered(S), Ordered(T)) \/ T = S
<1> DEFINE c == Ordered(S)
           d == Ordered(T)
           U == {d[k] : k \in 1 .. m}
<1>1. n \in Nat /\ m \in Nat
  BY DEF Numbered
<1>2. /\ c = [k \in 1 .. n |-> c[k]] /\ Len(c) = n
      /\ \A k \in 1 .. n : c[k] \in S /\ c[k].seq = k - 1
  BY OrderedCorrect
<1>3. /\ d = [k \in 1 .. m |-> d[k]] /\ Len(d) = m
      /\ \A row \in T : row.seq + 1 \in 1 .. m /\ d[row.seq + 1] = row
  BY OrderedCorrect
<1>4. ASSUME n = m PROVE T = S
  <2> SUFFICES ASSUME NEW row \in T PROVE row \in S
    OBVIOUS
  <2>1. row.seq \in Seqs(S)
    BY <1>4 DEF Numbered, Seqs
  <2>2. PICK old \in S : old.seq = row.seq
    BY <2>1 DEF Seqs
  <2> QED
    BY <2>2 DEF Numbered
<1>5. ASSUME n # m PROVE Log!IsStrictPrefix(c, d)
  <2> HIDE DEF c, d, U
  <2>1. \A k \in 1 .. n : d[k] = c[k] /\ k \in 1 .. m
    <3> SUFFICES ASSUME NEW k \in 1 .. n PROVE d[k] = c[k] /\ k \in 1 .. m
      OBVIOUS
    <3>1. c[k] \in T /\ c[k].seq + 1 = k
      BY <1>1, <1>2
    <3> QED
      BY <1>1, <1>3, <3>1
  <2>2. \A k \in 1 .. n : d[k] \in U /\ c[k] \in U
    BY <2>1 DEF U
  <2>3. /\ SubSeq(c, 1, n) \in Seq(U) /\ SubSeq(d, 1, n) \in Seq(U)
        /\ Len(SubSeq(c, 1, n)) = IF 1 <= n THEN n - 1 + 1 ELSE 0
        /\ Len(SubSeq(d, 1, n)) = IF 1 <= n THEN n - 1 + 1 ELSE 0
        /\ \A i \in 1 .. n - 1 + 1 : SubSeq(c, 1, n)[i] = c[1 + i - 1]
        /\ \A i \in 1 .. n - 1 + 1 : SubSeq(d, 1, n)[i] = d[1 + i - 1]
    BY <1>1, <2>2, SubSeqProperties
  <2>4. n - 1 + 1 = n /\ \A i \in 1 .. n : 1 + i - 1 = i
    BY <1>1
  <2>5. \A i \in 1 .. n : SubSeq(c, 1, n)[i] = SubSeq(d, 1, n)[i]
    BY <2>1, <2>3, <2>4
  <2>6. /\ Len(SubSeq(c, 1, n)) = Len(SubSeq(d, 1, n))
        /\ \A i \in 1 .. Len(SubSeq(c, 1, n)) : i \in 1 .. n
    BY <1>1, <2>3, <2>4
  <2>7. SubSeq(c, 1, n) = SubSeq(d, 1, n)
    BY <2>3, <2>5, <2>6, SeqEqual
  <2> QED
    BY <1>2, <1>3, <1>5, <2>7 DEF Log!IsStrictPrefix, Log!IsPrefix
<1> QED
  BY <1>4, <1>5

\* What the invariants say of the rows in this state and in the next.
LEMMA RowsNumbered ==
    ASSUME Inv, ReliableInv, NEW t \in Tenants, NEW n \in Nat, Seqs(rows[t]) = 0 .. n - 1
    PROVE  Numbered(t, rows[t], n)
BY DEF Inv, TypeOK, ReliableInv, SeqUnique, ChainRooted, Linked, Numbered

LEMMA NextRowsNumbered ==
    ASSUME Inv', ReliableInv', NEW t \in Tenants, NEW n \in Nat, Seqs(rows'[t]) = 0 .. n - 1
    PROVE  Numbered(t, rows'[t], n)
BY DEF Inv, TypeOK, ReliableInv, SeqUnique, ChainRooted, Linked, Numbered

\* Every step extends one tenant's log or leaves them all alone.
LEMMA LogStep ==
    ASSUME Inv, ReliableInv, Inv', ReliableInv', Dense, [Next]_vars
    PROVE  Log!Next \/ rows' = rows
<1>1. CASE \E r \in Requests : Land(r)
  <2>1. PICK r \in Requests : Land(r)
    BY <1>1
  <2> DEFINE t == tenant[r]
  <2>2. /\ t \in Tenants /\ rows[t] \subseteq rows'[t]
        /\ \A u \in Tenants \ {t} : rows'[u] = rows[u]
    BY <2>1, LandNumbers
  <2>3. PICK n \in Nat : \E m \in Nat : /\ n <= m /\ Seqs(rows[t]) = 0 .. n - 1
                                        /\ Seqs(rows'[t]) = 0 .. m - 1
    BY <2>1, LandNumbers
  <2>4. PICK m \in Nat : n <= m /\ Seqs(rows[t]) = 0 .. n - 1 /\ Seqs(rows'[t]) = 0 .. m - 1
    BY <2>3
  <2> HIDE DEF t
  <2>5. Numbered(t, rows[t], n) /\ Numbered(t, rows'[t], m)
    BY <2>2, <2>4, RowsNumbered, NextRowsNumbered
  <2>6. Log!IsStrictPrefix(Ordered(rows[t]), Ordered(rows'[t])) \/ rows'[t] = rows[t]
    BY <2>2, <2>4, <2>5, OrderedExtends
  <2>7. Ordered(rows'[t]) = Log!Entries(t, Log!Records(Ordered(rows'[t])))
    BY <2>5, OrderedIsLog
  <2>8. CASE rows'[t] = rows[t]
    <3>1. rows = [u \in Tenants |-> rows[u]] /\ rows' = [u \in Tenants |-> rows'[u]]
      BY DEF Inv, TypeOK
    <3> QED
      BY <2>2, <2>8, <3>1
  <2>9. CASE Log!IsStrictPrefix(Ordered(rows[t]), Ordered(rows'[t]))
    <3>1. Log!Extend(t)
      BY <2>2, <2>7, <2>9 DEF Log!Extend
    <3> QED
      BY <2>2, <3>1 DEF Log!Next
  <2> QED
    BY <2>6, <2>8, <2>9
<1>2. ASSUME ~\E r \in Requests : Land(r) PROVE rows' = rows
  BY <1>2 DEF Next, SealStep, vars, Reject, AcceptEmpty, Receive, Lock, LoadHead, LoadHeadFails,
     StartBatch, SealRecord, SendBatch, AppendOK, AppendFails, Crash
<1> QED
  BY <1>1, <1>2

\* ImplementsAppendLog: whatever requests overlap, fail or die, and whenever
\* the gateway restarts, the table is a log that only grows at its end, as the
\* anchorer and the verifier take it to be, if a failed INSERT has no effect.
THEOREM TableIsAppendLog ==
    ASSUME ~AmbiguousAppend
    PROVE  Spec => ImplementsAppendLog
<1>1. Init => Dense /\ Log!Init
  <2> SUFFICES ASSUME Init PROVE Dense /\ Log!Init
    OBVIOUS
  <2>1. \A t \in Tenants : rows[t] = {} /\ Seqs(rows[t]) = 0 .. 0 - 1
    BY DEF Init, Seqs
  <2>2. Ordered({}) = <<>>
    <3>1. {row.seq : row \in {}} = {} /\ Cardinality({}) = 0
      BY FS_EmptySet
    <3> QED
      BY <3>1 DEF Ordered
  <2>3. Log!Init
    BY <2>1, <2>2 DEF Log!Init
  <2> QED
    BY <2>1, <2>3 DEF Dense
<1>2. Inv /\ ReliableInv /\ Dense /\ [Next]_vars => Dense'
  BY DenseNext
<1>3. Inv /\ ReliableInv /\ Inv' /\ ReliableInv' /\ Dense /\ [Next]_vars
         => [Log!Next]_([t \in Tenants |-> Ordered(rows[t])])
  BY LogStep
<1> QED
  BY <1>1, <1>2, <1>3, Invariance, ReliableInvariance, PTL DEF Spec, ImplementsAppendLog, Log!Spec
=============================================================================
