--------------------------- MODULE AnchorerProofs ---------------------------
(***************************************************************************)
(* What anchoring guarantees whatever runs overlap, fail or die, and       *)
(* however late a PutObject lands: for any tenants, records, runs,         *)
(* notaries, window and query limits, and any number of faults.            *)
(* And what it guarantees besides when the ticker's run is the only one.   *)
(*                                                                         *)
(* And what verification tells of the rows it was given.  What passes is   *)
(* what was sealed, at any moment of any run of the anchorer.  And honest  *)
(* data passes, when the ticker's run is the only one and no run ended     *)
(* early: read in one moment nothing is reported, and read in the steps of *)
(* a sweep, beside the gateway and the anchorer, nothing but that entries  *)
(* sealed after the rows were read are not among them.                     *)
(***************************************************************************)
EXTENDS Verifier, VerifyProofs, SequenceTheorems

-----------------------------------------------------------------------------
(* The inductive invariant.                                                *)

\* Every entry below n is in the window of an object whose key is below n.
\* Unlike Covered alone, this survives the replacement of any object by one
\* whose own window is tiled up to its start.
Tiled(t, n) ==
    \A s \in 0 .. n - 1 : \E e \in DOMAIN worm[t] :
        e < n /\ worm[t][e].seqStart <= s /\ s <= worm[t][e].seqEnd

\* A checkpoint commits to what the log holds in its window.
Truthful(t, cp) ==
    /\ cp.seqStart \in Nat /\ cp.seqEnd \in Nat /\ cp.seqStart <= cp.seqEnd
    /\ cp.seqEnd < Len(log[t])
    /\ cp = Build(t, Slice(t, cp.seqStart, cp.seqEnd + 1), cp.prev, cp.anchoredAt)

\* A checkpoint that a run may write, whenever the write takes effect.
Writable(t, cp) == Truthful(t, cp) /\ Tiled(t, cp.seqStart)

WormInv ==
    \A t \in Tenants : \A e \in DOMAIN worm[t] :
        worm[t][e].seqEnd = e /\ Writable(t, worm[t][e])

HasLast(S) == S = {} \/ \E last \in S : \A e \in S : last >= e

\* WORM is written first; the working copy has a last checkpoint to resume from.
CopyInv == \A t \in Tenants : DOMAIN cps[t] \subseteq DOMAIN worm[t] /\ HasLast(DOMAIN cps[t])

ProofInv ==
    \A t \in Tenants : \A k \in DOMAIN proofs[t] :
        k = <<k[1], k[2]>> /\ k[1] \in DOMAIN worm[t] /\ k[2] \in STRING

LateInv == \A put \in late : put.tenant \in Tenants /\ Writable(put.tenant, put.cp)

Reading == {"entries", "build"}
Writing == {"get", "put", "record", "stamp"}

\* The types of a run's locals; prev and cp may be anything.
Shaped(x) ==
    x \in [pc: {"idle", "tenant"} \cup Reading \cup Writing, todo: SUBSET Tenants,
           tenant: Tenants \cup {None}, next: Nat, upto: Nat,
           prev: {x.prev}, cp: {x.cp}, left: Seq(STRING)]

\* The locals of a run: it resumes where everything before is tiled, and holds
\* a checkpoint that starts there.
LocalsInv(x) ==
    /\ Shaped(x)
    /\ x.pc \in Reading \cup Writing => x.tenant \in Tenants /\ Tiled(x.tenant, x.next)
    /\ x.pc \in {"build"} \cup Writing => x.upto <= Len(log[x.tenant])
    /\ x.pc = "build" => x.next < x.upto
    /\ x.pc \in Writing => Truthful(x.tenant, x.cp) /\ x.cp.seqStart = x.next
    /\ x.pc \in {"record", "stamp"} => x.cp.seqEnd \in DOMAIN worm[x.tenant]

TablesInv ==
    /\ log \in [Tenants -> Seq(Recs)]
    /\ worm = [t \in Tenants |-> worm[t]]
    /\ cps = [t \in Tenants |-> cps[t]]
    /\ proofs = [t \in Tenants |-> proofs[t]]
    /\ run = [r \in Runs |-> run[r]]
    /\ clock \in Nat
    /\ faults \in 0 .. MaxFaults

AnchorInv ==
    /\ TablesInv /\ WormInv /\ CopyInv /\ ProofInv /\ LateInv
    /\ \A r \in Runs : LocalsInv(run[r])

-----------------------------------------------------------------------------
(* The operators the model is built from.                                  *)

\* What a map holds after a write.
LEMMA WithCorrect ==
    ASSUME NEW map, NEW key, NEW value
    PROVE  /\ DOMAIN With(map, key, value) = DOMAIN map \cup {key}
           /\ With(map, key, value)[key] = value
           /\ \A x \in DOMAIN map \ {key} : With(map, key, value)[x] = map[x]
BY DEF With

\* INSERT ... ON CONFLICT DO NOTHING adds the key and no other.
LEMMA InsertOnceDomain ==
    ASSUME NEW map, NEW key, NEW value
    PROVE  DOMAIN InsertOnce(map, key, value) = DOMAIN map \cup {key}
BY WithCorrect DEF InsertOnce

\* The entries from .. to - 1, as the sealer made them.
LEMMA SliceCorrect ==
    ASSUME NEW t \in Tenants, log[t] \in Seq(Recs),
           NEW from \in Nat, NEW to \in Nat, to <= Len(log[t])
    PROVE  /\ Len(Slice(t, from, to)) = IF from < to THEN to - from ELSE 0
           /\ \A i \in 1 .. to - from : Slice(t, from, to)[i].seq = from + i - 1
<1> DEFINE es == Chain!Entries(t, log[t])
           S  == {es[n] : n \in 1 .. Len(log[t])}
<1>1. /\ es = [n \in 1 .. Len(log[t]) |-> es[n]] /\ Len(log[t]) \in Nat
      /\ \A n \in 1 .. Len(log[t]) : es[n].seq = n - 1
  BY DEF Chain!Entries
<1>2. Slice(t, from, to) = SubSeq(es, from + 1, to)
  BY DEF Slice
<1> HIDE DEF es
<1>3. \A i \in from + 1 .. to : es[i] \in S
  BY <1>1
<1> HIDE DEF S
<1>4. /\ Len(SubSeq(es, from + 1, to)) = IF from + 1 <= to THEN to - (from + 1) + 1 ELSE 0
      /\ \A i \in 1 .. to - (from + 1) + 1 : SubSeq(es, from + 1, to)[i] = es[from + 1 + i - 1]
  BY <1>3, SubSeqProperties
<1>5. ASSUME NEW i \in 1 .. to - from
      PROVE  Slice(t, from, to)[i].seq = from + i - 1
  <2>1. from + 1 + i - 1 = from + i /\ from + i \in 1 .. Len(log[t])
    BY <1>1
  <2>2. i \in 1 .. to - (from + 1) + 1
    OBVIOUS
  <2>3. Slice(t, from, to)[i] = es[from + i]
    BY <1>2, <1>4, <2>1, <2>2
  <2> QED
    BY <1>1, <2>1, <2>3
<1>6. Len(Slice(t, from, to)) = IF from < to THEN to - from ELSE 0
  BY <1>2, <1>4
<1> QED
  BY <1>5, <1>6

\* Equal elements make equal slices.
LEMMA SubSeqAgrees ==
    ASSUME NEW a, NEW b, NEW m \in Int, NEW n \in Int, \A i \in m .. n : a[i] = b[i]
    PROVE  SubSeq(a, m, n) = SubSeq(b, m, n)
<1> DEFINE S == {a[i] : i \in m .. n}
<1>1. \A i \in m .. n : a[i] \in S /\ b[i] \in S
  OBVIOUS
<1> HIDE DEF S
<1>2. /\ SubSeq(a, m, n) \in Seq(S) /\ SubSeq(b, m, n) \in Seq(S)
      /\ Len(SubSeq(a, m, n)) = IF m <= n THEN n - m + 1 ELSE 0
      /\ Len(SubSeq(b, m, n)) = IF m <= n THEN n - m + 1 ELSE 0
      /\ \A i \in 1 .. n - m + 1 : SubSeq(a, m, n)[i] = a[m + i - 1]
      /\ \A i \in 1 .. n - m + 1 : SubSeq(b, m, n)[i] = b[m + i - 1]
  BY <1>1, SubSeqProperties
<1>3. ASSUME NEW i \in 1 .. n - m + 1
      PROVE  SubSeq(a, m, n)[i] = SubSeq(b, m, n)[i]
  BY <1>2
<1> QED
  BY <1>2, <1>3, SeqEqual

\* The entries of a log do not change as it grows.
LEMMA EntriesStable ==
    ASSUME NEW t, NEW l \in Seq(Recs), NEW rec \in Recs, NEW n \in 1 .. Len(l)
    PROVE  Chain!Entries(t, Append(l, rec))[n] = Chain!Entries(t, l)[n]
<1> DEFINE longer == Append(l, rec)
<1>1. /\ Len(longer) = Len(l) + 1 /\ Len(l) \in Nat
      /\ \A i \in 1 .. Len(l) : longer[i] = l[i]
  OBVIOUS
<1> HIDE DEF longer
<1>2. ASSUME NEW k \in 0 .. Len(l)
      PROVE  Chain!ChainDigest(t, longer, k) = Chain!ChainDigest(t, l, k)
  <2>1. \A i \in 1 .. k : Chain!EntryLeaf(t, i - 1, longer[i]) = Chain!EntryLeaf(t, i - 1, l[i])
    BY <1>1
  <2> QED
    BY <2>1 DEF Chain!ChainDigest
<1>3. n - 1 \in 0 .. Len(l) /\ n \in 0 .. Len(l) /\ n \in 1 .. Len(longer)
  BY <1>1
<1>4. /\ Chain!ChainDigest(t, longer, n - 1) = Chain!ChainDigest(t, l, n - 1)
      /\ Chain!ChainDigest(t, longer, n) = Chain!ChainDigest(t, l, n)
  BY <1>2, <1>3
<1>5. Chain!Entries(t, longer)[n] = Chain!Entries(t, l)[n]
  BY <1>1, <1>3, <1>4 DEF Chain!Entries
<1> QED
  BY <1>5 DEF longer

\* Hence a window of the log stays what it is when another record is sealed.
LEMMA SliceStable ==
    ASSUME NEW t \in Tenants, log[t] \in Seq(Recs), NEW rec \in Recs,
           log'[t] = Append(log[t], rec),
           NEW from \in Nat, NEW to \in Nat, to <= Len(log[t])
    PROVE  Slice(t, from, to)' = Slice(t, from, to)
<1>1. \A n \in from + 1 .. to : n \in 1 .. Len(log[t])
  OBVIOUS
<1>2. \A n \in from + 1 .. to :
         Chain!Entries(t, Append(log[t], rec))[n] = Chain!Entries(t, log[t])[n]
  BY <1>1, EntriesStable
<1>3. SubSeq(Chain!Entries(t, Append(log[t], rec)), from + 1, to)
         = SubSeq(Chain!Entries(t, log[t]), from + 1, to)
  BY <1>2, SubSeqAgrees
<1> QED
  BY <1>3 DEF Slice

\* The checkpoint Build makes of a window of the log.
LEMMA BuildTruthful ==
    ASSUME NEW t \in Tenants, log[t] \in Seq(Recs),
           NEW from \in Nat, NEW to \in Nat, from < to, to <= Len(log[t]),
           NEW prev, NEW at, NEW cp, cp = Build(t, Slice(t, from, to), prev, at)
    PROVE  Truthful(t, cp) /\ cp.seqStart = from /\ cp.seqEnd = to - 1
<1>1. /\ Len(Slice(t, from, to)) = to - from
      /\ Slice(t, from, to)[1].seq = from
      /\ Slice(t, from, to)[to - from].seq = to - 1
  <2>1. 1 \in 1 .. to - from /\ to - from \in 1 .. to - from
    OBVIOUS
  <2>2. from + 1 - 1 = from /\ from + (to - from) - 1 = to - 1
    OBVIOUS
  <2> QED
    BY <2>1, <2>2, SliceCorrect
<1>2. cp.seqStart = from /\ cp.seqEnd = to - 1 /\ cp.prev = prev /\ cp.anchoredAt = at
  BY <1>1 DEF Build
<1>3. cp.seqEnd + 1 = to
  BY <1>2
<1>4. Len(log[t]) \in Nat
  OBVIOUS
<1> QED
  BY <1>2, <1>3, <1>4 DEF Truthful

-----------------------------------------------------------------------------
(* Tiling.                                                                 *)

\* The log up to the end of any WORM object's window is tiled.
LEMMA TiledThrough ==
    ASSUME WormInv, NEW t \in Tenants, NEW e \in DOMAIN worm[t]
    PROVE  e \in Nat /\ Tiled(t, e + 1)
<1>1. /\ worm[t][e].seqEnd = e /\ e \in Nat
      /\ worm[t][e].seqStart \in Nat /\ worm[t][e].seqStart <= e
      /\ Tiled(t, worm[t][e].seqStart)
  BY DEF WormInv, Writable, Truthful
<1>2. ASSUME NEW s \in 0 .. e
      PROVE  \E k \in DOMAIN worm[t] :
                k < e + 1 /\ worm[t][k].seqStart <= s /\ s <= worm[t][k].seqEnd
  <2>1. CASE worm[t][e].seqStart <= s
    BY <1>1, <2>1
  <2>2. CASE s < worm[t][e].seqStart
    <3>1. s \in 0 .. worm[t][e].seqStart - 1
      BY <1>1, <2>2
    <3>2. PICK k \in DOMAIN worm[t] : /\ k < worm[t][e].seqStart
                                     /\ worm[t][k].seqStart <= s /\ s <= worm[t][k].seqEnd
      BY <1>1, <3>1 DEF Tiled
    <3>3. k \in Nat
      BY DEF WormInv, Writable, Truthful
    <3> QED
      BY <1>1, <3>2, <3>3
  <2> QED
    BY <1>1, <2>1, <2>2
<1>3. 0 .. (e + 1) - 1 = 0 .. e
  BY <1>1
<1> QED
  BY <1>1, <1>2, <1>3 DEF Tiled

\* What PutObject does to the bucket.
LEMMA PutObjectEffect ==
    ASSUME TablesInv, NEW t \in Tenants, NEW cp,
           worm' = [worm EXCEPT ![t] = With(@, cp.seqEnd, cp)]
    PROVE  /\ \A u \in Tenants \ {t} : worm'[u] = worm[u]
           /\ DOMAIN worm'[t] = DOMAIN worm[t] \cup {cp.seqEnd}
           /\ worm'[t][cp.seqEnd] = cp
           /\ \A e \in DOMAIN worm[t] \ {cp.seqEnd} : worm'[t][e] = worm[t][e]
<1>1. worm'[t] = With(worm[t], cp.seqEnd, cp) /\ \A u \in Tenants \ {t} : worm'[u] = worm[u]
  BY DEF TablesInv
<1>2. /\ DOMAIN With(worm[t], cp.seqEnd, cp) = DOMAIN worm[t] \cup {cp.seqEnd}
      /\ With(worm[t], cp.seqEnd, cp)[cp.seqEnd] = cp
      /\ \A e \in DOMAIN worm[t] \ {cp.seqEnd} : With(worm[t], cp.seqEnd, cp)[e] = worm[t][e]
  BY DEF With
<1> QED
  BY <1>1, <1>2

\* PutObject of a writable checkpoint, in time or late, over an older version
\* or not, leaves everything tiled that was.
LEMMA PutObjectKeepsTiled ==
    ASSUME TablesInv, WormInv, NEW t \in Tenants, NEW cp, Writable(t, cp),
           worm' = [worm EXCEPT ![t] = With(@, cp.seqEnd, cp)],
           NEW u \in Tenants, NEW n \in Nat, Tiled(u, n)
    PROVE  Tiled(u, n)'
<1>1. \A v \in Tenants \ {t} : worm'[v] = worm[v]
  BY PutObjectEffect
<1>2. /\ DOMAIN worm'[t] = DOMAIN worm[t] \cup {cp.seqEnd}
      /\ worm'[t][cp.seqEnd] = cp
      /\ \A e \in DOMAIN worm[t] \ {cp.seqEnd} : worm'[t][e] = worm[t][e]
  BY PutObjectEffect
<1>3. /\ cp.seqStart \in Nat /\ cp.seqEnd \in Nat /\ cp.seqStart <= cp.seqEnd
      /\ Tiled(t, cp.seqStart)
  BY DEF Writable, Truthful
<1>4. \A e \in DOMAIN worm[t] : e \in Nat /\ worm[t][e].seqEnd = e
  BY DEF WormInv, Writable, Truthful
<1>5. ASSUME u = t, NEW s \in 0 .. n - 1
      PROVE  \E e \in DOMAIN worm'[t] :
                e < n /\ worm'[t][e].seqStart <= s /\ s <= worm'[t][e].seqEnd
  <2>1. PICK e \in DOMAIN worm[t] :
           e < n /\ worm[t][e].seqStart <= s /\ s <= worm[t][e].seqEnd
    BY <1>5 DEF Tiled
  <2>2. CASE e # cp.seqEnd
    BY <1>2, <2>1, <2>2
  <2>3. CASE e = cp.seqEnd /\ cp.seqStart <= s
    BY <1>2, <1>4, <2>1, <2>3
  <2>4. CASE e = cp.seqEnd /\ s < cp.seqStart
    <3>1. s \in 0 .. cp.seqStart - 1
      BY <1>3, <2>4
    <3>2. PICK k \in DOMAIN worm[t] :
             k < cp.seqStart /\ worm[t][k].seqStart <= s /\ s <= worm[t][k].seqEnd
      BY <1>3, <3>1 DEF Tiled
    <3>3. k # cp.seqEnd /\ k < n
      BY <1>3, <1>4, <2>1, <2>4, <3>2
    <3> QED
      BY <1>2, <3>2, <3>3
  <2> QED
    BY <1>3, <2>2, <2>3, <2>4
<1>6. CASE u = t
  BY <1>5, <1>6 DEF Tiled
<1>7. CASE u # t
  BY <1>1, <1>7 DEF Tiled
<1> QED
  BY <1>6, <1>7

\* PutObject preserves what is said about WORM.
LEMMA PutObjectKeepsWorm ==
    ASSUME TablesInv, WormInv, NEW t \in Tenants, NEW cp, Writable(t, cp), UNCHANGED log,
           worm' = [worm EXCEPT ![t] = With(@, cp.seqEnd, cp)]
    PROVE  /\ WormInv'
           /\ worm' = [u \in Tenants |-> worm'[u]]
           /\ cp.seqEnd \in DOMAIN worm'[t]
           /\ \A u \in Tenants : DOMAIN worm[u] \subseteq DOMAIN worm'[u]
<1>1. \A v \in Tenants \ {t} : worm'[v] = worm[v]
  BY PutObjectEffect
<1>2. /\ DOMAIN worm'[t] = DOMAIN worm[t] \cup {cp.seqEnd}
      /\ worm'[t][cp.seqEnd] = cp
      /\ \A e \in DOMAIN worm[t] \ {cp.seqEnd} : worm'[t][e] = worm[t][e]
  BY PutObjectEffect
<1>3. ASSUME NEW u \in Tenants, NEW e \in DOMAIN worm'[u]
      PROVE  /\ worm'[u][e].seqEnd = e
             /\ Writable(u, worm'[u][e])
  <2>1. CASE u = t /\ e = cp.seqEnd
    BY <1>2, <2>1
  <2>2. CASE u # t \/ e # cp.seqEnd
    BY <1>1, <1>2, <1>3, <2>2 DEF WormInv
  <2> QED
    BY <2>1, <2>2
<1>4. ASSUME NEW u \in Tenants, NEW e \in DOMAIN worm'[u]
      PROVE  Writable(u, worm[u][e])'
  <2>1. Truthful(u, worm'[u][e]) /\ Tiled(u, worm'[u][e].seqStart)
    BY <1>3 DEF Writable
  <2>2. worm'[u][e].seqStart \in Nat
    BY <2>1 DEF Truthful
  <2>3. ASSUME NEW n \in Nat, Tiled(u, n) PROVE Tiled(u, n)'
    BY <2>3, PutObjectKeepsTiled
  <2>4. Truthful(u, worm[u][e])'
    BY <2>1 DEF Truthful, Slice
  <2>5. PICK n \in Nat : n = worm'[u][e].seqStart
    BY <2>2
  <2>6. Tiled(u, n)'
    BY <2>1, <2>3, <2>5
  <2>7. Tiled(u, worm[u][e].seqStart)'
    BY <2>5, <2>6 DEF Tiled
  <2> QED
    BY <2>4, <2>7 DEF Writable
<1>5. WormInv'
  BY <1>3, <1>4 DEF WormInv
<1>6. worm' = [u \in Tenants |-> worm'[u]]
  BY DEF TablesInv
<1> QED
  BY <1>1, <1>2, <1>5, <1>6

-----------------------------------------------------------------------------
(* What the other runs, and late requests, hold stays true.                *)

\* A run that does not move keeps its invariant when WORM only grows.
LEMMA OthersKeepLocals ==
    ASSUME TablesInv, WormInv, NEW t \in Tenants, NEW cp, Writable(t, cp), UNCHANGED log,
           worm' = [worm EXCEPT ![t] = With(@, cp.seqEnd, cp)],
           NEW r \in Runs, LocalsInv(run[r]), run'[r] = run[r]
    PROVE  LocalsInv(run[r])'
<1>1. \A u \in Tenants : DOMAIN worm[u] \subseteq DOMAIN worm'[u]
  BY PutObjectKeepsWorm
<1>2. ASSUME run[r].pc \in Reading \cup Writing
      PROVE  run[r].tenant \in Tenants /\ Tiled(run[r].tenant, run[r].next)'
  <2>1. /\ run[r].tenant \in Tenants /\ run[r].next \in Nat
        /\ Tiled(run[r].tenant, run[r].next)
    BY <1>2 DEF LocalsInv, Shaped
  <2>2. PICK u \in Tenants, n \in Nat : u = run[r].tenant /\ n = run[r].next
    BY <2>1
  <2>3. Tiled(u, n)'
    BY <2>1, <2>2, PutObjectKeepsTiled
  <2> QED
    BY <2>1, <2>2, <2>3 DEF Tiled
<1>3. ASSUME run[r].pc \in Writing PROVE Truthful(run[r].tenant, run[r].cp)'
  BY <1>3 DEF LocalsInv, Truthful, Slice
<1>4. ASSUME run[r].pc \in {"record", "stamp"}
      PROVE  run[r].cp.seqEnd \in DOMAIN worm'[run[r].tenant]
  BY <1>1, <1>2, <1>4 DEF LocalsInv, Writing
<1> QED
  BY <1>2, <1>3, <1>4 DEF LocalsInv, Shaped, Writing, Reading

\* So do the requests whose caller gave up.
LEMMA LateKept ==
    ASSUME TablesInv, WormInv, LateInv, NEW t \in Tenants, NEW cp, Writable(t, cp), UNCHANGED log,
           worm' = [worm EXCEPT ![t] = With(@, cp.seqEnd, cp)], late' \subseteq late
    PROVE  LateInv'
<1> SUFFICES ASSUME NEW put \in late'
             PROVE  put.tenant \in Tenants /\ Writable(put.tenant, put.cp)'
  BY DEF LateInv
<1>1. /\ put.tenant \in Tenants /\ Truthful(put.tenant, put.cp)
      /\ put.cp.seqStart \in Nat /\ Tiled(put.tenant, put.cp.seqStart)
  BY DEF LateInv, Writable, Truthful
<1>2. Tiled(put.tenant, put.cp.seqStart)'
  BY <1>1, PutObjectKeepsTiled
<1>3. Truthful(put.tenant, put.cp)'
  BY <1>1 DEF Truthful, Slice
<1> QED
  BY <1>1, <1>2, <1>3 DEF Writable

\* A step that moves one run and leaves the log, WORM and the late requests
\* alone.  It is enough to look at that run and the tables it writes.
LEMMA RunFrame ==
    ASSUME AnchorInv, UNCHANGED <<log, worm, late>>, clock' \in Nat, faults' \in 0 .. MaxFaults,
           cps' = [t \in Tenants |-> cps'[t]], proofs' = [t \in Tenants |-> proofs'[t]],
           CopyInv', ProofInv',
           NEW r \in Runs, NEW x, run' = [run EXCEPT ![r] = x], LocalsInv(x)
    PROVE  AnchorInv'
<1>1. run'[r] = x /\ \A q \in Runs \ {r} : run'[q] = run[q]
  BY DEF AnchorInv, TablesInv
<1>2. run' = [q \in Runs |-> run'[q]]
  BY DEF AnchorInv, TablesInv
<1>3. TablesInv'
  BY <1>2 DEF AnchorInv, TablesInv
<1>4. WormInv' /\ LateInv'
  BY DEF AnchorInv, WormInv, LateInv, Writable, Truthful, Tiled, Slice
<1>5. ASSUME NEW q \in Runs PROVE LocalsInv(run[q])'
  <2>1. LocalsInv(run'[q])
    BY <1>1 DEF AnchorInv
  <2> QED
    BY <2>1 DEF LocalsInv, Shaped, Truthful, Tiled, Slice
<1> QED
  BY <1>3, <1>4, <1>5 DEF AnchorInv

\* The same for a step that writes no table either.
LEMMA LocalFrame ==
    ASSUME AnchorInv, UNCHANGED <<log, worm, cps, proofs, late>>,
           clock' \in Nat, faults' \in 0 .. MaxFaults,
           NEW r \in Runs, NEW x, run' = [run EXCEPT ![r] = x], LocalsInv(x)
    PROVE  AnchorInv'
<1>1. /\ cps' = [t \in Tenants |-> cps'[t]] /\ proofs' = [t \in Tenants |-> proofs'[t]]
      /\ CopyInv' /\ ProofInv'
  BY DEF AnchorInv, TablesInv, CopyInv, ProofInv
<1> QED
  BY <1>1, RunFrame

-----------------------------------------------------------------------------
(* One lemma per action.                                                   *)

\* A run that is over, or between two tenants, holds nothing.
LEMMA RestingLocals ==
    /\ LocalsInv(NotRunning)
    /\ \A todo \in SUBSET Tenants : LocalsInv(BetweenTenants(todo))
<1>1. Shaped(NotRunning) /\ \A todo \in SUBSET Tenants : Shaped(BetweenTenants(todo))
  <2>1. <<>> \in Seq(STRING)
    OBVIOUS
  <2>2. Shaped(NotRunning)
    BY <2>1 DEF Shaped, NotRunning
  <2>3. ASSUME NEW todo \in SUBSET Tenants PROVE Shaped(BetweenTenants(todo))
    BY <2>2 DEF Shaped, BetweenTenants
  <2> QED
    BY <2>2, <2>3
<1>2. /\ NotRunning.pc = "idle" /\ NotRunning.todo = {}
      /\ NotRunning.tenant = None /\ NotRunning.next = 0 /\ NotRunning.upto = 0
      /\ NotRunning.left = <<>>
  BY DEF NotRunning
<1>3. ASSUME NEW todo \in SUBSET Tenants
      PROVE  /\ BetweenTenants(todo).pc = "tenant" /\ BetweenTenants(todo).todo = todo
             /\ BetweenTenants(todo).tenant = None /\ BetweenTenants(todo).next = 0
             /\ BetweenTenants(todo).upto = 0 /\ BetweenTenants(todo).left = <<>>
  BY DEF NotRunning, BetweenTenants
<1> QED
  BY <1>1, <1>2, <1>3 DEF LocalsInv, Shaped, Reading, Writing

\* Empty stores and idle runs satisfy the invariant.
LEMMA AnchorInit == Init => AnchorInv
<1> SUFFICES ASSUME Init PROVE AnchorInv
  OBVIOUS
<1>1. \A t \in Tenants : DOMAIN worm[t] = {} /\ DOMAIN cps[t] = {} /\ DOMAIN proofs[t] = {}
  BY DEF Init, EmptyMap
<1>2. TablesInv
  BY AnchorerConstants DEF Init, TablesInv
<1>3. WormInv /\ CopyInv /\ ProofInv /\ LateInv
  BY <1>1 DEF WormInv, CopyInv, ProofInv, LateInv, HasLast, Init
<1>4. \A r \in Runs : LocalsInv(run[r])
  BY RestingLocals DEF Init
<1> QED
  BY <1>2, <1>3, <1>4 DEF AnchorInv

\* The start and the end of AnchorAll.
LEMMA AnchorAllStep ==
    ASSUME AnchorInv, NEW r \in Runs, AnchorAll(r) \/ AnchorAllDone(r)
    PROVE  AnchorInv'
<1>1. UNCHANGED <<log, worm, cps, proofs, late>> /\ clock' \in Nat /\ faults' \in 0 .. MaxFaults
  BY DEF AnchorInv, TablesInv, AnchorAll, AnchorAllDone, stores
<1>2. CASE AnchorAll(r)
  <2>1. {t \in Tenants : log[t] # <<>>} \in SUBSET Tenants
    OBVIOUS
  <2> QED
    BY <1>1, <1>2, <2>1, RestingLocals, LocalFrame DEF AnchorAll
<1>3. CASE AnchorAllDone(r)
  BY <1>1, <1>3, RestingLocals, LocalFrame DEF AnchorAllDone
<1> QED
  BY <1>2, <1>3

\* Where the working copy says to resume, everything before is tiled.
LEMMA LastCheckpointStep ==
    ASSUME AnchorInv, NEW r \in Runs, NEW t \in Tenants, LastCheckpoint(r, t)
    PROVE  AnchorInv'
<1> DEFINE ends == DOMAIN cps[t]
           last == Max(ends)
           next == IF ends = {} THEN 0 ELSE last + 1
           prev == IF ends = {} THEN <<>> ELSE cps[t][last].id
           x    == [run[r] EXCEPT !.pc = "entries", !.todo = @ \ {t}, !.tenant = t,
                                  !.next = next, !.prev = prev]
<1>1. LocalsInv(run[r])
  BY DEF AnchorInv
<1>2. next \in Nat /\ Tiled(t, next)
  <2>1. CASE ends = {}
    BY <2>1 DEF Tiled
  <2>2. CASE ends # {}
    <3>1. PICK end \in ends : \A e \in ends : end >= e
      BY <2>2 DEF AnchorInv, CopyInv, HasLast
    <3>2. last \in ends
      BY <3>1, MaxIsLast
    <3>3. last \in DOMAIN worm[t]
      BY <3>2 DEF AnchorInv, CopyInv
    <3>4. last \in Nat /\ Tiled(t, last + 1)
      BY <3>3, TiledThrough DEF AnchorInv
    <3> QED
      BY <2>2, <3>4
  <2> QED
    BY <2>1, <2>2
<1>3. run' = [run EXCEPT ![r] = x]
  BY DEF LastCheckpoint
<1> HIDE DEF next, prev
<1>4. /\ Shaped(x) /\ x.pc = "entries" /\ x.tenant = t /\ x.next = next
  <2>1. Shaped(run[r])
    BY <1>1 DEF LocalsInv
  <2> QED
    BY <1>2, <2>1 DEF Shaped, Reading, Writing
<1> HIDE DEF x
<1>5. LocalsInv(x)
  BY <1>2, <1>4 DEF LocalsInv, Reading, Writing
<1>6. UNCHANGED <<log, worm, cps, proofs, late>> /\ clock' \in Nat /\ faults' \in 0 .. MaxFaults
  BY DEF AnchorInv, TablesInv, LastCheckpoint, stores
<1> QED
  BY <1>3, <1>5, <1>6, LocalFrame

\* The read of the pending entries.
LEMMA EntriesAscStep ==
    ASSUME AnchorInv, NEW r \in Runs, EntriesAsc(r)
    PROVE  AnchorInv'
<1> DEFINE end  == Len(log[run[r].tenant])
           upto == Min({end, run[r].next + QueryLimit})
           x    == [run[r] EXCEPT !.pc = "build", !.upto = upto]
<1>1. LocalsInv(run[r]) /\ run[r].pc = "entries" /\ run[r].tenant \in Tenants
  BY DEF AnchorInv, EntriesAsc, LocalsInv, Reading
<1>2. end \in Nat /\ run[r].next \in Nat /\ QueryLimit \in Nat
  BY <1>1, AnchorerConstants DEF AnchorInv, TablesInv, LocalsInv, Shaped
<1> HIDE DEF end
<1>3. upto \in Nat /\ upto <= end
  BY <1>2, MinOfTwo
<1>4. UNCHANGED <<log, worm, cps, proofs, late>> /\ clock' \in Nat /\ faults' \in 0 .. MaxFaults
  BY DEF AnchorInv, TablesInv, EntriesAsc, stores
<1>5. run' = [run EXCEPT ![r] = IF upto <= run[r].next THEN BetweenTenants(run[r].todo) ELSE x]
  BY DEF EntriesAsc, end
<1> HIDE DEF upto
<1>6. CASE upto <= run[r].next
  <2>1. LocalsInv(BetweenTenants(run[r].todo))
    BY <1>1, RestingLocals DEF LocalsInv, Shaped
  <2> QED
    BY <1>4, <1>5, <1>6, <2>1, LocalFrame
<1>7. CASE ~(upto <= run[r].next)
  <2>1. /\ Shaped(x) /\ x.pc = "build" /\ x.tenant = run[r].tenant
        /\ x.next = run[r].next /\ x.upto = upto
    <3>1. Shaped(run[r])
      BY <1>1 DEF LocalsInv
    <3> QED
      BY <1>3, <3>1 DEF Shaped, Reading, Writing
  <2>2. run' = [run EXCEPT ![r] = x]
    BY <1>5, <1>7
  <2> HIDE DEF x
  <2>3. LocalsInv(x)
    BY <1>1, <1>2, <1>3, <1>7, <2>1 DEF LocalsInv, Reading, Writing, end
  <2> QED
    BY <1>4, <2>2, <2>3, LocalFrame
<1> QED
  BY <1>6, <1>7

\* The window's checkpoint commits to the slice of the log that was read.
LEMMA BuildWindowStep ==
    ASSUME AnchorInv, NEW r \in Runs, BuildWindow(r)
    PROVE  AnchorInv'
<1> DEFINE t   == run[r].tenant
           end == Min({run[r].next + WindowMax, run[r].upto})
           cp  == Build(t, Slice(t, run[r].next, end), run[r].prev, clock)
           x   == [run[r] EXCEPT !.cp = cp, !.pc = "get"]
<1>1. /\ LocalsInv(run[r]) /\ run[r].pc = "build" /\ t \in Tenants
      /\ run[r].next \in Nat /\ run[r].upto \in Nat /\ Tiled(t, run[r].next)
      /\ run[r].next < run[r].upto /\ run[r].upto <= Len(log[t])
  BY DEF AnchorInv, BuildWindow, LocalsInv, Shaped, Reading
<1>2. log[t] \in Seq(Recs) /\ WindowMax \in Nat \ {0}
  BY <1>1, AnchorerConstants DEF AnchorInv, TablesInv
<1>3. end \in Nat /\ run[r].next < end /\ end <= run[r].upto /\ end <= Len(log[t])
  BY <1>1, <1>2, MinOfTwo
<1> HIDE DEF end
<1>4. Truthful(t, cp) /\ cp.seqStart = run[r].next
  BY <1>1, <1>2, <1>3, BuildTruthful
<1>5. run' = [run EXCEPT ![r] = x]
  BY DEF BuildWindow, end
<1> HIDE DEF cp
<1>6. /\ Shaped(x) /\ x.pc = "get" /\ x.cp = cp
      /\ x.tenant = t /\ x.next = run[r].next /\ x.upto = run[r].upto
  <2>1. Shaped(run[r])
    BY <1>1 DEF LocalsInv
  <2> QED
    BY <2>1 DEF Shaped, Writing
<1> HIDE DEF x
<1>7. LocalsInv(x)
  BY <1>1, <1>4, <1>6 DEF LocalsInv, Reading, Writing
<1>8. UNCHANGED <<log, worm, cps, proofs, late>> /\ clock' \in Nat /\ faults' \in 0 .. MaxFaults
  BY DEF AnchorInv, TablesInv, BuildWindow, stores
<1> QED
  BY <1>5, <1>7, <1>8, LocalFrame

\* Put finds the key free, or taken: then the log is tiled up to it already.
LEMMA WormGetStep ==
    ASSUME AnchorInv, NEW r \in Runs, WormGet(r)
    PROVE  AnchorInv'
<1> DEFINE taken == run[r].cp.seqEnd \in DOMAIN worm[run[r].tenant]
           pc    == IF taken THEN "record" ELSE "put"
           x     == [run[r] EXCEPT !.pc = pc]
<1>1. LocalsInv(run[r]) /\ run[r].pc = "get"
  BY DEF AnchorInv, WormGet
<1>2. run' = [run EXCEPT ![r] = x]
  BY DEF WormGet
<1>3. pc \in {"record", "put"} /\ (pc = "record" => taken)
  OBVIOUS
<1> HIDE DEF pc
<1>4. /\ Shaped(x) /\ x.pc = pc /\ x.cp = run[r].cp
      /\ x.tenant = run[r].tenant /\ x.next = run[r].next /\ x.upto = run[r].upto
  <2>1. Shaped(run[r])
    BY <1>1 DEF LocalsInv
  <2> QED
    BY <1>3, <2>1 DEF Shaped, Writing
<1> HIDE DEF x
<1>5. LocalsInv(x)
  BY <1>1, <1>3, <1>4 DEF LocalsInv, Reading, Writing
<1>6. UNCHANGED <<log, worm, cps, proofs, late>> /\ clock' \in Nat /\ faults' \in 0 .. MaxFaults
  BY DEF AnchorInv, TablesInv, WormGet, stores
<1> QED
  BY <1>2, <1>5, <1>6, LocalFrame

\* PutObject.
LEMMA WormPutStep ==
    ASSUME AnchorInv, NEW r \in Runs, WormPut(r)
    PROVE  AnchorInv'
<1> DEFINE t  == run[r].tenant
           cp == run[r].cp
           x  == [run[r] EXCEPT !.pc = "record"]
<1>1. LocalsInv(run[r]) /\ run[r].pc = "put" /\ t \in Tenants
  BY DEF AnchorInv, WormPut, LocalsInv, Shaped, Writing
<1>2. Writable(t, cp)
  BY <1>1 DEF LocalsInv, Writing, Writable
<1>3. /\ worm' = [worm EXCEPT ![t] = With(@, cp.seqEnd, cp)]
      /\ run' = [run EXCEPT ![r] = x]
      /\ UNCHANGED <<log, cps, proofs, clock, late, faults>>
  BY DEF WormPut
<1>4. TablesInv /\ WormInv /\ LateInv
  BY DEF AnchorInv
<1>5. /\ WormInv' /\ worm' = [u \in Tenants |-> worm'[u]]
      /\ cp.seqEnd \in DOMAIN worm'[t]
      /\ \A u \in Tenants : DOMAIN worm[u] \subseteq DOMAIN worm'[u]
  BY <1>1, <1>2, <1>3, <1>4, PutObjectKeepsWorm
<1>6. LateInv'
  BY <1>1, <1>2, <1>3, <1>4, LateKept
<1>7. /\ run'[r] = x /\ run' = [q \in Runs |-> run'[q]]
      /\ \A q \in Runs \ {r} : run'[q] = run[q]
  BY <1>3, <1>4 DEF TablesInv
<1>8. TablesInv'
  BY <1>3, <1>4, <1>5, <1>7 DEF TablesInv
<1>9. CopyInv' /\ ProofInv'
  <2>1. CopyInv'
    BY <1>3, <1>5 DEF AnchorInv, CopyInv
  <2>2. ProofInv'
    BY <1>3, <1>5 DEF AnchorInv, ProofInv
  <2> QED
    BY <2>1, <2>2
<1>10. ASSUME NEW q \in Runs \ {r} PROVE LocalsInv(run[q])'
  <2>1. LocalsInv(run[q]) /\ run'[q] = run[q]
    BY <1>7 DEF AnchorInv
  <2> QED
    BY <1>1, <1>2, <1>3, <1>4, <2>1, OthersKeepLocals
<1>11. LocalsInv(run[r])'
  <2>1. /\ Shaped(x) /\ x.pc = "record" /\ x.cp = cp
        /\ x.tenant = t /\ x.next = run[r].next /\ x.upto = run[r].upto
    <3>1. Shaped(run[r])
      BY <1>1 DEF LocalsInv
    <3> QED
      BY <3>1 DEF Shaped, Writing
  <2>2. /\ run[r].next \in Nat /\ Tiled(t, run[r].next) /\ cp.seqStart = run[r].next
        /\ Truthful(t, cp) /\ run[r].upto <= Len(log[t])
    BY <1>1 DEF LocalsInv, Shaped, Writing
  <2>3. Tiled(t, run[r].next)'
    <3>1. PICK n \in Nat : n = run[r].next /\ Tiled(t, n)
      BY <2>2
    <3>2. PICK u \in Tenants : u = t
      BY <1>1
    <3>3. Tiled(u, n)'
      BY <1>1, <1>2, <1>3, <1>4, <3>1, <3>2, PutObjectKeepsTiled
    <3> QED
      BY <1>7, <2>1, <3>1, <3>2, <3>3 DEF Tiled
  <2>4. Truthful(t, cp)'
    BY <1>3, <1>7, <2>1, <2>2 DEF Truthful, Slice
  <2>5. Shaped(run[r])'
    BY <1>7, <2>1 DEF Shaped
  <2> QED
    BY <1>1, <1>3, <1>5, <1>7, <2>1, <2>2, <2>3, <2>4, <2>5 DEF LocalsInv, Reading, Writing
<1> QED
  BY <1>5, <1>6, <1>8, <1>9, <1>10, <1>11 DEF AnchorInv

\* The working copy gets a key that WORM has.
LEMMA PutCheckpointStep ==
    ASSUME AnchorInv, NEW r \in Runs, PutCheckpoint(r)
    PROVE  AnchorInv'
<1> DEFINE t   == run[r].tenant
           end == run[r].cp.seqEnd
           x   == [run[r] EXCEPT !.pc = "stamp", !.left = Notaries]
<1>1. LocalsInv(run[r]) /\ run[r].pc = "record" /\ t \in Tenants /\ end \in DOMAIN worm[t]
  BY DEF AnchorInv, PutCheckpoint, LocalsInv, Shaped, Writing
<1>2. /\ cps' = [cps EXCEPT ![t] = InsertOnce(@, end, run[r].cp)]
      /\ run' = [run EXCEPT ![r] = x]
      /\ UNCHANGED <<log, worm, proofs, clock, late, faults>>
  BY DEF PutCheckpoint
<1>3. /\ DOMAIN cps'[t] = DOMAIN cps[t] \cup {end}
      /\ \A u \in Tenants \ {t} : cps'[u] = cps[u]
      /\ cps' = [u \in Tenants |-> cps'[u]]
  <2>1. DOMAIN InsertOnce(cps[t], end, run[r].cp) = DOMAIN cps[t] \cup {end}
    BY InsertOnceDomain
  <2> QED
    BY <1>1, <1>2, <2>1 DEF AnchorInv, TablesInv
<1>4. HasLast(DOMAIN cps[t] \cup {end})
  <2>1. DOMAIN cps[t] \cup {end} \subseteq Nat
    <3>1. ASSUME NEW e \in DOMAIN cps[t] \cup {end} PROVE e \in Nat
      BY <1>1, TiledThrough DEF AnchorInv, CopyInv
    <3> QED
      BY <3>1
  <2>2. CASE DOMAIN cps[t] = {}
    BY <2>1, <2>2 DEF HasLast
  <2>3. CASE DOMAIN cps[t] # {}
    <3>1. PICK last \in DOMAIN cps[t] : \A e \in DOMAIN cps[t] : last >= e
      BY <1>1, <2>3 DEF AnchorInv, CopyInv, HasLast
    <3>2. CASE last >= end
      BY <3>1, <3>2 DEF HasLast
    <3>3. CASE ~(last >= end)
      <4>1. \A e \in DOMAIN cps[t] \cup {end} : end >= e
        BY <2>1, <3>1, <3>3
      <4> QED
        BY <4>1 DEF HasLast
    <3> QED
      BY <3>2, <3>3
  <2> QED
    BY <2>2, <2>3
<1>5. CopyInv'
  <2>1. ASSUME NEW u \in Tenants
        PROVE  DOMAIN cps'[u] \subseteq DOMAIN worm'[u] /\ HasLast(DOMAIN cps'[u])
    BY <1>1, <1>2, <1>3, <1>4 DEF AnchorInv, CopyInv
  <2> QED
    BY <2>1 DEF CopyInv, HasLast
<1>6. ProofInv'
  BY <1>2, <1>3 DEF AnchorInv, ProofInv
<1>7. LocalsInv(x)
  <2>1. /\ Shaped(x) /\ x.pc = "stamp" /\ x.cp = run[r].cp
        /\ x.tenant = t /\ x.next = run[r].next /\ x.upto = run[r].upto
    <3>1. Shaped(run[r])
      BY <1>1 DEF LocalsInv
    <3> QED
      BY <3>1, AnchorerConstants DEF Shaped, Writing
  <2> HIDE DEF x
  <2> QED
    BY <1>1, <2>1 DEF LocalsInv, Reading, Writing
<1>8. clock' \in Nat /\ faults' \in 0 .. MaxFaults /\ proofs' = [u \in Tenants |-> proofs'[u]]
  BY <1>2 DEF AnchorInv, TablesInv
<1> HIDE DEF x
<1> QED
  BY <1>2, <1>3, <1>5, <1>6, <1>7, <1>8, RunFrame

\* A proof is kept under a key that WORM has.
LEMMA StampStep ==
    ASSUME AnchorInv, NEW r \in Runs, StampAndPutProof(r)
    PROVE  AnchorInv'
<1> DEFINE t      == run[r].tenant
           notary == Head(run[r].left)
           key    == <<run[r].cp.seqEnd, notary>>
           x      == [run[r] EXCEPT !.left = Tail(@)]
<1>1. /\ LocalsInv(run[r]) /\ run[r].pc = "stamp" /\ t \in Tenants
      /\ run[r].left \in Seq(STRING) /\ run[r].left # <<>>
      /\ run[r].cp.seqEnd \in DOMAIN worm[t]
  BY DEF AnchorInv, StampAndPutProof, LocalsInv, Shaped, Writing
<1>2. notary \in STRING /\ Tail(run[r].left) \in Seq(STRING)
  BY <1>1, HeadTailProperties
<1>3. /\ proofs' = [proofs EXCEPT ![t] = InsertOnce(@, key, Stamp(notary, run[r].cp.id))]
      /\ run' = [run EXCEPT ![r] = x]
      /\ UNCHANGED <<log, worm, cps, clock, late, faults>>
  BY DEF StampAndPutProof
<1> HIDE DEF notary
<1>4. key = <<key[1], key[2]>> /\ key[1] \in DOMAIN worm[t] /\ key[2] \in STRING
  BY <1>1, <1>2
<1> HIDE DEF key
<1>5. /\ DOMAIN proofs'[t] = DOMAIN proofs[t] \cup {key}
      /\ \A u \in Tenants \ {t} : proofs'[u] = proofs[u]
      /\ proofs' = [u \in Tenants |-> proofs'[u]]
  <2>1. DOMAIN InsertOnce(proofs[t], key, Stamp(notary, run[r].cp.id)) = DOMAIN proofs[t] \cup {key}
    BY InsertOnceDomain
  <2> QED
    BY <1>1, <1>3, <2>1 DEF AnchorInv, TablesInv
<1>6. ProofInv'
  BY <1>3, <1>4, <1>5 DEF AnchorInv, ProofInv
<1>7. CopyInv' /\ cps' = [u \in Tenants |-> cps'[u]] /\ clock' \in Nat /\ faults' \in 0 .. MaxFaults
  BY <1>3 DEF AnchorInv, TablesInv, CopyInv
<1>8. LocalsInv(x)
  <2>1. /\ Shaped(x) /\ x.pc = "stamp" /\ x.cp = run[r].cp
        /\ x.tenant = t /\ x.next = run[r].next /\ x.upto = run[r].upto
    <3>1. Shaped(run[r])
      BY <1>1 DEF LocalsInv
    <3> QED
      BY <1>1, <1>2, <3>1 DEF Shaped, Writing
  <2> HIDE DEF x
  <2> QED
    BY <1>1, <2>1 DEF LocalsInv, Reading, Writing
<1> HIDE DEF x
<1> QED
  BY <1>3, <1>5, <1>6, <1>7, <1>8, RunFrame

\* The next window starts where this one ends, which is tiled by now.
LEMMA WindowDoneStep ==
    ASSUME AnchorInv, NEW r \in Runs, WindowDone(r)
    PROVE  AnchorInv'
<1> DEFINE t    == run[r].tenant
           next == run[r].cp.seqEnd + 1
           x    == [run[r] EXCEPT !.pc = "build", !.prev = run[r].cp.id,
                                  !.next = next, !.cp = None]
<1>1. /\ LocalsInv(run[r]) /\ run[r].pc = "stamp" /\ t \in Tenants
      /\ run[r].todo \in SUBSET Tenants
      /\ run[r].cp.seqEnd \in DOMAIN worm[t] /\ run[r].upto <= Len(log[t])
  BY DEF AnchorInv, WindowDone, LocalsInv, Shaped, Writing
<1>2. next \in Nat /\ Tiled(t, next)
  BY <1>1, TiledThrough DEF AnchorInv
<1> HIDE DEF next
<1>3. /\ UNCHANGED <<log, worm, cps, proofs, late>>
      /\ clock' \in Nat /\ faults' \in 0 .. MaxFaults
  BY DEF AnchorInv, TablesInv, WindowDone, stores
<1>4. run' = [run EXCEPT ![r] = IF next < run[r].upto THEN x ELSE BetweenTenants(run[r].todo)]
  BY DEF WindowDone, next
<1>5. CASE ~(next < run[r].upto)
  <2>1. LocalsInv(BetweenTenants(run[r].todo))
    BY <1>1, RestingLocals
  <2> QED
    BY <1>3, <1>4, <1>5, <2>1, LocalFrame
<1>6. CASE next < run[r].upto
  <2>1. /\ Shaped(x) /\ x.pc = "build" /\ x.tenant = t
        /\ x.next = next /\ x.upto = run[r].upto
    <3>1. Shaped(run[r])
      BY <1>1 DEF LocalsInv
    <3> QED
      BY <1>2, <3>1 DEF Shaped, Reading
  <2>2. run' = [run EXCEPT ![r] = x]
    BY <1>4, <1>6
  <2> HIDE DEF x
  <2>3. LocalsInv(x)
    BY <1>1, <1>2, <1>6, <2>1 DEF LocalsInv, Reading, Writing
  <2> QED
    BY <1>3, <2>2, <2>3, LocalFrame
<1> QED
  BY <1>5, <1>6

\* A run ends; the PutObject it may leave behind is a writable one.
LEMMA AbortStep ==
    ASSUME AnchorInv, NEW r \in Runs, Abort(r)
    PROVE  AnchorInv'
<1>1. /\ run' = [run EXCEPT ![r] = NotRunning] /\ faults' = faults + 1 /\ faults < MaxFaults
      /\ UNCHANGED <<log, worm, cps, proofs, clock>>
  BY DEF Abort, stores
<1>2. TablesInv /\ MaxFaults \in Nat
  BY AnchorerConstants DEF AnchorInv
<1>3. /\ run'[r] = NotRunning /\ run' = [q \in Runs |-> run'[q]]
      /\ \A q \in Runs \ {r} : run'[q] = run[q]
  BY <1>1, <1>2 DEF TablesInv
<1>4. TablesInv'
  BY <1>1, <1>2, <1>3 DEF TablesInv
<1>5. WormInv' /\ CopyInv' /\ ProofInv'
  BY <1>1 DEF AnchorInv, WormInv, CopyInv, ProofInv, Writable, Truthful, Tiled, Slice
<1>6. ASSUME NEW put \in late'
      PROVE  put.tenant \in Tenants /\ Writable(put.tenant, put.cp)
  <2>1. CASE put \in late
    BY <2>1 DEF AnchorInv, LateInv
  <2>2. CASE put = [tenant |-> run[r].tenant, cp |-> run[r].cp] /\ run[r].pc = "put"
    <3>1. LocalsInv(run[r])
      BY DEF AnchorInv
    <3>2. run[r].tenant \in Tenants /\ Writable(run[r].tenant, run[r].cp)
      BY <2>2, <3>1 DEF LocalsInv, Shaped, Writing, Writable
    <3> QED
      BY <2>2, <3>2
  <2> QED
    BY <1>6, <2>1, <2>2 DEF Abort
<1>7. LateInv'
  BY <1>1, <1>6 DEF LateInv, Writable, Truthful, Tiled, Slice
<1>8. ASSUME NEW q \in Runs PROVE LocalsInv(run[q])'
  <2>1. LocalsInv(run'[q])
    BY <1>3, RestingLocals DEF AnchorInv
  <2> QED
    BY <1>1, <2>1 DEF LocalsInv, Shaped, Truthful, Tiled, Slice
<1> QED
  BY <1>4, <1>5, <1>7, <1>8 DEF AnchorInv

\* A PutObject lands after its caller gave up.
LEMMA LatePutStep ==
    ASSUME AnchorInv, NEW put \in late, LatePut(put)
    PROVE  AnchorInv'
<1> DEFINE t == put.tenant
           cp == put.cp
<1>1. /\ t \in Tenants /\ Writable(t, cp)
      /\ TablesInv /\ WormInv /\ LateInv
  BY DEF AnchorInv, LateInv
<1>2. /\ worm' = [worm EXCEPT ![t] = With(@, cp.seqEnd, cp)]
      /\ late' \subseteq late
      /\ UNCHANGED <<log, cps, proofs, clock, run, faults>>
  BY DEF LatePut
<1> HIDE DEF t, cp
<1>3. /\ WormInv' /\ worm' = [u \in Tenants |-> worm'[u]]
      /\ \A u \in Tenants : DOMAIN worm[u] \subseteq DOMAIN worm'[u]
  BY <1>1, <1>2, PutObjectKeepsWorm
<1>4. LateInv'
  BY <1>1, <1>2, LateKept
<1>5. TablesInv'
  BY <1>1, <1>2, <1>3 DEF TablesInv
<1>6. CopyInv'
  BY <1>2, <1>3 DEF AnchorInv, CopyInv
<1>7. ProofInv'
  BY <1>2, <1>3 DEF AnchorInv, ProofInv
<1>8. ASSUME NEW r \in Runs PROVE LocalsInv(run[r])'
  <2>1. LocalsInv(run[r]) /\ run'[r] = run[r]
    BY <1>2 DEF AnchorInv
  <2> QED
    BY <1>1, <1>2, <2>1, OthersKeepLocals
<1> QED
  BY <1>3, <1>4, <1>5, <1>6, <1>7, <1>8 DEF AnchorInv

\* A checkpoint stays truthful as the log grows.
LEMMA TruthfulStable ==
    ASSUME TablesInv, NEW t \in Tenants, NEW rec \in Recs,
           log' = [log EXCEPT ![t] = Append(@, rec)],
           NEW u \in Tenants, NEW cp, Truthful(u, cp)
    PROVE  /\ Len(log[u]) <= Len(log'[u])
           /\ cp.seqStart \in Nat /\ cp.seqEnd \in Nat /\ cp.seqStart <= cp.seqEnd
           /\ cp.seqEnd < Len(log'[u])
           /\ cp = Build(u, Slice(u, cp.seqStart, cp.seqEnd + 1)', cp.prev, cp.anchoredAt)
<1>1. log[u] \in Seq(Recs) /\ Len(log[u]) \in Nat
  BY DEF TablesInv
<1>2. /\ cp.seqStart \in Nat /\ cp.seqEnd \in Nat /\ cp.seqStart <= cp.seqEnd
      /\ cp.seqEnd < Len(log[u]) /\ cp.seqEnd + 1 \in Nat /\ cp.seqEnd + 1 <= Len(log[u])
      /\ cp = Build(u, Slice(u, cp.seqStart, cp.seqEnd + 1), cp.prev, cp.anchoredAt)
  BY <1>1 DEF Truthful
<1>3. CASE u = t
  <2>1. log'[u] = Append(log[u], rec)
    BY <1>3 DEF TablesInv
  <2>2. Len(log'[u]) = Len(log[u]) + 1
    BY <1>1, <2>1
  <2>3. Slice(u, cp.seqStart, cp.seqEnd + 1)' = Slice(u, cp.seqStart, cp.seqEnd + 1)
    BY <1>1, <1>2, <2>1, SliceStable
  <2> QED
    BY <1>1, <1>2, <2>2, <2>3
<1>4. CASE u # t
  <2>1. log'[u] = log[u]
    BY <1>4 DEF TablesInv
  <2>2. Slice(u, cp.seqStart, cp.seqEnd + 1)' = Slice(u, cp.seqStart, cp.seqEnd + 1)
    BY <2>1 DEF Slice
  <2> QED
    BY <1>1, <1>2, <2>1, <2>2
<1> QED
  BY <1>3, <1>4

\* Another record is sealed.
LEMMA SealStep ==
    ASSUME AnchorInv, NEW t \in Tenants, NEW rec \in Recs, Seal(t, rec)
    PROVE  AnchorInv'
<1>1. /\ log' = [log EXCEPT ![t] = Append(@, rec)]
      /\ UNCHANGED <<worm, cps, proofs, clock, run, late, faults>>
  BY DEF Seal, stores
<1>2. TablesInv /\ \A u \in Tenants : log[u] \in Seq(Recs)
  BY DEF AnchorInv, TablesInv
<1>3. TablesInv'
  <2>1. Append(log[t], rec) \in Seq(Recs)
    BY <1>2
  <2>2. log' \in [Tenants -> Seq(Recs)]
    BY <1>1, <1>2, <2>1 DEF TablesInv
  <2> QED
    BY <1>1, <1>2, <2>2 DEF TablesInv
<1>4. ASSUME NEW u \in Tenants PROVE Len(log[u]) <= Len(log'[u])
  <2>1. CASE u = t
    <3>1. log'[u] = Append(log[u], rec)
      BY <1>1, <1>2, <2>1 DEF TablesInv
    <3>2. Len(log'[u]) = Len(log[u]) + 1 /\ Len(log[u]) \in Nat
      BY <1>2, <3>1
    <3> QED
      BY <3>2
  <2>2. CASE u # t
    <3>1. log'[u] = log[u] /\ Len(log[u]) \in Nat
      BY <1>1, <1>2, <2>2 DEF TablesInv
    <3> QED
      BY <3>1
  <2> QED
    BY <2>1, <2>2
<1>5. ASSUME NEW u \in Tenants, NEW cp, Truthful(u, cp) PROVE Truthful(u, cp)'
  BY <1>1, <1>2, <1>5, TruthfulStable DEF Truthful
<1>6. WormInv'
  <2> SUFFICES ASSUME NEW u \in Tenants, NEW e \in DOMAIN worm[u]
               PROVE  worm[u][e].seqEnd = e /\ Writable(u, worm[u][e])'
    BY <1>1 DEF WormInv
  <2>1. /\ worm[u][e].seqEnd = e /\ Truthful(u, worm[u][e])
        /\ Tiled(u, worm[u][e].seqStart)
    BY DEF AnchorInv, WormInv, Writable
  <2>2. PICK cp : cp = worm[u][e]
    OBVIOUS
  <2>3. Truthful(u, cp)'
    BY <1>5, <2>1, <2>2
  <2>4. Tiled(u, worm[u][e].seqStart)'
    BY <1>1, <2>1 DEF Tiled
  <2>5. Truthful(u, worm[u][e])'
    BY <1>1, <2>2, <2>3 DEF Truthful
  <2> QED
    BY <2>1, <2>4, <2>5 DEF Writable
<1>7. CopyInv' /\ ProofInv'
  BY <1>1 DEF AnchorInv, CopyInv, ProofInv
<1>8. LateInv'
  <2> SUFFICES ASSUME NEW put \in late
               PROVE  put.tenant \in Tenants /\ Writable(put.tenant, put.cp)'
    BY <1>1 DEF LateInv
  <2>1. /\ put.tenant \in Tenants /\ Truthful(put.tenant, put.cp)
        /\ Tiled(put.tenant, put.cp.seqStart)
    BY DEF AnchorInv, LateInv, Writable
  <2>2. Truthful(put.tenant, put.cp)'
    BY <1>5, <2>1
  <2>3. Tiled(put.tenant, put.cp.seqStart)'
    BY <1>1, <2>1 DEF Tiled
  <2> QED
    BY <2>1, <2>2, <2>3 DEF Writable
<1>9. ASSUME NEW r \in Runs PROVE LocalsInv(run[r])'
  <2>1. LocalsInv(run[r]) /\ run'[r] = run[r]
    BY <1>1 DEF AnchorInv
  <2>2. Shaped(run[r])'
    BY <2>1 DEF LocalsInv, Shaped
  <2>3. ASSUME run[r].pc \in Reading \cup Writing
        PROVE  run[r].tenant \in Tenants /\ Tiled(run[r].tenant, run[r].next)'
    BY <1>1, <2>1, <2>3 DEF LocalsInv, Tiled
  <2>4. ASSUME run[r].pc \in {"build"} \cup Writing
        PROVE  run[r].upto <= Len(log'[run[r].tenant])
    <3>1. /\ run[r].tenant \in Tenants /\ run[r].upto \in Nat
          /\ run[r].upto <= Len(log[run[r].tenant])
      BY <2>1, <2>4 DEF LocalsInv, Shaped, Reading
    <3>2. PICK u \in Tenants : u = run[r].tenant
      BY <3>1
    <3>3. Len(log[u]) \in Nat /\ Len(log'[u]) \in Nat /\ Len(log[u]) <= Len(log'[u])
      BY <1>2, <1>3, <1>4 DEF TablesInv
    <3> QED
      BY <3>1, <3>2, <3>3
  <2>5. ASSUME run[r].pc \in Writing PROVE Truthful(run[r].tenant, run[r].cp)'
    <3>1. run[r].tenant \in Tenants /\ Truthful(run[r].tenant, run[r].cp)
      BY <2>1, <2>5 DEF LocalsInv
    <3>2. PICK u \in Tenants : u = run[r].tenant
      BY <3>1
    <3>3. PICK cp : cp = run[r].cp
      OBVIOUS
    <3>4. Truthful(u, cp)'
      BY <1>5, <3>1, <3>2, <3>3
    <3> QED
      BY <2>1, <3>2, <3>3, <3>4 DEF Truthful, Slice
  <2> QED
    BY <1>1, <2>1, <2>2, <2>3, <2>4, <2>5 DEF LocalsInv
<1> QED
  BY <1>3, <1>6, <1>7, <1>8, <1>9 DEF AnchorInv

-----------------------------------------------------------------------------
(* The theorems.                                                           *)

\* AnchorInv holds in every reachable state.
LEMMA AnchorInvariance == Spec => []AnchorInv
<1>1. ASSUME AnchorInv, [Next]_vars PROVE AnchorInv'
  <2>1. ASSUME NEW t \in Tenants, NEW rec \in Recs, Seal(t, rec) PROVE AnchorInv'
    BY <1>1, <2>1, SealStep
  <2>2. ASSUME NEW r \in Runs, AnchorAll(r) \/ AnchorAllDone(r) PROVE AnchorInv'
    BY <1>1, <2>2, AnchorAllStep
  <2>3. ASSUME NEW r \in Runs, NEW t \in Tenants, LastCheckpoint(r, t) PROVE AnchorInv'
    BY <1>1, <2>3, LastCheckpointStep
  <2>4. ASSUME NEW r \in Runs, EntriesAsc(r) \/ BuildWindow(r) PROVE AnchorInv'
    BY <1>1, <2>4, EntriesAscStep, BuildWindowStep
  <2>5. ASSUME NEW r \in Runs, WormGet(r) \/ WormPut(r) PROVE AnchorInv'
    BY <1>1, <2>5, WormGetStep, WormPutStep
  <2>6. ASSUME NEW r \in Runs, PutCheckpoint(r) \/ StampAndPutProof(r) \/ WindowDone(r)
        PROVE  AnchorInv'
    BY <1>1, <2>6, PutCheckpointStep, StampStep, WindowDoneStep
  <2>7. ASSUME NEW r \in Runs, Abort(r) PROVE AnchorInv'
    BY <1>1, <2>7, AbortStep
  <2>8. ASSUME NEW put \in late, LatePut(put) PROVE AnchorInv'
    BY <1>1, <2>8, LatePutStep
  <2>9. CASE UNCHANGED vars
    BY <1>1, <2>9 DEF vars, stores, AnchorInv, TablesInv, WormInv, CopyInv, ProofInv, LateInv,
       LocalsInv, Shaped, Writable, Truthful, Tiled, Slice
  <2> QED
    BY <1>1, <2>1, <2>2, <2>3, <2>4, <2>5, <2>6, <2>7, <2>8, <2>9 DEF Next, Step
<1> QED
  BY <1>1, AnchorInit, PTL DEF Spec

\* No run, crash or late PutObject makes anchoring skip an entry: everything at
\* or below the resume point is under a WORM object.
THEOREM ResumePointIsCovered == Spec => []ResumePointCovered
<1>1. ASSUME AnchorInv PROVE ResumePointCovered
  <2> SUFFICES ASSUME NEW t \in Tenants, NEW e \in DOMAIN cps[t]
               PROVE  e \in DOMAIN worm[t] /\ \A s \in 0 .. e : Covered(t, s)
    BY DEF ResumePointCovered
  <2>1. e \in DOMAIN worm[t]
    BY <1>1 DEF AnchorInv, CopyInv
  <2>2. e \in Nat /\ Tiled(t, e + 1)
    BY <1>1, <2>1, TiledThrough DEF AnchorInv
  <2>3. 0 .. (e + 1) - 1 = 0 .. e
    BY <2>2
  <2> QED
    BY <2>1, <2>2, <2>3 DEF Tiled, Covered
<1> QED
  BY <1>1, AnchorInvariance, PTL

\* What is written once to WORM commits to what the log holds, whoever wrote
\* it and whenever it landed.
THEOREM WormIsTruthful == Spec => []WormMatchesLog
<1>1. ASSUME AnchorInv PROVE WormMatchesLog
  BY <1>1 DEF AnchorInv, WormInv, Writable, Truthful, WormMatchesLog
<1> QED
  BY <1>1, AnchorInvariance, PTL

\* The stores and the runs' locals keep their types.
THEOREM AnchorerTypeCorrectness == Spec => []TypeOK
<1>1. ASSUME AnchorInv PROVE TypeOK
  <2>1. ASSUME NEW t \in Tenants, NEW e \in DOMAIN worm[t] PROVE e \in 0 .. Len(log[t]) - 1
    <3>1. e \in Nat /\ e < Len(log[t]) /\ log[t] \in Seq(Recs)
      BY <1>1, <2>1 DEF AnchorInv, TablesInv, WormInv, Writable, Truthful
    <3>2. Len(log[t]) \in Nat
      BY <3>1
    <3> QED
      BY <3>1, <3>2
  <2>2. \A t \in Tenants : DOMAIN worm[t] \cup DOMAIN cps[t] \subseteq 0 .. Len(log[t]) - 1
    BY <1>1, <2>1 DEF AnchorInv, CopyInv
  <2>3. \A t \in Tenants : DOMAIN proofs[t] \subseteq (0 .. Len(log[t]) - 1) \X STRING
    <3>1. ASSUME NEW t \in Tenants, NEW k \in DOMAIN proofs[t]
          PROVE  k \in (0 .. Len(log[t]) - 1) \X STRING
      <4>1. k = <<k[1], k[2]>> /\ k[1] \in DOMAIN worm[t] /\ k[2] \in STRING
        BY <1>1 DEF AnchorInv, ProofInv
      <4>2. k[1] \in 0 .. Len(log[t]) - 1
        BY <2>1, <4>1
      <4> QED
        BY <4>1, <4>2
    <3> QED
      BY <3>1
  <2>4. ASSUME NEW put \in late
        PROVE  put.tenant \in Tenants /\ put.cp.seqEnd \in 0 .. Len(log[put.tenant]) - 1
    <3>1. /\ put.tenant \in Tenants /\ put.cp.seqEnd \in Nat
          /\ put.cp.seqEnd < Len(log[put.tenant]) /\ log[put.tenant] \in Seq(Recs)
      BY <1>1 DEF AnchorInv, TablesInv, LateInv, Writable, Truthful
    <3>2. Len(log[put.tenant]) \in Nat
      BY <3>1
    <3> QED
      BY <3>1, <3>2
  <2>5. ASSUME NEW r \in Runs
        PROVE  /\ run[r].pc \in {"idle", "tenant", "entries", "build", "get", "put",
                                 "record", "stamp"}
               /\ run[r].todo \subseteq Tenants
               /\ run[r].tenant \in Tenants \cup {None}
               /\ run[r].next \in Nat /\ run[r].upto \in Nat
    BY <1>1 DEF AnchorInv, LocalsInv, Shaped, Reading, Writing
  <2>6. log \in [Tenants -> Seq(Recs)] /\ clock \in Nat /\ faults \in 0 .. MaxFaults
    BY <1>1 DEF AnchorInv, TablesInv
  <2> QED
    BY <2>2, <2>3, <2>4, <2>5, <2>6 DEF TypeOK
<1> QED
  BY <1>1, AnchorInvariance, PTL

-----------------------------------------------------------------------------
(***************************************************************************)
(* What anchoring guarantees in addition when the ticker's run is the only *)
(* one, as when nobody sends POST /anchor: the proofs held attest the      *)
(* checkpoints recorded, s3worm implements the write-once store, and as    *)
(* long as no run ended early the checkpoints of a tenant form a chain of  *)
(* which Postgres holds an exact copy.  The inductive invariants:          *)
(***************************************************************************)

\* A window on its way lies behind everything recorded.
Ahead(x) ==
    x.pc \in Reading \cup {"get", "put", "record"} =>
        \A e \in DOMAIN cps[x.tenant] : e < x.next

\* A checkpoint that is being stamped is the last one recorded.
Recorded(x) ==
    x.pc = "stamp" =>
        /\ x.cp.seqEnd \in DOMAIN cps[x.tenant]
        /\ cps[x.tenant][x.cp.seqEnd] = x.cp
        /\ \A e \in DOMAIN cps[x.tenant] : e <= x.cp.seqEnd

SoleInv == Ahead(run[Ticker]) /\ Recorded(run[Ticker]) /\ ProofAttestsRecord

\* Between the two requests of Put the key stays free.
KeyFree ==
    /\ late = {}
    /\ run[Ticker].pc = "put" =>
          run[Ticker].cp.seqEnd \notin DOMAIN worm[run[Ticker].tenant]

\* Each object links to the last of those before it.
Linked(objects) == \A e \in DOMAIN objects : objects[e].prev = PrevId(objects, e)

\* Postgres holds what WORM holds, but for a checkpoint just written.
Copied(t) ==
    LET x == run[Ticker]
    IN  worm[t] = IF x.pc = "record" /\ x.tenant = t
                  THEN With(cps[t], x.cp.seqEnd, x.cp) ELSE cps[t]

\* The next checkpoint is going to link to the last one.
LinksOn(x) ==
    /\ x.pc \in Reading => x.prev = PrevId(cps[x.tenant], x.next)
    /\ x.pc \in {"get", "put"} => x.cp.prev = PrevId(cps[x.tenant], x.cp.seqEnd)

\* While no run has ended early.
FaultFree ==
    faults = 0 =>
        /\ late = {}
        /\ \A t \in Tenants : Linked(worm[t]) /\ Copied(t)
        /\ LinksOn(run[Ticker])

-----------------------------------------------------------------------------
(* What each step of a run does to its locals and to the tables.           *)

\* What is known of a run at each of its steps.
LEMMA LocalsKnown ==
    ASSUME AnchorInv, NEW r \in Runs
    PROVE  /\ run[r] = [run[r] EXCEPT !.pc = @]
           /\ DOMAIN run[r] = {"pc", "todo", "tenant", "next", "upto", "prev", "cp", "left"}
           /\ run[r].next \in Nat
           /\ run[r].pc \in Reading \cup Writing => run[r].tenant \in Tenants
           /\ run[r].pc \in Writing => /\ run[r].cp.seqEnd \in Nat
                                       /\ run[r].next <= run[r].cp.seqEnd
<1>1. LocalsInv(run[r]) /\ Shaped(run[r])
  BY DEF AnchorInv, LocalsInv
<1>2. /\ run[r].next \in Nat
      /\ DOMAIN run[r] = {"pc", "todo", "tenant", "next", "upto", "prev", "cp", "left"}
      /\ run[r] = [run[r] EXCEPT !.pc = @]
  BY <1>1 DEF Shaped
<1> QED
  BY <1>1, <1>2 DEF LocalsInv, Truthful

LEMMA NextLocalsKnown ==
    ASSUME AnchorInv', NEW r \in Runs
    PROVE  run'[r].pc \in Writing => /\ run'[r].tenant \in Tenants /\ run'[r].next \in Nat
                                     /\ run'[r].cp.seqEnd \in Nat
                                     /\ run'[r].next <= run'[r].cp.seqEnd
<1>1. LocalsInv(run[r])'
  BY DEF AnchorInv
<1>2. run'[r].next \in Nat
  BY <1>1 DEF LocalsInv, Shaped
<1> QED
  BY <1>1, <1>2 DEF LocalsInv, Truthful

\* Keys are numbers, and the working copy has a last one unless it is empty.
LEMMA KeysKnown ==
    ASSUME AnchorInv, NEW t \in Tenants
    PROVE  /\ \A e \in DOMAIN worm[t] : e \in Nat
           /\ DOMAIN cps[t] \subseteq DOMAIN worm[t]
           /\ DOMAIN cps[t] # {} =>
                 Max(DOMAIN cps[t]) \in DOMAIN cps[t] /\ \A e \in DOMAIN cps[t] : Max(DOMAIN cps[t]) >= e
<1>1. (\A e \in DOMAIN worm[t] : e \in Nat) /\ DOMAIN cps[t] \subseteq DOMAIN worm[t]
  BY DEF AnchorInv, WormInv, CopyInv, Writable, Truthful
<1>2. ASSUME DOMAIN cps[t] # {}
      PROVE  Max(DOMAIN cps[t]) \in DOMAIN cps[t] /\ \A e \in DOMAIN cps[t] : Max(DOMAIN cps[t]) >= e
  <2>1. PICK last \in DOMAIN cps[t] : \A e \in DOMAIN cps[t] : last >= e
    BY <1>2 DEF AnchorInv, CopyInv, HasLast
  <2> QED
    BY <2>1, MaxIsLast
<1> QED
  BY <1>1, <1>2

\* The steps that write no table.
LEMMA MoveEffect ==
    ASSUME AnchorInv, NEW r \in Runs
    PROVE  /\ AnchorAll(r) \/ AnchorAllDone(r) =>
                 UNCHANGED stores /\ run'[r].pc \in {"idle", "tenant"}
           /\ \A t \in Tenants : LastCheckpoint(r, t) =>
                 /\ UNCHANGED stores /\ run'[r].pc = "entries" /\ run'[r].tenant = t
                 /\ run'[r].next = IF DOMAIN cps[t] = {} THEN 0 ELSE Max(DOMAIN cps[t]) + 1
                 /\ run'[r].prev = IF DOMAIN cps[t] = {} THEN <<>>
                                   ELSE cps[t][Max(DOMAIN cps[t])].id
           /\ EntriesAsc(r) =>
                 /\ UNCHANGED stores /\ run[r].pc = "entries"
                 /\ \/ run'[r].pc = "tenant"
                    \/ /\ run'[r].pc = "build" /\ run'[r].tenant = run[r].tenant
                       /\ run'[r].next = run[r].next /\ run'[r].prev = run[r].prev
           /\ BuildWindow(r) =>
                 /\ UNCHANGED stores /\ run[r].pc = "build"
                 /\ run'[r].pc = "get" /\ run'[r].tenant = run[r].tenant
                 /\ run'[r].next = run[r].next /\ run'[r].cp.prev = run[r].prev
           /\ WormGet(r) =>
                 /\ UNCHANGED stores /\ run[r].pc = "get"
                 /\ run'[r].pc = IF run[r].cp.seqEnd \in DOMAIN worm[run[r].tenant]
                                 THEN "record" ELSE "put"
                 /\ run'[r].tenant = run[r].tenant /\ run'[r].next = run[r].next
                 /\ run'[r].cp = run[r].cp
           /\ WindowDone(r) =>
                 /\ UNCHANGED stores /\ run[r].pc = "stamp"
                 /\ \/ run'[r].pc = "tenant"
                    \/ /\ run'[r].pc = "build" /\ run'[r].tenant = run[r].tenant
                       /\ run'[r].next = run[r].cp.seqEnd + 1
                       /\ run'[r].prev = run[r].cp.id
<1> DEFINE x == run[r]
<1>1. DOMAIN x = {"pc", "todo", "tenant", "next", "upto", "prev", "cp", "left"}
  BY LocalsKnown
<1>2. \A y : run' = [run EXCEPT ![r] = y] => run'[r] = y
  BY DEF AnchorInv, TablesInv
<1>3. NotRunning.pc = "idle" /\ \A todo : BetweenTenants(todo).pc = "tenant"
  BY DEF NotRunning, BetweenTenants
<1>4. AnchorAll(r) \/ AnchorAllDone(r) =>
         UNCHANGED stores /\ run'[r].pc \in {"idle", "tenant"}
  BY <1>2, <1>3 DEF AnchorAll, AnchorAllDone
<1>5. ASSUME NEW t \in Tenants, LastCheckpoint(r, t)
      PROVE  /\ UNCHANGED stores /\ run'[r].pc = "entries" /\ run'[r].tenant = t
             /\ run'[r].next = IF DOMAIN cps[t] = {} THEN 0 ELSE Max(DOMAIN cps[t]) + 1
             /\ run'[r].prev = IF DOMAIN cps[t] = {} THEN <<>>
                               ELSE cps[t][Max(DOMAIN cps[t])].id
  <2> DEFINE next == IF DOMAIN cps[t] = {} THEN 0 ELSE Max(DOMAIN cps[t]) + 1
             prev == IF DOMAIN cps[t] = {} THEN <<>> ELSE cps[t][Max(DOMAIN cps[t])].id
             y    == [x EXCEPT !.pc = "entries", !.todo = @ \ {t}, !.tenant = t,
                               !.next = next, !.prev = prev]
  <2>1. run'[r] = y
    <3>1. run' = [run EXCEPT ![r] = y]
      BY <1>5 DEF LastCheckpoint
    <3> QED
      BY <1>2, <3>1
  <2>2. UNCHANGED stores
    BY <1>5 DEF LastCheckpoint
  <2> HIDE DEF next, prev, x
  <2>3. /\ run'[r].pc = "entries" /\ run'[r].tenant = t
        /\ run'[r].next = next /\ run'[r].prev = prev
    BY <1>1, <2>1
  <2> QED
    BY <2>2, <2>3 DEF next, prev
<1>6. ASSUME EntriesAsc(r)
      PROVE  /\ UNCHANGED stores /\ x.pc = "entries"
             /\ \/ run'[r].pc = "tenant"
                \/ /\ run'[r].pc = "build" /\ run'[r].tenant = x.tenant
                   /\ run'[r].next = x.next /\ run'[r].prev = x.prev
  <2> DEFINE upto == Min({Len(log[x.tenant]), x.next + QueryLimit})
  <2>1. run'[r] = IF upto <= x.next THEN BetweenTenants(x.todo)
                  ELSE [x EXCEPT !.pc = "build", !.upto = upto]
    BY <1>2, <1>6 DEF EntriesAsc
  <2>2. UNCHANGED stores /\ x.pc = "entries"
    BY <1>6 DEF EntriesAsc
  <2> HIDE DEF upto, x
  <2> QED
    BY <1>1, <1>3, <2>1, <2>2
<1>7. ASSUME BuildWindow(r)
      PROVE  /\ UNCHANGED stores /\ x.pc = "build"
             /\ run'[r].pc = "get" /\ run'[r].tenant = x.tenant
             /\ run'[r].next = x.next /\ run'[r].cp.prev = x.prev
  <2> DEFINE slice == Slice(x.tenant, x.next, Min({x.next + WindowMax, x.upto}))
             cp    == Build(x.tenant, slice, x.prev, clock)
             y     == [x EXCEPT !.cp = cp, !.pc = "get"]
  <2>1. run'[r] = y
    <3>1. run' = [run EXCEPT ![r] = y]
      BY <1>7 DEF BuildWindow
    <3> QED
      BY <1>2, <3>1
  <2>2. UNCHANGED stores /\ x.pc = "build" /\ cp.prev = x.prev
    BY <1>7 DEF BuildWindow, Build
  <2> HIDE DEF cp, x
  <2> QED
    BY <1>1, <2>1, <2>2
<1>8. ASSUME WormGet(r)
      PROVE  /\ UNCHANGED stores /\ x.pc = "get"
             /\ run'[r].pc = IF x.cp.seqEnd \in DOMAIN worm[x.tenant] THEN "record" ELSE "put"
             /\ run'[r].tenant = x.tenant /\ run'[r].next = x.next
             /\ run'[r].cp = x.cp
  <2> DEFINE pc == IF x.cp.seqEnd \in DOMAIN worm[x.tenant] THEN "record" ELSE "put"
  <2>1. run'[r] = [x EXCEPT !.pc = pc]
    BY <1>2, <1>8 DEF WormGet
  <2>2. UNCHANGED stores /\ x.pc = "get"
    BY <1>8 DEF WormGet
  <2> HIDE DEF pc, x
  <2> QED
    BY <1>1, <2>1, <2>2 DEF pc
<1>9. ASSUME WindowDone(r)
      PROVE  /\ UNCHANGED stores /\ x.pc = "stamp"
             /\ \/ run'[r].pc = "tenant"
                \/ /\ run'[r].pc = "build" /\ run'[r].tenant = x.tenant
                   /\ run'[r].next = x.cp.seqEnd + 1 /\ run'[r].prev = x.cp.id
  <2> DEFINE next == x.cp.seqEnd + 1
  <2>1. run'[r] = IF next < x.upto
                  THEN [x EXCEPT !.pc = "build", !.prev = x.cp.id, !.next = next, !.cp = None]
                  ELSE BetweenTenants(x.todo)
    BY <1>2, <1>9 DEF WindowDone
  <2>2. UNCHANGED stores /\ x.pc = "stamp"
    BY <1>9 DEF WindowDone
  <2> HIDE DEF next, x
  <2> QED
    BY <1>1, <1>3, <2>1, <2>2 DEF next
<1> QED
  BY <1>4, <1>5, <1>6, <1>7, <1>8, <1>9

\* The steps that write a table.
LEMMA WriteEffect ==
    ASSUME AnchorInv, NEW r \in Runs
    PROVE  LET x == run[r]
               t == run[r].tenant
           IN  /\ WormPut(r) =>
                     /\ x.pc = "put" /\ UNCHANGED <<cps, proofs, late, faults>>
                     /\ worm'[t] = With(worm[t], x.cp.seqEnd, x.cp)
                     /\ \A u \in Tenants \ {t} : worm'[u] = worm[u]
                     /\ run'[r].pc = "record" /\ run'[r].tenant = t
                     /\ run'[r].next = x.next /\ run'[r].cp = x.cp
               /\ PutCheckpoint(r) =>
                     /\ x.pc = "record" /\ UNCHANGED <<worm, proofs, late, faults>>
                     /\ cps'[t] = InsertOnce(cps[t], x.cp.seqEnd, x.cp)
                     /\ \A u \in Tenants \ {t} : cps'[u] = cps[u]
                     /\ run'[r].pc = "stamp" /\ run'[r].tenant = t /\ run'[r].cp = x.cp
               /\ StampAndPutProof(r) =>
                     /\ x.pc = "stamp" /\ UNCHANGED <<worm, cps, late, faults>>
                     /\ \E notary : proofs'[t] = InsertOnce(proofs[t], <<x.cp.seqEnd, notary>>,
                                                            Stamp(notary, x.cp.id))
                     /\ \A u \in Tenants \ {t} : proofs'[u] = proofs[u]
                     /\ run'[r].pc = "stamp" /\ run'[r].tenant = t /\ run'[r].cp = x.cp
<1> DEFINE x == run[r]
           t == run[r].tenant
<1>1. /\ DOMAIN x = {"pc", "todo", "tenant", "next", "upto", "prev", "cp", "left"}
      /\ x.pc \in Writing => t \in Tenants
  BY LocalsKnown
<1>2. \A y : run' = [run EXCEPT ![r] = y] => run'[r] = y
  BY DEF AnchorInv, TablesInv
<1>3. ASSUME t \in Tenants, NEW v
      PROVE  /\ worm' = [worm EXCEPT ![t] = v] =>
                   worm'[t] = v /\ \A u \in Tenants \ {t} : worm'[u] = worm[u]
             /\ cps' = [cps EXCEPT ![t] = v] =>
                   cps'[t] = v /\ \A u \in Tenants \ {t} : cps'[u] = cps[u]
             /\ proofs' = [proofs EXCEPT ![t] = v] =>
                   proofs'[t] = v /\ \A u \in Tenants \ {t} : proofs'[u] = proofs[u]
  BY <1>3 DEF AnchorInv, TablesInv
<1>4. ASSUME WormPut(r)
      PROVE  /\ x.pc = "put" /\ UNCHANGED <<cps, proofs, late, faults>>
             /\ worm'[t] = With(worm[t], x.cp.seqEnd, x.cp)
             /\ \A u \in Tenants \ {t} : worm'[u] = worm[u]
             /\ run'[r].pc = "record" /\ run'[r].tenant = t
             /\ run'[r].next = x.next /\ run'[r].cp = x.cp
  <2>1. /\ x.pc = "put" /\ UNCHANGED <<cps, proofs, late, faults>>
        /\ worm' = [worm EXCEPT ![t] = With(worm[t], x.cp.seqEnd, x.cp)]
    BY <1>4 DEF WormPut
  <2>2. run'[r] = [x EXCEPT !.pc = "record"]
    BY <1>2, <1>4 DEF WormPut
  <2>3. t \in Tenants
    BY <1>1, <2>1 DEF Writing
  <2> HIDE DEF x, t
  <2>4. /\ run'[r].pc = "record" /\ run'[r].tenant = x.tenant
        /\ run'[r].next = x.next /\ run'[r].cp = x.cp
    BY <1>1, <2>2
  <2> QED
    BY <1>3, <2>1, <2>3, <2>4 DEF x, t
<1>5. ASSUME PutCheckpoint(r)
      PROVE  /\ x.pc = "record" /\ UNCHANGED <<worm, proofs, late, faults>>
             /\ cps'[t] = InsertOnce(cps[t], x.cp.seqEnd, x.cp)
             /\ \A u \in Tenants \ {t} : cps'[u] = cps[u]
             /\ run'[r].pc = "stamp" /\ run'[r].tenant = t /\ run'[r].cp = x.cp
  <2> DEFINE y == [x EXCEPT !.pc = "stamp", !.left = Notaries]
  <2>1. /\ x.pc = "record" /\ UNCHANGED <<worm, proofs, late, faults>>
        /\ cps' = [cps EXCEPT ![t] = InsertOnce(cps[t], x.cp.seqEnd, x.cp)]
    BY <1>5 DEF PutCheckpoint
  <2>2. run'[r] = y
    <3>1. run' = [run EXCEPT ![r] = y]
      BY <1>5 DEF PutCheckpoint
    <3> QED
      BY <1>2, <3>1
  <2>3. t \in Tenants
    BY <1>1, <2>1 DEF Writing
  <2> HIDE DEF x, t
  <2>4. run'[r].pc = "stamp" /\ run'[r].tenant = x.tenant /\ run'[r].cp = x.cp
    BY <1>1, <2>2
  <2> QED
    BY <1>3, <2>1, <2>3, <2>4 DEF x, t
<1>6. ASSUME StampAndPutProof(r)
      PROVE  /\ x.pc = "stamp" /\ UNCHANGED <<worm, cps, late, faults>>
             /\ \E notary : proofs'[t] = InsertOnce(proofs[t], <<x.cp.seqEnd, notary>>,
                                                    Stamp(notary, x.cp.id))
             /\ \A u \in Tenants \ {t} : proofs'[u] = proofs[u]
             /\ run'[r].pc = "stamp" /\ run'[r].tenant = t /\ run'[r].cp = x.cp
  <2> DEFINE notary == Head(x.left)
             v == InsertOnce(proofs[t], <<x.cp.seqEnd, notary>>, Stamp(notary, x.cp.id))
  <2>1. /\ x.pc = "stamp" /\ UNCHANGED <<worm, cps, late, faults>>
        /\ proofs' = [proofs EXCEPT ![t] = v]
    BY <1>6 DEF StampAndPutProof
  <2>2. run'[r] = [x EXCEPT !.left = Tail(x.left)]
    BY <1>2, <1>6 DEF StampAndPutProof
  <2>3. t \in Tenants
    BY <1>1, <2>1 DEF Writing
  <2>4. \E n : v = InsertOnce(proofs[t], <<x.cp.seqEnd, n>>, Stamp(n, x.cp.id))
    OBVIOUS
  <2> HIDE DEF x, t, v
  <2>5. run'[r].pc = x.pc /\ run'[r].tenant = x.tenant /\ run'[r].cp = x.cp
    BY <1>1, <2>2
  <2> QED
    BY <1>3, <2>1, <2>3, <2>4, <2>5 DEF x, t
<1> QED
  BY <1>4, <1>5, <1>6

-----------------------------------------------------------------------------
(* Windows lie ahead, and proofs attest what is recorded.                  *)

\* A step that leaves the working copy and the proofs alone.
LEMMA SoleFrame ==
    ASSUME SoleInv, UNCHANGED <<cps, proofs>>, Ahead(run'[Ticker]), Recorded(run'[Ticker])
    PROVE  SoleInv'
BY DEF SoleInv, Ahead, Recorded, ProofAttestsRecord

LEMMA SoleMoveStep ==
    ASSUME AnchorInv, SoleInv, Ticker \in Runs,
           \/ AnchorAll(Ticker) \/ AnchorAllDone(Ticker)
           \/ \E t \in Tenants : LastCheckpoint(Ticker, t)
           \/ EntriesAsc(Ticker) \/ BuildWindow(Ticker) \/ WormGet(Ticker) \/ WindowDone(Ticker)
    PROVE  SoleInv'
<1> DEFINE x == run[Ticker]
           y == run'[Ticker]
<1>1. Ahead(x) /\ Recorded(x) /\ (x.pc \in Reading \cup Writing => x.tenant \in Tenants)
  BY LocalsKnown DEF SoleInv
<1>2. ASSUME UNCHANGED stores, y.pc \in {"idle", "tenant"} PROVE SoleInv'
  BY <1>2, SoleFrame DEF stores, Ahead, Recorded, Reading
<1>3. CASE AnchorAll(Ticker) \/ AnchorAllDone(Ticker)
  BY <1>2, <1>3, MoveEffect
<1>4. ASSUME NEW t \in Tenants, LastCheckpoint(Ticker, t) PROVE SoleInv'
  <2> DEFINE ends == DOMAIN cps[t]
  <2>1. /\ UNCHANGED stores /\ y.pc = "entries" /\ y.tenant = t
        /\ y.next = IF ends = {} THEN 0 ELSE Max(ends) + 1
    BY <1>4, MoveEffect
  <2>2. \A e \in ends : e \in Nat /\ Max(ends) \in Nat /\ Max(ends) >= e
    BY KeysKnown
  <2>3. \A e \in ends : e < y.next
    BY <2>1, <2>2
  <2> QED
    BY <2>1, <2>3, SoleFrame DEF stores, Ahead, Recorded
<1>5. CASE EntriesAsc(Ticker)
  <2>1. /\ UNCHANGED stores /\ x.pc = "entries"
        /\ \/ y.pc = "tenant"
           \/ y.pc = "build" /\ y.tenant = x.tenant /\ y.next = x.next
    BY <1>5, MoveEffect
  <2> QED
    BY <1>1, <1>2, <2>1, SoleFrame DEF stores, Ahead, Recorded, Reading
<1>6. CASE BuildWindow(Ticker)
  <2>1. /\ UNCHANGED stores /\ x.pc = "build"
        /\ y.pc = "get" /\ y.tenant = x.tenant /\ y.next = x.next
    BY <1>6, MoveEffect
  <2> QED
    BY <1>1, <2>1, SoleFrame DEF stores, Ahead, Recorded, Reading
<1>7. CASE WormGet(Ticker)
  <2>1. /\ UNCHANGED stores /\ x.pc = "get" /\ y.pc \in {"record", "put"}
        /\ y.tenant = x.tenant /\ y.next = x.next
    BY <1>7, MoveEffect
  <2> QED
    BY <1>1, <2>1, SoleFrame DEF stores, Ahead, Recorded, Reading
<1>8. CASE WindowDone(Ticker)
  <2>1. /\ UNCHANGED stores /\ x.pc = "stamp"
        /\ \/ y.pc = "tenant"
           \/ y.pc = "build" /\ y.tenant = x.tenant /\ y.next = x.cp.seqEnd + 1
    BY <1>8, MoveEffect
  <2>2. CASE y.pc = "tenant"
    BY <1>2, <2>1, <2>2
  <2>3. CASE y.pc = "build" /\ y.tenant = x.tenant /\ y.next = x.cp.seqEnd + 1
    <3>1. /\ x.tenant \in Tenants /\ x.cp.seqEnd \in Nat
          /\ \A e \in DOMAIN cps[x.tenant] : e <= x.cp.seqEnd
      BY <1>1, <2>1, LocalsKnown DEF Recorded, Writing
    <3>2. \A e \in DOMAIN cps[x.tenant] : e \in Nat
      BY <3>1, KeysKnown
    <3>3. \A e \in DOMAIN cps[x.tenant] : e < y.next
      BY <2>3, <3>1, <3>2
    <3> QED
      BY <2>1, <2>3, <3>3, SoleFrame DEF stores, Ahead, Recorded
  <2> QED
    BY <2>1, <2>2, <2>3
<1> QED
  BY <1>3, <1>4, <1>5, <1>6, <1>7, <1>8

LEMMA SoleWriteStep ==
    ASSUME AnchorInv, SoleInv, Ticker \in Runs,
           WormPut(Ticker) \/ PutCheckpoint(Ticker) \/ StampAndPutProof(Ticker)
    PROVE  SoleInv'
<1> DEFINE x == run[Ticker]
           y == run'[Ticker]
           t == x.tenant
<1>1. Ahead(x) /\ Recorded(x) /\ ProofAttestsRecord
  BY DEF SoleInv
<1>2. x.pc \in Writing => /\ t \in Tenants /\ x.next \in Nat
                          /\ x.cp.seqEnd \in Nat /\ x.next <= x.cp.seqEnd
  BY LocalsKnown
<1>3. CASE WormPut(Ticker)
  <2>1. /\ UNCHANGED <<cps, proofs>> /\ x.pc = "put"
        /\ y.pc = "record" /\ y.tenant = t /\ y.next = x.next
    BY <1>3, WriteEffect
  <2> QED
    BY <1>1, <2>1, SoleFrame DEF Ahead, Recorded, Reading
<1>4. CASE PutCheckpoint(Ticker)
  <2> DEFINE end == x.cp.seqEnd
  <2>1. /\ x.pc = "record" /\ UNCHANGED <<worm, proofs>>
        /\ cps'[t] = InsertOnce(cps[t], end, x.cp)
        /\ \A u \in Tenants \ {t} : cps'[u] = cps[u]
        /\ y.pc = "stamp" /\ y.tenant = t /\ y.cp = x.cp
    BY <1>4, WriteEffect
  <2>2. t \in Tenants /\ x.next \in Nat /\ end \in Nat /\ x.next <= end
    BY <1>2, <2>1 DEF Writing
  <2>3. \A e \in DOMAIN cps[t] : e \in Nat /\ e < end
    <3>1. \A e \in DOMAIN cps[t] : e \in Nat
      BY <2>2, KeysKnown
    <3>2. \A e \in DOMAIN cps[t] : e < x.next
      BY <1>1, <2>1 DEF Ahead
    <3> QED
      BY <2>2, <3>1, <3>2
  <2>4. end \notin DOMAIN cps[t]
    BY <2>2, <2>3
  <2>5. /\ DOMAIN cps'[t] = DOMAIN cps[t] \cup {end}
        /\ cps'[t][end] = x.cp
        /\ \A e \in DOMAIN cps[t] : cps'[t][e] = cps[t][e]
    <3> DEFINE w == InsertOnce(cps[t], end, x.cp)
    <3>1. /\ DOMAIN w = DOMAIN cps[t] \cup {end}
          /\ \A e \in DOMAIN cps[t] : w[e] = cps[t][e]
          /\ end \notin DOMAIN cps[t] => w[end] = x.cp
      BY DEF InsertOnce, With
    <3> HIDE DEF w
    <3>2. cps'[t] = w
      BY <2>1 DEF w
    <3> QED
      BY <2>4, <3>1, <3>2
  <2>6. Ahead(run[Ticker])' /\ Recorded(run[Ticker])'
    <3>1. \A e \in DOMAIN cps'[t] : e <= end
      BY <2>2, <2>3, <2>5
    <3> QED
      BY <2>1, <2>5, <3>1 DEF Ahead, Recorded, Reading
  <2>7. ProofAttestsRecord'
    <3> SUFFICES ASSUME NEW u \in Tenants, NEW k \in DOMAIN proofs[u]
                 PROVE  k[1] \in DOMAIN cps'[u] /\ VerifyProof(k[2], proofs[u][k], cps'[u][k[1]].id)
      BY <2>1 DEF ProofAttestsRecord
    <3>1. k[1] \in DOMAIN cps[u] /\ VerifyProof(k[2], proofs[u][k], cps[u][k[1]].id)
      BY <1>1 DEF ProofAttestsRecord
    <3>2. k[1] \in DOMAIN cps'[u] /\ cps'[u][k[1]] = cps[u][k[1]]
      BY <2>1, <2>5, <3>1
    <3> QED
      BY <3>1, <3>2
  <2> QED
    BY <2>6, <2>7 DEF SoleInv, Ahead, Recorded
<1>5. CASE StampAndPutProof(Ticker)
  <2> DEFINE end == x.cp.seqEnd
  <2>1. /\ x.pc = "stamp" /\ UNCHANGED cps
        /\ \E notary : proofs'[t] = InsertOnce(proofs[t], <<end, notary>>, Stamp(notary, x.cp.id))
        /\ \A u \in Tenants \ {t} : proofs'[u] = proofs[u]
        /\ y.pc = "stamp" /\ y.tenant = t /\ y.cp = x.cp
    BY <1>5, WriteEffect
  <2>2. end \in DOMAIN cps[t] /\ cps[t][end] = x.cp
    BY <1>1, <2>1 DEF Recorded
  <2>3. PICK notary : proofs'[t] = InsertOnce(proofs[t], <<end, notary>>, Stamp(notary, x.cp.id))
    BY <2>1
  <2>4. ProofAttestsRecord'
    <3> SUFFICES ASSUME NEW u \in Tenants, NEW k \in DOMAIN proofs'[u]
                 PROVE  k[1] \in DOMAIN cps[u] /\ VerifyProof(k[2], proofs'[u][k], cps[u][k[1]].id)
      BY <2>1 DEF ProofAttestsRecord
    <3>1. CASE k \in DOMAIN proofs[u] /\ proofs'[u][k] = proofs[u][k]
      BY <1>1, <3>1 DEF ProofAttestsRecord
    <3>2. CASE u = t /\ k = <<end, notary>> /\ proofs'[u][k] = Stamp(notary, x.cp.id)
      <4>1. k[1] = end /\ k[2] = notary
        BY <3>2
      <4> QED
        BY <2>2, <3>2, <4>1 DEF VerifyProof
    <3>3. \/ k \in DOMAIN proofs[u] /\ proofs'[u][k] = proofs[u][k]
          \/ u = t /\ k = <<end, notary>> /\ proofs'[u][k] = Stamp(notary, x.cp.id)
      <4>1. CASE u = t
        <5> DEFINE key == <<end, notary>>
                   val == Stamp(notary, x.cp.id)
        <5>1. proofs'[t] = InsertOnce(proofs[t], key, val) /\ k \in DOMAIN proofs'[t]
          BY <2>3, <4>1
        <5> DEFINE w == InsertOnce(proofs[t], key, val)
        <5>2. /\ DOMAIN w = DOMAIN proofs[t] \cup {key}
              /\ \A e \in DOMAIN proofs[t] : w[e] = proofs[t][e]
              /\ key \notin DOMAIN proofs[t] => w[key] = val
          BY DEF InsertOnce, With
        <5>3. proofs'[t] = w
          BY <5>1
        <5> HIDE DEF key, val, t, w
        <5>4. \/ k \in DOMAIN proofs[t] /\ proofs'[t][k] = proofs[t][k]
              \/ k = key /\ proofs'[t][k] = val
          BY <5>1, <5>2, <5>3
        <5> QED
          BY <4>1, <5>4 DEF key, val, t
      <4>2. CASE u # t
        BY <2>1, <4>2
      <4> QED
        BY <4>1, <4>2
    <3> QED
      BY <3>1, <3>2, <3>3
  <2> QED
    BY <1>1, <2>1, <2>4 DEF SoleInv, Ahead, Recorded, Reading
<1> QED
  BY <1>3, <1>4, <1>5

\* Entries sealed, runs that end early and puts that land late change nothing here.
LEMMA SoleOtherStep ==
    ASSUME AnchorInv, SoleInv, Ticker \in Runs,
           \/ \E t \in Tenants, rec \in Recs : Seal(t, rec)
           \/ Abort(Ticker)
           \/ \E put \in late : LatePut(put)
           \/ UNCHANGED vars
    PROVE  SoleInv'
<1>1. Ahead(run[Ticker]) /\ Recorded(run[Ticker])
  BY DEF SoleInv
<1>2. ASSUME UNCHANGED <<cps, proofs, run>> PROVE SoleInv'
  BY <1>1, <1>2, SoleFrame DEF Ahead, Recorded
<1>3. CASE Abort(Ticker)
  <2>1. UNCHANGED <<cps, proofs>> /\ run'[Ticker] = NotRunning
    BY <1>3 DEF Abort, stores, AnchorInv, TablesInv
  <2> QED
    BY <2>1, SoleFrame DEF Ahead, Recorded, NotRunning, Reading
<1>4. CASE \E t \in Tenants, rec \in Recs : Seal(t, rec)
  BY <1>2, <1>4 DEF Seal, stores
<1>5. CASE \E put \in late : LatePut(put)
  BY <1>2, <1>5 DEF LatePut
<1>6. CASE UNCHANGED vars
  BY <1>2, <1>6 DEF vars
<1> QED
  BY <1>3, <1>4, <1>5, <1>6

\* The steps there are when the ticker's run is the only one.
LEMMA SoleSteps ==
    ASSUME Runs = {Ticker}, [Next]_vars
    PROVE  \/ AnchorAll(Ticker) \/ AnchorAllDone(Ticker)
           \/ \E t \in Tenants : LastCheckpoint(Ticker, t)
           \/ EntriesAsc(Ticker) \/ BuildWindow(Ticker) \/ WormGet(Ticker) \/ WindowDone(Ticker)
           \/ WormPut(Ticker) \/ PutCheckpoint(Ticker) \/ StampAndPutProof(Ticker)
           \/ Abort(Ticker)
           \/ \E t \in Tenants, rec \in Recs : Seal(t, rec)
           \/ \E put \in late : LatePut(put)
           \/ UNCHANGED vars
BY DEF Next, Step

LEMMA SoleInvariance ==
    ASSUME Runs = {Ticker}
    PROVE  Spec => [](AnchorInv /\ SoleInv)
<1>1. Init => SoleInv
  BY DEF Init, EmptyMap, NotRunning, SoleInv, Ahead, Recorded, ProofAttestsRecord, Reading
<1>2. AnchorInv /\ SoleInv /\ [Next]_vars => SoleInv'
  <2> SUFFICES ASSUME AnchorInv, SoleInv, [Next]_vars PROVE SoleInv'
    OBVIOUS
  <2> Ticker \in Runs
    BY AnchorerConstants
  <2> QED
    BY SoleSteps, SoleMoveStep, SoleWriteStep, SoleOtherStep, Zenon
<1> QED
  BY <1>1, <1>2, AnchorInvariance, PTL DEF Spec

\* ProofAttestsRecord: "PutProof" keys a proof by the end of the window it was
\* made for, so the proofs held are for the checkpoints recorded, whatever
\* fails and whatever lands late, unless two runs build one window.
THEOREM ProofsAttestRecords ==
    ASSUME Runs = {Ticker}
    PROVE  Spec => []ProofAttestsRecord
<1>1. SoleInv => ProofAttestsRecord
  BY DEF SoleInv
<1> QED
  BY <1>1, SoleInvariance, PTL

-----------------------------------------------------------------------------
(* The two requests of Put are one step of a write-once store.             *)

\* The steps of a run that succeed leave the faults and the late puts alone.
LEMMA SoleKeepsLate ==
    ASSUME \/ AnchorAll(Ticker) \/ AnchorAllDone(Ticker)
           \/ \E t \in Tenants : LastCheckpoint(Ticker, t)
           \/ EntriesAsc(Ticker) \/ BuildWindow(Ticker) \/ WormGet(Ticker) \/ WindowDone(Ticker)
           \/ WormPut(Ticker) \/ PutCheckpoint(Ticker) \/ StampAndPutProof(Ticker)
    PROVE  UNCHANGED <<late, faults>>
BY DEF AnchorAll, AnchorAllDone, LastCheckpoint, EntriesAsc, BuildWindow, WormGet, WindowDone,
   WormPut, PutCheckpoint, StampAndPutProof

LEMMA KeyFreeStep ==
    ASSUME AnchorInv, KeyFree, Runs = {Ticker}, ~LatePuts, [Next]_vars
    PROVE  KeyFree'
<1> DEFINE x == run[Ticker]
           y == run'[Ticker]
<1> Ticker \in Runs
  OBVIOUS
<1>1. ASSUME late' = {}, y.pc # "put" PROVE KeyFree'
  BY <1>1 DEF KeyFree
<1>2. late = {}
  BY DEF KeyFree
<1>3. ASSUME UNCHANGED <<worm, late, run>> PROVE KeyFree'
  BY <1>3 DEF KeyFree
<1>4. CASE AnchorAll(Ticker) \/ AnchorAllDone(Ticker)
  BY <1>1, <1>2, <1>4, MoveEffect, SoleKeepsLate
<1>5. CASE \E t \in Tenants : LastCheckpoint(Ticker, t)
  BY <1>1, <1>2, <1>5, MoveEffect, SoleKeepsLate
<1>6. CASE EntriesAsc(Ticker) \/ BuildWindow(Ticker) \/ WindowDone(Ticker)
  <2>1. y.pc \in {"tenant", "build", "get"}
    BY <1>6, MoveEffect
  <2> QED
    BY <1>1, <1>2, <1>6, <2>1, SoleKeepsLate
<1>7. CASE WormGet(Ticker)
  <2>1. /\ UNCHANGED stores
        /\ y.pc = IF x.cp.seqEnd \in DOMAIN worm[x.tenant] THEN "record" ELSE "put"
        /\ y.tenant = x.tenant /\ y.cp = x.cp
    BY <1>7, MoveEffect
  <2> QED
    BY <1>2, <1>7, <2>1, SoleKeepsLate DEF KeyFree, stores
<1>8. CASE WormPut(Ticker) \/ PutCheckpoint(Ticker) \/ StampAndPutProof(Ticker)
  <2>1. y.pc \in {"record", "stamp"}
    BY <1>8, WriteEffect
  <2> QED
    BY <1>1, <1>2, <1>8, <2>1, SoleKeepsLate
<1>9. CASE Abort(Ticker)
  <2>1. y = NotRunning /\ late' = late
    BY <1>9 DEF Abort, AnchorInv, TablesInv
  <2> QED
    BY <1>1, <1>2, <2>1 DEF NotRunning
<1>10. CASE \E t \in Tenants, rec \in Recs : Seal(t, rec)
  BY <1>3, <1>10 DEF Seal, stores
<1>11. CASE \E put \in late : LatePut(put)
  BY <1>2, <1>11
<1>12. CASE UNCHANGED vars
  BY <1>3, <1>12 DEF vars, stores
<1> QED
  BY <1>4, <1>5, <1>6, <1>7, <1>8, <1>9, <1>10, <1>11, <1>12, SoleSteps

\* Every step fills one free key of the store or leaves the store alone.
LEMMA MemStoreStep ==
    ASSUME AnchorInv, KeyFree, Runs = {Ticker}, [Next]_vars
    PROVE  [MemStore!Next]_worm
<1> DEFINE x   == run[Ticker]
           t   == x.tenant
           end == x.cp.seqEnd
<1> Ticker \in Runs
  OBVIOUS
<1>1. CASE UNCHANGED stores \/ UNCHANGED worm
  BY <1>1 DEF stores
<1>2. CASE WormPut(Ticker)
  <2>1. /\ x.pc = "put" /\ worm'[t] = With(worm[t], end, x.cp)
        /\ \A u \in Tenants \ {t} : worm'[u] = worm[u]
    BY <1>2, WriteEffect
  <2>2. t \in Tenants
    BY <2>1, LocalsKnown DEF Writing
  <2>3. end \notin DOMAIN worm[t]
    BY <2>1 DEF KeyFree
  <2> DEFINE w == worm'[t]
  <2>4. /\ DOMAIN w = DOMAIN worm[t] \cup {end} /\ w[end] = x.cp
        /\ \A e \in DOMAIN worm[t] \ {end} : w[e] = worm[t][e]
    BY <2>1 DEF With
  <2>5. MemStore!Put(t)
    <3>1. \A e \in DOMAIN worm[t] : w[e] = worm[t][e]
      BY <2>3, <2>4
    <3>2. end \in DOMAIN w \ DOMAIN worm[t] /\ w[end].seqEnd = end
      BY <2>3, <2>4
    <3> QED
      BY <2>1, <2>4, <3>1, <3>2 DEF MemStore!Put
  <2> QED
    BY <2>2, <2>5 DEF MemStore!Next
<1>3. CASE PutCheckpoint(Ticker) \/ StampAndPutProof(Ticker)
  BY <1>1, <1>3, WriteEffect
<1>4. CASE \/ AnchorAll(Ticker) \/ AnchorAllDone(Ticker)
           \/ \E u \in Tenants : LastCheckpoint(Ticker, u)
           \/ EntriesAsc(Ticker) \/ BuildWindow(Ticker) \/ WormGet(Ticker) \/ WindowDone(Ticker)
  BY <1>1, <1>4, MoveEffect
<1>5. CASE \/ Abort(Ticker) \/ \E u \in Tenants, rec \in Recs : Seal(u, rec)
           \/ UNCHANGED vars
  BY <1>1, <1>5 DEF Abort, Seal, stores, vars
<1>6. CASE \E put \in late : LatePut(put)
  BY <1>6 DEF KeyFree
<1> QED
  BY <1>2, <1>3, <1>4, <1>5, <1>6, SoleSteps

\* ImplementsMemStore: one run at a time, s3worm.Put's look and PutObject come
\* to the one step of MemStore.Put, whatever fails between them, as long as no
\* PutObject lands after its caller gave up.
THEOREM WormIsWriteOnce ==
    ASSUME Runs = {Ticker}, ~LatePuts
    PROVE  Spec => ImplementsMemStore
<1>1. Init => KeyFree
  BY AnchorerConstants DEF Init, KeyFree, NotRunning
<1>2. Init => MemStore!Init
  BY DEF Init, MemStore!Init, EmptyMap
<1>3. AnchorInv /\ KeyFree /\ [Next]_vars => KeyFree'
  BY KeyFreeStep
<1>4. AnchorInv /\ KeyFree /\ [Next]_vars => [MemStore!Next]_worm
  BY MemStoreStep
<1> QED
  BY <1>1, <1>2, <1>3, <1>4, AnchorInvariance, PTL DEF Spec, ImplementsMemStore, MemStore!Spec

\* ErrImmutable, "refusing to overwrite an already-anchored checkpoint": the
\* write-once store's promise, which two overlapping runs break.
THEOREM WormNeverChanges ==
    ASSUME Runs = {Ticker}, ~LatePuts
    PROVE  Spec => WormImmutable
<1>1. Init => KeyFree
  BY AnchorerConstants DEF Init, KeyFree, NotRunning
<1>2. AnchorInv /\ KeyFree /\ [Next]_vars => KeyFree'
  BY KeyFreeStep
<1>3. AnchorInv /\ KeyFree /\ [Next]_vars =>
         [\A t \in Tenants : \A e \in DOMAIN worm[t] :
             e \in DOMAIN worm'[t] /\ worm'[t][e] = worm[t][e]]_vars
  <2> SUFFICES ASSUME [MemStore!Next]_worm, NEW t \in Tenants, NEW e \in DOMAIN worm[t]
               PROVE  e \in DOMAIN worm'[t] /\ worm'[t][e] = worm[t][e]
    BY MemStoreStep
  <2>1. CASE UNCHANGED worm
    BY <2>1
  <2>2. CASE MemStore!Next
    BY <2>2 DEF MemStore!Next, MemStore!Put
  <2> QED
    BY <2>1, <2>2
<1> QED
  BY <1>1, <1>2, <1>3, AnchorInvariance, PTL DEF Spec, WormImmutable

-----------------------------------------------------------------------------
(* While no run has ended early, WORM holds one chain and Postgres a copy. *)

\* A map whose keys all lie below n links the next object to its last one.
LEMMA BelowAll ==
    ASSUME NEW objects, DOMAIN objects \subseteq Nat,
           NEW n \in Nat, NEW m \in Nat, n <= m, \A e \in DOMAIN objects : e < n
    PROVE  /\ Below(objects, m) = DOMAIN objects
           /\ PrevId(objects, m) = IF DOMAIN objects = {} THEN <<>>
                                   ELSE objects[Max(DOMAIN objects)].id
<1>1. Below(objects, m) = DOMAIN objects
  BY DEF Below
<1> QED
  BY <1>1 DEF PrevId

\* An object written behind all others changes no link.
LEMMA LinkedWith ==
    ASSUME NEW objects, DOMAIN objects \subseteq Nat, Linked(objects),
           NEW end \in Nat, \A e \in DOMAIN objects : e < end,
           NEW cp, cp.prev = PrevId(objects, end)
    PROVE  Linked(With(objects, end, cp))
<1> DEFINE w == With(objects, end, cp)
<1>1. /\ DOMAIN w = DOMAIN objects \cup {end} /\ w[end] = cp
      /\ \A e \in DOMAIN objects \ {end} : w[e] = objects[e]
  BY DEF With
<1>2. end \notin DOMAIN objects
  BY DEF Linked
<1> HIDE DEF w
<1>3. ASSUME NEW e \in DOMAIN w PROVE PrevId(w, e) = PrevId(objects, e)
  <2>1. e \in Nat /\ e <= end
    BY <1>1
  <2>2. Below(w, e) = Below(objects, e)
    BY <1>1, <2>1 DEF Below
  <2>3. ASSUME Below(objects, e) # {}
        PROVE  w[Max(Below(objects, e))] = objects[Max(Below(objects, e))]
    <3> DEFINE S == Below(objects, e)
    <3>1. S \subseteq Nat /\ \A m \in S : m <= e
      BY <2>1 DEF Below
    <3>2. PICK last \in S : \A m \in S : last >= m
      BY <2>1, <2>3, <3>1, LargestElement
    <3>3. Max(S) = last
      BY <3>1, <3>2, MaxIsLast
    <3>4. last \in DOMAIN objects \ {end}
      BY <1>2 DEF Below
    <3> QED
      BY <1>1, <3>3, <3>4
  <2> QED
    BY <2>2, <2>3 DEF PrevId
<1>4. ASSUME NEW e \in DOMAIN w PROVE w[e].prev = PrevId(w, e)
  <2>1. CASE e = end
    BY <1>1, <1>3, <2>1
  <2>2. CASE e # end
    <3>1. e \in DOMAIN objects /\ w[e] = objects[e]
      BY <1>1, <2>2
    <3> QED
      BY <1>3, <3>1 DEF Linked
  <2> QED
    BY <2>1, <2>2
<1> QED
  BY <1>4 DEF Linked, w

\* FaultFree with its hypothesis taken off.
OneChain ==
    /\ late = {}
    /\ \A t \in Tenants : Linked(worm[t]) /\ Copied(t)
    /\ LinksOn(run[Ticker])

\* What a step of the run starts from: the copy is exact, or lacks the
\* checkpoint that is about to be recorded.
LEMMA OneChainKnown ==
    ASSUME AnchorInv, SoleInv, OneChain, Ticker \in Runs
    PROVE  LET x == run[Ticker]
           IN  /\ \A t \in Tenants : /\ DOMAIN cps[t] \subseteq Nat
                                     /\ x.pc # "record" \/ t # x.tenant => worm[t] = cps[t]
               /\ x.pc = "record" =>
                     worm[x.tenant] = With(cps[x.tenant], x.cp.seqEnd, x.cp)
               /\ x.pc \in {"get", "put", "record"} =>
                     /\ x.tenant \in Tenants /\ x.cp.seqEnd \in Nat
                     /\ \A e \in DOMAIN cps[x.tenant] : e < x.cp.seqEnd
<1> DEFINE x == run[Ticker]
<1>1. ASSUME NEW t \in Tenants PROVE DOMAIN cps[t] \subseteq Nat
  BY KeysKnown
<1>2. ASSUME NEW t \in Tenants, x.pc # "record" \/ t # x.tenant PROVE worm[t] = cps[t]
  BY <1>2 DEF OneChain, Copied
<1>3. x.pc \in {"get", "put", "record"} =>
         x.tenant \in Tenants /\ x.cp.seqEnd \in Nat /\ x.next \in Nat /\ x.next <= x.cp.seqEnd
  BY LocalsKnown DEF Writing
<1>4. ASSUME x.pc = "record" PROVE worm[x.tenant] = With(cps[x.tenant], x.cp.seqEnd, x.cp)
  BY <1>3, <1>4 DEF OneChain, Copied
<1>5. ASSUME x.pc \in {"get", "put", "record"}, NEW e \in DOMAIN cps[x.tenant]
      PROVE  e < x.cp.seqEnd
  <2>1. e \in Nat
    BY <1>1, <1>3, <1>5
  <2>2. e < x.next
    BY <1>5 DEF SoleInv, Ahead
  <2> QED
    BY <1>3, <1>5, <2>1, <2>2
<1> QED
  BY <1>1, <1>2, <1>3, <1>4, <1>5

\* A step that leaves the tables alone and the run not about to record.
LEMMA OneChainFrame ==
    ASSUME AnchorInv, SoleInv, OneChain, Ticker \in Runs,
           UNCHANGED <<worm, cps, late>>, run[Ticker].pc # "record",
           run'[Ticker].pc # "record", LinksOn(run[Ticker])'
    PROVE  OneChain'
<1>1. ASSUME NEW t \in Tenants PROVE worm[t] = cps[t]
  BY OneChainKnown
<1> QED
  BY <1>1 DEF OneChain, Copied

LEMMA OneChainMove ==
    ASSUME AnchorInv, AnchorInv', SoleInv, OneChain, Ticker \in Runs,
           \/ AnchorAll(Ticker) \/ AnchorAllDone(Ticker)
           \/ \E t \in Tenants : LastCheckpoint(Ticker, t)
           \/ EntriesAsc(Ticker) \/ BuildWindow(Ticker) \/ WormGet(Ticker) \/ WindowDone(Ticker)
    PROVE  OneChain'
<1> DEFINE x == run[Ticker]
           y == run'[Ticker]
<1>1. /\ Ahead(x) /\ Recorded(x) /\ LinksOn(x)
      /\ x.pc \in Reading \cup Writing => x.tenant \in Tenants
  BY LocalsKnown DEF SoleInv, OneChain
<1>2. late' = late
  BY SoleKeepsLate
<1>3. ASSUME UNCHANGED stores, x.pc # "record", y.pc \in {"idle", "tenant"} PROVE OneChain'
  BY <1>2, <1>3, OneChainFrame DEF stores, LinksOn, Reading
<1>4. CASE AnchorAll(Ticker) \/ AnchorAllDone(Ticker)
  <2>1. x.pc # "record"
    BY <1>4 DEF AnchorAll, AnchorAllDone
  <2> QED
    BY <1>3, <1>4, <2>1, MoveEffect
<1>5. ASSUME NEW t \in Tenants, LastCheckpoint(Ticker, t) PROVE OneChain'
  <2> DEFINE ends == DOMAIN cps[t]
             next == IF ends = {} THEN 0 ELSE Max(ends) + 1
  <2>1. /\ UNCHANGED stores /\ y.pc = "entries" /\ y.tenant = t /\ y.next = next
        /\ y.prev = IF ends = {} THEN <<>> ELSE cps[t][Max(ends)].id
    BY <1>5, MoveEffect
  <2>2. ends \subseteq Nat /\ (ends # {} => Max(ends) \in ends /\ \A e \in ends : Max(ends) >= e)
    BY KeysKnown
  <2>3. next \in Nat /\ \A e \in ends : e < next
    BY <2>2
  <2>4. y.prev = PrevId(cps[t], next)
    <3> HIDE DEF next
    <3>1. next \in Nat /\ next <= next /\ ends \subseteq Nat /\ \A e \in ends : e < next
      BY <2>2, <2>3
    <3>2. PrevId(cps[t], next) = IF ends = {} THEN <<>> ELSE cps[t][Max(ends)].id
      BY <3>1, BelowAll
    <3> QED
      BY <2>1, <3>2
  <2>5. x.pc = "tenant"
    BY <1>5 DEF LastCheckpoint
  <2> QED
    BY <1>2, <2>1, <2>4, <2>5, OneChainFrame DEF stores, LinksOn
<1>6. CASE EntriesAsc(Ticker)
  <2>1. /\ UNCHANGED stores /\ x.pc = "entries"
        /\ \/ y.pc = "tenant"
           \/ y.pc = "build" /\ y.tenant = x.tenant /\ y.next = x.next /\ y.prev = x.prev
    BY <1>6, MoveEffect
  <2> QED
    BY <1>1, <1>2, <1>3, <2>1, OneChainFrame DEF stores, LinksOn, Reading
<1>7. CASE BuildWindow(Ticker)
  <2>1. /\ UNCHANGED stores /\ x.pc = "build"
        /\ y.pc = "get" /\ y.tenant = x.tenant /\ y.next = x.next /\ y.cp.prev = x.prev
    BY <1>7, MoveEffect
  <2>2. y.tenant \in Tenants /\ y.next \in Nat /\ y.cp.seqEnd \in Nat /\ y.next <= y.cp.seqEnd
    BY <2>1, NextLocalsKnown DEF Writing
  <2>3. \A e \in DOMAIN cps[x.tenant] : e \in Nat /\ e < x.next
    BY <1>1, <2>1, KeysKnown DEF Ahead, Reading
  <2>4. PrevId(cps[x.tenant], y.cp.seqEnd) = PrevId(cps[x.tenant], x.next)
    <3> DEFINE objects == cps[x.tenant]
               n == x.next
    <3>1. PICK end \in Nat : end = y.cp.seqEnd
      BY <2>2
    <3>2. n \in Nat /\ n <= end /\ DOMAIN objects \subseteq Nat /\ \A e \in DOMAIN objects : e < n
      BY <2>1, <2>2, <2>3, <3>1
    <3> HIDE DEF objects, n
    <3>3. /\ PrevId(objects, end) = IF DOMAIN objects = {} THEN <<>>
                                    ELSE objects[Max(DOMAIN objects)].id
          /\ PrevId(objects, n) = IF DOMAIN objects = {} THEN <<>>
                                  ELSE objects[Max(DOMAIN objects)].id
      BY <3>2, BelowAll
    <3> QED
      BY <3>1, <3>3 DEF objects, n
  <2>5. x.prev = PrevId(cps[x.tenant], x.next)
    BY <1>1, <2>1 DEF LinksOn, Reading
  <2> QED
    BY <1>2, <2>1, <2>4, <2>5, OneChainFrame DEF stores, LinksOn, Reading
<1>8. CASE WormGet(Ticker)
  <2>1. /\ UNCHANGED stores /\ x.pc = "get"
        /\ y.pc = IF x.cp.seqEnd \in DOMAIN worm[x.tenant] THEN "record" ELSE "put"
        /\ y.tenant = x.tenant /\ y.cp = x.cp
    BY <1>8, MoveEffect
  <2>2. x.tenant \in Tenants /\ x.cp.seqEnd \notin DOMAIN cps[x.tenant]
    BY <2>1, OneChainKnown
  <2>3. y.pc = "put"
    BY <2>1, <2>2, OneChainKnown
  <2> QED
    BY <1>1, <1>2, <2>1, <2>3, OneChainFrame DEF stores, LinksOn, Reading
<1>9. CASE WindowDone(Ticker)
  <2>1. /\ UNCHANGED stores /\ x.pc = "stamp"
        /\ \/ y.pc = "tenant"
           \/ /\ y.pc = "build" /\ y.tenant = x.tenant
              /\ y.next = x.cp.seqEnd + 1 /\ y.prev = x.cp.id
    BY <1>9, MoveEffect
  <2>2. CASE y.pc = "tenant"
    BY <1>3, <2>1, <2>2
  <2>3. CASE y.pc = "build" /\ y.tenant = x.tenant /\ y.next = x.cp.seqEnd + 1 /\ y.prev = x.cp.id
    <3> DEFINE objects == cps[x.tenant]
               end == x.cp.seqEnd
    <3>1. /\ end \in Nat /\ DOMAIN objects \subseteq Nat
          /\ end \in DOMAIN objects /\ objects[end] = x.cp /\ \A e \in DOMAIN objects : e <= end
      BY <1>1, <2>1, LocalsKnown, KeysKnown DEF Recorded, Writing
    <3>2. Max(DOMAIN objects) = end
      <4> HIDE DEF objects, end
      <4> QED
        BY <3>1, MaxIsLast
    <3>3. PrevId(objects, end + 1) = objects[end].id
      <4> HIDE DEF objects, end
      <4>1. end + 1 \in Nat /\ \A e \in DOMAIN objects : e < end + 1
        BY <3>1
      <4> QED
        BY <3>1, <3>2, <4>1, BelowAll
    <3> QED
      BY <1>2, <2>1, <2>3, <3>1, <3>3, OneChainFrame DEF stores, LinksOn
  <2> QED
    BY <2>1, <2>2, <2>3
<1> QED
  BY <1>4, <1>5, <1>6, <1>7, <1>8, <1>9

LEMMA OneChainWrite ==
    ASSUME AnchorInv, SoleInv, OneChain, Ticker \in Runs,
           WormPut(Ticker) \/ PutCheckpoint(Ticker) \/ StampAndPutProof(Ticker)
    PROVE  OneChain'
<1> DEFINE x   == run[Ticker]
           y   == run'[Ticker]
           t   == x.tenant
           end == x.cp.seqEnd
<1>1. late' = late /\ late = {}
  BY SoleKeepsLate DEF OneChain
<1>2. CASE WormPut(Ticker)
  <2>1. /\ x.pc = "put" /\ UNCHANGED cps
        /\ worm'[t] = With(worm[t], end, x.cp)
        /\ \A u \in Tenants \ {t} : worm'[u] = worm[u]
        /\ y.pc = "record" /\ y.tenant = t /\ y.cp = x.cp
    BY <1>2, WriteEffect
  <2>2. /\ t \in Tenants /\ end \in Nat /\ DOMAIN cps[t] \subseteq Nat
        /\ \A e \in DOMAIN cps[t] : e < end
    BY <2>1, OneChainKnown
  <2>3. \A u \in Tenants : worm[u] = cps[u]
    BY <2>1, OneChainKnown
  <2>4. Linked(worm'[t])
    <3>1. Linked(cps[t]) /\ x.cp.prev = PrevId(cps[t], end)
      BY <2>1, <2>2, <2>3 DEF OneChain, LinksOn
    <3>2. Linked(With(cps[t], end, x.cp))
      <4> DEFINE objects == cps[t]
                 cp == x.cp
      <4>1. PICK n \in Nat : n = end
        BY <2>2
      <4>2. /\ DOMAIN objects \subseteq Nat /\ \A e \in DOMAIN objects : e < n
            /\ Linked(objects) /\ cp.prev = PrevId(objects, n)
        BY <2>2, <3>1, <4>1
      <4> HIDE DEF objects, cp
      <4>3. Linked(With(objects, n, cp))
        BY <4>2, LinkedWith
      <4> QED
        BY <4>1, <4>3 DEF objects, cp
    <3> QED
      BY <2>1, <2>2, <2>3, <3>2
  <2>5. ASSUME NEW u \in Tenants PROVE Linked(worm'[u]) /\ Copied(u)'
    <3>1. CASE u = t
      BY <2>1, <2>2, <2>3, <2>4, <3>1 DEF Copied
    <3>2. CASE u # t
      BY <2>1, <2>3, <3>2 DEF Copied, OneChain
    <3> QED
      BY <3>1, <3>2
  <2> QED
    BY <1>1, <2>1, <2>5 DEF OneChain, LinksOn, Reading
<1>3. CASE PutCheckpoint(Ticker)
  <2>1. /\ x.pc = "record" /\ UNCHANGED worm
        /\ cps'[t] = InsertOnce(cps[t], end, x.cp)
        /\ \A u \in Tenants \ {t} : cps'[u] = cps[u]
        /\ y.pc = "stamp" /\ y.tenant = t
    BY <1>3, WriteEffect
  <2>2. /\ t \in Tenants /\ end \in Nat
        /\ \A e \in DOMAIN cps[t] : e < end
        /\ worm[t] = With(cps[t], end, x.cp)
    BY <2>1, OneChainKnown
  <2>3. cps'[t] = With(cps[t], end, x.cp)
    <3>1. end \notin DOMAIN cps[t]
      BY <2>2
    <3> QED
      BY <2>1, <3>1 DEF InsertOnce
  <2>4. ASSUME NEW u \in Tenants PROVE worm'[u] = cps'[u]
    <3>1. u # t => worm[u] = cps[u]
      BY OneChainKnown
    <3> QED
      BY <2>1, <2>2, <2>3, <3>1
  <2> QED
    BY <1>1, <2>1, <2>4 DEF OneChain, Copied, LinksOn, Reading
<1>4. CASE StampAndPutProof(Ticker)
  <2>1. /\ x.pc = "stamp" /\ UNCHANGED <<worm, cps>> /\ y.pc = "stamp"
    BY <1>4, WriteEffect
  <2> QED
    BY <1>1, <2>1, OneChainFrame DEF LinksOn, Reading
<1> QED
  BY <1>2, <1>3, <1>4

LEMMA FaultFreeStep ==
    ASSUME AnchorInv, AnchorInv', SoleInv, FaultFree, Runs = {Ticker}, [Next]_vars
    PROVE  FaultFree'
<1> Ticker \in Runs
  OBVIOUS
<1>1. ASSUME faults' = faults, OneChain => OneChain' PROVE FaultFree'
  BY <1>1 DEF FaultFree, OneChain
<1>2. CASE \/ AnchorAll(Ticker) \/ AnchorAllDone(Ticker)
           \/ \E t \in Tenants : LastCheckpoint(Ticker, t)
           \/ EntriesAsc(Ticker) \/ BuildWindow(Ticker) \/ WormGet(Ticker) \/ WindowDone(Ticker)
  <2>1. OneChain => OneChain'
    BY <1>2, OneChainMove
  <2> QED
    BY <1>1, <1>2, <2>1, SoleKeepsLate
<1>3. CASE WormPut(Ticker) \/ PutCheckpoint(Ticker) \/ StampAndPutProof(Ticker)
  <2>1. OneChain => OneChain'
    BY <1>3, OneChainWrite
  <2> QED
    BY <1>1, <1>3, <2>1, SoleKeepsLate
<1>4. CASE Abort(Ticker)
  <2>1. faults \in Nat /\ faults' = faults + 1
    BY <1>4, AnchorerConstants DEF Abort, AnchorInv, TablesInv
  <2> QED
    BY <2>1 DEF FaultFree
<1>5. CASE \E t \in Tenants, rec \in Recs : Seal(t, rec)
  BY <1>1, <1>5 DEF Seal, stores, OneChain, Copied, LinksOn
<1>6. CASE \E put \in late : LatePut(put)
  <2>1. ~OneChain /\ faults' = faults
    BY <1>6 DEF OneChain, LatePut
  <2> QED
    BY <1>1, <2>1
<1>7. CASE UNCHANGED vars
  BY <1>1, <1>7 DEF vars, stores, OneChain, Copied, LinksOn
<1> QED
  BY <1>2, <1>3, <1>4, <1>5, <1>6, <1>7, SoleSteps

LEMMA FaultFreeInvariance ==
    ASSUME Runs = {Ticker}
    PROVE  Spec => [](AnchorInv /\ SoleInv /\ FaultFree)
<1>1. Init => FaultFree
  BY AnchorerConstants DEF Init, FaultFree, Linked, Copied, LinksOn, EmptyMap, NotRunning, Reading
<1>2. AnchorInv /\ AnchorInv' /\ SoleInv /\ FaultFree /\ [Next]_vars => FaultFree'
  BY FaultFreeStep
<1> QED
  BY <1>1, <1>2, SoleInvariance, PTL DEF Spec

\* "the full document is the same JSON written to WORM": true of the working
\* copy as long as every run got to its end.
THEOREM WorkingCopyIsExact ==
    ASSUME Runs = {Ticker}
    PROVE  Spec => [](faults = 0 => WorkingCopyMatchesWorm)
<1>1. AnchorInv /\ SoleInv /\ FaultFree => (faults = 0 => WorkingCopyMatchesWorm)
  <2> SUFFICES ASSUME AnchorInv, SoleInv, OneChain, NEW t \in Tenants, NEW e \in DOMAIN cps[t]
               PROVE  e \in DOMAIN worm[t] /\ cps[t][e] = worm[t][e]
    BY DEF FaultFree, OneChain, WorkingCopyMatchesWorm
  <2> DEFINE x == run[Ticker]
  <2>1. CASE x.pc # "record" \/ t # x.tenant
    <3>1. worm[t] = cps[t]
      BY <2>1, OneChainKnown, AnchorerConstants
    <3> QED
      BY <3>1
  <2>2. CASE x.pc = "record" /\ t = x.tenant
    <3>1. worm[t] = With(cps[t], x.cp.seqEnd, x.cp) /\ e < x.cp.seqEnd /\ x.cp.seqEnd \in Nat
      BY <2>2, OneChainKnown, AnchorerConstants
    <3>2. e # x.cp.seqEnd
      BY <3>1
    <3> QED
      BY <3>1, <3>2 DEF With
  <2> QED
    BY <2>1, <2>2
<1> QED
  BY <1>1, FaultFreeInvariance, PTL

-----------------------------------------------------------------------------
(* What passes.                                                            *)

\* VerifyBinds of any rows whatever, not only of those that form a chain of
\* themselves: if verification of rows that are there at all reports nothing,
\* they agree with what was sealed wherever a WORM object covers it.
AnyRowsBind ==
    \A t \in Tenants : \A rows :
        /\ IsSequence(rows)
        /\ rows # <<>>
        /\ TenantIssues(t, rows, WormAll(t), proofs[t], NotaryNames) = {}
        => \A s \in 0 .. Len(log[t]) - 1 :
              Covered(t, s) => s < Len(rows) /\ rows[s + 1].rec = log[t][s + 1]

\* The last hash of a window of the log.
LEMMA SliceHead ==
    ASSUME NEW t \in Tenants, log[t] \in Seq(Recs),
           NEW from \in Nat, NEW to \in Nat, from < to, to <= Len(log[t])
    PROVE  LET slice == Slice(t, from, to)
           IN  slice[Len(slice)].hash = Chain!ChainDigest(t, log[t], to)
<1> DEFINE es == Chain!Entries(t, log[t])
           S  == {es[n] : n \in 1 .. Len(log[t])}
<1>1. /\ es = [n \in 1 .. Len(log[t]) |-> es[n]] /\ Len(log[t]) \in Nat
      /\ \A n \in 1 .. Len(log[t]) : es[n].hash = Chain!ChainDigest(t, log[t], n)
  BY DEF Chain!Entries
<1>2. Slice(t, from, to) = SubSeq(es, from + 1, to)
  BY DEF Slice
<1> HIDE DEF es
<1>3. \A i \in from + 1 .. to : es[i] \in S
  BY <1>1
<1> HIDE DEF S
<1>4. /\ Len(SubSeq(es, from + 1, to)) = to - from
      /\ SubSeq(es, from + 1, to)[to - from] = es[to]
  <2>1. /\ Len(SubSeq(es, from + 1, to)) = IF from + 1 <= to THEN to - (from + 1) + 1 ELSE 0
        /\ \A i \in 1 .. to - (from + 1) + 1 : SubSeq(es, from + 1, to)[i] = es[from + 1 + i - 1]
    BY <1>3, SubSeqProperties
  <2>2. /\ to - from \in 1 .. to - (from + 1) + 1 /\ from + 1 + (to - from) - 1 = to
        /\ from + 1 <= to /\ to - (from + 1) + 1 = to - from
    OBVIOUS
  <2>3. SubSeq(es, from + 1, to)[to - from] = es[from + 1 + (to - from) - 1]
    BY <2>1, <2>2
  <2> QED
    BY <2>1, <2>2, <2>3
<1>5. to \in 1 .. Len(log[t])
  BY <1>1
<1> QED
  BY <1>1, <1>2, <1>4, <1>5

\* What holds of AnchorInv's states.
LEMMA AnchoredBinds ==
    ASSUME AnchorInv
    PROVE  AnyRowsBind
<1> SUFFICES ASSUME NEW t \in Tenants, NEW rows, IsSequence(rows), rows # <<>>,
                    TenantIssues(t, rows, WormAll(t), proofs[t], NotaryNames) = {},
                    NEW e \in DOMAIN worm[t], NEW s \in 0 .. Len(log[t]) - 1,
                    worm[t][e].seqStart <= s, s <= worm[t][e].seqEnd
             PROVE  s < Len(rows) /\ rows[s + 1].rec = log[t][s + 1]
  BY DEF AnyRowsBind, Covered
<1> DEFINE cp == worm[t][e]
<1>1. /\ cp.seqEnd = e /\ Windowed(cp) /\ cp.seqEnd < Len(log[t])
      /\ cp = Build(t, Slice(t, cp.seqStart, cp.seqEnd + 1), cp.prev, cp.anchoredAt)
      /\ log[t] \in Seq(Recs)
  BY DEF AnchorInv, WormInv, TablesInv, Writable, Truthful, Windowed
<1>2. PICK k \in 1 .. Len(WormAll(t)) : WormAll(t)[k] = cp
  <2> DEFINE objects == worm[t]
  <2>1. Len(log[t]) \in Nat /\ \A d \in DOMAIN objects : d \in Nat /\ d <= Len(log[t])
    BY <1>1 DEF AnchorInv, WormInv, Writable, Truthful
  <2> HIDE DEF objects
  <2>2. /\ Len(All(objects)) = Cardinality(DOMAIN objects)
        /\ \A i \in 1 .. Cardinality(DOMAIN objects) :
              All(objects)[i] = objects[InOrder(DOMAIN objects)[i]]
        /\ \A d \in DOMAIN objects :
              \E i \in 1 .. Cardinality(DOMAIN objects) : InOrder(DOMAIN objects)[i] = d
    BY <2>1, AllLists
  <2> QED
    BY <2>2 DEF WormAll, objects
<1>3. /\ ChainIssues(t, rows) = {}
      /\ CheckpointIssues(t, rows, WormAll(t), proofs[t], NotaryNames, k) = {}
  BY DEF TenantIssues
<1>4. SealedRows(t, rows)
  BY <1>3, ChainVerificationExact
<1> DEFINE window == Slice(t, cp.seqStart, cp.seqEnd + 1)
           n      == cp.seqEnd + 1
<1>5. /\ cp.seqEnd < Len(rows)
      /\ window[Len(window)].hash = RowDigest(t, rows, n)
  <2>1. WormAll(t)[k] = Build(t, window, cp.prev, cp.anchoredAt) /\ Windowed(WormAll(t)[k])
    BY <1>1, <1>2
  <2> HIDE DEF window, cp, n
  <2>2. /\ WormAll(t)[k].seqEnd < Len(rows)
        /\ window[Len(window)].hash = RowDigest(t, rows, WormAll(t)[k].seqEnd + 1)
    BY <1>3, <1>4, <2>1, PassedCheckpoint
  <2> QED
    BY <1>2, <2>2 DEF n
<1>6. /\ n \in Nat /\ cp.seqStart \in Nat /\ cp.seqStart < n /\ n <= Len(log[t])
      /\ s + 1 \in 1 .. n /\ Len(log[t]) \in Nat
  BY <1>1 DEF Windowed
<1>7. window[Len(window)].hash = Chain!ChainDigest(t, log[t], n)
  <2>1. PICK from \in Nat : from = cp.seqStart
    BY <1>6
  <2> HIDE DEF window, n
  <2>2. LET slice == Slice(t, from, n)
        IN  slice[Len(slice)].hash = Chain!ChainDigest(t, log[t], n)
    BY <1>1, <1>6, <2>1, SliceHead
  <2> QED
    BY <2>1, <2>2 DEF window, n
<1>8. rows[s + 1].rec = log[t][s + 1]
  <2>1. Chain!ChainDigest(t, log[t], n).leaves[s + 1] = EntryLeaf(t, (s + 1) - 1, log[t][s + 1])
    BY <1>6 DEF Chain!ChainDigest, Chain!EntryLeaf, EntryLeaf
  <2>2. RowDigest(t, rows, n).leaves[s + 1] = EntryLeaf(t, (s + 1) - 1, rows[s + 1].rec)
    BY <1>6 DEF RowDigest
  <2> QED
    BY <1>5, <1>7, <2>1, <2>2 DEF EntryLeaf
<1> QED
  BY <1>1, <1>5, <1>8 DEF IsSequence, Windowed

\* Verification passes only on rows that are what was sealed, wherever WORM
\* covers it, whatever else the rows may be.
THEOREM AnyRowsBound == Spec => []AnyRowsBind
BY AnchoredBinds, AnchorInvariance, PTL

\* A sequence of records read back in one query.
LEMMA RowsRead ==
    ASSUME NEW t, NEW recs, IsSequence(recs), Len(recs) > 0
    PROVE  LET rows == AllEntries(t, recs)
           IN  /\ IsSequence(rows) /\ rows # <<>> /\ Len(rows) <= Len(recs)
               /\ \A i \in 1 .. Len(rows) : rows[i] = Chain!Entries(t, recs)[i]
<1> DEFINE es   == Chain!Entries(t, recs)
           m    == Min({Len(recs), QueryLimit})
           S    == {es[n] : n \in 1 .. Len(recs)}
           rows == SubSeq(es, 1, m)
<1>1. m \in Nat /\ m >= 1 /\ m <= Len(recs)
  <2>1. Len(recs) \in Nat /\ QueryLimit \in Nat /\ QueryLimit >= 1
    BY AnchorerConstants DEF IsSequence
  <2>2. m = IF Len(recs) <= QueryLimit THEN Len(recs) ELSE QueryLimit
    BY <2>1, MinOfTwo
  <2> QED
    BY <2>1, <2>2
<1>2. \A i \in 1 .. m : es[i] \in S
  BY <1>1 DEF IsSequence
<1>3. AllEntries(t, recs) = rows
  BY DEF AllEntries
<1> HIDE DEF es, m, S
<1>4. Len(rows) = m /\ \A i \in 1 .. m : rows[i] = es[i]
  <2>1. /\ Len(rows) = IF 1 <= m THEN m - 1 + 1 ELSE 0
        /\ \A i \in 1 .. m - 1 + 1 : rows[i] = es[1 + i - 1]
    BY <1>1, <1>2, SubSeqProperties
  <2>2. m - 1 + 1 = m /\ \A i \in 1 .. m : 1 + i - 1 = i
    BY <1>1
  <2> QED
    BY <1>1, <2>1, <2>2
<1> HIDE DEF rows
<1>5. IsSequence(rows) /\ rows # <<>> /\ Len(rows) <= Len(recs)
  BY <1>1, <1>4 DEF IsSequence
<1> QED
  BY <1>3, <1>4, <1>5 DEF es

\* In particular rewriting history and the whole chain behind it does not pass.
THEOREM VerificationBinds == Spec => []VerifyBinds
<1>1. ASSUME AnchorInv PROVE VerifyBinds
  <2> SUFFICES ASSUME NEW t \in Tenants, NEW recs \in BoundedSeq(Recs, MaxLog) \ {<<>>},
                      IssuesGiven(t, recs) = {}, NEW s \in CoveredSeqs(t)
               PROVE  s < Len(recs) /\ recs[s + 1] = log[t][s + 1]
    BY DEF VerifyBinds
  <2> DEFINE rows == AllEntries(t, recs)
  <2>1. IsSequence(recs) /\ Len(recs) > 0
    <3>1. PICK m \in 0 .. MaxLog : recs \in [1 .. m -> Recs]
      BY DEF BoundedSeq, SeqOf
    <3>2. m \in Nat /\ Len(recs) = m
      BY <3>1, AnchorerConstants
    <3>3. recs # <<>> /\ recs \in Seq(Recs)
      BY <3>1, <3>2
    <3> QED
      BY <3>2, <3>3 DEF IsSequence
  <2>2. /\ IsSequence(rows) /\ rows # <<>> /\ Len(rows) <= Len(recs)
        /\ \A i \in 1 .. Len(rows) : rows[i] = Chain!Entries(t, recs)[i]
    BY <2>1, RowsRead
  <2>3. s \in 0 .. Len(log[t]) - 1 /\ Covered(t, s)
    <3>1. Covered(t, s) /\ s \in Nat
      BY AnchorerConstants DEF CoveredSeqs
    <3>2. PICK e \in DOMAIN worm[t] : worm[t][e].seqStart <= s /\ s <= worm[t][e].seqEnd
      BY <3>1 DEF Covered
    <3>3. worm[t][e].seqEnd \in Nat /\ worm[t][e].seqEnd < Len(log[t]) /\ log[t] \in Seq(Recs)
      BY <1>1 DEF AnchorInv, TablesInv, WormInv, Writable, Truthful
    <3>4. Len(log[t]) \in Nat
      BY <3>3
    <3> QED
      BY <3>1, <3>2, <3>3, <3>4
  <2>4. TenantIssues(t, rows, WormAll(t), proofs[t], NotaryNames) = {}
    BY DEF IssuesGiven
  <2> HIDE DEF rows
  <2>5. s < Len(rows) /\ rows[s + 1].rec = log[t][s + 1]
    BY <1>1, <2>2, <2>3, <2>4, AnchoredBinds DEF AnyRowsBind
  <2>6. s + 1 \in 1 .. Len(rows) /\ s + 1 \in 1 .. Len(recs)
    BY <2>1, <2>2, <2>3, <2>5 DEF IsSequence
  <2>7. rows[s + 1].rec = recs[s + 1]
    <3>1. Chain!Entries(t, recs)[s + 1].rec = recs[s + 1]
      BY <2>6 DEF Chain!Entries
    <3> QED
      BY <2>2, <2>6, <3>1
  <2>8. s < Len(recs)
    BY <2>1, <2>3, <2>6 DEF IsSequence
  <2> QED
    BY <2>5, <2>7, <2>8
<1> QED
  BY <1>1, AnchorInvariance, PTL

\* The rows the sealer makes of any records are sealed rows.
LEMMA EntriesAreSealed ==
    ASSUME NEW t, NEW recs, IsSequence(recs)
    PROVE  LET rows == Chain!Entries(t, recs)
           IN  IsSequence(rows) /\ Len(rows) = Len(recs) /\ SealedRows(t, rows)
<1> DEFINE rows == Chain!Entries(t, recs)
<1>1. /\ Len(rows) = Len(recs)
      /\ \A n \in 1 .. Len(recs) : /\ rows[n].seq = n - 1
                                   /\ rows[n].rec = recs[n]
                                   /\ rows[n].prev = Chain!ChainDigest(t, recs, n - 1)
                                   /\ rows[n].hash = Chain!ChainDigest(t, recs, n)
  BY DEF Chain!Entries, IsSequence
<1> HIDE DEF rows
<1>2. ASSUME NEW n \in 0 .. Len(recs)
      PROVE  Chain!ChainDigest(t, recs, n) = RowDigest(t, rows, n)
  <2>1. \A i \in 1 .. n : Chain!EntryLeaf(t, i - 1, recs[i]) = EntryLeaf(t, i - 1, rows[i].rec)
    BY <1>1 DEF Chain!EntryLeaf, EntryLeaf, IsSequence
  <2> QED
    BY <2>1 DEF Chain!ChainDigest, RowDigest
<1>3. \A n \in 1 .. Len(recs) : n - 1 \in 0 .. Len(recs) /\ n \in 0 .. Len(recs)
  BY DEF IsSequence
<1>4. SealedRows(t, rows)
  BY <1>1, <1>2, <1>3 DEF SealedRows
<1> QED
  BY <1>1, <1>4 DEF rows, IsSequence

\* A row edited in place, or dropped from the body, is caught by the chain
\* alone, before anything was anchored.
THEOREM NaiveChangesCaught == Spec => []NaiveChangeCaught
<1>1. ASSUME AnchorInv PROVE NaiveChangeCaught
  <2> SUFFICES ASSUME NEW t \in Tenants, NEW i \in 1 .. Len(Chain!Entries(t, log[t]))
               PROVE  LET rows == Chain!Entries(t, log[t])
                      IN  /\ \A rec \in Recs \ {rows[i].rec} :
                                ChainIssues(t, [rows EXCEPT ![i].rec = rec]) # {}
                          /\ i < Len(rows) => ChainIssues(t, Delete(rows, rows[i].seq)) # {}
    BY Zenon DEF NaiveChangeCaught
  <2> DEFINE rows == Chain!Entries(t, log[t])
  <2>1. IsSequence(rows) /\ SealedRows(t, rows)
    <3>1. log[t] \in Seq(Recs)
      BY <1>1 DEF AnchorInv, TablesInv
    <3>2. IsSequence(log[t])
      BY <3>1 DEF IsSequence
    <3> QED
      BY <3>2, EntriesAreSealed
  <2>2. rows[i].rec = log[t][i] /\ "rec" \in DOMAIN rows[i]
    BY DEF Chain!Entries
  <2> HIDE DEF rows
  <2>3. ASSUME NEW rec \in Recs \ {rows[i].rec}
        PROVE  ChainIssues(t, [rows EXCEPT ![i].rec = rec]) # {}
    <3> DEFINE changed == [rows EXCEPT ![i].rec = rec]
    <3>1. IsSequence(changed) /\ Len(changed) = Len(rows)
      BY <2>1 DEF IsSequence, rows, Chain!Entries
    <3>2. changed[i].hash = rows[i].hash /\ changed[i].rec = rec
      BY <2>2 DEF rows, Chain!Entries
    <3> HIDE DEF changed
    <3>3. ChainIssues(t, changed) # {}
      BY <2>1, <3>1, <3>2, EditReported DEF rows
    <3> QED
      BY <3>3 DEF changed
  <2>4. i < Len(rows) => ChainIssues(t, Delete(rows, rows[i].seq)) # {}
    <3>1. i \in 1 .. Len(rows)
      BY DEF rows
    <3> QED
      BY <2>1, <3>1, DeletionReported
  <2> QED
    BY <2>3, <2>4 DEF rows
<1> QED
  BY <1>1, AnchorInvariance, PTL

-----------------------------------------------------------------------------
(* What verification is given.                                             *)

\* The rows are the first of those that were sealed of the records.
PrefixOf(t, recs, rows) ==
    /\ IsSequence(rows)
    /\ Len(rows) <= Len(recs)
    /\ \A i \in 1 .. Len(rows) : rows[i] = Chain!Entries(t, recs)[i]

\* Every proof in the ledger attests the WORM object it is kept for.
AttestedBy(ledger, objects) ==
    \A k \in DOMAIN ledger :
        k[1] \in DOMAIN objects /\ ledger[k] = Stamp(k[2], objects[k[1]].id)

\* The worst there is to report: a checkpoint is newer than the rows.
OnlyNewEntries(t, rows, issues) ==
    \A i \in issues : /\ i.kind = "truncation" /\ i.seq \in Nat
                      /\ i.seq >= Len(rows) /\ i.seq < Len(log[t])

-----------------------------------------------------------------------------
(* One moment.                                                             *)

\* Rows that are a prefix of the log are sealed rows.
LEMMA PrefixIsSealed ==
    ASSUME NEW t \in Tenants, log[t] \in Seq(Recs), NEW rows, PrefixOf(t, log[t], rows)
    PROVE  SealedRows(t, rows)
<1> DEFINE es == Chain!Entries(t, log[t])
<1>1. /\ IsSequence(es) /\ Len(es) = Len(log[t]) /\ SealedRows(t, es)
      /\ Len(log[t]) \in Nat
  BY EntriesAreSealed DEF IsSequence
<1> HIDE DEF es
<1>2. /\ Len(rows) \in Nat /\ Len(rows) <= Len(es)
      /\ \A i \in 1 .. Len(rows) : rows[i] = es[i] /\ i \in 1 .. Len(es)
  BY <1>1 DEF PrefixOf, IsSequence, es
<1>3. ASSUME NEW n \in 0 .. Len(rows) PROVE RowDigest(t, rows, n) = RowDigest(t, es, n)
  <2>1. \A i \in 1 .. n : rows[i].rec = es[i].rec
    BY <1>2
  <2> QED
    BY <2>1 DEF RowDigest
<1>4. \A n \in 1 .. Len(rows) : n - 1 \in 0 .. Len(rows) /\ n \in 0 .. Len(rows)
  BY <1>2
<1> QED
  BY <1>1, <1>2, <1>3, <1>4 DEF SealedRows

\* Of such rows, Range reads the window that the anchorer read.
LEMMA RangeIsSlice ==
    ASSUME NEW t \in Tenants, log[t] \in Seq(Recs), NEW rows, PrefixOf(t, log[t], rows),
           NEW start \in Nat, NEW end \in Nat, start <= end, end < Len(rows)
    PROVE  RangeOf(rows, start, end) = Slice(t, start, end + 1)
<1> DEFINE es == Chain!Entries(t, log[t])
           n  == end - start + 1
           S  == {es[i] : i \in start + 1 .. end + 1}
<1>1. RangeOf(rows, start, end) = [i \in 1 .. n |-> rows[start + i]]
  <2>1. SealedRows(t, rows) /\ IsSequence(rows)
    BY PrefixIsSealed DEF PrefixOf
  <2> HIDE DEF n
  <2>2. RangeOf(rows, start, end) = [i \in 1 .. end - start + 1 |-> rows[start + i]]
    BY <2>1, RangeOfSealed
  <2> QED
    BY <2>2 DEF n
<1>2. ASSUME NEW i \in 1 .. n
      PROVE  /\ start + i \in start + 1 .. end + 1 /\ start + 1 + i - 1 = start + i
             /\ rows[start + i] = es[start + i]
  <2>1. start + i \in 1 .. Len(rows) /\ start + i \in start + 1 .. end + 1
    BY DEF PrefixOf, IsSequence
  <2> QED
    BY <2>1 DEF PrefixOf
<1> DEFINE range == [i \in 1 .. n |-> es[start + i]]
           slice == SubSeq(es, start + 1, end + 1)
<1>3. RangeOf(rows, start, end) = range
  BY <1>1, <1>2
<1>4. \A i \in start + 1 .. end + 1 : es[i] \in S
  OBVIOUS
<1> HIDE DEF es, S
<1>5. /\ slice \in Seq(S)
      /\ Len(slice) = IF start + 1 <= end + 1 THEN end + 1 - (start + 1) + 1 ELSE 0
      /\ \A i \in 1 .. end + 1 - (start + 1) + 1 : slice[i] = es[start + 1 + i - 1]
  BY <1>4, SubSeqProperties
<1>6. end + 1 - (start + 1) + 1 = n
  OBVIOUS
<1>7. Len(slice) = IF n > 0 THEN n ELSE 0
  BY <1>5, <1>6
<1>8. \A i \in 1 .. n : slice[i] = range[i]
  BY <1>2, <1>5, <1>6
<1>9. range \in Seq(S) /\ Len(range) = IF n > 0 THEN n ELSE 0
  <2>1. \A i \in 1 .. n : es[start + i] \in S
    BY <1>2, <1>4
  <2>2. n \in Nat /\ n > 0
    OBVIOUS
  <2> HIDE DEF n
  <2> QED
    BY <2>1, <2>2
<1>10. slice = range
  <2> HIDE DEF slice, range, n
  <2>1. Len(slice) = Len(range) /\ \A i \in 1 .. Len(slice) : slice[i] = range[i]
    BY <1>7, <1>8, <1>9 DEF n
  <2> QED
    BY <1>5, <1>9, <2>1, SeqEqual
<1> QED
  BY <1>3, <1>10 DEF Slice, es

\* The k-th object that All lists: it commits to its window of the log and
\* links to the one before it.
LEMMA ListedObject ==
    ASSUME AnchorInv, OneChain, NEW t \in Tenants, NEW k \in 1 .. Len(WormAll(t))
    PROVE  LET cp == WormAll(t)[k]
           IN  /\ cp.seqEnd \in DOMAIN worm[t] /\ cp = worm[t][cp.seqEnd]
               /\ Windowed(cp) /\ cp.seqEnd < Len(log[t])
               /\ cp = Build(t, Slice(t, cp.seqStart, cp.seqEnd + 1), cp.prev, cp.anchoredAt)
               /\ cp.prev = IF k = 1 THEN <<>> ELSE WormAll(t)[k - 1].id
<1> DEFINE objects == worm[t]
           ends == DOMAIN objects
           cp   == WormAll(t)[k]
           e    == InOrder(ends)[k]
<1>1. \A d \in ends : /\ d \in Nat /\ d <= Len(log[t]) /\ objects[d].seqEnd = d
                      /\ Truthful(t, objects[d])
  BY DEF AnchorInv, WormInv, TablesInv, Writable, Truthful
<1>2. Len(log[t]) \in Nat /\ Linked(objects)
  BY DEF AnchorInv, TablesInv, OneChain
<1> HIDE DEF objects
<1>3. k \in 1 .. Cardinality(ends) /\ e \in ends /\ cp = objects[e]
  <2>1. /\ Len(All(objects)) = Cardinality(ends)
        /\ InOrder(ends) \in [1 .. Cardinality(ends) -> ends]
        /\ \A i \in 1 .. Cardinality(ends) : All(objects)[i] = objects[InOrder(ends)[i]]
    BY <1>1, <1>2, AllLists
  <2>2. WormAll(t) = All(objects)
    BY DEF WormAll, objects
  <2> QED
    BY <2>1, <2>2
<1>4. PrevId(objects, e) = IF k = 1 THEN <<>> ELSE All(objects)[k - 1].id
  BY <1>1, <1>2, <1>3, PreviousObject
<1>5. cp.prev = IF k = 1 THEN <<>> ELSE WormAll(t)[k - 1].id
  BY <1>2, <1>3, <1>4 DEF Linked, WormAll, objects
<1> HIDE DEF cp, e
<1>6. cp.seqEnd \in ends /\ cp = objects[cp.seqEnd] /\ Truthful(t, cp)
  BY <1>1, <1>3
<1> QED
  BY <1>5, <1>6 DEF cp, objects, Truthful, Windowed

LEMMA HonestReport ==
    ASSUME AnchorInv, OneChain, NEW t \in Tenants,
           NEW rows, PrefixOf(t, log[t], rows), NEW ledger, AttestedBy(ledger, worm[t])
    PROVE  OnlyNewEntries(t, rows, TenantIssues(t, rows, WormAll(t), ledger, NotaryNames))
<1>1. log[t] \in Seq(Recs) /\ Len(log[t]) \in Nat /\ IsSequence(rows)
  BY DEF AnchorInv, TablesInv, PrefixOf
<1>2. SealedRows(t, rows) /\ ChainIssues(t, rows) = {}
  BY <1>1, PrefixIsSealed, ChainVerificationExact
<1>3. ASSUME NEW k \in 1 .. Len(WormAll(t))
      PROVE  OnlyNewEntries(t, rows, CheckpointIssues(t, rows, WormAll(t), ledger, NotaryNames, k))
  <2> DEFINE anchored == WormAll(t)
             cp == anchored[k]
             prevID == IF k = 1 THEN <<>> ELSE anchored[k - 1].id
  <2>1. /\ cp.seqEnd \in DOMAIN worm[t] /\ cp = worm[t][cp.seqEnd]
        /\ Windowed(cp) /\ cp.seqEnd < Len(log[t])
        /\ cp = Build(t, Slice(t, cp.seqStart, cp.seqEnd + 1), cp.prev, cp.anchoredAt)
        /\ cp.prev = prevID
    BY ListedObject
  <2> HIDE DEF anchored, prevID
  <2>2. ASSUME cp.seqEnd < Len(rows)
        PROVE  cp.id = Build(t, RangeOf(rows, cp.seqStart, cp.seqEnd), prevID, cp.anchoredAt).id
    <3>1. PICK start \in Nat, end \in Nat : start = cp.seqStart /\ end = cp.seqEnd
      BY <2>1 DEF Windowed
    <3>2. start <= end /\ end < Len(rows)
      BY <2>1, <2>2, <3>1 DEF Windowed
    <3> HIDE DEF cp
    <3>3. RangeOf(rows, start, end) = Slice(t, start, end + 1)
      BY <1>1, <3>2, RangeIsSlice
    <3>4. cp = Build(t, RangeOf(rows, cp.seqStart, cp.seqEnd), prevID, cp.anchoredAt)
      BY <2>1, <3>1, <3>3
    <3> QED
      BY <3>4
  <2>3. ASSUME NEW p \in LedgerGet(ledger, cp.seqEnd) PROVE VerifyProof(p.notary, p, cp.id)
    <3>1. PICK key \in DOMAIN ledger : key[1] = cp.seqEnd /\ p = ledger[key]
      BY DEF LedgerGet
    <3>2. p = Stamp(key[2], cp.id)
      BY <2>1, <3>1 DEF AttestedBy
    <3> QED
      BY <3>2 DEF Stamp, VerifyProof
  <2>4. \A i \in CheckpointIssues(t, rows, anchored, ledger, NotaryNames, k) :
           /\ i.kind = "truncation" /\ i.seq \in Nat
           /\ i.seq >= Len(rows) /\ i.seq <= anchored[k].seqEnd
    BY <1>1, <1>2, <2>1, <2>2, <2>3, CheckpointReport DEF prevID
  <2>5. cp.seqEnd \in Nat
    BY <2>1 DEF Windowed
  <2> QED
    BY <1>1, <2>1, <2>4, <2>5 DEF OnlyNewEntries, anchored
<1> QED
  BY <1>2, <1>3 DEF TenantIssues, OnlyNewEntries

\* At any moment the proofs held attest the WORM objects.
LEMMA ProofsAttested ==
    ASSUME AnchorInv, SoleInv, WorkingCopyMatchesWorm, NEW t \in Tenants
    PROVE  AttestedBy(proofs[t], worm[t])
<1> SUFFICES ASSUME NEW k \in DOMAIN proofs[t]
             PROVE  k[1] \in DOMAIN worm[t] /\ proofs[t][k] = Stamp(k[2], worm[t][k[1]].id)
  BY DEF AttestedBy
<1>1. k[1] \in DOMAIN cps[t] /\ proofs[t][k] = Stamp(k[2], cps[t][k[1]].id)
  BY DEF SoleInv, ProofAttestsRecord, VerifyProof
<1> QED
  BY <1>1 DEF WorkingCopyMatchesWorm

\* What one query reads of a log.
LEMMA LogRead ==
    ASSUME AnchorInv, NEW t \in Tenants
    PROVE  /\ PrefixOf(t, log[t], AllEntries(t, log[t]))
           /\ Len(log[t]) <= QueryLimit => Len(AllEntries(t, log[t])) = Len(log[t])
<1> DEFINE es   == Chain!Entries(t, log[t])
           n    == Len(log[t])
           m    == Min({n, QueryLimit})
           S    == {es[i] : i \in 1 .. n}
           rows == SubSeq(es, 1, m)
<1>1. n \in Nat /\ QueryLimit \in Nat
  BY AnchorerConstants DEF AnchorInv, TablesInv
<1>2. m \in Nat /\ m <= n /\ (n <= QueryLimit => m = n)
  BY <1>1, MinOfTwo
<1>3. AllEntries(t, log[t]) = rows
  BY DEF AllEntries
<1> HIDE DEF es, m, n
<1>4. \A i \in 1 .. m : es[i] \in S
  BY <1>1, <1>2
<1> HIDE DEF S
<1>5. Len(rows) = m /\ \A i \in 1 .. m : rows[i] = es[i]
  <2>1. /\ Len(rows) = IF 1 <= m THEN m - 1 + 1 ELSE 0
        /\ \A i \in 1 .. m - 1 + 1 : rows[i] = es[1 + i - 1]
    BY <1>2, <1>4, SubSeqProperties
  <2>2. m - 1 + 1 = m /\ \A i \in 1 .. m : 1 + i - 1 = i
    BY <1>2
  <2>3. Len(rows) = m
    BY <1>2, <2>1, <2>2
  <2> QED
    BY <2>1, <2>2, <2>3
<1> HIDE DEF rows
<1> QED
  BY <1>2, <1>3, <1>5 DEF PrefixOf, IsSequence, es, n

\* verify_test.go, "honest system should verify": as long as one run at a time
\* anchors and none ended early, a verification of all the rows at one moment
\* reports nothing, at any moment of a run.
THEOREM HonestDataVerifies ==
    ASSUME Runs = {Ticker}
    PROVE  Spec => [](/\ faults = 0
                      /\ \A t \in Tenants : Len(log[t]) <= QueryLimit
                      => HonestVerifies)
<1>1. AnchorInv /\ SoleInv /\ FaultFree /\ (faults = 0 => WorkingCopyMatchesWorm) =>
         (/\ faults = 0
          /\ \A t \in Tenants : Len(log[t]) <= QueryLimit
          => HonestVerifies)
  <2> SUFFICES ASSUME AnchorInv, SoleInv, OneChain, WorkingCopyMatchesWorm,
                      NEW t \in Tenants, Len(log[t]) <= QueryLimit,
                      NEW i \in IssuesGiven(t, log[t])
               PROVE  FALSE
    BY DEF FaultFree, OneChain, HonestVerifies
  <2> DEFINE rows == AllEntries(t, log[t])
  <2>1. PrefixOf(t, log[t], rows) /\ Len(rows) = Len(log[t])
    BY LogRead
  <2>2. AttestedBy(proofs[t], worm[t])
    BY ProofsAttested
  <2> HIDE DEF rows
  <2>3. OnlyNewEntries(t, rows, TenantIssues(t, rows, WormAll(t), proofs[t], NotaryNames))
    BY <2>1, <2>2, HonestReport
  <2>4. i.seq \in Nat /\ i.seq >= Len(rows) /\ i.seq < Len(log[t]) /\ Len(log[t]) \in Nat
    BY <2>3 DEF IssuesGiven, rows, OnlyNewEntries, AnchorInv, TablesInv
  <2> QED
    BY <2>1, <2>4
<1> QED
  BY <1>1, FaultFreeInvariance, WorkingCopyIsExact, PTL

-----------------------------------------------------------------------------
(* A sweep.                                                                *)

\* An issue is about a tenant whose rows were read.
IssuesKnown ==
    \A i \in sweep.issues : /\ i.tenant \in DOMAIN sweep.entries
                            /\ i.issue.kind # "worm-error" => i.issue.seq \in Nat

\* What a sweep has read is a prefix of the log and attests WORM objects; its
\* report is about what was sealed since.
SweepInv ==
    /\ DOMAIN sweep = {"pc", "todo", "tenant", "entries", "ledger", "issues"}
    /\ sweep.pc \in {"idle", "entries", "ledger", "verify"}
    /\ sweep.todo \subseteq Tenants
    /\ sweep.pc = "ledger" => sweep.tenant \in Tenants
    /\ \A t \in DOMAIN sweep.entries :
          /\ t \in Tenants /\ PrefixOf(t, log[t], sweep.entries[t])
          /\ t \in DOMAIN sweep.ledger \/ (sweep.pc = "ledger" /\ t = sweep.tenant)
    /\ \A t \in DOMAIN sweep.ledger : t \in Tenants /\ AttestedBy(sweep.ledger[t], worm[t])
    /\ sweep.pc = "verify" => sweep.todo \subseteq DOMAIN sweep.entries
    /\ sweep.pc # "verify" => sweep.issues = {}
    /\ IssuesKnown
    /\ SweepReportsOnlyNewEntries

\* What was read stays a prefix, and what attested an object still does.
LEMMA DataKept ==
    ASSUME AnchorInv, SoleInv, OneChain, Runs = {Ticker}, [Next]_vars, NEW t \in Tenants
    PROVE  /\ Len(log[t]) \in Nat /\ Len(log'[t]) \in Nat /\ Len(log[t]) <= Len(log'[t])
           /\ \A rows : PrefixOf(t, log[t], rows) => PrefixOf(t, log'[t], rows)
           /\ \A ledger : AttestedBy(ledger, worm[t]) => AttestedBy(ledger, worm'[t])
<1>1. log[t] \in Seq(Recs) /\ Len(log[t]) \in Nat
  BY DEF AnchorInv, TablesInv
<1>2. log'[t] = log[t] \/ \E rec \in Recs : log'[t] = Append(log[t], rec)
  <2>1. CASE \E u \in Tenants, rec \in Recs : Seal(u, rec)
    BY <2>1 DEF Seal, AnchorInv, TablesInv
  <2>2. CASE log' = log
    BY <2>2
  <2> QED
    BY <2>1, <2>2, SoleSteps DEF AnchorAll, AnchorAllDone, LastCheckpoint, EntriesAsc, BuildWindow,
       WormGet, WindowDone, WormPut, PutCheckpoint, StampAndPutProof, Abort, LatePut, vars
<1>3. ASSUME NEW rec \in Recs, log'[t] = Append(log[t], rec)
      PROVE  /\ Len(log'[t]) = Len(log[t]) + 1
             /\ \A rows : PrefixOf(t, log[t], rows) => PrefixOf(t, log'[t], rows)
  <2>1. Len(log'[t]) = Len(log[t]) + 1
    BY <1>1, <1>3
  <2>2. ASSUME NEW rows, PrefixOf(t, log[t], rows) PROVE PrefixOf(t, log'[t], rows)
    <3>1. ASSUME NEW i \in 1 .. Len(rows) PROVE rows[i] = Chain!Entries(t, log'[t])[i]
      <4>1. i \in 1 .. Len(log[t]) /\ rows[i] = Chain!Entries(t, log[t])[i]
        BY <1>1, <2>2 DEF PrefixOf, IsSequence
      <4>2. Chain!Entries(t, Append(log[t], rec))[i] = Chain!Entries(t, log[t])[i]
        BY <1>1, <4>1, EntriesStable
      <4> QED
        BY <1>3, <4>1, <4>2
    <3> QED
      BY <1>1, <2>1, <2>2, <3>1 DEF PrefixOf, IsSequence
  <2> QED
    BY <2>1, <2>2
<1>4. \A e \in DOMAIN worm[t] : e \in DOMAIN worm'[t] /\ worm'[t][e] = worm[t][e]
  <2>1. KeyFree
    <3>1. ASSUME run[Ticker].pc = "put"
          PROVE  run[Ticker].cp.seqEnd \notin DOMAIN worm[run[Ticker].tenant]
      <4>1. /\ run[Ticker].tenant \in Tenants
            /\ worm[run[Ticker].tenant] = cps[run[Ticker].tenant]
            /\ run[Ticker].cp.seqEnd \in Nat
            /\ \A e \in DOMAIN cps[run[Ticker].tenant] : e < run[Ticker].cp.seqEnd
        BY <3>1, OneChainKnown
      <4> QED
        BY <4>1
    <3> QED
      BY <3>1 DEF KeyFree, OneChain
  <2>2. [MemStore!Next]_worm
    BY <2>1, MemStoreStep
  <2> QED
    BY <2>2 DEF MemStore!Next, MemStore!Put
<1>5. \A ledger : AttestedBy(ledger, worm[t]) => AttestedBy(ledger, worm'[t])
  BY <1>4 DEF AttestedBy
<1> QED
  BY <1>1, <1>2, <1>3, <1>5

\* The steps of the gateway and the anchorer.
LEMMA SweepBesideNext ==
    ASSUME AnchorInv, SoleInv, OneChain, SweepInv, Runs = {Ticker},
           [Next]_vars, UNCHANGED sweep
    PROVE  SweepInv'
<1>1. ASSUME NEW t \in DOMAIN sweep.entries
      PROVE  t \in Tenants /\ PrefixOf(t, log'[t], sweep.entries[t])
  <2>1. t \in Tenants /\ PrefixOf(t, log[t], sweep.entries[t])
    BY DEF SweepInv
  <2> QED
    BY <2>1, DataKept
<1>2. ASSUME NEW t \in DOMAIN sweep.ledger
      PROVE  t \in Tenants /\ AttestedBy(sweep.ledger[t], worm'[t])
  <2>1. t \in Tenants /\ AttestedBy(sweep.ledger[t], worm[t])
    BY DEF SweepInv
  <2> QED
    BY <2>1, DataKept
<1>3. SweepReportsOnlyNewEntries'
  <2> SUFFICES ASSUME NEW i \in sweep.issues, i.issue.kind # "worm-error"
               PROVE  /\ i.issue.kind = "truncation"
                      /\ i.issue.seq >= Len(sweep.entries[i.tenant])
                      /\ i.issue.seq < Len(log'[i.tenant])
    BY DEF SweepReportsOnlyNewEntries
  <2>1. /\ i.issue.kind = "truncation" /\ i.tenant \in Tenants /\ i.issue.seq \in Nat
        /\ i.issue.seq >= Len(sweep.entries[i.tenant])
        /\ i.issue.seq < Len(log[i.tenant])
    <3>1. i.tenant \in DOMAIN sweep.entries /\ i.issue.seq \in Nat
      <4>1. IssuesKnown
        BY DEF SweepInv
      <4> QED
        BY <4>1 DEF IssuesKnown
    <3>2. i.tenant \in Tenants /\ SweepReportsOnlyNewEntries
      BY <3>1 DEF SweepInv
    <3> QED
      BY <3>1, <3>2 DEF SweepReportsOnlyNewEntries
  <2>2. /\ Len(log[i.tenant]) \in Nat /\ Len(log'[i.tenant]) \in Nat
        /\ Len(log[i.tenant]) <= Len(log'[i.tenant])
    BY <2>1, DataKept
  <2> QED
    BY <2>1, <2>2
<1> QED
  BY <1>1, <1>2, <1>3 DEF SweepInv, IssuesKnown

\* The steps of the sweep that report nothing.
LEMMA SweepReads ==
    ASSUME AnchorInv, SoleInv, WorkingCopyMatchesWorm, SweepInv,
           \/ Load \/ LoadLedger \/ StartVerify \/ Report \/ SweepFails
           \/ \E t \in Tenants : LoadTenant(t) \/ ReadEntries(t)
    PROVE  SweepInv'
<1>1. /\ UNCHANGED <<log, worm>>
      /\ DOMAIN sweep = {"pc", "todo", "tenant", "entries", "ledger", "issues"}
  BY DEF Load, LoadLedger, StartVerify, Report, SweepFails, LoadTenant, ReadEntries, SweepInv,
     vars, stores
<1>2. /\ NotSweeping.pc = "idle" /\ NotSweeping.todo = {} /\ NotSweeping.issues = {}
      /\ DOMAIN NotSweeping.entries = {} /\ DOMAIN NotSweeping.ledger = {}
      /\ DOMAIN NotSweeping = {"pc", "todo", "tenant", "entries", "ledger", "issues"}
  BY DEF NotSweeping, EmptyMap
<1>3. CASE Report \/ SweepFails
  <2>1. sweep' = NotSweeping
    BY <1>3 DEF Report, SweepFails
  <2> QED
    BY <1>2, <2>1 DEF SweepInv, IssuesKnown, SweepReportsOnlyNewEntries
<1>4. CASE Load \/ \E t \in Tenants : LoadTenant(t)
  <2>1. PICK todo \in SUBSET Tenants :
           sweep' = [NotSweeping EXCEPT !.pc = "entries", !.todo = todo]
    BY <1>4 DEF Load, LoadTenant
  <2> HIDE DEF NotSweeping
  <2>2. /\ sweep'.pc = "entries" /\ sweep'.todo = todo /\ sweep'.issues = {}
        /\ DOMAIN sweep'.entries = {} /\ DOMAIN sweep'.ledger = {}
        /\ DOMAIN sweep' = DOMAIN NotSweeping
    BY <1>2, <2>1
  <2> QED
    BY <1>2, <2>2 DEF SweepInv, IssuesKnown, SweepReportsOnlyNewEntries
<1>5. ASSUME NEW t \in Tenants, ReadEntries(t) PROVE SweepInv'
  <2> DEFINE rows == AllEntries(t, log[t])
             w    == With(sweep.entries, t, rows)
  <2>1. /\ sweep.pc = "entries"
        /\ sweep' = [sweep EXCEPT !.pc = "ledger", !.todo = @ \ {t}, !.tenant = t, !.entries = w]
    BY <1>5 DEF ReadEntries
  <2>2. /\ DOMAIN w = DOMAIN sweep.entries \cup {t} /\ w[t] = rows
        /\ \A u \in DOMAIN sweep.entries \ {t} : w[u] = sweep.entries[u]
    BY DEF With
  <2>3. PrefixOf(t, log[t], rows)
    BY LogRead
  <2> HIDE DEF w, rows
  <2>4. /\ sweep'.pc = "ledger" /\ sweep'.todo = sweep.todo \ {t} /\ sweep'.tenant = t
        /\ sweep'.entries = w /\ sweep'.ledger = sweep.ledger /\ sweep'.issues = sweep.issues
        /\ DOMAIN sweep' = DOMAIN sweep
    BY <1>1, <2>1
  <2>5. sweep.issues = {}
    BY <2>1 DEF SweepInv
  <2>6. ASSUME NEW u \in DOMAIN w
        PROVE  /\ u \in Tenants /\ PrefixOf(u, log[u], w[u])
               /\ u \in DOMAIN sweep.ledger \/ u = t
    BY <2>1, <2>2, <2>3 DEF SweepInv
  <2> QED
    BY <1>1, <2>4, <2>5, <2>6 DEF SweepInv, IssuesKnown, SweepReportsOnlyNewEntries
<1>6. CASE LoadLedger
  <2> DEFINE t == sweep.tenant
             w == With(sweep.ledger, t, proofs[t])
  <2>1. /\ sweep.pc = "ledger"
        /\ sweep' = [sweep EXCEPT !.pc = "entries", !.tenant = None, !.ledger = w]
    BY <1>6 DEF LoadLedger
  <2>2. /\ DOMAIN w = DOMAIN sweep.ledger \cup {t} /\ w[t] = proofs[t]
        /\ \A u \in DOMAIN sweep.ledger \ {t} : w[u] = sweep.ledger[u]
    BY DEF With
  <2>3. t \in Tenants /\ AttestedBy(proofs[t], worm[t])
    BY <2>1, ProofsAttested DEF SweepInv
  <2> HIDE DEF w
  <2>4. /\ sweep'.pc = "entries" /\ sweep'.todo = sweep.todo
        /\ sweep'.entries = sweep.entries /\ sweep'.ledger = w /\ sweep'.issues = sweep.issues
        /\ DOMAIN sweep' = DOMAIN sweep
    BY <1>1, <2>1
  <2>5. sweep.issues = {} /\ \A u \in DOMAIN sweep.entries : u \in DOMAIN w
    BY <2>1, <2>2 DEF SweepInv
  <2>6. ASSUME NEW u \in DOMAIN w PROVE u \in Tenants /\ AttestedBy(w[u], worm[u])
    <3>1. CASE u = t
      BY <2>2, <2>3, <3>1
    <3>2. CASE u # t
      BY <2>2, <3>2 DEF SweepInv
    <3> QED
      BY <3>1, <3>2
  <2> QED
    BY <1>1, <2>4, <2>5, <2>6 DEF SweepInv, IssuesKnown, SweepReportsOnlyNewEntries
<1>7. CASE StartVerify
  <2>1. /\ sweep.pc = "entries"
        /\ sweep' = [sweep EXCEPT !.pc = "verify", !.todo = DOMAIN sweep.entries]
    BY <1>7 DEF StartVerify
  <2>2. /\ sweep'.pc = "verify" /\ sweep'.todo = DOMAIN sweep.entries
        /\ sweep'.entries = sweep.entries /\ sweep'.ledger = sweep.ledger
        /\ sweep'.issues = sweep.issues /\ DOMAIN sweep' = DOMAIN sweep
    BY <1>1, <2>1
  <2> QED
    BY <1>1, <2>1, <2>2 DEF SweepInv, IssuesKnown, SweepReportsOnlyNewEntries
<1> QED
  BY <1>3, <1>4, <1>5, <1>6, <1>7

\* The steps of the sweep that may report something.
LEMMA SweepReports ==
    ASSUME AnchorInv, OneChain, SweepInv,
           \E t \in Tenants : VerifyTenant(t) \/ WormReadFails(t)
    PROVE  SweepInv'
<1>1. PICK t \in Tenants : VerifyTenant(t) \/ WormReadFails(t)
  OBVIOUS
<1> DEFINE rows == sweep.entries[t]
<1>2. /\ UNCHANGED <<log, worm>> /\ sweep.pc = "verify" /\ t \in sweep.todo
      /\ DOMAIN sweep = {"pc", "todo", "tenant", "entries", "ledger", "issues"}
  BY <1>1 DEF VerifyTenant, WormReadFails, SweepInv, vars, stores
<1>3. /\ t \in DOMAIN sweep.entries /\ PrefixOf(t, log[t], rows)
      /\ AttestedBy(sweep.ledger[t], worm[t])
  BY <1>2 DEF SweepInv
<1>4. PICK new :
         /\ sweep' = [sweep EXCEPT !.todo = @ \ {t},
                                   !.issues = @ \cup {[tenant |-> t, issue |-> i] : i \in new}]
         /\ \A i \in new : i.kind # "worm-error" =>
               /\ i.kind = "truncation" /\ i.seq \in Nat
               /\ i.seq >= Len(rows) /\ i.seq < Len(log[t])
  <2>1. CASE VerifyTenant(t)
    <3> DEFINE found == TenantIssues(t, rows, WormAll(t), sweep.ledger[t], NotaryNames)
    <3>1. sweep' = [sweep EXCEPT !.todo = @ \ {t},
                                 !.issues = @ \cup {[tenant |-> t, issue |-> i] : i \in found}]
      BY <2>1 DEF VerifyTenant
    <3>2. OnlyNewEntries(t, rows, found)
      BY <1>3, HonestReport
    <3> HIDE DEF found, rows
    <3>3. \A i \in found : i.kind # "worm-error" =>
             /\ i.kind = "truncation" /\ i.seq \in Nat
             /\ i.seq >= Len(rows) /\ i.seq < Len(log[t])
      BY <3>2 DEF OnlyNewEntries
    <3> QED
      BY <3>1, <3>3
  <2>2. CASE WormReadFails(t)
    <3> DEFINE found == ChainIssues(t, rows) \cup {Issue("worm-error", None)}
    <3>1. sweep' = [sweep EXCEPT !.todo = @ \ {t},
                                 !.issues = @ \cup {[tenant |-> t, issue |-> i] : i \in found}]
      BY <2>2 DEF WormReadFails
    <3>2. log[t] \in Seq(Recs) /\ IsSequence(rows)
      BY <1>3 DEF AnchorInv, TablesInv, PrefixOf
    <3> HIDE DEF rows
    <3>3. SealedRows(t, rows)
      BY <1>3, <3>2, PrefixIsSealed
    <3>4. ChainIssues(t, rows) = {}
      BY <3>2, <3>3, ChainVerificationExact
    <3>5. \A i \in found : i.kind = "worm-error"
      BY <3>4 DEF Issue
    <3> HIDE DEF found
    <3> QED
      BY <3>1, <3>5
  <2> QED
    BY <1>1, <2>1, <2>2
<1> DEFINE added == {[tenant |-> t, issue |-> i] : i \in new}
<1>5. ASSUME NEW i \in added
      PROVE  /\ i.tenant = t
             /\ i.issue.kind # "worm-error" =>
                   /\ i.issue.kind = "truncation" /\ i.issue.seq \in Nat
                   /\ i.issue.seq >= Len(rows) /\ i.issue.seq < Len(log[t])
  BY <1>4
<1>6. /\ sweep'.pc = "verify" /\ sweep'.todo = sweep.todo \ {t}
      /\ sweep'.entries = sweep.entries /\ sweep'.ledger = sweep.ledger
      /\ sweep'.issues = sweep.issues \cup added /\ DOMAIN sweep' = DOMAIN sweep
  <2>1. sweep' = [sweep EXCEPT !.todo = @ \ {t}, !.issues = @ \cup added]
    BY <1>4
  <2> HIDE DEF added
  <2> QED
    BY <1>2, <2>1
<1> HIDE DEF added
<1>7. SweepReportsOnlyNewEntries'
  BY <1>2, <1>5, <1>6 DEF SweepInv, IssuesKnown, SweepReportsOnlyNewEntries
<1>8. ASSUME NEW i \in sweep'.issues
      PROVE  /\ i.tenant \in DOMAIN sweep.entries
             /\ i.issue.kind # "worm-error" => i.issue.seq \in Nat
  <2>1. CASE i \in added
    BY <1>3, <1>5, <2>1
  <2>2. CASE i \in sweep.issues
    <3>1. IssuesKnown
      BY DEF SweepInv
    <3> QED
      BY <2>2, <3>1 DEF IssuesKnown
  <2> QED
    BY <1>6, <2>1, <2>2
<1> QED
  BY <1>2, <1>6, <1>7, <1>8 DEF SweepInv, IssuesKnown

\* Beside the verifier, which writes nothing, the anchorer is what it was.
LEMMA VerifierOnlyReads == VerifierSpec => Spec
<1>1. VerifierInit => Init
  BY DEF VerifierInit
<1>2. [VerifierNext]_verifierVars => [Next]_vars
  BY DEF VerifierNext, verifierVars, SweepStep, Load, LoadLedger, StartVerify, Report, SweepFails,
     LoadTenant, ReadEntries, VerifyTenant, WormReadFails
<1> QED
  BY <1>1, <1>2, PTL DEF VerifierSpec, Spec

\* Against honest data, and while no run ended early, a sweep that reads its
\* tables one after the other raises one false alarm only: a checkpoint covers
\* entries sealed after the rows were read.
THEOREM SweepsReportOnlyNewEntries ==
    ASSUME Runs = {Ticker}
    PROVE  VerifierSpec => [](faults = 0 => SweepReportsOnlyNewEntries)
<1> DEFINE Honest == /\ AnchorInv /\ SoleInv /\ FaultFree
                     /\ faults = 0 => WorkingCopyMatchesWorm
           Swept  == faults = 0 => SweepInv
<1>1. VerifierInit => Swept
  BY DEF VerifierInit, NotSweeping, EmptyMap, SweepInv, IssuesKnown, SweepReportsOnlyNewEntries
<1>2. Honest /\ Swept /\ [VerifierNext]_verifierVars => Swept'
  <2> SUFFICES ASSUME Honest, Swept, [VerifierNext]_verifierVars, faults' = 0 PROVE SweepInv'
    OBVIOUS
  <2>1. CASE SweepStep
    <3>1. faults' = faults
      BY <2>1 DEF SweepStep, vars, Load, LoadLedger, StartVerify, Report, SweepFails, LoadTenant,
         ReadEntries, VerifyTenant, WormReadFails
    <3>2. AnchorInv /\ SoleInv /\ OneChain /\ WorkingCopyMatchesWorm /\ SweepInv
      BY <3>1 DEF FaultFree, OneChain
    <3> QED
      BY <2>1, <3>2, SweepReads, SweepReports DEF SweepStep
  <2>2. CASE [Next]_vars /\ UNCHANGED sweep
    <3>1. faults = 0
      <4>1. faults \in Nat
        BY AnchorerConstants DEF AnchorInv, TablesInv
      <4>2. faults' = faults \/ faults' = faults + 1
        BY <2>2, SoleSteps, SoleKeepsLate DEF Abort, Seal, LatePut, vars
      <4> QED
        BY <4>1, <4>2
    <3>2. AnchorInv /\ SoleInv /\ OneChain /\ SweepInv
      BY <3>1 DEF FaultFree, OneChain
    <3> QED
      BY <2>2, <3>2, SweepBesideNext
  <2> QED
    BY <2>1, <2>2 DEF VerifierNext, verifierVars
<1>3. Spec => []Honest
  BY FaultFreeInvariance, WorkingCopyIsExact, PTL
<1>4. Swept => (faults = 0 => SweepReportsOnlyNewEntries)
  BY DEF SweepInv
<1> HIDE DEF Honest, Swept
<1> QED
  BY <1>1, <1>2, <1>3, <1>4, VerifierOnlyReads, PTL DEF VerifierSpec
=============================================================================
