--------------------------- MODULE PipelineProofs ---------------------------
(***************************************************************************)
(* What anchoring commits to and what verification reports when both run   *)
(* over the gateway's real table, for any tenants, requests, batches,      *)
(* windows, read limits, notaries, failed and late INSERTs, and anchoring  *)
(* runs that end between any two of their calls.                           *)
(*                                                                         *)
(* PipelineInv is about tenants whose seqs are unique: rows only come in,  *)
(* so a tenant that has lost that never regains it.  For those, StoresOK   *)
(* and RunOK hold whatever happens to a run, and ExactOK holds besides as  *)
(* long as no object was left unrecorded (`cut').                          *)
(***************************************************************************)
EXTENDS Pipeline, GatewayProofs, VerifyProofs

-----------------------------------------------------------------------------
(* ORDER BY seq.                                                           *)

Lowest(T) == {row \in T : \A other \in T : row.seq <= other.seq}

\* What BySeq does with a set of rows, given the orders of smaller ones.
OrdersOf(orders, T) ==
    IF T = {} THEN {<<>>}
    ELSE UNION {{<<row>> \o rest : rest \in orders[T \ {row}]} : row \in Lowest(T)}

\* The sets of at most n rows of S.
UpTo(S, n) == {T \in SUBSET S : Cardinality(T) <= n}

\* The recursion in BySeq is well-founded: each set looks at smaller ones.
LEMMA OrdersExist ==
    ASSUME NEW S, IsFiniteSet(S)
    PROVE  \E orders : orders = [T \in SUBSET S |-> OrdersOf(orders, T)]
<1> DEFINE Has(n) == \E orders : orders = [T \in UpTo(S, n) |-> OrdersOf(orders, T)]
           sizes  == {n \in Nat : Has(n)}
<1>1. \A T \in SUBSET S : IsFiniteSet(T) /\ Cardinality(T) \in Nat
  BY FS_Subset, FS_CardinalityType
<1>2. Has(0)
  <2> DEFINE f == [T \in UpTo(S, 0) |-> {<<>>}]
  <2>1. \A T \in UpTo(S, 0) : T = {}
    <3> SUFFICES ASSUME NEW T \in SUBSET S, Cardinality(T) <= 0 PROVE T = {}
      BY DEF UpTo
    <3>1. IsFiniteSet(T) /\ Cardinality(T) = 0
      BY <1>1
    <3> QED
      BY <3>1, FS_EmptySet
  <2>2. \A T \in UpTo(S, 0) : OrdersOf(f, T) = {<<>>}
    BY <2>1 DEF OrdersOf
  <2>3. f = [T \in UpTo(S, 0) |-> OrdersOf(f, T)]
    BY <2>2
  <2> QED
    BY <2>3
<1>3. ASSUME NEW n \in Nat, Has(n) PROVE Has(n + 1)
  <2>1. PICK old : old = [T \in UpTo(S, n) |-> OrdersOf(old, T)]
    BY <1>3
  <2> DEFINE f == [T \in UpTo(S, n + 1) |-> OrdersOf(old, T)]
  <2>2. UpTo(S, n) \subseteq UpTo(S, n + 1)
    BY <1>1 DEF UpTo
  <2>3. \A T \in UpTo(S, n) : f[T] = old[T]
    BY <2>1, <2>2
  <2>4. ASSUME NEW T \in UpTo(S, n + 1), NEW row \in T PROVE T \ {row} \in UpTo(S, n)
    <3>1. T \in SUBSET S /\ Cardinality(T) <= n + 1
      BY DEF UpTo
    <3>2. Cardinality(T \ {row}) = Cardinality(T) - 1
      BY <1>1, <3>1, FS_RemoveElement
    <3>3. Cardinality(T) \in Nat
      BY <1>1, <3>1
    <3> QED
      BY <3>1, <3>2, <3>3 DEF UpTo
  <2>5. ASSUME NEW T \in UpTo(S, n + 1) PROVE OrdersOf(f, T) = OrdersOf(old, T)
    <3>1. \A row \in Lowest(T) : f[T \ {row}] = old[T \ {row}]
      BY <2>3, <2>4 DEF Lowest
    <3> HIDE DEF f
    <3>2. {{<<row>> \o rest : rest \in f[T \ {row}]} : row \in Lowest(T)}
             = {{<<row>> \o rest : rest \in old[T \ {row}]} : row \in Lowest(T)}
      BY <3>1
    <3> QED
      BY <3>2, Zenon DEF OrdersOf
  <2>6. f = [T \in UpTo(S, n + 1) |-> OrdersOf(f, T)]
    BY <2>5
  <2> QED
    BY <2>6
<1>4. \A n \in Nat : n \in sizes
  <2>1. 0 \in sizes /\ \A n \in Nat : n \in sizes => n + 1 \in sizes
    BY <1>2, <1>3
  <2> HIDE DEF sizes
  <2> QED
    BY <2>1, InductionStep
<1>5. Has(Cardinality(S))
  <2>1. Cardinality(S) \in Nat
    BY FS_CardinalityType
  <2> HIDE DEF Has
  <2> QED
    BY <1>4, <2>1
<1>6. UpTo(S, Cardinality(S)) = SUBSET S
  BY FS_Subset DEF UpTo
<1> QED
  BY <1>5, <1>6

\* BySeq unfolded once.
LEMMA BySeqUnfolds ==
    ASSUME NEW S, IsFiniteSet(S)
    PROVE  \E orders : /\ orders = [T \in SUBSET S |-> OrdersOf(orders, T)]
                       /\ BySeq(S) = orders[S]
BY OrdersExist DEF BySeq, OrdersOf, Lowest

\* A sequence that lists the rows of S, each once and none before a lower one.
Listing(S, order) ==
    /\ order \in Seq(S)
    /\ \A row \in S : \E i \in 1 .. Len(order) : order[i] = row
    /\ \A i, j \in 1 .. Len(order) :
          i < j => order[i].seq <= order[j].seq /\ order[i] # order[j]

\* The lowest row, and then the others.
LEMMA ListingStep ==
    ASSUME NEW T, NEW row \in Lowest(T), NEW rest, Listing(T \ {row}, rest)
    PROVE  Listing(T, <<row>> \o rest)
<1> DEFINE order == <<row>> \o rest
<1>1. row \in T /\ \A other \in T : row.seq <= other.seq
  BY DEF Lowest
<1>2. rest \in Seq(T) /\ <<row>> \in Seq(T) /\ Len(rest) \in Nat
  <2>1. rest \in Seq(T \ {row})
    BY DEF Listing
  <2>2. \A i \in 1 .. Len(rest) : rest[i] \in T \ {row}
    BY <2>1
  <2> QED
    BY <1>1, <2>1, <2>2
<1>3. /\ order \in Seq(T) /\ Len(order) = Len(rest) + 1 /\ order[1] = row
      /\ \A i \in 1 .. Len(rest) : order[i + 1] = rest[i]
  BY <1>2
<1> HIDE DEF order
<1>4. \A i \in 1 .. Len(rest) : rest[i] \in T \ {row}
  <2>1. rest \in Seq(T \ {row})
    BY DEF Listing
  <2> QED
    BY <2>1
<1>5. ASSUME NEW e \in T PROVE \E i \in 1 .. Len(order) : order[i] = e
  <2>1. CASE e = row
    <3>1. 1 \in 1 .. Len(order)
      BY <1>2, <1>3
    <3> QED
      BY <1>3, <2>1, <3>1
  <2>2. CASE e # row
    <3>1. PICK i \in 1 .. Len(rest) : rest[i] = e
      BY <2>2 DEF Listing
    <3>2. i + 1 \in 1 .. Len(order)
      BY <1>2, <1>3
    <3> QED
      BY <1>3, <3>1, <3>2
  <2> QED
    BY <2>1, <2>2
<1>6. ASSUME NEW i \in 1 .. Len(order), NEW j \in 1 .. Len(order), i < j
      PROVE  order[i].seq <= order[j].seq /\ order[i] # order[j]
  <2>1. j - 1 \in 1 .. Len(rest) /\ (j - 1) + 1 = j
    BY <1>2, <1>3, <1>6
  <2>2. order[j] = rest[j - 1] /\ order[j] \in T \ {row}
    BY <1>3, <1>4, <2>1
  <2>3. CASE i = 1
    BY <1>1, <1>3, <2>2, <2>3
  <2>4. CASE i # 1
    <3>1. i - 1 \in 1 .. Len(rest) /\ (i - 1) + 1 = i /\ i - 1 < j - 1
      BY <1>2, <1>3, <1>6, <2>4
    <3>2. order[i] = rest[i - 1]
      BY <1>3, <3>1
    <3>3. rest[i - 1].seq <= rest[j - 1].seq /\ rest[i - 1] # rest[j - 1]
      BY <2>1, <3>1 DEF Listing
    <3> QED
      BY <2>2, <3>2, <3>3
  <2> QED
    BY <2>3, <2>4
<1>7. Listing(T, order)
  BY <1>3, <1>5, <1>6 DEF Listing
<1> QED
  BY <1>7 DEF order

\* ORDER BY seq has an answer, and every answer lists the rows.
LEMMA BySeqLists ==
    ASSUME NEW S, IsFiniteSet(S), \A row \in S : row.seq \in Nat
    PROVE  BySeq(S) # {} /\ \A order \in BySeq(S) : Listing(S, order)
<1>1. PICK orders : orders = [T \in SUBSET S |-> OrdersOf(orders, T)] /\ BySeq(S) = orders[S]
  BY BySeqUnfolds
<1> DEFINE Good(T) == orders[T] # {} /\ \A order \in orders[T] : Listing(T, order)
           Has(n)  == \A T \in SUBSET S : Cardinality(T) = n => Good(T)
           sizes   == {n \in Nat : Has(n)}
<1>2. \A T \in SUBSET S : /\ IsFiniteSet(T) /\ Cardinality(T) \in Nat
                          /\ orders[T] = OrdersOf(orders, T)
  BY <1>1, FS_Subset, FS_CardinalityType
<1>3. Has(0)
  <2> SUFFICES ASSUME NEW T \in SUBSET S, Cardinality(T) = 0 PROVE Good(T)
    OBVIOUS
  <2>1. T = {}
    BY <1>2, FS_EmptySet
  <2>2. orders[T] = {<<>>}
    BY <1>2, <2>1 DEF OrdersOf
  <2>3. Listing({}, <<>>)
    BY DEF Listing
  <2> QED
    BY <2>1, <2>2, <2>3
<1>4. ASSUME NEW n \in Nat, Has(n) PROVE Has(n + 1)
  <2> SUFFICES ASSUME NEW T \in SUBSET S, Cardinality(T) = n + 1 PROVE Good(T)
    OBVIOUS
  <2>1. T # {}
    BY FS_EmptySet
  <2>2. orders[T] = UNION {{<<row>> \o rest : rest \in orders[T \ {row}]} : row \in Lowest(T)}
    BY <1>2, <2>1, Zenon DEF OrdersOf
  <2>3. ASSUME NEW row \in Lowest(T) PROVE Good(T \ {row})
    <3>1. row \in T /\ T \ {row} \in SUBSET S
      BY DEF Lowest
    <3>2. Cardinality(T \ {row}) = n
      BY <1>2, <3>1, FS_RemoveElement
    <3> HIDE DEF Good
    <3> QED
      BY <1>4, <3>1, <3>2
  <2>4. PICK low \in Lowest(T) : TRUE
    <3> DEFINE N == {row.seq : row \in T}
    <3>1. N \subseteq Nat /\ N # {}
      BY <2>1
    <3> HIDE DEF N
    <3>2. PICK least \in N : \A m \in N : least <= m
      BY <3>1, LeastElement
    <3>3. PICK row \in T : row.seq = least
      BY DEF N
    <3>4. row \in Lowest(T)
      BY <3>2, <3>3 DEF N, Lowest
    <3> QED
      BY <3>4
  <2>5. orders[T] # {}
    <3>1. PICK rest \in orders[T \ {low}] : TRUE
      BY <2>3
    <3>2. <<low>> \o rest \in {<<low>> \o other : other \in orders[T \ {low}]}
      BY Zenon
    <3> DEFINE F(row) == {<<row>> \o other : other \in orders[T \ {row}]}
    <3>3. orders[T] = UNION {F(row) : row \in Lowest(T)}
      BY <2>2, Zenon
    <3>4. <<low>> \o rest \in F(low)
      BY <3>2
    <3> HIDE DEF F
    <3>5. <<low>> \o rest \in orders[T]
      BY <2>4, <3>3, <3>4
    <3> QED
      BY <3>5
  <2>6. ASSUME NEW order \in orders[T] PROVE Listing(T, order)
    <3>1. PICK row \in Lowest(T) : order \in {<<row>> \o rest : rest \in orders[T \ {row}]}
      BY <2>2, Zenon
    <3>2. PICK rest \in orders[T \ {row}] : order = <<row>> \o rest
      BY <3>1
    <3>3. Listing(T \ {row}, rest)
      BY <2>3
    <3> QED
      BY <3>2, <3>3, ListingStep
  <2> QED
    BY <2>5, <2>6
<1>5. \A n \in Nat : n \in sizes
  <2>1. 0 \in sizes /\ \A n \in Nat : n \in sizes => n + 1 \in sizes
    BY <1>3, <1>4
  <2> HIDE DEF sizes
  <2> QED
    BY <2>1, InductionStep
<1>6. Has(Cardinality(S))
  <2> HIDE DEF Has
  <2> QED
    BY <1>2, <1>5
<1>7. Good(S)
  <2> HIDE DEF Good
  <2> QED
    BY <1>6
<1> QED
  BY <1>1, <1>7

\* Rows numbered from `from' on, no number twice: entry i is number from + i - 1.
LEMMA ListingIsNumbered ==
    ASSUME NEW S, \A row \in S : row.seq \in Nat, \A a, b \in S : a.seq = b.seq => a = b,
           NEW from \in Nat, NEW to \in Nat, from <= to, Seqs(S) = from .. to - 1,
           NEW order, Listing(S, order)
    PROVE  /\ Len(order) = to - from
           /\ \A i \in 1 .. Len(order) : order[i] \in S /\ order[i].seq = from + i - 1
<1> DEFINE n == Len(order)
<1>1. n \in Nat /\ \A i \in 1 .. n : order[i] \in S
  BY DEF Listing
<1>2. \A i \in 1 .. n : order[i].seq \in from .. to - 1
  BY <1>1 DEF Seqs
<1>3. \A s \in from .. to - 1 : \E i \in 1 .. n : order[i].seq = s
  <2> SUFFICES ASSUME NEW s \in Seqs(S) PROVE \E i \in 1 .. n : order[i].seq = s
    OBVIOUS
  <2>1. PICK row \in S : row.seq = s
    BY DEF Seqs
  <2>2. PICK i \in 1 .. n : order[i] = row
    BY DEF Listing
  <2> QED
    BY <2>1, <2>2
<1>4. \A i, j \in 1 .. n : i < j => order[i].seq < order[j].seq
  <2> SUFFICES ASSUME NEW i \in 1 .. n, NEW j \in 1 .. n, i < j PROVE order[i].seq < order[j].seq
    OBVIOUS
  <2>1. order[i].seq <= order[j].seq /\ order[i] # order[j]
    BY DEF Listing
  <2>2. order[i].seq # order[j].seq
    BY <1>1, <2>1
  <2>3. order[i].seq \in Nat /\ order[j].seq \in Nat
    BY <1>1
  <2> QED
    BY <2>1, <2>2, <2>3
<1> HIDE DEF n
<1> DEFINE placed == {k \in Nat : k + 1 <= n => order[k + 1].seq = from + k}
<1>5. 0 \in placed
  <2> SUFFICES ASSUME 1 <= n PROVE order[1].seq = from
    OBVIOUS
  <2>1. 1 \in 1 .. n /\ order[1].seq \in from .. to - 1
    BY <1>1, <1>2
  <2>2. PICK j \in 1 .. n : order[j].seq = from
    BY <1>3, <2>1
  <2>3. j = 1 \/ 1 < j
    OBVIOUS
  <2>4. 1 < j => order[1].seq < order[j].seq
    BY <1>4, <2>1
  <2> QED
    BY <2>1, <2>2, <2>3, <2>4
<1>6. ASSUME NEW k \in Nat, k \in placed PROVE k + 1 \in placed
  <2> SUFFICES ASSUME k + 2 <= n PROVE order[k + 2].seq = from + k + 1
    OBVIOUS
  <2>1. k + 1 \in 1 .. n /\ k + 2 \in 1 .. n /\ order[k + 1].seq = from + k
    BY <1>1, <1>6
  <2>2. order[k + 1].seq < order[k + 2].seq /\ order[k + 2].seq \in from .. to - 1
    BY <1>2, <1>4, <2>1
  <2>3. PICK j \in 1 .. n : order[j].seq = from + k + 1
    BY <1>3, <2>1, <2>2
  <2>4. j = k + 2 \/ j = k + 1 \/ j < k + 1 \/ k + 2 < j
    BY <1>1
  <2>5. /\ j < k + 1 => order[j].seq < order[k + 1].seq
        /\ k + 2 < j => order[k + 2].seq < order[j].seq
    BY <1>4, <2>1
  <2> QED
    BY <2>1, <2>2, <2>3, <2>4, <2>5
<1>7. \A k \in Nat : k \in placed
  <2> HIDE DEF placed
  <2> QED
    BY <1>5, <1>6, InductionStep
<1>8. ASSUME NEW i \in 1 .. n PROVE order[i].seq = from + i - 1
  <2>1. i - 1 \in Nat /\ (i - 1) + 1 = i
    BY <1>1
  <2>2. i - 1 \in placed
    BY <1>7, <2>1, Zenon
  <2> QED
    BY <1>1, <2>1, <2>2
<1>9. n = to - from
  <2>1. CASE from = to
    <3>1. ASSUME n >= 1 PROVE FALSE
      <4>1. 1 \in 1 .. n
        BY <1>1, <3>1
      <4> QED
        BY <1>2, <2>1, <4>1
    <3> QED
      BY <1>1, <2>1, <3>1
  <2>2. CASE from # to
    <3>1. PICK j \in 1 .. n : order[j].seq = to - 1
      BY <1>3, <2>2
    <3>2. n \in 1 .. n
      BY <1>1
    <3>3. order[n].seq = from + n - 1 /\ order[j].seq = from + j - 1
      BY <1>8, <3>2
    <3>4. order[n].seq \in from .. to - 1
      BY <1>2, <3>2
    <3> QED
      BY <1>1, <3>1, <3>3, <3>4
  <2> QED
    BY <2>1, <2>2
<1> QED
  BY <1>1, <1>8, <1>9 DEF n

-----------------------------------------------------------------------------
(* What anchoring leaves behind where no two rows share a seq.             *)

\* w are the rows of S that are numbered from `from' on.
SliceAt(S, from, w) ==
    /\ from \in Nat
    /\ w \in Seq(S)
    /\ \A i \in 1 .. Len(w) : w[i].seq = from + i - 1

\* A function.
IsMap(map) == map = [e \in DOMAIN map |-> map[e]]

\* Where a run over the checkpoints of a map resumes, and what it links to.
NextSeq(map) == IF map = EmptyMap THEN 0 ELSE Max(DOMAIN map) + 1
LastId(map) == IF map = EmptyMap THEN <<>> ELSE map[Max(DOMAIN map)].id

\* Checkpoint cp tells the truth about its window: the rows `committed'.
Commits(t, S, cp, committed) ==
    \E w : /\ SliceAt(S, cp.seqStart, w) /\ w # <<>>
           /\ cp = Build(t, w, cp.prev, cp.anchoredAt)
           /\ committed = Range(w)

\* Number n follows the window of an object, or is the first.
Reached(objects, n) == n = 0 \/ n - 1 \in DOMAIN objects

\* A checkpoint that may be put: besides, no gap opens in front of it.
Writable(t, S, objects, cp, committed) ==
    /\ Commits(t, S, cp, committed)
    /\ Reached(objects, cp.seqStart)

ObjectsOK(t, S, objects, committed) ==
    /\ DOMAIN committed = DOMAIN objects
    /\ \A e \in DOMAIN objects :
          objects[e].seqEnd = e /\ Writable(t, S, objects, objects[e], committed[e])

\* The stores of tenant t, and what is on its way to them.
StoresOK(t) ==
    /\ ObjectsOK(t, rows[t], worm[t], leaves[t])
    /\ IsMap(cps[t]) /\ DOMAIN cps[t] \subseteq DOMAIN worm[t]
    /\ \A put \in late :
          put.tenant = t => Writable(t, rows[t], worm[t], put.cp, put.rows)

\* The run, when it is at tenant t.
RunOK(t) == run.tenant = t =>
    /\ run.entries # <<>>
    /\ \E from : SliceAt(rows[t], from, run.entries) /\ Reached(worm[t], from)
    /\ run.pc \in {"put", "record", "stamp"} =>
          run.cp = Build(t, Window(run.entries), run.prev, run.cp.anchoredAt)
    /\ run.pc \in {"record", "stamp"} => run.cp.seqEnd \in DOMAIN worm[t]

\* What holds besides as long as every object was recorded: WORM and the working
\* copy agree, but for an object just put, each object chains to the one before
\* it, and the run goes on from the last one.
Recorded(t) ==
    IF run.tenant = t /\ run.pc = "record"
    THEN /\ worm[t] = With(cps[t], run.cp.seqEnd, run.cp)
         /\ NextSeq(cps[t]) <= run.cp.seqEnd
    ELSE worm[t] = cps[t]

ProofsOK(t) ==
    \A k \in DOMAIN proofs[t] :
        k[1] \in DOMAIN cps[t] /\ VerifyProof(k[2], proofs[t][k], cps[t][k[1]].id)

RunGoesOn(t) == run.tenant = t =>
    /\ run.pc \in {"build", "put", "record"} =>
          /\ SliceAt(rows[t], NextSeq(cps[t]), run.entries)
          /\ run.prev = LastId(cps[t])
    /\ run.pc = "stamp" =>
          /\ run.cp.seqEnd \in DOMAIN cps[t] /\ cps[t][run.cp.seqEnd] = run.cp
          /\ NextSeq(cps[t]) = run.cp.seqEnd + 1 /\ LastId(cps[t]) = run.cp.id

ExactOK(t) ==
    /\ \A put \in late : put.tenant # t
    /\ Recorded(t)
    /\ \A e \in DOMAIN worm[t] : worm[t][e].prev = PrevId(worm[t], e)
    /\ ProofsOK(t)
    /\ RunGoesOn(t)

TenantOK(t) == StoresOK(t) /\ RunOK(t) /\ (t \notin cut => ExactOK(t))

RowsFinite ==
    /\ \A t \in Tenants : IsFiniteSet(rows[t])
    /\ \A r \in Requests : IsFiniteSet(draft[r].entries)

PipelineTypes ==
    /\ DOMAIN worm = Tenants /\ DOMAIN cps = Tenants /\ DOMAIN proofs = Tenants
    /\ DOMAIN leaves = Tenants
    /\ DOMAIN run = DOMAIN Idle
    /\ \/ run = Idle
       \/ run.tenant \in Tenants /\ run.pc \in {"build", "put", "record", "stamp"}

\* The condition is one that no later state regains: rows only come in.
PipelineInv ==
    /\ RowsFinite
    /\ PipelineTypes
    /\ \A t \in Tenants : UniqueSeqs(t) => TenantOK(t)

\* The checkpoint of a slice, and where it lies.
LEMMA CommitsWindow ==
    ASSUME NEW t, NEW S, NEW cp, NEW committed, Commits(t, S, cp, committed)
    PROVE  /\ cp.seqStart \in Nat /\ cp.seqEnd \in Nat /\ cp.seqStart <= cp.seqEnd
           /\ \E row \in S : row.seq = cp.seqEnd
           /\ \E w : /\ SliceAt(S, cp.seqStart, w) /\ Len(w) = cp.seqEnd - cp.seqStart + 1
                     /\ cp = Build(t, w, cp.prev, cp.anchoredAt)
                     /\ committed = Range(w)
<1>1. PICK w : /\ SliceAt(S, cp.seqStart, w) /\ w # <<>>
               /\ cp = Build(t, w, cp.prev, cp.anchoredAt)
               /\ committed = Range(w)
  BY Zenon DEF Commits
<1>2. cp.seqEnd = w[Len(w)].seq
  <2>1. Build(t, w, cp.prev, cp.anchoredAt).seqEnd = w[Len(w)].seq
    BY DEF Build
  <2> QED
    BY <1>1, <2>1, Zenon
<1>3. /\ cp.seqStart \in Nat /\ w \in Seq(S) /\ Len(w) \in Nat /\ Len(w) # 0
      /\ \A i \in 1 .. Len(w) : w[i] \in S /\ w[i].seq = cp.seqStart + i - 1
  BY <1>1 DEF SliceAt
<1>4. Len(w) \in 1 .. Len(w)
  BY <1>3
<1>5. cp.seqEnd = cp.seqStart + Len(w) - 1 /\ w[Len(w)] \in S
  BY <1>2, <1>3, <1>4
<1>6. cp.seqEnd \in Nat /\ cp.seqStart <= cp.seqEnd /\ Len(w) = cp.seqEnd - cp.seqStart + 1
  BY <1>3, <1>5
<1> QED
  BY <1>1, <1>2, <1>3, <1>5, <1>6

\* The keys of objects are positions of rows.
LEMMA KeysAreSeqs ==
    ASSUME NEW t, NEW S, \A row \in S : row.seq \in Nat,
           NEW objects, NEW committed, ObjectsOK(t, S, objects, committed)
    PROVE  DOMAIN objects \subseteq Nat /\ DOMAIN objects \subseteq Seqs(S)
<1>1. ASSUME NEW e \in DOMAIN objects PROVE e \in Nat /\ e \in Seqs(S)
  <2>1. objects[e].seqEnd = e /\ Commits(t, S, objects[e], committed[e])
    BY DEF ObjectsOK, Writable
  <2>2. objects[e].seqEnd \in Nat /\ \E row \in S : row.seq = objects[e].seqEnd
    BY <2>1, CommitsWindow
  <2> QED
    BY <2>1, <2>2 DEF Seqs
<1> QED
  BY <1>1

\* A PutObject, though it may replace an object, leaves a store that has a
\* truthful object under each key it had, and no gap.
LEMMA PutKeepsObjects ==
    ASSUME NEW t, NEW S, NEW objects, NEW committed, ObjectsOK(t, S, objects, committed),
           NEW cp, NEW leafs, Writable(t, S, objects, cp, leafs)
    PROVE  ObjectsOK(t, S, With(objects, cp.seqEnd, cp), With(committed, cp.seqEnd, leafs))
<1> DEFINE key   == cp.seqEnd
           new   == With(objects, key, cp)
           added == With(committed, key, leafs)
<1>1. /\ DOMAIN new = DOMAIN objects \cup {key} /\ new[key] = cp
      /\ \A e \in DOMAIN objects : e # key => new[e] = objects[e]
  BY DEF With
<1>2. /\ DOMAIN added = DOMAIN committed \cup {key} /\ added[key] = leafs
      /\ \A e \in DOMAIN committed : e # key => added[e] = committed[e]
  BY DEF With
<1>3. DOMAIN committed = DOMAIN objects
  BY DEF ObjectsOK
<1> HIDE DEF new, added
<1>4. ASSUME NEW any, NEW those, Writable(t, S, objects, any, those)
      PROVE  Writable(t, S, new, any, those)
  BY <1>1, <1>4 DEF Writable, Reached
<1>5. ASSUME NEW e \in DOMAIN new
      PROVE  new[e].seqEnd = e /\ Writable(t, S, new, new[e], added[e])
  <2>1. CASE e = key
    BY <1>1, <1>2, <1>4, <2>1
  <2>2. CASE e # key
    <3>1. e \in DOMAIN objects /\ new[e] = objects[e] /\ added[e] = committed[e]
      BY <1>1, <1>2, <1>3, <2>2
    <3>2. objects[e].seqEnd = e /\ Writable(t, S, objects, objects[e], committed[e])
      BY <3>1 DEF ObjectsOK
    <3> QED
      BY <1>4, <3>1, <3>2
  <2> QED
    BY <2>1, <2>2
<1>6. ObjectsOK(t, S, new, added)
  BY <1>1, <1>2, <1>3, <1>5 DEF ObjectsOK
<1> QED
  BY <1>6 DEF new, added

\* The largest key decides where to resume.
LEMMA NextSeqCorrect ==
    ASSUME NEW map, IsMap(map), DOMAIN map \subseteq Nat,
           NEW bound \in Nat, \A e \in DOMAIN map : e <= bound
    PROVE  /\ NextSeq(map) \in Nat
           /\ \A e \in DOMAIN map : e < NextSeq(map)
           /\ DOMAIN map = {} => NextSeq(map) = 0 /\ LastId(map) = <<>>
           /\ DOMAIN map # {} => /\ NextSeq(map) = Max(DOMAIN map) + 1
                                 /\ Max(DOMAIN map) \in DOMAIN map
                                 /\ LastId(map) = map[Max(DOMAIN map)].id
<1>1. CASE DOMAIN map = {}
  <2>1. map = EmptyMap
    BY <1>1 DEF EmptyMap, IsMap
  <2> QED
    BY <1>1, <2>1 DEF NextSeq, LastId
<1>2. CASE DOMAIN map # {}
  <2>1. map # EmptyMap
    BY <1>2 DEF EmptyMap
  <2>2. PICK last \in DOMAIN map : \A e \in DOMAIN map : last >= e
    BY <1>2, LargestElement
  <2>3. Max(DOMAIN map) \in DOMAIN map /\ \A e \in DOMAIN map : Max(DOMAIN map) >= e
    BY <2>2, MaxIsLast
  <2>4. Max(DOMAIN map) \in Nat
    BY <2>3
  <2>5. \A e \in DOMAIN map : e < Max(DOMAIN map) + 1
    BY <2>3, <2>4
  <2> QED
    BY <1>2, <2>1, <2>3, <2>4, <2>5 DEF NextSeq, LastId
<1> QED
  BY <1>1, <1>2

\* `new' is map and, under a key behind all others, cp: cp becomes the last, the
\* others stay what they are.
Extended(map, key, cp, new) ==
    /\ IsMap(new)
    /\ DOMAIN new = DOMAIN map \cup {key} /\ key \notin DOMAIN map
    /\ new[key] = cp /\ \A e \in DOMAIN map : new[e] = map[e]
    /\ \A e \in DOMAIN map : PrevId(new, e) = PrevId(map, e)
    /\ PrevId(new, key) = LastId(map)
    /\ NextSeq(new) = key + 1 /\ LastId(new) = cp.id

\* A checkpoint over the next rows is put.
LEMMA PutNext ==
    ASSUME NEW map, IsMap(map), DOMAIN map \subseteq Nat,
           NEW bound \in Nat, \A e \in DOMAIN map : e <= bound,
           NEW key \in Nat, NextSeq(map) <= key, NEW cp,
           NEW new, new = With(map, key, cp)
    PROVE  Extended(map, key, cp, new)
<1>1. /\ NextSeq(map) \in Nat
      /\ \A e \in DOMAIN map : e < NextSeq(map)
      /\ DOMAIN map = {} => NextSeq(map) = 0 /\ LastId(map) = <<>>
      /\ DOMAIN map # {} => /\ NextSeq(map) = Max(DOMAIN map) + 1
                            /\ Max(DOMAIN map) \in DOMAIN map
                            /\ LastId(map) = map[Max(DOMAIN map)].id
  BY NextSeqCorrect
<1>2. \A e \in DOMAIN map : e \in Nat /\ e < key /\ e # key
  BY <1>1
<1>3. key \notin DOMAIN map
  BY <1>2
<1>4. /\ IsMap(new)
      /\ DOMAIN new = DOMAIN map \cup {key}
      /\ new[key] = cp /\ \A e \in DOMAIN map : new[e] = map[e]
  BY <1>3 DEF With, IsMap
<1>5. ASSUME NEW e \in DOMAIN map
      PROVE  PrevId(new, e) = PrevId(map, e)
  <2>1. Below(new, e) = Below(map, e)
    <3>1. ~(key < e)
      BY <1>2
    <3> QED
      BY <1>4, <3>1 DEF Below
  <2>2. Below(map, e) \subseteq DOMAIN map
    BY DEF Below
  <2>3. CASE Below(map, e) = {}
    BY <2>1, <2>3 DEF PrevId
  <2>4. CASE Below(map, e) # {}
    <3>1. PICK last \in Below(map, e) : \A d \in Below(map, e) : last >= d
      BY <2>2, <2>4, LargestElement
    <3>2. Max(Below(map, e)) \in Below(map, e)
      BY <3>1, MaxIsLast
    <3> QED
      BY <1>4, <2>1, <2>2, <2>4, <3>2 DEF PrevId
  <2> QED
    BY <2>1, <2>3, <2>4
<1>6. Below(new, key) = DOMAIN map
  <2>1. ~(key < key)
    OBVIOUS
  <2> QED
    BY <1>2, <1>4, <2>1 DEF Below
<1>7. PrevId(new, key) = LastId(map)
  BY <1>1, <1>4, <1>6 DEF PrevId
<1>8. NextSeq(new) = key + 1 /\ LastId(new) = cp.id
  <2>1. /\ DOMAIN new # {} /\ DOMAIN new \subseteq Nat /\ \A e \in DOMAIN new : e <= key
        /\ \A e \in DOMAIN new : key >= e
    BY <1>2, <1>4
  <2>2. Max(DOMAIN new) \in DOMAIN new /\ \A e \in DOMAIN new : Max(DOMAIN new) >= e
    BY <1>4, <2>1, MaxIsLast
  <2>3. Max(DOMAIN new) = key
    <3>1. Max(DOMAIN new) \in Nat /\ Max(DOMAIN new) <= key /\ Max(DOMAIN new) >= key
      BY <1>4, <2>1, <2>2
    <3> QED
      BY <3>1
  <2>4. /\ NextSeq(new) = Max(DOMAIN new) + 1
        /\ LastId(new) = new[Max(DOMAIN new)].id
    BY <1>4, <2>1, NextSeqCorrect
  <2> QED
    BY <1>4, <2>3, <2>4
<1> QED
  BY <1>3, <1>4, <1>5, <1>7, <1>8 DEF Extended

-----------------------------------------------------------------------------
(* The rows.                                                               *)

\* The pipeline does to the gateway's state what the gateway does.
LEMMA PipelineIsGateway == PipelineSpec => Spec
<1>1. PipelineInit => Init
  BY DEF PipelineInit
<1>2. [PipelineNext]_pipelineVars => [Next]_vars
  BY DEF PipelineNext, AnchorTenant, BuildAndGet, PutWorm, PutCheckpoint, StampAndPutProof,
         WindowDone, AnchorFails, LatePut, pipelineVars
<1> QED
  BY <1>1, <1>2, PTL DEF PipelineSpec, Spec

\* Rows come in and stay, finitely many at a time.
LEMMA RowsGrow ==
    ASSUME Inv, RowsFinite, [Next]_vars
    PROVE  RowsFinite' /\ \A t \in Tenants : rows[t] \subseteq rows'[t]
<1> USE DEF Inv, TypeOK
<1>1. ASSUME NEW r \in Requests, Land(r)
      PROVE  RowsFinite' /\ \A t \in Tenants : rows[t] \subseteq rows'[t]
  <2>1. \A t \in Tenants : rows'[t] = IF t = tenant[r] THEN rows[t] \cup draft[r].entries ELSE rows[t]
    BY <1>1 DEF Land
  <2>2. \A t \in Tenants : IsFiniteSet(rows[t] \cup draft[r].entries)
    BY FS_Union DEF RowsFinite
  <2>3. draft' = draft
    BY <1>1 DEF Land
  <2> QED
    BY <2>1, <2>2, <2>3 DEF RowsFinite
<1>2. ASSUME NEW r \in Requests, StartBatch(r) PROVE RowsFinite' /\ rows' = rows
  <2>1. \A q \in Requests : draft'[q].entries = IF q = r THEN {} ELSE draft[q].entries
    BY <1>2 DEF StartBatch
  <2> QED
    BY <1>2, <2>1, FS_EmptySet DEF RowsFinite, StartBatch
<1>3. ASSUME NEW r \in Requests, SealRecord(r) PROVE RowsFinite' /\ rows' = rows
  <2>1. PICK entry : \A q \in Requests : draft'[q].entries =
                        IF q = r THEN draft[r].entries \cup {entry} ELSE draft[q].entries
    BY <1>3 DEF SealRecord
  <2>2. IsFiniteSet(draft[r].entries \cup {entry})
    BY FS_AddElement DEF RowsFinite
  <2> QED
    BY <1>3, <2>1, <2>2 DEF RowsFinite, SealRecord
<1>4. CASE UNCHANGED <<rows, draft>>
  BY <1>4 DEF RowsFinite
<1> QED
  BY <1>1, <1>2, <1>3, <1>4 DEF Next, SealStep, vars, Reject, AcceptEmpty, Receive, Lock, LoadHead,
     LoadHeadFails, SendBatch, AppendOK, AppendFails, Crash

\* If no two rows share a seq they are numbered without a gap, each linked to
\* the one before: ChainRooted has every row follow a row.
LEMMA UniqueRowsAreNumbered ==
    ASSUME Inv, RowsFinite, NEW t \in Tenants, UniqueSeqs(t)
    PROVE  \E n \in Nat : Numbered(t, rows[t], n)
<1> DEFINE S == rows[t]
           N == Seqs(S)
<1>1. /\ S \subseteq Row /\ IsFiniteSet(S) /\ \A a, b \in S : a.seq = b.seq => a = b
      /\ \A row \in S : Linked(t, S, row)
  BY DEF Inv, TypeOK, RowsFinite, UniqueSeqs, ChainRooted, Linked
<1>2. IsFiniteSet(N)
  <2> DEFINE seqOf == [row \in S |-> row.seq]
  <2>1. seqOf \in Surjection(S, N)
    BY DEF Seqs, Surjection
  <2> HIDE DEF seqOf
  <2> QED
    BY <1>1, <2>1, FS_Surjection, Zenon
<1>3. N \subseteq Nat
  BY <1>1 DEF Seqs, Row
<1>4. \A s \in N : s # 0 => s - 1 \in N
  <2> SUFFICES ASSUME NEW row \in S, row.seq # 0 PROVE row.seq - 1 \in N
    BY DEF Seqs
  <2>1. PICK p \in S : p.seq + 1 = row.seq
    BY <1>1 DEF Linked, At
  <2>2. p.seq \in Nat
    BY <1>1 DEF Row
  <2> QED
    BY <2>1, <2>2 DEF Seqs
<1> HIDE DEF S, N
<1>5. \E n \in Nat : N = 0 .. n - 1
  <2>1. CASE N = {}
    BY <2>1
  <2>2. CASE N # {}
    <3>1. PICK last \in N : \A s \in N : last >= s
      BY <1>2, <1>3, <2>2, LastOfFinite
    <3> DEFINE gaps == (0 .. last) \ N
    <3>2. gaps = {}
      <4> SUFFICES ASSUME gaps # {} PROVE FALSE
        OBVIOUS
      <4>1. gaps \subseteq Nat /\ last \in Nat /\ \A s \in gaps : s <= last
        BY <1>3, <3>1
      <4> HIDE DEF gaps
      <4>2. PICK gap \in gaps : \A s \in gaps : gap >= s
        BY <4>1, LargestElement
      <4>3. gap \in Nat /\ gap <= last /\ gap \notin N
        BY <4>1 DEF gaps
      <4>4. gap # last
        BY <3>1, <4>3
      <4>5. gap + 1 \in 0 .. last /\ ~(gap >= gap + 1)
        BY <4>1, <4>3, <4>4
      <4>6. gap + 1 \in N
        BY <4>2, <4>5 DEF gaps
      <4>7. gap + 1 # 0 /\ (gap + 1) - 1 = gap
        BY <4>3
      <4> QED
        BY <1>4, <4>3, <4>6, <4>7
    <3>3. last \in Nat /\ last + 1 \in Nat /\ (last + 1) - 1 = last
      BY <1>3, <3>1
    <3>4. N \subseteq 0 .. last
      BY <1>3, <3>1, <3>3
    <3>5. N = 0 .. last
      BY <3>2, <3>4
    <3> HIDE DEF gaps
    <3> QED
      BY <3>3, <3>5
  <2> QED
    BY <2>1, <2>2
<1> QED
  BY <1>1, <1>5 DEF Numbered, S, N

-----------------------------------------------------------------------------
(* Every step preserves the invariant.                                     *)

\* Rows that come in leave a slice what it is.
LEMMA SliceGrows ==
    ASSUME NEW S, NEW T, S \subseteq T, NEW from, NEW w, SliceAt(S, from, w)
    PROVE  SliceAt(T, from, w)
<1>1. w \in Seq(S)
  BY DEF SliceAt
<1>2. w \in Seq(T)
  BY <1>1
<1> QED
  BY <1>2 DEF SliceAt

\* A slice is cut in two.
LEMMA SliceSplits ==
    ASSUME NEW S, NEW from, NEW w, SliceAt(S, from, w), NEW n \in 1 .. Len(w)
    PROVE  LET window == SubSeq(w, 1, n)
               rest   == SubSeq(w, n + 1, Len(w))
           IN  /\ SliceAt(S, from, window) /\ Len(window) = n
               /\ window[1].seq = from /\ window[n] \in S /\ window[n].seq = from + n - 1
               /\ SliceAt(S, from + n, rest)
<1> DEFINE window == SubSeq(w, 1, n)
           rest   == SubSeq(w, n + 1, Len(w))
<1>1. /\ w \in Seq(S) /\ Len(w) \in Nat /\ from \in Nat /\ n \in Nat /\ 1 <= n /\ n <= Len(w)
      /\ \A i \in 1 .. Len(w) : w[i] \in S /\ w[i].seq = from + i - 1
  BY DEF SliceAt
<1>2. /\ window \in Seq(S) /\ Len(window) = n
      /\ \A i \in 1 .. n : window[i] = w[i]
  BY <1>1
<1>3. /\ rest \in Seq(S) /\ Len(rest) = Len(w) - n
      /\ \A i \in 1 .. Len(rest) : rest[i] = w[n + i]
  BY <1>1
<1> HIDE DEF window, rest
<1>4. \A i \in 1 .. n : i \in 1 .. Len(w)
  BY <1>1
<1>5. SliceAt(S, from, window)
  BY <1>1, <1>2, <1>4 DEF SliceAt
<1>6. ASSUME NEW i \in 1 .. Len(rest) PROVE rest[i].seq = (from + n) + i - 1
  <2>1. n + i \in 1 .. Len(w)
    BY <1>1, <1>3
  <2>2. rest[i].seq = from + (n + i) - 1
    BY <1>1, <1>3, <2>1
  <2> QED
    BY <1>1, <2>2
<1>7. SliceAt(S, from + n, rest)
  BY <1>1, <1>3, <1>6 DEF SliceAt
<1>8. 1 \in 1 .. Len(w) /\ 1 \in 1 .. n /\ n \in 1 .. n
  BY <1>1
<1>9. window[1].seq = from + 1 - 1 /\ window[n] \in S /\ window[n].seq = from + n - 1
  BY <1>1, <1>2, <1>8
<1> QED
  BY <1>1, <1>2, <1>5, <1>7, <1>9 DEF window, rest

\* Rows that come in, and objects under further keys, leave a checkpoint what
\* it is.
LEMMA WritableStays ==
    ASSUME NEW t, NEW S, NEW T, S \subseteq T,
           NEW objects, NEW more, DOMAIN objects \subseteq DOMAIN more,
           NEW cp, NEW committed, Writable(t, S, objects, cp, committed)
    PROVE  Writable(t, T, more, cp, committed)
<1>1. PICK w : /\ SliceAt(S, cp.seqStart, w) /\ w # <<>>
               /\ cp = Build(t, w, cp.prev, cp.anchoredAt)
               /\ committed = Range(w)
  BY Zenon DEF Commits, Writable
<1>2. SliceAt(T, cp.seqStart, w)
  BY <1>1, SliceGrows
<1>3. Commits(t, T, cp, committed)
  BY <1>1, <1>2, Zenon DEF Commits
<1>4. Reached(more, cp.seqStart)
  BY DEF Writable, Reached
<1> QED
  BY <1>3, <1>4 DEF Writable

LEMMA ObjectsStay ==
    ASSUME NEW t, NEW S, NEW T, S \subseteq T,
           NEW objects, NEW committed, ObjectsOK(t, S, objects, committed)
    PROVE  ObjectsOK(t, T, objects, committed)
<1>1. ASSUME NEW e \in DOMAIN objects
      PROVE  objects[e].seqEnd = e /\ Writable(t, T, objects, objects[e], committed[e])
  <2>1. objects[e].seqEnd = e /\ Writable(t, S, objects, objects[e], committed[e])
    BY DEF ObjectsOK
  <2> QED
    BY <2>1, WritableStays
<1> QED
  BY <1>1 DEF ObjectsOK

\* The window that is cut from a slice, and what is left of it.
LEMMA WindowCorrect ==
    ASSUME NEW S, NEW from, NEW entries, SliceAt(S, from, entries), entries # <<>>,
           NEW t, NEW prev, NEW at
    PROVE  LET cp == Build(t, Window(entries), prev, at)
           IN  /\ SliceAt(S, from, Window(entries)) /\ Window(entries) # <<>>
               /\ cp.seqStart = from /\ cp.seqEnd \in Nat /\ from <= cp.seqEnd
               /\ cp.prev = prev /\ cp.anchoredAt = at
               /\ SliceAt(S, cp.seqEnd + 1, Rest(entries))
<1> DEFINE n    == Min({WindowMax, Len(entries)})
           w    == Window(entries)
           rest == Rest(entries)
           cp   == Build(t, w, prev, at)
<1>1. n \in 1 .. Len(entries)
  <2>1. Len(entries) \in Nat /\ Len(entries) # 0
    BY DEF SliceAt
  <2>2. WindowMax \in Nat /\ WindowMax # 0
    BY PipelineConstants
  <2>3. n = IF WindowMax <= Len(entries) THEN WindowMax ELSE Len(entries)
    BY <2>1, <2>2, MinOfTwo
  <2> QED
    BY <2>1, <2>2, <2>3
<1>2. w = SubSeq(entries, 1, n) /\ rest = SubSeq(entries, n + 1, Len(entries))
  BY DEF Window, Rest
<1> HIDE DEF n, w, rest
<1>3. /\ SliceAt(S, from, w) /\ Len(w) = n
      /\ w[1].seq = from /\ w[n] \in S /\ w[n].seq = from + n - 1
      /\ SliceAt(S, from + n, rest)
  BY <1>1, <1>2, SliceSplits
<1>4. /\ cp.seqStart = from /\ cp.seqEnd = from + n - 1
      /\ cp.prev = prev /\ cp.anchoredAt = at
  BY <1>3 DEF Build
<1> HIDE DEF cp
<1>5. /\ from \in Nat /\ n \in Nat /\ n >= 1
  BY <1>1 DEF SliceAt
<1>6. cp.seqEnd \in Nat /\ from <= cp.seqEnd /\ cp.seqEnd + 1 = from + n
  BY <1>4, <1>5
<1>7. w # <<>>
  BY <1>3, <1>5
<1> QED
  BY <1>3, <1>4, <1>6, <1>7 DEF cp, w, rest

\* What the run has built may be put.
LEMMA RunWritable ==
    ASSUME NEW t, run.tenant = t, RunOK(t), run.pc \in {"put", "record", "stamp"}
    PROVE  /\ Writable(t, rows[t], worm[t], run.cp, Range(Window(run.entries)))
           /\ run.cp.prev = run.prev
           /\ run.cp.seqEnd \in Nat
           /\ SliceAt(rows[t], run.cp.seqEnd + 1, Rest(run.entries))
           /\ \A from : SliceAt(rows[t], from, run.entries) => from <= run.cp.seqEnd
<1> DEFINE cp == run.cp
           w  == Window(run.entries)
<1>1. /\ run.entries # <<>>
      /\ cp = Build(t, w, run.prev, cp.anchoredAt)
      /\ \E from : SliceAt(rows[t], from, run.entries) /\ Reached(worm[t], from)
  BY Zenon DEF RunOK
<1>2. PICK from : SliceAt(rows[t], from, run.entries) /\ Reached(worm[t], from)
  BY <1>1
<1>3. ASSUME NEW start, SliceAt(rows[t], start, run.entries)
      PROVE  /\ SliceAt(rows[t], start, w) /\ w # <<>>
             /\ cp.seqStart = start /\ cp.seqEnd \in Nat /\ start <= cp.seqEnd
             /\ cp.prev = run.prev
             /\ SliceAt(rows[t], cp.seqEnd + 1, Rest(run.entries))
  <2>0. PICK p, at : p = run.prev /\ at = cp.anchoredAt
    OBVIOUS
  <2> DEFINE made == Build(t, w, p, at)
  <2>1. /\ SliceAt(rows[t], start, w) /\ w # <<>>
        /\ made.seqStart = start /\ made.seqEnd \in Nat /\ start <= made.seqEnd
        /\ made.prev = p
        /\ SliceAt(rows[t], made.seqEnd + 1, Rest(run.entries))
    <3>1. PICK entries : entries = run.entries
      OBVIOUS
    <3>2. entries # <<>> /\ SliceAt(rows[t], start, entries)
      BY <1>1, <1>3, <3>1
    <3> DEFINE built == Build(t, Window(entries), p, at)
    <3>3. /\ SliceAt(rows[t], start, Window(entries)) /\ Window(entries) # <<>>
          /\ built.seqStart = start /\ built.seqEnd \in Nat /\ start <= built.seqEnd
          /\ built.prev = p
          /\ SliceAt(rows[t], built.seqEnd + 1, Rest(entries))
      BY <3>2, WindowCorrect
    <3> QED
      BY <3>1, <3>3
  <2>2. cp = made
    BY <1>1, <2>0
  <2> HIDE DEF made
  <2> QED
    BY <2>0, <2>1, <2>2
<1> HIDE DEF cp, w
<1>4. /\ SliceAt(rows[t], cp.seqStart, w) /\ w # <<>> /\ cp.seqStart = from
      /\ cp.prev = run.prev /\ cp.seqEnd \in Nat
      /\ SliceAt(rows[t], cp.seqEnd + 1, Rest(run.entries))
  BY <1>2, <1>3
<1>5. cp = Build(t, w, cp.prev, cp.anchoredAt)
  BY <1>1, <1>4, Zenon
<1>6. Commits(t, rows[t], cp, Range(w))
  BY <1>4, <1>5, Zenon DEF Commits
<1>7. Writable(t, rows[t], worm[t], cp, Range(w))
  BY <1>2, <1>4, <1>6 DEF Writable
<1> QED
  BY <1>3, <1>4, <1>7 DEF cp, w

\* A tenant that a step leaves alone.
LEMMA OthersKeep ==
    ASSUME NEW u, TenantOK(u), run' = run \/ (run.tenant # u /\ run'.tenant # u),
           rows'[u] = rows[u], worm'[u] = worm[u], cps'[u] = cps[u], proofs'[u] = proofs[u],
           leaves'[u] = leaves[u], \A put \in late' : put.tenant = u => put \in late,
           u \in cut => u \in cut'
    PROVE  TenantOK(u)'
<1>1. StoresOK(u)'
  BY DEF TenantOK, StoresOK
<1>2. RunOK(u)'
  BY DEF TenantOK, RunOK
<1>3. ASSUME u \notin cut' PROVE ExactOK(u)'
  <2>1. ExactOK(u)
    BY <1>3 DEF TenantOK
  <2> QED
    BY <2>1 DEF ExactOK, Recorded, ProofsOK, RunGoesOn
<1> QED
  BY <1>1, <1>2, <1>3 DEF TenantOK

\* A step of the run, or of a PutObject, that is at tenant t.
LEMMA StepAtTenant ==
    ASSUME PipelineInv, NEW t \in Tenants, UNCHANGED vars, PipelineTypes',
           run' = run \/ \A u \in Tenants \ {t} : run.tenant # u /\ run'.tenant # u,
           \A u \in Tenants \ {t} :
               /\ worm'[u] = worm[u] /\ cps'[u] = cps[u] /\ proofs'[u] = proofs[u]
               /\ leaves'[u] = leaves[u]
               /\ \A put \in late' : put.tenant = u => put \in late
               /\ u \in cut => u \in cut',
           UniqueSeqs(t) /\ TenantOK(t) => TenantOK(t)'
    PROVE  PipelineInv'
<1>1. rows' = rows /\ draft' = draft
  BY DEF vars
<1>2. RowsFinite'
  BY <1>1 DEF PipelineInv, RowsFinite
<1>3. ASSUME NEW u \in Tenants, UniqueSeqs(u)' PROVE TenantOK(u)'
  <2>1. UniqueSeqs(u) /\ TenantOK(u)
    BY <1>1, <1>3 DEF PipelineInv, UniqueSeqs
  <2>2. CASE u = t
    BY <2>1, <2>2
  <2>3. CASE u # t
    <3>1. /\ run' = run \/ (run.tenant # u /\ run'.tenant # u)
          /\ rows'[u] = rows[u] /\ worm'[u] = worm[u] /\ cps'[u] = cps[u] /\ proofs'[u] = proofs[u]
          /\ leaves'[u] = leaves[u] /\ \A put \in late' : put.tenant = u => put \in late
          /\ u \in cut => u \in cut'
      BY <1>1, <2>3
    <3> QED
      BY <2>1, <3>1, OthersKeep
  <2> QED
    BY <2>2, <2>3
<1> QED
  BY <1>2, <1>3 DEF PipelineInv

LEMMA PipelineInitInv == PipelineInit => PipelineInv
<1> SUFFICES ASSUME PipelineInit PROVE PipelineInv
  OBVIOUS
<1>1. RowsFinite
  BY FS_EmptySet DEF PipelineInit, Init, NoDraft, RowsFinite
<1>2. PipelineTypes
  BY DEF PipelineInit, PipelineTypes
<1>3. ASSUME NEW t \in Tenants PROVE TenantOK(t)
  <2>1. /\ worm[t] = EmptyMap /\ cps[t] = EmptyMap /\ proofs[t] = EmptyMap /\ leaves[t] = EmptyMap
        /\ run.tenant # t /\ late = {}
    BY GatewayConstants DEF PipelineInit, Idle
  <2>2. DOMAIN EmptyMap = {} /\ IsMap(EmptyMap)
    BY DEF EmptyMap, IsMap
  <2>3. StoresOK(t)
    BY <2>1, <2>2 DEF StoresOK, ObjectsOK
  <2>4. RunOK(t)
    BY <2>1 DEF RunOK
  <2>5. ExactOK(t)
    BY <2>1, <2>2 DEF ExactOK, Recorded, ProofsOK, RunGoesOn
  <2> QED
    BY <2>3, <2>4, <2>5 DEF TenantOK
<1> QED
  BY <1>1, <1>2, <1>3 DEF PipelineInv

\* The gateway goes on.
LEMMA GatewayKeeps ==
    ASSUME Inv, PipelineInv, [Next]_vars, UNCHANGED anchorVars
    PROVE  PipelineInv'
<1>1. RowsFinite' /\ \A t \in Tenants : rows[t] \subseteq rows'[t]
  BY RowsGrow DEF PipelineInv
<1>2. /\ worm' = worm /\ cps' = cps /\ proofs' = proofs /\ run' = run /\ late' = late
      /\ leaves' = leaves /\ cut' = cut
  BY DEF anchorVars
<1>3. PipelineTypes'
  BY <1>2 DEF PipelineInv, PipelineTypes
<1>4. ASSUME NEW t \in Tenants, UniqueSeqs(t)' PROVE TenantOK(t)'
  <2>1. rows[t] \subseteq rows'[t]
    BY <1>1
  <2>2. UniqueSeqs(t)
    BY <1>4, <2>1 DEF UniqueSeqs
  <2>3. TenantOK(t)
    BY <2>2 DEF PipelineInv
  <2>4. StoresOK(t)'
    <3>1. ObjectsOK(t, rows[t], worm[t], leaves[t])
      BY <2>3 DEF TenantOK, StoresOK
    <3>2. ObjectsOK(t, rows'[t], worm[t], leaves[t])
      BY <2>1, <3>1, ObjectsStay
    <3>3. ASSUME NEW put \in late, put.tenant = t
          PROVE  Writable(t, rows'[t], worm[t], put.cp, put.rows)
      <4>1. Writable(t, rows[t], worm[t], put.cp, put.rows)
        BY <2>3, <3>3 DEF TenantOK, StoresOK
      <4> QED
        BY <2>1, <4>1, WritableStays
    <3> QED
      BY <1>2, <2>3, <3>2, <3>3 DEF TenantOK, StoresOK
  <2>5. \A from : SliceAt(rows[t], from, run.entries) => SliceAt(rows'[t], from, run.entries)
    BY <2>1, SliceGrows
  <2>6. RunOK(t)'
    BY <1>2, <2>3, <2>5 DEF TenantOK, RunOK
  <2>7. ASSUME t \notin cut PROVE ExactOK(t)'
    <3>1. ExactOK(t)
      BY <2>3, <2>7 DEF TenantOK
    <3>2. RunGoesOn(t)'
      BY <1>2, <2>5, <3>1 DEF ExactOK, RunGoesOn
    <3> QED
      BY <1>2, <3>1, <3>2 DEF ExactOK, Recorded, ProofsOK
  <2> QED
    BY <1>2, <2>4, <2>6, <2>7 DEF TenantOK
<1> QED
  BY <1>1, <1>3, <1>4 DEF PipelineInv

\* What resumption goes by.
LEMMA ResumeCorrect ==
    ASSUME Inv, PipelineInv, NEW t \in Tenants, UniqueSeqs(t)
    PROVE  /\ TenantOK(t)
           /\ \E n \in Nat : /\ Numbered(t, rows[t], n)
                             /\ DOMAIN worm[t] \subseteq Nat /\ DOMAIN cps[t] \subseteq DOMAIN worm[t]
                             /\ \A e \in DOMAIN worm[t] : e < n
           /\ ResumeAt(t) = NextSeq(cps[t])
           /\ NextSeq(cps[t]) \in Nat
           /\ Reached(worm[t], NextSeq(cps[t]))
           /\ \A e \in DOMAIN cps[t] : e < NextSeq(cps[t])
<1>1. TenantOK(t)
  BY DEF PipelineInv
<1>2. PICK n \in Nat : Numbered(t, rows[t], n)
  BY UniqueRowsAreNumbered DEF PipelineInv
<1>3. /\ ObjectsOK(t, rows[t], worm[t], leaves[t])
      /\ IsMap(cps[t]) /\ DOMAIN cps[t] \subseteq DOMAIN worm[t]
  BY <1>1 DEF TenantOK, StoresOK
<1>4. \A row \in rows[t] : row.seq \in Nat
  BY DEF Inv, TypeOK, Row
<1>5. DOMAIN worm[t] \subseteq Nat /\ DOMAIN worm[t] \subseteq Seqs(rows[t])
  <2> DEFINE S == rows[t]
  <2>1. ObjectsOK(t, S, worm[t], leaves[t]) /\ \A row \in S : row.seq \in Nat
    BY <1>3, <1>4
  <2> HIDE DEF S
  <2>2. DOMAIN worm[t] \subseteq Nat /\ DOMAIN worm[t] \subseteq Seqs(S)
    BY <2>1, KeysAreSeqs
  <2> QED
    BY <2>2 DEF S
<1>6. \A e \in DOMAIN worm[t] : e < n /\ e <= n
  <2>1. Seqs(rows[t]) = 0 .. n - 1
    BY <1>2 DEF Numbered
  <2> QED
    BY <1>5, <2>1
<1> DEFINE map == cps[t]
<1>7. IsMap(map) /\ DOMAIN map \subseteq Nat /\ \A e \in DOMAIN map : e <= n
  BY <1>3, <1>5, <1>6
<1>8. /\ NextSeq(map) \in Nat
      /\ \A e \in DOMAIN map : e < NextSeq(map)
      /\ DOMAIN map = {} => NextSeq(map) = 0
      /\ DOMAIN map # {} => NextSeq(map) = Max(DOMAIN map) + 1 /\ Max(DOMAIN map) \in DOMAIN map
  <2> HIDE DEF map
  <2> QED
    BY <1>7, NextSeqCorrect
<1>9. Reached(worm[t], NextSeq(map))
  <2>1. CASE DOMAIN map = {}
    BY <1>8, <2>1 DEF Reached
  <2>2. CASE DOMAIN map # {}
    <3>1. Max(DOMAIN map) \in Nat /\ Max(DOMAIN map) \in DOMAIN worm[t]
      BY <1>3, <1>7, <1>8, <2>2
    <3>2. NextSeq(map) - 1 = Max(DOMAIN map)
      BY <1>8, <2>2, <3>1
    <3> QED
      BY <3>1, <3>2 DEF Reached
  <2> QED
    BY <2>1, <2>2
<1>10. ResumeAt(t) = NextSeq(map)
  BY DEF ResumeAt, NextSeq
<1> QED
  BY <1>1, <1>2, <1>3, <1>5, <1>6, <1>8, <1>9, <1>10

\* What EntriesAsc returns of the rows from a number on: the first of them, in
\* order, and at least one.
LEMMA ReadIsSlice ==
    ASSUME NEW t, NEW S, NEW n, Numbered(t, S, n), IsFiniteSet(S), NEW from \in Nat,
           NEW pending, pending = {row \in S : row.seq >= from}, pending # {},
           NEW entries \in EntriesAsc(pending)
    PROVE  SliceAt(S, from, entries) /\ entries # <<>>
<1>1. /\ pending \subseteq S /\ \A row \in pending : row.seq \in Nat
      /\ \A a, b \in pending : a.seq = b.seq => a = b
      /\ n \in Nat /\ Seqs(S) = 0 .. n - 1
  BY DEF Numbered, Row
<1>2. Seqs(pending) = from .. n - 1
  <2>1. \A s \in 0 .. n - 1 : \E row \in S : row.seq = s
    BY <1>1 DEF Seqs
  <2>2. \A row \in S : row.seq \in 0 .. n - 1
    BY <1>1 DEF Seqs
  <2>3. ASSUME NEW s \in from .. n - 1 PROVE s \in Seqs(pending)
    <3>1. s \in 0 .. n - 1 /\ s >= from
      BY <1>1
    <3>2. PICK row \in S : row.seq = s
      BY <2>1, <3>1
    <3> QED
      BY <3>1, <3>2 DEF Seqs
  <2>4. ASSUME NEW row \in pending PROVE row.seq \in from .. n - 1
    BY <1>1, <2>2
  <2>5. Seqs(pending) \subseteq from .. n - 1
    BY <2>4 DEF Seqs
  <2> QED
    BY <2>3, <2>5
<1>3. from < n
  <2>1. PICK row \in pending : row.seq \in Seqs(pending)
    BY DEF Seqs
  <2> QED
    BY <1>1, <1>2, <2>1
<1>4. IsFiniteSet(pending)
  BY <1>1, FS_Subset
<1>5. PICK order \in BySeq(pending) : entries = SubSeq(order, 1, Min({QueryLimit, Len(order)}))
  BY DEF EntriesAsc
<1>6. Listing(pending, order)
  BY <1>1, <1>4, <1>5, BySeqLists
<1>7. /\ Len(order) = n - from
      /\ \A i \in 1 .. Len(order) : order[i] \in pending /\ order[i].seq = from + i - 1
  <2>1. from <= n
    BY <1>1, <1>3
  <2> QED
    BY <1>1, <1>2, <1>6, <2>1, ListingIsNumbered
<1>8. SliceAt(pending, from, order)
  BY <1>6, <1>7 DEF SliceAt, Listing
<1>9. SliceAt(S, from, order)
  BY <1>1, <1>8, SliceGrows
<1> DEFINE m == Min({QueryLimit, Len(order)})
<1>10. m \in 1 .. Len(order)
  <2>1. Len(order) \in Nat /\ Len(order) # 0
    BY <1>1, <1>3, <1>7
  <2>2. QueryLimit \in Nat /\ QueryLimit # 0
    BY PipelineConstants
  <2>3. m = IF QueryLimit <= Len(order) THEN QueryLimit ELSE Len(order)
    BY <2>1, <2>2, MinOfTwo
  <2> QED
    BY <2>1, <2>2, <2>3
<1>11. entries = SubSeq(order, 1, m)
  BY <1>5
<1> HIDE DEF m
<1>12. SliceAt(S, from, entries) /\ Len(entries) = m
  BY <1>9, <1>10, <1>11, SliceSplits
<1> QED
  BY <1>10, <1>12

\* A run reads what it is going to anchor.
LEMMA AnchorTenantKeeps ==
    ASSUME Inv, PipelineInv, NEW t \in Tenants, AnchorTenant(t)
    PROVE  PipelineInv'
<1> DEFINE from    == ResumeAt(t)
           pending == {row \in rows[t] : row.seq >= from}
           prev    == IF cps[t] = EmptyMap THEN <<>> ELSE cps[t][Max(DOMAIN cps[t])].id
           at(es)  == [Idle EXCEPT !.pc = "build", !.tenant = t, !.entries = es, !.prev = prev]
<1>1. /\ run = Idle /\ pending # {}
      /\ UNCHANGED <<vars, worm, cps, proofs, clock, late, leaves, cut>>
      /\ \E entries \in EntriesAsc(pending) : run' = at(entries)
  BY Zenon DEF AnchorTenant
<1>2. PICK entries \in EntriesAsc(pending) : run' = at(entries)
  BY <1>1
<1> HIDE DEF prev, pending
<1>3. /\ DOMAIN run' = DOMAIN Idle
      /\ run'.tenant = t /\ run'.entries = entries /\ run'.prev = prev /\ run'.pc = "build"
  BY <1>2 DEF Idle
<1> HIDE DEF at
<1>4. run.tenant = None
  BY <1>1 DEF Idle
<1>5. PipelineTypes'
  BY <1>1, <1>3 DEF PipelineInv, PipelineTypes
<1>6. ASSUME UniqueSeqs(t), TenantOK(t) PROVE TenantOK(t)'
  <2>1. /\ from \in Nat /\ from = NextSeq(cps[t]) /\ Reached(worm[t], from)
        /\ \E n \in Nat : Numbered(t, rows[t], n)
    BY <1>6, ResumeCorrect
  <2>2. PICK n \in Nat : Numbered(t, rows[t], n)
    BY <2>1
  <2> HIDE DEF from
  <2>3. SliceAt(rows[t], from, entries) /\ entries # <<>>
    <3>1. IsFiniteSet(rows[t])
      BY DEF PipelineInv, RowsFinite
    <3>2. pending = {row \in rows[t] : row.seq >= from}
      BY DEF pending
    <3> QED
      BY <1>1, <1>2, <2>1, <2>2, <3>1, <3>2, ReadIsSlice
  <2>4. prev = LastId(cps[t])
    BY DEF LastId, prev
  <2>5. rows' = rows
    BY <1>1 DEF vars
  <2>6. StoresOK(t)'
    BY <1>1, <1>6, <2>5 DEF TenantOK, StoresOK
  <2>7. RunOK(t)'
    BY <1>1, <1>3, <2>1, <2>3, <2>5 DEF RunOK
  <2>8. ASSUME t \notin cut' PROVE ExactOK(t)'
    <3>1. ExactOK(t)
      BY <1>1, <1>6, <2>8 DEF TenantOK
    <3>2. Recorded(t)'
      BY <1>1, <1>3, <1>4, <3>1, GatewayConstants DEF ExactOK, Recorded
    <3>3. RunGoesOn(t)'
      BY <1>1, <1>3, <2>1, <2>3, <2>4, <2>5 DEF RunGoesOn
    <3> QED
      BY <1>1, <3>1, <3>2, <3>3 DEF ExactOK, ProofsOK
  <2> QED
    BY <2>6, <2>7, <2>8 DEF TenantOK
<1>7. \A u \in Tenants \ {t} : run.tenant # u /\ run'.tenant # u
  BY <1>3, <1>4, GatewayConstants
<1>8. UNCHANGED vars
  BY <1>1
<1> QED
  BY <1>1, <1>5, <1>6, <1>7, <1>8, StepAtTenant

\* The tenant that the run is at, and the fields of the run.
LEMMA RunAt ==
    ASSUME PipelineInv, run.pc \in {"build", "put", "record", "stamp"}
    PROVE  /\ run.tenant \in Tenants /\ run # Idle
           /\ DOMAIN run = {"pc", "tenant", "entries", "prev", "cp", "left"}
           /\ \A u \in Tenants \ {run.tenant} : run.tenant # u
BY DEF PipelineInv, PipelineTypes, Idle

\* The next window is built, and its key looked up.
LEMMA BuildAndGetKeeps ==
    ASSUME Inv, PipelineInv, BuildAndGet
    PROVE  PipelineInv'
<1>0. PICK t, entries, p, now : /\ t = run.tenant /\ entries = run.entries
                                /\ p = run.prev /\ now = clock
  OBVIOUS
<1> DEFINE cp  == Build(t, Window(entries), p, now)
           nxt == IF cp.seqEnd \in DOMAIN worm[t] THEN "record" ELSE "put"
<1>1. /\ run.pc = "build" /\ run' = [run EXCEPT !.cp = cp, !.pc = nxt]
      /\ UNCHANGED <<vars, worm, cps, proofs, late, leaves, cut>>
  BY <1>0, Zenon DEF BuildAndGet
<1>2. t \in Tenants /\ DOMAIN run = {"pc", "tenant", "entries", "prev", "cp", "left"}
  BY <1>0, <1>1, RunAt
<1>3. \A from : SliceAt(rows[t], from, entries) /\ entries # <<>> =>
          from <= cp.seqEnd /\ cp.seqEnd \in Nat /\ cp.anchoredAt = now
  <2> SUFFICES ASSUME NEW from, SliceAt(rows[t], from, entries), entries # <<>>
               PROVE  from <= cp.seqEnd /\ cp.seqEnd \in Nat /\ cp.anchoredAt = now
    OBVIOUS
  <2>1. PICK S : S = rows[t] /\ SliceAt(S, from, entries)
    OBVIOUS
  <2>2. /\ SliceAt(S, from, Window(entries)) /\ Window(entries) # <<>>
        /\ cp.seqStart = from /\ cp.seqEnd \in Nat /\ from <= cp.seqEnd
        /\ cp.prev = p /\ cp.anchoredAt = now
        /\ SliceAt(S, cp.seqEnd + 1, Rest(entries))
    BY <2>1, WindowCorrect
  <2> QED
    BY <2>2
<1>4. PICK c : c = cp
  OBVIOUS
<1>5. nxt \in {"put", "record"} /\ (nxt = "record" => c.seqEnd \in DOMAIN worm[t])
      /\ (nxt = "put" <=> c.seqEnd \notin DOMAIN worm[t])
  BY <1>4
<1> HIDE DEF cp, nxt
<1>6. PICK next : next = nxt
  OBVIOUS
<1>7. /\ DOMAIN run' = DOMAIN run /\ run'.tenant = t /\ run'.entries = entries
      /\ run'.prev = p /\ run'.cp = c /\ run'.pc = next
  BY <1>0, <1>1, <1>2, <1>4, <1>6
<1>8. PipelineTypes'
  BY <1>1, <1>2, <1>5, <1>6, <1>7 DEF PipelineInv, PipelineTypes, Idle
<1>9. ASSUME UniqueSeqs(t), TenantOK(t) PROVE TenantOK(t)'
  <2>1. rows' = rows
    BY <1>1 DEF vars
  <2>2. StoresOK(t)'
    BY <1>1, <1>9, <2>1 DEF TenantOK, StoresOK
  <2>3. /\ entries # <<>>
        /\ \E from : SliceAt(rows[t], from, entries) /\ Reached(worm[t], from)
    BY <1>0, <1>9 DEF TenantOK, RunOK
  <2>4. c.seqEnd \in Nat /\ c = Build(t, Window(entries), p, c.anchoredAt)
    <3>1. c.seqEnd \in Nat /\ c.anchoredAt = now
      BY <1>3, <1>4, <2>3
    <3>2. c = Build(t, Window(entries), p, now)
      BY <1>4 DEF cp
    <3> QED
      BY <3>1, <3>2
  <2>5. RunOK(t)'
    BY <1>1, <1>5, <1>6, <1>7, <2>1, <2>3, <2>4 DEF RunOK
  <2>6. ASSUME t \notin cut' PROVE ExactOK(t)'
    <3>1. ExactOK(t)
      BY <1>1, <1>9, <2>6 DEF TenantOK
    <3>2. /\ worm[t] = cps[t]
          /\ SliceAt(rows[t], NextSeq(cps[t]), entries) /\ p = LastId(cps[t])
      BY <1>0, <1>1, <3>1 DEF ExactOK, Recorded, RunGoesOn
    <3>3. NextSeq(cps[t]) <= c.seqEnd
      BY <1>3, <1>4, <2>3, <3>2
    <3>4. next = "put"
      <4> SUFFICES ASSUME c.seqEnd \in DOMAIN worm[t] PROVE FALSE
        BY <1>5, <1>6
      <4>1. c.seqEnd < NextSeq(cps[t]) /\ NextSeq(cps[t]) \in Nat
        BY <1>2, <1>9, <3>2, ResumeCorrect
      <4> QED
        BY <2>4, <3>3, <4>1
    <3>5. Recorded(t)'
      BY <1>1, <1>7, <3>2, <3>4 DEF Recorded
    <3>6. RunGoesOn(t)'
      BY <1>1, <1>7, <2>1, <3>2, <3>4 DEF RunGoesOn
    <3> QED
      BY <1>1, <3>1, <3>5, <3>6 DEF ExactOK, ProofsOK
  <2> QED
    BY <2>2, <2>5, <2>6 DEF TenantOK
<1>10. \A u \in Tenants \ {t} : run.tenant # u /\ run'.tenant # u
  BY <1>0, <1>7
<1>11. UNCHANGED vars
  BY <1>1
<1> QED
  BY <1>1, <1>2, <1>8, <1>9, <1>10, <1>11, StepAtTenant

\* A PutObject leaves the stores of its tenant in order.
LEMMA PutKeepsStores ==
    ASSUME NEW t, StoresOK(t), rows' = rows, cps'[t] = cps[t],
           \A put \in late' : put.tenant = t => put \in late,
           NEW cp, NEW committed, Writable(t, rows[t], worm[t], cp, committed),
           worm'[t] = With(worm[t], cp.seqEnd, cp),
           leaves'[t] = With(leaves[t], cp.seqEnd, committed)
    PROVE  /\ StoresOK(t)'
           /\ DOMAIN worm[t] \subseteq DOMAIN worm'[t] /\ cp.seqEnd \in DOMAIN worm'[t]
<1>1. PICK S, old, oldLeaves, new, newLeaves :
          /\ S = rows[t] /\ old = worm[t] /\ oldLeaves = leaves[t]
          /\ new = With(old, cp.seqEnd, cp) /\ newLeaves = With(oldLeaves, cp.seqEnd, committed)
  OBVIOUS
<1>2. rows'[t] = S /\ worm'[t] = new /\ leaves'[t] = newLeaves
  BY <1>1
<1>3. ObjectsOK(t, S, old, oldLeaves) /\ Writable(t, S, old, cp, committed)
  BY <1>1 DEF StoresOK
<1>4. ObjectsOK(t, S, new, newLeaves)
  BY <1>1, <1>3, PutKeepsObjects
<1>5. DOMAIN new = DOMAIN old \cup {cp.seqEnd}
  BY <1>1 DEF With
<1>6. ASSUME NEW put \in late', put.tenant = t PROVE Writable(t, S, new, put.cp, put.rows)
  <2>1. Writable(t, S, old, put.cp, put.rows)
    BY <1>1, <1>6 DEF StoresOK
  <2> QED
    BY <1>5, <2>1 DEF Writable, Reached
<1>7. IsMap(cps'[t]) /\ DOMAIN cps'[t] \subseteq DOMAIN new
  BY <1>1, <1>5 DEF StoresOK
<1>8. StoresOK(t)'
  BY <1>2, <1>4, <1>6, <1>7 DEF StoresOK
<1> QED
  BY <1>1, <1>2, <1>5, <1>8

\* The window's object is put.
LEMMA PutWormKeeps ==
    ASSUME Inv, PipelineInv, PutWorm
    PROVE  PipelineInv'
<1>0. PICK t, entries, p, cp, committed :
          /\ t = run.tenant /\ entries = run.entries /\ p = run.prev
          /\ cp = run.cp /\ committed = Range(Window(entries))
  OBVIOUS
<1>1. /\ run.pc = "put" /\ run' = [run EXCEPT !.pc = "record"]
      /\ UNCHANGED <<vars, cps, proofs, clock, late, cut>>
  BY DEF PutWorm
<1>2. /\ worm' = [worm EXCEPT ![t] = With(worm[t], cp.seqEnd, cp)]
      /\ leaves' = [leaves EXCEPT ![t] = With(leaves[t], cp.seqEnd, committed)]
  BY <1>0 DEF PutWorm, PutObject
<1>3. t \in Tenants /\ DOMAIN run = {"pc", "tenant", "entries", "prev", "cp", "left"}
  BY <1>0, <1>1, RunAt
<1>4. /\ DOMAIN run' = DOMAIN run /\ run'.tenant = t /\ run'.entries = entries
      /\ run'.prev = p /\ run'.cp = cp /\ run'.pc = "record"
  BY <1>0, <1>1, <1>3
<1>5. PipelineTypes'
  BY <1>1, <1>2, <1>3, <1>4 DEF PipelineInv, PipelineTypes, Idle
<1>6. worm'[t] = With(worm[t], cp.seqEnd, cp) /\ leaves'[t] = With(leaves[t], cp.seqEnd, committed)
  BY <1>2, <1>3 DEF PipelineInv, PipelineTypes
<1>7. ASSUME UniqueSeqs(t), TenantOK(t) PROVE TenantOK(t)'
  <2>1. rows' = rows
    BY <1>1 DEF vars
  <2>2. /\ Writable(t, rows[t], worm[t], cp, committed) /\ cp.seqEnd \in Nat
        /\ \A from : SliceAt(rows[t], from, entries) => from <= cp.seqEnd
        /\ cp.prev = p
    <3>1. RunOK(t)
      BY <1>7 DEF TenantOK
    <3> QED
      BY <1>0, <1>1, <3>1, RunWritable
  <2>3. /\ StoresOK(t)'
        /\ DOMAIN worm[t] \subseteq DOMAIN worm'[t] /\ cp.seqEnd \in DOMAIN worm'[t]
    BY <1>1, <1>6, <1>7, <2>1, <2>2, PutKeepsStores DEF TenantOK
  <2>4. RunOK(t)'
    <3>1. /\ entries # <<>>
          /\ \E from : SliceAt(rows[t], from, entries) /\ Reached(worm[t], from)
          /\ cp = Build(t, Window(entries), p, cp.anchoredAt)
      BY <1>0, <1>1, <1>7 DEF TenantOK, RunOK
    <3>2. \E from : SliceAt(rows[t], from, entries) /\ Reached(worm'[t], from)
      BY <2>3, <3>1 DEF Reached
    <3> QED
      BY <1>4, <2>1, <2>3, <3>1, <3>2 DEF RunOK
  <2>5. ASSUME t \notin cut' PROVE ExactOK(t)'
    <3>1. ExactOK(t)
      BY <1>1, <1>7, <2>5 DEF TenantOK
    <3>2. /\ worm[t] = cps[t]
          /\ SliceAt(rows[t], NextSeq(cps[t]), entries) /\ p = LastId(cps[t])
      BY <1>0, <1>1, <3>1 DEF ExactOK, Recorded, RunGoesOn
    <3>3. NextSeq(cps[t]) <= cp.seqEnd
      BY <2>2, <3>2
    <3>4. PICK map, new : map = cps[t] /\ new = With(map, cp.seqEnd, cp)
      OBVIOUS
    <3>5. worm'[t] = new
      BY <1>6, <3>2, <3>4
    <3>6. /\ IsMap(map) /\ DOMAIN map \subseteq Nat
          /\ \E n \in Nat : \A e \in DOMAIN map : e <= n
      <4>1. IsMap(map)
        BY <1>7, <3>4 DEF TenantOK, StoresOK
      <4>2. \E n \in Nat : DOMAIN map \subseteq Nat /\ \A e \in DOMAIN map : e < n
        BY <1>3, <1>7, <3>2, <3>4, ResumeCorrect
      <4> QED
        BY <4>1, <4>2
    <3>7. /\ DOMAIN new = DOMAIN map \cup {cp.seqEnd} /\ cp.seqEnd \notin DOMAIN map
          /\ new[cp.seqEnd] = cp /\ \A e \in DOMAIN map : new[e] = map[e]
          /\ \A e \in DOMAIN map : PrevId(new, e) = PrevId(map, e)
          /\ PrevId(new, cp.seqEnd) = LastId(map)
      <4>1. PICK n \in Nat : \A e \in DOMAIN map : e <= n
        BY <3>6
      <4>2. PICK key : key = cp.seqEnd
        OBVIOUS
      <4>3. key \in Nat /\ NextSeq(map) <= key /\ new = With(map, key, cp)
        BY <2>2, <3>3, <3>4, <4>2
      <4>4. /\ DOMAIN new = DOMAIN map \cup {key} /\ key \notin DOMAIN map
            /\ new[key] = cp /\ \A e \in DOMAIN map : new[e] = map[e]
            /\ \A e \in DOMAIN map : PrevId(new, e) = PrevId(map, e)
            /\ PrevId(new, key) = LastId(map)
        <5>1. Extended(map, key, cp, new)
          BY <3>6, <4>1, <4>3, PutNext, Zenon
        <5> QED
          BY <5>1 DEF Extended
      <4> QED
        BY <4>2, <4>4
    <3>8. \A e \in DOMAIN new : new[e].prev = PrevId(new, e)
      <4>1. \A e \in DOMAIN map : map[e].prev = PrevId(map, e)
        BY <3>1, <3>2, <3>4 DEF ExactOK
      <4>2. cp.prev = LastId(map)
        BY <2>2, <3>2, <3>4
      <4> QED
        BY <3>7, <4>1, <4>2
    <3>9. Recorded(t)'
      BY <1>1, <1>4, <3>3, <3>4, <3>5 DEF Recorded
    <3>10. RunGoesOn(t)'
      BY <1>1, <1>4, <2>1, <3>2 DEF RunGoesOn
    <3>11. /\ \A put \in late' : put.tenant # t
           /\ ProofsOK(t)'
      BY <1>1, <3>1 DEF ExactOK, ProofsOK
    <3>12. \A e \in DOMAIN worm'[t] : worm'[t][e].prev = PrevId(worm'[t], e)
      BY <3>5, <3>8
    <3> QED
      BY <3>9, <3>10, <3>11, <3>12 DEF ExactOK
  <2> QED
    BY <2>3, <2>4, <2>5 DEF TenantOK
<1>8. \A u \in Tenants \ {t} : run.tenant # u /\ run'.tenant # u
  BY <1>0, <1>4
<1>9. UNCHANGED vars
  BY <1>1
<1> QED
  BY <1>1, <1>2, <1>3, <1>5, <1>7, <1>8, <1>9, StepAtTenant

\* The checkpoint is recorded in the working copy.
LEMMA PutCheckpointKeeps ==
    ASSUME Inv, PipelineInv, PutCheckpoint
    PROVE  PipelineInv'
<1>0. PICK t, entries, p, cp : /\ t = run.tenant /\ entries = run.entries
                               /\ p = run.prev /\ cp = run.cp
  OBVIOUS
<1>1. /\ run.pc = "record" /\ run' = [run EXCEPT !.pc = "stamp", !.left = Notaries]
      /\ cps' = [cps EXCEPT ![t] = InsertOnce(cps[t], cp.seqEnd, cp)]
      /\ UNCHANGED <<vars, worm, proofs, clock, late, leaves, cut>>
  BY <1>0 DEF PutCheckpoint
<1>2. t \in Tenants /\ DOMAIN run = {"pc", "tenant", "entries", "prev", "cp", "left"}
  BY <1>0, <1>1, RunAt
<1>3. /\ DOMAIN run' = DOMAIN run /\ run'.tenant = t /\ run'.entries = entries
      /\ run'.prev = p /\ run'.cp = cp /\ run'.pc = "stamp"
  BY <1>0, <1>1, <1>2
<1>4. PipelineTypes'
  BY <1>1, <1>2, <1>3 DEF PipelineInv, PipelineTypes, Idle
<1>5. PICK map, key : map = cps[t] /\ key = cp.seqEnd
  OBVIOUS
<1>6. cps'[t] = IF key \in DOMAIN map THEN map ELSE With(map, key, cp)
  BY <1>1, <1>2, <1>5 DEF PipelineInv, PipelineTypes, InsertOnce
<1>7. ASSUME UniqueSeqs(t), TenantOK(t) PROVE TenantOK(t)'
  <2>1. rows' = rows
    BY <1>1 DEF vars
  <2>2. /\ key \in DOMAIN worm[t] /\ entries # <<>>
        /\ \E from : SliceAt(rows[t], from, entries) /\ Reached(worm[t], from)
        /\ cp = Build(t, Window(entries), p, cp.anchoredAt)
    BY <1>0, <1>1, <1>5, <1>7 DEF TenantOK, RunOK
  <2>3. /\ IsMap(map) /\ DOMAIN map \subseteq DOMAIN worm[t]
    BY <1>5, <1>7 DEF TenantOK, StoresOK
  <2>4. /\ IsMap(cps'[t])
        /\ DOMAIN cps'[t] = DOMAIN map \cup {key}
    BY <1>6, <2>3 DEF With, IsMap
  <2>5. StoresOK(t)'
    BY <1>1, <1>7, <2>1, <2>2, <2>3, <2>4 DEF TenantOK, StoresOK
  <2>6. RunOK(t)'
    BY <1>1, <1>3, <1>5, <2>1, <2>2 DEF RunOK
  <2>7. ASSUME t \notin cut' PROVE ExactOK(t)'
    <3>1. ExactOK(t)
      BY <1>1, <1>7, <2>7 DEF TenantOK
    <3>2. worm[t] = With(map, key, cp) /\ NextSeq(map) <= key
      BY <1>0, <1>1, <1>5, <3>1 DEF ExactOK, Recorded
    <3>3. /\ DOMAIN map \subseteq Nat /\ \E n \in Nat : \A e \in DOMAIN map : e <= n
          /\ key \in Nat
      <4>1. /\ DOMAIN worm[t] \subseteq Nat /\ DOMAIN map \subseteq DOMAIN worm[t]
            /\ \E n \in Nat : \A e \in DOMAIN worm[t] : e < n
        BY <1>2, <1>5, <1>7, ResumeCorrect
      <4> QED
        BY <2>2, <4>1
    <3>4. PICK new : new = With(map, key, cp)
      OBVIOUS
    <3>5. /\ DOMAIN new = DOMAIN map \cup {key} /\ key \notin DOMAIN map
          /\ new[key] = cp /\ \A e \in DOMAIN map : new[e] = map[e]
          /\ NextSeq(new) = key + 1 /\ LastId(new) = cp.id
      <4>1. PICK n \in Nat : \A e \in DOMAIN map : e <= n
        BY <3>3
      <4>2. Extended(map, key, cp, new)
        BY <2>3, <3>2, <3>3, <3>4, <4>1, PutNext, Zenon
      <4> QED
        BY <4>2 DEF Extended
    <3>6. cps'[t] = new /\ worm'[t] = new /\ worm[t] = new
      BY <1>1, <1>6, <3>2, <3>4, <3>5
    <3>7. Recorded(t)'
      BY <1>3, <3>6 DEF Recorded
    <3>8. RunGoesOn(t)'
      BY <1>3, <1>5, <3>5, <3>6 DEF RunGoesOn
    <3>9. ProofsOK(t)'
      <4> SUFFICES ASSUME NEW k \in DOMAIN proofs'[t]
                   PROVE  k[1] \in DOMAIN cps'[t] /\ VerifyProof(k[2], proofs'[t][k], cps'[t][k[1]].id)
        BY DEF ProofsOK
      <4>1. k \in DOMAIN proofs[t] /\ proofs'[t][k] = proofs[t][k]
        BY <1>1
      <4>2. k[1] \in DOMAIN map /\ VerifyProof(k[2], proofs[t][k], map[k[1]].id)
        BY <1>5, <3>1, <4>1 DEF ExactOK, ProofsOK
      <4>3. k[1] \in DOMAIN new /\ new[k[1]] = map[k[1]]
        BY <3>5, <4>2
      <4> QED
        BY <3>6, <4>1, <4>2, <4>3
    <3>10. /\ \A put \in late' : put.tenant # t
           /\ \A e \in DOMAIN worm'[t] : worm'[t][e].prev = PrevId(worm'[t], e)
      BY <1>1, <3>1 DEF ExactOK
    <3> QED
      BY <3>7, <3>8, <3>9, <3>10 DEF ExactOK
  <2> QED
    BY <2>5, <2>6, <2>7 DEF TenantOK
<1>8. \A u \in Tenants \ {t} : run.tenant # u /\ run'.tenant # u
  BY <1>0, <1>3
<1>9. UNCHANGED vars
  BY <1>1
<1> QED
  BY <1>1, <1>2, <1>4, <1>7, <1>8, <1>9, StepAtTenant

\* A notary stamps the checkpoint and its proof is recorded.
LEMMA StampAndPutProofKeeps ==
    ASSUME Inv, PipelineInv, StampAndPutProof
    PROVE  PipelineInv'
<1>0. PICK t, key, id, notary : /\ t = run.tenant /\ key = run.cp.seqEnd
                                /\ id = run.cp.id /\ notary = Head(run.left)
  OBVIOUS
<1> DEFINE proof == Stamp(notary, id)
<1>1. /\ run.pc = "stamp" /\ run' = [run EXCEPT !.left = Tail(run.left)]
      /\ UNCHANGED <<vars, worm, cps, clock, late, leaves, cut>>
  BY DEF StampAndPutProof
<1>2. proofs' = [proofs EXCEPT ![t] = InsertOnce(proofs[t], <<key, notary>>, proof)]
  BY <1>0, Zenon DEF StampAndPutProof
<1> HIDE DEF proof
<1>3. t \in Tenants /\ DOMAIN run = {"pc", "tenant", "entries", "prev", "cp", "left"}
  BY <1>0, <1>1, RunAt
<1>4. /\ DOMAIN run' = DOMAIN run /\ run'.tenant = t /\ run'.entries = run.entries
      /\ run'.prev = run.prev /\ run'.cp = run.cp /\ run'.pc = "stamp"
  BY <1>0, <1>1, <1>3
<1>5. PipelineTypes'
  BY <1>1, <1>2, <1>3, <1>4 DEF PipelineInv, PipelineTypes, Idle
<1>6. ASSUME TenantOK(t) PROVE TenantOK(t)'
  <2>1. rows' = rows
    BY <1>1 DEF vars
  <2>2. StoresOK(t)'
    BY <1>1, <1>6, <2>1 DEF TenantOK, StoresOK
  <2>3. RunOK(t)'
    BY <1>0, <1>1, <1>4, <1>6, <2>1 DEF TenantOK, RunOK
  <2>4. ASSUME t \notin cut' PROVE ExactOK(t)'
    <3>1. ExactOK(t)
      BY <1>1, <1>6, <2>4 DEF TenantOK
    <3>2. Recorded(t)' /\ RunGoesOn(t)'
      BY <1>0, <1>1, <1>4, <2>1, <3>1 DEF ExactOK, Recorded, RunGoesOn
    <3>3. key \in DOMAIN cps[t] /\ cps[t][key].id = id
      BY <1>0, <1>1, <3>1 DEF ExactOK, RunGoesOn
    <3>4. proofs'[t] = IF <<key, notary>> \in DOMAIN proofs[t] THEN proofs[t]
                       ELSE With(proofs[t], <<key, notary>>, proof)
      BY <1>2, <1>3 DEF PipelineInv, PipelineTypes, InsertOnce
    <3>5. ASSUME NEW k \in DOMAIN proofs'[t]
          PROVE  k[1] \in DOMAIN cps[t] /\ VerifyProof(k[2], proofs'[t][k], cps[t][k[1]].id)
      <4>1. CASE k \in DOMAIN proofs[t] /\ proofs'[t][k] = proofs[t][k]
        BY <3>1, <4>1 DEF ExactOK, ProofsOK
      <4>2. CASE k = <<key, notary>> /\ proofs'[t][k] = proof
        BY <3>3, <4>2 DEF VerifyProof, proof
      <4> QED
        BY <3>4, <4>1, <4>2 DEF With
    <3>6. ProofsOK(t)'
      BY <1>1, <3>5 DEF ProofsOK
    <3>7. /\ \A put \in late' : put.tenant # t
          /\ \A e \in DOMAIN worm'[t] : worm'[t][e].prev = PrevId(worm'[t], e)
      BY <1>1, <3>1 DEF ExactOK
    <3> QED
      BY <3>2, <3>6, <3>7 DEF ExactOK
  <2> QED
    BY <2>2, <2>3, <2>4 DEF TenantOK
<1>7. \A u \in Tenants \ {t} : run.tenant # u /\ run'.tenant # u
  BY <1>0, <1>4
<1>8. UNCHANGED vars
  BY <1>1
<1> QED
  BY <1>1, <1>2, <1>3, <1>5, <1>6, <1>7, <1>8, StepAtTenant

\* The run turns to the next window, or is over.
LEMMA WindowDoneKeeps ==
    ASSUME Inv, PipelineInv, WindowDone
    PROVE  PipelineInv'
<1>0. PICK t, key, id, rest : /\ t = run.tenant /\ key = run.cp.seqEnd
                              /\ id = run.cp.id /\ rest = Rest(run.entries)
  OBVIOUS
<1>1. /\ run.pc = "stamp"
      /\ UNCHANGED <<vars, worm, cps, proofs, clock, late, leaves, cut>>
      /\ run' = IF rest = <<>> THEN Idle
                ELSE [run EXCEPT !.pc = "build", !.entries = rest, !.prev = id, !.cp = None]
  BY <1>0 DEF WindowDone
<1>2. t \in Tenants /\ DOMAIN run = {"pc", "tenant", "entries", "prev", "cp", "left"}
  BY <1>0, <1>1, RunAt
<1>3. CASE rest = <<>>
  <2>1. run' = Idle /\ run'.tenant = None /\ run'.pc = "idle"
    BY <1>1, <1>3 DEF Idle
  <2>2. PipelineTypes'
    BY <1>1, <2>1 DEF PipelineInv, PipelineTypes
  <2>3. ASSUME TenantOK(t) PROVE TenantOK(t)'
    <3>1. rows' = rows /\ t # None
      BY <1>1, <1>2, GatewayConstants DEF vars
    <3>2. StoresOK(t)'
      BY <1>1, <2>3, <3>1 DEF TenantOK, StoresOK
    <3>3. RunOK(t)'
      BY <2>1, <3>1 DEF RunOK
    <3>4. ASSUME t \notin cut' PROVE ExactOK(t)'
      BY <1>0, <1>1, <2>1, <2>3, <3>1, <3>4
         DEF TenantOK, ExactOK, Recorded, RunGoesOn, ProofsOK
    <3> QED
      BY <3>2, <3>3, <3>4 DEF TenantOK
  <2>4. \A u \in Tenants \ {t} : run.tenant # u /\ run'.tenant # u
    BY <1>0, <2>1, GatewayConstants
  <2>5. UNCHANGED vars
    BY <1>1
  <2> QED
    BY <1>1, <1>2, <2>2, <2>3, <2>4, <2>5, StepAtTenant
<1>4. CASE rest # <<>>
  <2>1. /\ DOMAIN run' = DOMAIN run /\ run'.tenant = t /\ run'.entries = rest
        /\ run'.prev = id /\ run'.pc = "build"
    BY <1>0, <1>1, <1>2, <1>4
  <2>2. PipelineTypes'
    BY <1>1, <1>2, <2>1 DEF PipelineInv, PipelineTypes, Idle
  <2>3. ASSUME TenantOK(t) PROVE TenantOK(t)'
    <3>1. rows' = rows
      BY <1>1 DEF vars
    <3>2. StoresOK(t)'
      BY <1>1, <2>3, <3>1 DEF TenantOK, StoresOK
    <3>3. key \in DOMAIN worm[t]
      BY <1>0, <1>1, <2>3 DEF TenantOK, RunOK
    <3>4. key \in Nat /\ SliceAt(rows[t], key + 1, rest)
      BY <1>0, <1>1, <2>3, RunWritable DEF TenantOK
    <3>5. Reached(worm[t], key + 1)
      BY <3>3, <3>4 DEF Reached
    <3>6. RunOK(t)'
      BY <1>1, <1>4, <2>1, <3>1, <3>4, <3>5 DEF RunOK
    <3>7. ASSUME t \notin cut' PROVE ExactOK(t)'
      <4>1. ExactOK(t)
        BY <1>1, <2>3, <3>7 DEF TenantOK
      <4>2. NextSeq(cps[t]) = key + 1 /\ LastId(cps[t]) = id
        BY <1>0, <1>1, <4>1 DEF ExactOK, RunGoesOn
      <4>3. RunGoesOn(t)'
        BY <1>1, <2>1, <3>1, <3>4, <4>2 DEF RunGoesOn
      <4> QED
        BY <1>0, <1>1, <2>1, <4>1, <4>3 DEF ExactOK, Recorded, ProofsOK
    <3> QED
      BY <3>2, <3>6, <3>7 DEF TenantOK
  <2>4. \A u \in Tenants \ {t} : run.tenant # u /\ run'.tenant # u
    BY <1>0, <2>1
  <2>5. UNCHANGED vars
    BY <1>1
  <2> QED
    BY <1>1, <1>2, <2>2, <2>3, <2>4, <2>5, StepAtTenant
<1> QED
  BY <1>3, <1>4

\* The run ends early, its PutObject perhaps still on the way.
LEMMA AnchorFailsKeeps ==
    ASSUME Inv, PipelineInv, AnchorFails
    PROVE  PipelineInv'
<1>0. PICK t, put : /\ t = run.tenant
                    /\ put = [tenant |-> t, cp |-> run.cp, rows |-> Range(Window(run.entries))]
  OBVIOUS
<1>1. /\ run # Idle /\ run' = Idle /\ run'.tenant = None /\ run'.pc = "idle"
      /\ UNCHANGED <<vars, worm, cps, proofs, clock, leaves>>
      /\ cut \subseteq cut' /\ (t \notin cut' => run.pc # "record" /\ late' = late)
      /\ \/ late' = late
         \/ run.pc = "put" /\ late' = late \cup {put}
  BY <1>0 DEF AnchorFails, Idle
<1>2. t \in Tenants /\ t # None
  BY <1>0, <1>1, GatewayConstants DEF PipelineInv, PipelineTypes
<1>3. PipelineTypes'
  BY <1>1 DEF PipelineInv, PipelineTypes
<1>4. put.tenant = t /\ put.cp = run.cp /\ put.rows = Range(Window(run.entries))
  BY <1>0
<1>5. ASSUME TenantOK(t) PROVE TenantOK(t)'
  <2>1. rows' = rows
    BY <1>1 DEF vars
  <2>2. run.pc = "put" => Writable(t, rows[t], worm[t], put.cp, put.rows)
    <3>1. RunOK(t)
      BY <1>5 DEF TenantOK
    <3> QED
      BY <1>0, <1>4, <3>1, RunWritable
  <2>3. StoresOK(t)'
    <3>1. \A any \in late' : any.tenant = t => Writable(t, rows[t], worm[t], any.cp, any.rows)
      BY <1>1, <1>5, <2>2 DEF TenantOK, StoresOK
    <3> QED
      BY <1>1, <1>5, <2>1, <3>1 DEF TenantOK, StoresOK
  <2>4. RunOK(t)'
    BY <1>1, <1>2 DEF RunOK
  <2>5. ASSUME t \notin cut' PROVE ExactOK(t)'
    <3>1. ExactOK(t) /\ run.pc # "record" /\ late' = late
      BY <1>1, <1>5, <2>5 DEF TenantOK
    <3> QED
      BY <1>1, <1>2, <3>1 DEF ExactOK, Recorded, RunGoesOn, ProofsOK
  <2> QED
    BY <2>3, <2>4, <2>5 DEF TenantOK
<1>6. \A u \in Tenants \ {t} : run.tenant # u /\ run'.tenant # u
  BY <1>0, <1>1, GatewayConstants
<1>7. ASSUME NEW u \in Tenants \ {t}, NEW any \in late', any.tenant = u PROVE any \in late
  BY <1>1, <1>4, <1>7
<1>8. UNCHANGED vars
  BY <1>1
<1> QED
  BY <1>1, <1>2, <1>3, <1>5, <1>6, <1>7, <1>8, StepAtTenant

\* A PutObject is executed after its run.
LEMMA LatePutKeeps ==
    ASSUME Inv, PipelineInv, NEW put \in late, LatePut(put)
    PROVE  PipelineInv'
<1>0. PICK t, cp, committed : t = put.tenant /\ cp = put.cp /\ committed = put.rows
  OBVIOUS
<1>1. /\ late' = late \ {put} /\ UNCHANGED <<vars, cps, proofs, clock, run, cut>>
      /\ worm' = [worm EXCEPT ![t] = With(worm[t], cp.seqEnd, cp)]
      /\ leaves' = [leaves EXCEPT ![t] = With(leaves[t], cp.seqEnd, committed)]
  BY <1>0 DEF LatePut, PutObject
<1>2. PipelineTypes'
  BY <1>1 DEF PipelineInv, PipelineTypes
<1>3. UNCHANGED vars /\ rows' = rows
  BY <1>1 DEF vars
<1>4. CASE t \in Tenants
  <2>1. worm'[t] = With(worm[t], cp.seqEnd, cp) /\ leaves'[t] = With(leaves[t], cp.seqEnd, committed)
    BY <1>1, <1>4 DEF PipelineInv, PipelineTypes
  <2>2. ASSUME TenantOK(t) PROVE TenantOK(t)'
    <3>1. StoresOK(t) /\ Writable(t, rows[t], worm[t], cp, committed)
      BY <1>0, <2>2 DEF TenantOK, StoresOK
    <3>2. StoresOK(t)' /\ DOMAIN worm[t] \subseteq DOMAIN worm'[t]
      BY <1>1, <1>3, <2>1, <3>1, PutKeepsStores
    <3>3. RunOK(t)'
      BY <1>1, <1>3, <2>2, <3>2 DEF TenantOK, RunOK, Reached
    <3>4. t \in cut'
      BY <1>0, <1>1, <2>2 DEF TenantOK, ExactOK
    <3> QED
      BY <3>2, <3>3, <3>4 DEF TenantOK
  <2>3. \A u \in Tenants \ {t} :
           /\ worm'[u] = worm[u] /\ cps'[u] = cps[u] /\ proofs'[u] = proofs[u]
           /\ leaves'[u] = leaves[u]
           /\ \A any \in late' : any.tenant = u => any \in late
           /\ u \in cut => u \in cut'
    BY <1>1 DEF PipelineInv, PipelineTypes
  <2>4. run' = run
    BY <1>1
  <2> QED
    BY <1>2, <1>3, <1>4, <2>2, <2>3, <2>4, StepAtTenant
<1>5. CASE t \notin Tenants
  <2>1. \A u \in Tenants : worm'[u] = worm[u] /\ leaves'[u] = leaves[u]
    BY <1>1, <1>5 DEF PipelineInv, PipelineTypes
  <2>2. ASSUME NEW u \in Tenants, TenantOK(u) PROVE TenantOK(u)'
    BY <1>1, <1>3, <2>1, <2>2, OthersKeep
  <2>3. RowsFinite'
    BY <1>1, <1>3 DEF PipelineInv, RowsFinite, vars
  <2> QED
    BY <1>2, <1>3, <2>2, <2>3 DEF PipelineInv, UniqueSeqs
<1> QED
  BY <1>4, <1>5

LEMMA PipelineInvariance == PipelineSpec => [](Inv /\ PipelineInv)
<1>1. PipelineSpec => []Inv
  BY PipelineIsGateway, Invariance, PTL
<1>2. PipelineInit => PipelineInv
  BY PipelineInitInv
<1>3. ASSUME Inv, PipelineInv, [PipelineNext]_pipelineVars PROVE PipelineInv'
  <2>1. CASE Next /\ UNCHANGED anchorVars
    BY <1>3, <2>1, GatewayKeeps
  <2>2. CASE \E t \in Tenants : AnchorTenant(t)
    BY <1>3, <2>2, AnchorTenantKeeps
  <2>3. CASE BuildAndGet
    BY <1>3, <2>3, BuildAndGetKeeps
  <2>4. CASE PutWorm
    BY <1>3, <2>4, PutWormKeeps
  <2>5. CASE PutCheckpoint
    BY <1>3, <2>5, PutCheckpointKeeps
  <2>6. CASE StampAndPutProof
    BY <1>3, <2>6, StampAndPutProofKeeps
  <2>7. CASE WindowDone
    BY <1>3, <2>7, WindowDoneKeeps
  <2>8. CASE AnchorFails
    BY <1>3, <2>8, AnchorFailsKeeps
  <2>9. CASE \E put \in late : LatePut(put)
    BY <1>3, <2>9, LatePutKeeps
  <2>10. CASE UNCHANGED pipelineVars
    <3>1. UNCHANGED vars /\ UNCHANGED anchorVars
      BY <2>10 DEF pipelineVars
    <3> QED
      BY <1>3, <3>1, GatewayKeeps
  <2> QED
    BY <1>3, <2>1, <2>2, <2>3, <2>4, <2>5, <2>6, <2>7, <2>8, <2>9, <2>10 DEF PipelineNext
<1> QED
  BY <1>1, <1>2, <1>3, PTL DEF PipelineSpec

-----------------------------------------------------------------------------
(* When verification is silent.                                            *)

\* Rows that are each linked to the one before pass verifyChain in the one
\* order they have.
LEMMA NumberedRowsPass ==
    ASSUME NEW t, NEW S, NEW n, Numbered(t, S, n), NEW order, Listing(S, order)
    PROVE  /\ IsSequence(order) /\ Len(order) = n
           /\ \A i \in 1 .. n : order[i] \in S /\ order[i].seq = i - 1
           /\ ChainIssues(t, order) = {}
<1> DEFINE prev(i)   == IF i = 1 THEN Genesis(t) ELSE order[i - 1].hash
           gap(i)    == order[i].seq # i - 1
           broken(i) == order[i].prev # prev(i)
           edited(i) == order[i].hash #
                           ChainHash(prev(i), EntryLeaf(t, order[i].seq, order[i].rec))
           bad       == {i \in 1 .. Len(order) : gap(i) \/ broken(i) \/ edited(i)}
<1>1. /\ n \in Nat /\ S \subseteq Row /\ Seqs(S) = 0 .. n - 1
      /\ \A a, b \in S : a.seq = b.seq => a = b
      /\ \A row \in S : row.seq \in Nat /\ Linked(t, S, row)
  BY DEF Numbered, Row
<1>2. /\ Len(order) = n
      /\ \A i \in 1 .. n : order[i] \in S /\ order[i].seq = i - 1
  <2>1. /\ 0 \in Nat /\ 0 <= n
    BY <1>1
  <2>2. /\ Len(order) = n - 0
        /\ \A i \in 1 .. Len(order) : order[i] \in S /\ order[i].seq = 0 + i - 1
    BY <1>1, <2>1, ListingIsNumbered
  <2> QED
    BY <1>1, <2>2
<1>3. IsSequence(order)
  BY <1>1, <1>2 DEF IsSequence, Listing
<1>4. ASSUME NEW i \in 1 .. n PROVE ~gap(i) /\ ~broken(i) /\ ~edited(i)
  <2>1. order[i] \in S /\ order[i].seq = i - 1 /\ Linked(t, S, order[i])
    BY <1>1, <1>2
  <2>2. order[i].prev = prev(i)
    <3>1. CASE i = 1
      BY <2>1, <3>1 DEF Linked, At
    <3>2. CASE i # 1
      <4>1. order[i].seq # 0
        BY <1>1, <2>1, <3>2
      <4>2. PICK p \in S : p.seq + 1 = order[i].seq /\ p.hash = order[i].prev
        BY <2>1, <4>1 DEF Linked, At
      <4>3. i - 1 \in 1 .. n /\ (i - 1) - 1 = p.seq
        BY <1>1, <2>1, <3>2, <4>2
      <4>4. order[i - 1] \in S /\ order[i - 1].seq = p.seq
        BY <1>2, <4>3
      <4>5. order[i - 1] = p
        BY <1>1, <4>4
      <4> QED
        BY <3>2, <4>2, <4>5
    <3> QED
      BY <3>1, <3>2
  <2>3. order[i].hash = ChainHash(order[i].prev, EntryLeaf(t, order[i].seq, order[i].rec))
    BY <2>1, Zenon DEF Linked
  <2> HIDE DEF prev
  <2> QED
    BY <2>1, <2>2, <2>3
<1>5. bad = {}
  BY <1>2, <1>4
<1>6. ChainIssues(t, order) = {}
  <2> DEFINE first == Min(bad)
             kind  == IF gap(first) THEN "sequence-gap"
                      ELSE IF broken(first) THEN "chain-break" ELSE "entry-tamper"
  <2>1. ChainIssues(t, order) = IF bad = {} THEN {} ELSE {Issue(kind, first - 1)}
    BY Zenon DEF ChainIssues
  <2> HIDE DEF bad, first, kind
  <2> QED
    BY <1>5, <2>1, Zenon
<1> QED
  BY <1>2, <1>3, <1>6

\* A listing is as long as there are rows.
LEMMA ListingLength ==
    ASSUME NEW S, NEW order, Listing(S, order)
    PROVE  Len(order) \in Nat /\ Cardinality(S) = Len(order)
<1> DEFINE n == Len(order)
           f == [i \in 1 .. n |-> order[i]]
<1>1. n \in Nat /\ \A i \in 1 .. n : order[i] \in S
  BY DEF Listing
<1>2. \A i, j \in 1 .. n : order[i] = order[j] => i = j
  <2> SUFFICES ASSUME NEW i \in 1 .. n, NEW j \in 1 .. n, order[i] = order[j] PROVE i = j
    OBVIOUS
  <2>1. ~(i < j) /\ ~(j < i)
    BY DEF Listing
  <2> QED
    BY <1>1, <2>1
<1>3. \A row \in S : \E i \in 1 .. n : order[i] = row
  BY DEF Listing
<1> HIDE DEF n
<1>4. f \in Bijection(1 .. n, S)
  BY <1>1, <1>2, <1>3 DEF Bijection, Injection, Surjection, IsInjective
<1>5. ExistsBijection(1 .. n, S)
  BY <1>4, Zenon DEF ExistsBijection
<1>6. Cardinality(S) = n
  BY <1>1, <1>5, FS_CountingElements
<1> QED
  BY <1>1, <1>6 DEF n

\* A read that is large enough returns all rows.
LEMMA WholeRead ==
    ASSUME NEW S, IsFiniteSet(S), \A row \in S : row.seq \in Nat, Cardinality(S) <= QueryLimit
    PROVE  EntriesAsc(S) # {} /\ \A entries \in EntriesAsc(S) : Listing(S, entries)
<1>1. BySeq(S) # {} /\ \A order \in BySeq(S) : Listing(S, order)
  BY BySeqLists
<1>2. ASSUME NEW order \in BySeq(S)
      PROVE  SubSeq(order, 1, Min({QueryLimit, Len(order)})) = order
  <2>1. Listing(S, order) /\ order \in Seq(S)
    BY <1>1 DEF Listing
  <2>2. Len(order) \in Nat /\ Len(order) <= QueryLimit
    BY <2>1, ListingLength
  <2>3. QueryLimit \in Nat
    BY PipelineConstants
  <2>4. Min({QueryLimit, Len(order)}) = Len(order)
    <3>1. Min({QueryLimit, Len(order)})
             = IF QueryLimit <= Len(order) THEN QueryLimit ELSE Len(order)
      BY <2>2, <2>3, MinOfTwo
    <3> QED
      BY <2>2, <2>3, <3>1
  <2>5. SubSeq(order, 1, Len(order)) = order
    BY <2>1
  <2> QED
    BY <2>4, <2>5
<1>3. EntriesAsc(S) = {SubSeq(order, 1, Min({QueryLimit, Len(order)})) : order \in BySeq(S)}
  BY DEF EntriesAsc
<1> QED
  BY <1>1, <1>2, <1>3

\* Of two rows with one seq the second is out of sequence in every order.
LEMMA SilentIsUnique ==
    ASSUME Inv, RowsFinite, NEW t \in Tenants, FitsOneRead(t), Silent(t)
    PROVE  UniqueSeqs(t)
<1> DEFINE S == rows[t]
<1>1. IsFiniteSet(S) /\ (\A row \in S : row.seq \in Nat) /\ Cardinality(S) <= QueryLimit
  BY DEF RowsFinite, Inv, TypeOK, Row, FitsOneRead
<1>2. PICK order \in EntriesAsc(S) :
          TenantIssues(t, order, All(worm[t]), proofs[t], Range(Notaries)) = {}
  BY DEF Silent
<1>3. Listing(S, order)
  BY <1>1, <1>2, WholeRead
<1> HIDE DEF S
<1>4. ASSUME NEW a \in S, NEW b \in S, a.seq = b.seq PROVE a = b
  <2>1. PICK i \in 1 .. Len(order) : order[i] = a
    BY <1>3 DEF Listing
  <2>2. PICK j \in 1 .. Len(order) : order[j] = b
    BY <1>3 DEF Listing
  <2>3. order # <<>> /\ IsSequence(order)
    BY <1>3, <2>1 DEF IsSequence, Listing
  <2>4. ChainIssues(t, order) = {}
    BY <1>2, <2>3, Zenon DEF TenantIssues
  <2>5. SealedRows(t, order)
    BY <2>3, <2>4, ChainVerificationExact
  <2>6. order[i].seq = i - 1 /\ order[j].seq = j - 1
    BY <2>5 DEF SealedRows
  <2> QED
    <3>1. i \in Nat /\ j \in Nat
      BY <2>3 DEF IsSequence
    <3>2. order[i].seq = order[j].seq
      BY <1>4, <2>1, <2>2
    <3>3. i = j
      BY <2>6, <3>1, <3>2
    <3> QED
      BY <2>1, <2>2, <3>3
<1> QED
  BY <1>4 DEF UniqueSeqs, S

\* The n numbered rows S of tenant t in their order.
Reading(t, S, n, order) ==
    /\ Numbered(t, S, n)
    /\ IsSequence(order) /\ Len(order) = n /\ SealedRows(t, order)
    /\ \A i \in 1 .. n : order[i] \in S /\ order[i].seq = i - 1

\* Such an order read back by numbers.
LEMMA ReadingRange ==
    ASSUME NEW t, NEW S, NEW n, NEW order, Reading(t, S, n, order),
           NEW start \in Nat, NEW end \in Nat, end < n, NEW len, len = end - start + 1
    PROVE  /\ DOMAIN RangeOf(order, start, end) = 1 .. len
           /\ \A i \in 1 .. len : RangeOf(order, start, end)[i] = order[start + i]
<1>1. IsSequence(order) /\ SealedRows(t, order) /\ end < Len(order)
  BY DEF Reading
<1>2. RangeOf(order, start, end) = [i \in 1 .. end - start + 1 |-> order[start + i]]
  BY <1>1, RangeOfSealed
<1> QED
  BY <1>2

\* The rows of a window, read back by their numbers.
LEMMA WindowReadBack ==
    ASSUME NEW t, NEW S, NEW n, NEW order, Reading(t, S, n, order),
           NEW start \in Nat, NEW end \in Nat, end < n, NEW w, SliceAt(S, start, w),
           Len(w) = end - start + 1
    PROVE  RangeOf(order, start, end) = w
<1>1. PICK len : len = end - start + 1
  OBVIOUS
<1>2. /\ start \in Nat /\ w \in Seq(S) /\ Len(w) = len
      /\ \A i \in 1 .. len : w[i] \in S /\ w[i].seq = start + i - 1
  BY <1>1 DEF SliceAt
<1>3. ASSUME NEW i \in 1 .. len PROVE order[start + i] = w[i]
  <2>1. /\ n \in Nat /\ \A a, b \in S : a.seq = b.seq => a = b
        /\ \A k \in 1 .. n : order[k] \in S /\ order[k].seq = k - 1
    BY DEF Reading, Numbered
  <2>2. start + i \in 1 .. n
    BY <1>1, <1>2, <2>1
  <2>3. order[start + i] \in S /\ order[start + i].seq = (start + i) - 1
    BY <2>1, <2>2
  <2>4. order[start + i].seq = w[i].seq
    BY <1>2, <2>3
  <2> QED
    BY <1>2, <2>1, <2>3, <2>4
<1>4. w = [i \in 1 .. len |-> w[i]]
  BY <1>2
<1>5. PICK range : range = RangeOf(order, start, end)
  OBVIOUS
<1>6. range = [i \in 1 .. len |-> range[i]]
  BY <1>1, <1>5 DEF RangeOf
<1>7. \A i \in 1 .. len : range[i] = order[start + i]
  <2>1. \A i \in 1 .. len : RangeOf(order, start, end)[i] = order[start + i]
    BY <1>1, ReadingRange
  <2> QED
    BY <1>5, <2>1
<1>8. range = w
  BY <1>3, <1>4, <1>6, <1>7
<1> QED
  BY <1>5, <1>8

\* The proofs held for an object's key attest its id.
LEMMA ProofsAttest ==
    ASSUME Inv, PipelineInv, NEW t \in Tenants, UniqueSeqs(t), t \notin cut,
           NEW e \in DOMAIN worm[t], NEW p \in LedgerGet(proofs[t], e)
    PROVE  VerifyProof(p.notary, p, worm[t][e].id)
<1>1. Recorded(t) /\ ProofsOK(t)
  BY DEF PipelineInv, TenantOK, ExactOK
<1>2. PICK k \in DOMAIN proofs[t] : k[1] = e /\ p = proofs[t][k]
  BY DEF LedgerGet
<1>3. e \in DOMAIN cps[t] /\ VerifyProof(k[2], p, cps[t][e].id)
  BY <1>1, <1>2 DEF ProofsOK
<1>4. worm[t][e] = cps[t][e]
  <2>1. NextSeq(cps[t]) \in Nat /\ e \in Nat /\ e < NextSeq(cps[t])
    BY <1>3, ResumeCorrect
  <2>2. CASE worm[t] = cps[t]
    BY <2>2
  <2>3. CASE worm[t] = With(cps[t], run.cp.seqEnd, run.cp) /\ NextSeq(cps[t]) <= run.cp.seqEnd
    <3>1. PICK key : key = run.cp.seqEnd
      OBVIOUS
    <3>2. worm[t] = With(cps[t], key, run.cp) /\ NextSeq(cps[t]) <= key
      BY <2>3, <3>1
    <3>3. key # e
      BY <2>1, <3>2
    <3> QED
      BY <1>3, <3>2, <3>3 DEF With
  <2> QED
    BY <1>1, <2>2, <2>3 DEF Recorded
<1> QED
  BY <1>3, <1>4 DEF VerifyProof, Stamp

\* Nothing is reported of a tenant whose rows are numbered and whose objects were
\* all recorded: its rows pass, and each checkpoint is what its rows and the
\* checkpoint before it make.
LEMMA UniqueIsSilent ==
    ASSUME Inv, PipelineInv, NEW t \in Tenants, FitsOneRead(t), UniqueSeqs(t), t \notin cut
    PROVE  Silent(t)
<1>0. PICK S, objects, committed, ledger, notaries :
          /\ S = rows[t] /\ objects = worm[t] /\ committed = leaves[t]
          /\ ledger = proofs[t] /\ notaries = Range(Notaries)
  OBVIOUS
<1> DEFINE ends   == DOMAIN objects
           listed == All(objects)
           m      == Cardinality(ends)
<1>1. /\ ObjectsOK(t, S, objects, committed)
      /\ \A e \in ends : objects[e].prev = PrevId(objects, e)
  <2>1. StoresOK(t) /\ ExactOK(t)
    BY DEF PipelineInv, TenantOK
  <2> QED
    BY <1>0, <2>1 DEF StoresOK, ExactOK
<1>2. PICK n \in Nat : Numbered(t, S, n) /\ ends \subseteq Nat /\ \A e \in ends : e < n
  BY <1>0, ResumeCorrect
<1>3. IsFiniteSet(S) /\ (\A row \in S : row.seq \in Nat) /\ Cardinality(S) <= QueryLimit
  BY <1>0 DEF PipelineInv, RowsFinite, Inv, TypeOK, Row, FitsOneRead
<1>4. PICK order \in EntriesAsc(S) : Listing(S, order)
  BY <1>3, WholeRead
<1>5. /\ IsSequence(order) /\ Len(order) = n
      /\ \A i \in 1 .. n : order[i] \in S /\ order[i].seq = i - 1
      /\ ChainIssues(t, order) = {}
  BY <1>2, <1>4, NumberedRowsPass
<1>6. SealedRows(t, order)
  BY <1>5, ChainVerificationExact
<1>7. \A e \in ends : e \in Nat /\ e <= n /\ e < n
  BY <1>2
<1>8. /\ m \in Nat /\ Len(listed) = m
      /\ InOrder(ends) \in [1 .. m -> ends]
      /\ \A k \in 1 .. m : listed[k] = objects[InOrder(ends)[k]]
  BY <1>7, AllLists
<1>9. ASSUME NEW k \in 1 .. m
      PROVE  CheckpointIssues(t, order, listed, ledger, notaries, k) = {}
  <2>1. PICK e, cp, last : /\ e = InOrder(ends)[k] /\ cp = listed[k]
                           /\ last = IF k = 1 THEN <<>> ELSE listed[k - 1].id
    OBVIOUS
  <2>2. e \in ends /\ cp = objects[e]
    BY <1>8, <2>1
  <2>3. e \in Nat /\ e < n /\ cp.seqEnd = e /\ Commits(t, S, cp, committed[e])
    BY <1>1, <1>7, <2>2 DEF ObjectsOK, Writable
  <2>4. cp.prev = last
    <3>1. PrevId(objects, e) = last
      BY <1>7, <2>1, PreviousObject
    <3> QED
      BY <1>1, <2>2, <3>1
  <2>5. /\ Windowed(cp)
        /\ \E w : /\ SliceAt(S, cp.seqStart, w) /\ Len(w) = e - cp.seqStart + 1
                  /\ cp = Build(t, w, cp.prev, cp.anchoredAt)
    BY <2>3, CommitsWindow DEF Windowed
  <2>6. PICK w : /\ SliceAt(S, cp.seqStart, w) /\ Len(w) = e - cp.seqStart + 1
                 /\ cp = Build(t, w, cp.prev, cp.anchoredAt)
    BY <2>5
  <2>7. RangeOf(order, cp.seqStart, cp.seqEnd) = w
    <3>1. PICK start \in Nat : start = cp.seqStart
      BY <2>5 DEF Windowed
    <3>2. SliceAt(S, start, w) /\ Len(w) = e - start + 1
      BY <2>6, <3>1
    <3>3. Reading(t, S, n, order) /\ e \in Nat /\ e < n
      BY <1>2, <1>5, <1>6, <2>3 DEF Reading
    <3>4. RangeOf(order, start, e) = w
      BY <3>2, <3>3, WindowReadBack
    <3> QED
      BY <2>3, <3>1, <3>4
  <2>8. cp.id = Build(t, RangeOf(order, cp.seqStart, cp.seqEnd), last, cp.anchoredAt).id
    BY <2>4, <2>6, <2>7, Zenon
  <2>9. \A p \in LedgerGet(ledger, cp.seqEnd) : VerifyProof(p.notary, p, cp.id)
    BY <1>0, <2>2, <2>3, ProofsAttest
  <2> HIDE DEF listed, ends, m
  <2>10. \A i \in CheckpointIssues(t, order, listed, ledger, notaries, k) :
            i.seq \in Nat /\ i.seq >= Len(order) /\ i.seq <= cp.seqEnd
    <3>1. Windowed(listed[k])
      BY <2>1, <2>5
    <3>2. listed[k].id = Build(t, RangeOf(order, listed[k].seqStart, listed[k].seqEnd),
                               IF k = 1 THEN <<>> ELSE listed[k - 1].id, listed[k].anchoredAt).id
      BY <2>1, <2>8, Zenon
    <3>3. \A p \in LedgerGet(ledger, listed[k].seqEnd) : VerifyProof(p.notary, p, listed[k].id)
      BY <2>1, <2>9
    <3>4. \A i \in CheckpointIssues(t, order, listed, ledger, notaries, k) :
             /\ i.kind = "truncation" /\ i.seq \in Nat
             /\ i.seq >= Len(order) /\ i.seq <= listed[k].seqEnd
      BY <1>5, <1>6, <3>1, <3>2, <3>3, CheckpointReport
    <3> QED
      BY <2>1, <3>4
  <2>11. ASSUME NEW i \in CheckpointIssues(t, order, listed, ledger, notaries, k) PROVE FALSE
    <3>1. i.seq \in Nat /\ i.seq >= n /\ i.seq <= e
      BY <1>5, <2>3, <2>10
    <3> QED
      BY <2>3, <3>1
  <2> QED
    BY <2>11
<1> HIDE DEF listed, m, ends
<1>10. TenantIssues(t, order, listed, ledger, notaries) = {}
  <2> DEFINE F(k) == CheckpointIssues(t, order, listed, ledger, notaries, k)
  <2>1. UNION {F(k) : k \in 1 .. Len(listed)} = {}
    <3>1. \A k \in 1 .. Len(listed) : F(k) = {}
      BY <1>8, <1>9
    <3> HIDE DEF F
    <3> QED
      BY <3>1
  <2>2. TenantIssues(t, order, listed, ledger, notaries)
           = IF order = <<>> THEN {}
             ELSE ChainIssues(t, order) \cup UNION {F(k) : k \in 1 .. Len(listed)}
    BY Zenon DEF TenantIssues
  <2> HIDE DEF F
  <2> QED
    BY <1>5, <2>1, <2>2
<1> QED
  BY <1>0, <1>4, <1>10 DEF Silent, listed

\* A row below the resume point lies in the window of the first checkpoint that
\* does not end before it.
LEMMA ResumedIsCommitted ==
    ASSUME Inv, PipelineInv, NEW t \in Tenants, UniqueSeqs(t),
           NEW row \in rows[t], row.seq < ResumeAt(t)
    PROVE  Committed(t, row)
<1>0. PICK S, objects, map, committed :
          /\ S = rows[t] /\ objects = worm[t] /\ map = cps[t] /\ committed = leaves[t]
  OBVIOUS
<1> DEFINE ends  == DOMAIN objects
           above == {e \in ends : row.seq <= e}
<1>1. ObjectsOK(t, S, objects, committed) /\ IsMap(map)
  BY <1>0 DEF PipelineInv, TenantOK, StoresOK
<1>2. PICK n \in Nat : /\ Numbered(t, S, n) /\ ends \subseteq Nat /\ DOMAIN map \subseteq ends
                       /\ \A e \in ends : e < n
  BY <1>0, ResumeCorrect
<1>3. row.seq \in Nat /\ row.seq < NextSeq(map)
  BY <1>0, ResumeCorrect DEF Inv, TypeOK, Row
<1>4. above \subseteq Nat /\ above # {}
  <2>1. DOMAIN map \subseteq Nat /\ \A e \in DOMAIN map : e <= n
    BY <1>2
  <2>2. /\ DOMAIN map = {} => NextSeq(map) = 0
        /\ DOMAIN map # {} => NextSeq(map) = Max(DOMAIN map) + 1 /\ Max(DOMAIN map) \in DOMAIN map
    BY <1>1, <2>1, NextSeqCorrect
  <2>3. Max(DOMAIN map) \in DOMAIN map /\ row.seq < Max(DOMAIN map) + 1
    BY <1>3, <2>2
  <2>4. Max(DOMAIN map) \in Nat /\ Max(DOMAIN map) \in ends
    BY <1>2, <2>1, <2>3
  <2>5. row.seq <= Max(DOMAIN map)
    BY <1>3, <2>3, <2>4
  <2> QED
    BY <1>2, <2>4, <2>5
<1>5. PICK e \in above : \A d \in above : e <= d
  <2> HIDE DEF above
  <2> QED
    BY <1>4, LeastElement
<1>6. e \in ends /\ e \in Nat /\ row.seq <= e
  BY <1>2, <1>5
<1>7. PICK cp : cp = objects[e]
  OBVIOUS
<1>8. cp.seqEnd = e /\ Commits(t, S, cp, committed[e]) /\ Reached(objects, cp.seqStart)
  BY <1>1, <1>6, <1>7 DEF ObjectsOK, Writable
<1>9. PICK w : /\ SliceAt(S, cp.seqStart, w) /\ Len(w) = e - cp.seqStart + 1
               /\ committed[e] = Range(w)
  BY <1>8, CommitsWindow
<1>10. /\ w \in Seq(S) /\ cp.seqStart \in Nat
       /\ \A i \in 1 .. Len(w) : w[i].seq = cp.seqStart + i - 1
  BY <1>9 DEF SliceAt
<1>11. cp.seqStart <= row.seq
  <2>1. CASE cp.seqStart = 0
    BY <1>3, <2>1
  <2>2. CASE cp.seqStart # 0
    <3>1. PICK before : before = cp.seqStart - 1
      OBVIOUS
    <3>2. before \in ends /\ before \in Nat /\ cp.seqStart = before + 1
      BY <1>8, <1>10, <2>2, <3>1 DEF Reached
    <3>3. before < e
      <4>1. cp.seqStart <= e
        BY <1>8, CommitsWindow
      <4> QED
        BY <1>6, <3>2, <4>1
    <3>4. before \notin above
      BY <1>5, <1>6, <3>2, <3>3
    <3> QED
      BY <1>3, <3>2, <3>4
  <2> QED
    BY <2>1, <2>2
<1> HIDE DEF ends, above
<1> DEFINE i == row.seq - cp.seqStart + 1
<1>12. i \in 1 .. Len(w) /\ cp.seqStart + i - 1 = row.seq
  BY <1>3, <1>6, <1>9, <1>10, <1>11
<1> HIDE DEF i
<1>13. w[i] \in S /\ w[i].seq = row.seq
  BY <1>10, <1>12
<1>14. w[i] = row
  <2>1. \A a, b \in S : a.seq = b.seq => a = b
    BY <1>2 DEF Numbered
  <2> QED
    BY <1>0, <1>13, <2>1
<1>15. row \in committed[e]
  <2>1. DOMAIN w = 1 .. Len(w)
    BY <1>10
  <2> QED
    BY <1>9, <1>12, <1>14, <2>1 DEF Range
<1>16. e \in DOMAIN committed
  BY <1>1, <1>6 DEF ObjectsOK, ends
<1> QED
  BY <1>0, <1>15, <1>16 DEF Committed

-----------------------------------------------------------------------------
(* The theorems.                                                           *)

\* Where seqs are unique, no entry that the resume point has passed is without
\* an object: whatever INSERTs failed, landed late or were repeated, however
\* little a read returned, between whatever calls runs ended, and whatever
\* PutObjects were executed after them.
THEOREM ResumePointIsCommitted == PipelineSpec => []ResumePointCommitted
<1>1. Inv /\ PipelineInv => ResumePointCommitted
  BY ResumedIsCommitted DEF ResumePointCommitted
<1> QED
  BY <1>1, PipelineInvariance, PTL

\* Verification of the gateway's real table, as long as one read returns it
\* whole: an INSERT that failed and still landed is reported when a retry took
\* its position, and nothing else is but what follows a run that left an object
\* in WORM and not in the working copy.
THEOREM AlarmsAreExplained == PipelineSpec => []AlarmsExplained
<1>1. Inv /\ PipelineInv => AlarmsExplained
  BY SilentIsUnique, UniqueIsSilent DEF AlarmsExplained, PipelineInv
<1> QED
  BY <1>1, PipelineInvariance, PTL

\* What silence is worth to a tenant: every acknowledged entry that anchoring
\* has passed is a leaf of a WORM checkpoint.
SilentMeansCommitted ==
    \A t \in Tenants : FitsOneRead(t) /\ Silent(t) =>
        \A e \in AckedBelow(t) : Committed(t, e)

\* As long as verification of the whole table reports nothing, no acknowledged
\* entry below the resume point is without an object, whatever the anchoring
\* runs met.
THEOREM SilenceMeansCommitment == PipelineSpec => []SilentMeansCommitted
<1>1. ASSUME Inv, PipelineInv, NEW t \in Tenants, FitsOneRead(t), Silent(t),
             NEW e \in AckedBelow(t)
      PROVE  Committed(t, e)
  <2>1. UniqueSeqs(t)
    BY <1>1, SilentIsUnique DEF PipelineInv
  <2>2. e.seq < ResumeAt(t)
    BY DEF AckedBelow
  <2>3. PICK r \in Requests : Acked(r) /\ tenant[r] = t /\ e \in draft[r].entries
    BY DEF AckedBelow
  <2>4. e \in rows[t]
    BY <1>1, <2>3 DEF Inv, AckInv
  <2> QED
    BY <1>1, <2>1, <2>2, <2>4, ResumedIsCommitted
<1>2. Inv /\ PipelineInv => SilentMeansCommitted
  BY <1>1 DEF SilentMeansCommitted
<1> QED
  BY <1>2, PipelineInvariance, PTL
=============================================================================
