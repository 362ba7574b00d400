---------------------------- MODULE VerifyProofs ----------------------------
(***************************************************************************)
(* What the reports of Verify mean, for any tenant, rows, objects and      *)
(* proofs they are given.                                                  *)
(***************************************************************************)
EXTENDS Verify, Induction

-----------------------------------------------------------------------------
(* Sorting.                                                                *)

Increasing(order, n) == \A i, j \in 1 .. n : i < j => order[i] < order[j]

\* Every finite set of numbers can be put in increasing order.
LEMMA OrderExists ==
    ASSUME NEW T \in SUBSET Nat, IsFiniteSet(T)
    PROVE  \E order \in [1 .. Cardinality(T) -> T] : Increasing(order, Cardinality(T))
<1> DEFINE Has(n) == \A U \in SUBSET Nat : IsFiniteSet(U) /\ Cardinality(U) = n =>
                        \E order \in [1 .. n -> U] : Increasing(order, n)
           S == {n \in Nat : Has(n)}
<1>1. Has(0)
  <2> SUFFICES ASSUME NEW U \in SUBSET Nat
               PROVE  \E order \in [1 .. 0 -> U] : Increasing(order, 0)
    OBVIOUS
  <2>1. [i \in 1 .. 0 |-> 0] \in [1 .. 0 -> U] /\ Increasing([i \in 1 .. 0 |-> 0], 0)
    BY DEF Increasing
  <2> QED
    BY <2>1
<1>2. ASSUME NEW n \in Nat, Has(n) PROVE Has(n + 1)
  <2> SUFFICES ASSUME NEW U \in SUBSET Nat, IsFiniteSet(U), Cardinality(U) = n + 1
               PROVE  \E order \in [1 .. n + 1 -> U] : Increasing(order, n + 1)
    OBVIOUS
  <2>1. U # {}
    BY FS_EmptySet
  <2>2. PICK least \in U : \A m \in U : least <= m
    BY <2>1, LeastElement
  <2>3. IsFiniteSet(U \ {least}) /\ Cardinality(U \ {least}) = n
    <3>1. Cardinality(U \ {least}) = Cardinality(U) - 1
      BY FS_RemoveElement, Zenon
    <3> QED
      BY <3>1, FS_RemoveElement
  <2>4. PICK rest \in [1 .. n -> U \ {least}] : Increasing(rest, n)
    BY <1>2, <2>3
  <2> DEFINE order == [i \in 1 .. n + 1 |-> IF i = 1 THEN least ELSE rest[i - 1]]
  <2>5. \A i \in 1 .. n + 1 : i # 1 => i - 1 \in 1 .. n /\ rest[i - 1] \in U /\ rest[i - 1] > least
    <3>1. \A i \in 1 .. n + 1 : i # 1 => i - 1 \in 1 .. n
      OBVIOUS
    <3>2. \A k \in 1 .. n : rest[k] \in U /\ rest[k] # least
      BY <2>4
    <3>3. ASSUME NEW k \in 1 .. n PROVE rest[k] > least
      <4>1. rest[k] \in Nat /\ least \in Nat /\ rest[k] # least /\ least <= rest[k]
        BY <2>2, <3>2
      <4> QED
        BY <4>1
    <3> QED
      BY <3>1, <3>2, <3>3
  <2>6. order \in [1 .. n + 1 -> U]
    BY <2>5
  <2>7. ASSUME NEW i \in 1 .. n + 1, NEW j \in 1 .. n + 1, i < j
        PROVE  order[i] < order[j]
    <3>1. CASE i = 1
      BY <2>5, <2>7, <3>1
    <3>2. CASE i # 1
      <4>1. i - 1 \in 1 .. n /\ j - 1 \in 1 .. n /\ i - 1 < j - 1 /\ j # 1
        BY <2>7, <3>2
      <4>2. rest[i - 1] < rest[j - 1]
        BY <2>4, <4>1 DEF Increasing
      <4> QED
        BY <3>2, <4>1, <4>2
    <3> QED
      BY <3>1, <3>2
  <2> HIDE DEF order
  <2> QED
    BY <2>6, <2>7 DEF Increasing
<1>3. \A n \in Nat : n \in S
  <2>1. 0 \in S /\ \A n \in Nat : n \in S => n + 1 \in S
    BY <1>1, <1>2
  <2> HIDE DEF S
  <2> QED
    BY <2>1, InductionStep
<1> HIDE DEF Has
<1>4. Cardinality(T) \in Nat
  BY FS_CardinalityType
<1>5. Has(Cardinality(T))
  BY <1>3, <1>4
<1> QED
  BY <1>5, Zenon DEF Has

\* InOrder lists each member of the set once, in increasing order.
LEMMA InOrderCorrect ==
    ASSUME NEW T \in SUBSET Nat, IsFiniteSet(T)
    PROVE  /\ Cardinality(T) \in Nat
           /\ InOrder(T) \in [1 .. Cardinality(T) -> T]
           /\ Increasing(InOrder(T), Cardinality(T))
           /\ \A e \in T : \E k \in 1 .. Cardinality(T) : InOrder(T)[k] = e
<1> DEFINE n == Cardinality(T)
           f == InOrder(T)
<1>1. n \in Nat
  BY FS_CardinalityType
<1>2. f \in [1 .. n -> T] /\ Increasing(f, n)
  BY OrderExists DEF InOrder, Increasing
<1>3. ASSUME NEW e \in T, \A k \in 1 .. n : f[k] # e
      PROVE  FALSE
  <2>1. f \in [1 .. n -> T \ {e}]
    BY <1>2, <1>3
  <2>2. IsFiniteSet(1 .. n) /\ Cardinality(1 .. n) = n
    BY <1>1, IntervalSize
  <2>3. IsFiniteSet(T \ {e}) /\ Cardinality(T \ {e}) = n - 1
    BY FS_RemoveElement, Zenon
  <2> HIDE DEF f, n
  <2>4. PICK i \in 1 .. n, j \in 1 .. n : i # j /\ f[i] = f[j]
    <3> DEFINE D == 1 .. n
               R == T \ {e}
    <3>1. IsFiniteSet(D) /\ IsFiniteSet(R) /\ Cardinality(R) < Cardinality(D) /\ f \in [D -> R]
      BY <1>1, <2>1, <2>2, <2>3
    <3> HIDE DEF D, R
    <3>2. \E x, y \in D : x # y /\ f[x] = f[y]
      BY <3>1, FS_PigeonHole
    <3> QED
      BY <3>2 DEF D
  <2>5. i < j \/ j < i
    BY <2>4
  <2>6. f[i] \in Nat
    BY <1>2
  <2> QED
    BY <1>2, <2>4, <2>5, <2>6 DEF Increasing
<1>4. \A e \in T : \E k \in 1 .. n : f[k] = e
  BY <1>3
<1> QED
  BY <1>1, <1>2, <1>4

-----------------------------------------------------------------------------
(* Chain verification.                                                     *)

\* The hash of the first n rows, as the sealer would have made it.
RowDigest(t, entries, n) ==
    [tenant |-> t, leaves |-> [i \in 1 .. n |-> EntryLeaf(t, i - 1, entries[i].rec)]]

\* The rows a sealer makes: numbered from 0, each linked to the one before.
SealedRows(t, entries) ==
    \A n \in 1 .. Len(entries) :
        /\ entries[n].seq = n - 1
        /\ entries[n].prev = RowDigest(t, entries, n - 1)
        /\ entries[n].hash = RowDigest(t, entries, n)

\* A sequence of entries, of which nothing else is known.
IsSequence(entries) == Len(entries) \in Nat

LEMMA DigestStep ==
    ASSUME NEW t, NEW entries, NEW n \in Nat
    PROVE  /\ RowDigest(t, entries, 0) = Genesis(t)
           /\ ChainHash(RowDigest(t, entries, n), EntryLeaf(t, n, entries[n + 1].rec))
                 = RowDigest(t, entries, n + 1)
<1>1. RowDigest(t, entries, 0) = Genesis(t)
  BY DEF RowDigest, Genesis
<1>2. ChainHash(RowDigest(t, entries, n), EntryLeaf(t, n, entries[n + 1].rec))
         = RowDigest(t, entries, n + 1)
  <2> DEFINE leaf(i) == EntryLeaf(t, i - 1, entries[i].rec)
             short == [i \in 1 .. n |-> leaf(i)]
             long  == [i \in 1 .. n + 1 |-> leaf(i)]
             S == {leaf(i) : i \in 1 .. n + 1}
  <2>1. short \in Seq(S) /\ long \in Seq(S) /\ leaf(n + 1) \in S
    <3>1. \A i \in 1 .. n + 1 : leaf(i) \in S
      OBVIOUS
    <3>2. \A i \in 1 .. n : i \in 1 .. n + 1
      OBVIOUS
    <3> HIDE DEF leaf, S
    <3> QED
      BY <3>1, <3>2
  <2>2. Len(short) = n /\ Len(long) = n + 1
    OBVIOUS
  <2>3. leaf(n + 1) = EntryLeaf(t, n, entries[n + 1].rec)
    BY DEF EntryLeaf
  <2> HIDE DEF leaf, S
  <2>4. Append(short, leaf(n + 1)) = long
    <3>1. Append(short, leaf(n + 1)) \in Seq(S) /\ Len(Append(short, leaf(n + 1))) = n + 1
      BY <2>1, <2>2
    <3>2. ASSUME NEW i \in 1 .. n + 1 PROVE Append(short, leaf(n + 1))[i] = long[i]
      <4>1. CASE i = n + 1
        BY <2>1, <2>2, <4>1
      <4>2. CASE i # n + 1
        BY <2>1, <2>2, <4>2
      <4> QED
        BY <4>1, <4>2
    <3> QED
      BY <2>1, <2>2, <3>1, <3>2
  <2> QED
    BY <2>3, <2>4 DEF ChainHash, RowDigest, leaf
<1> QED
  BY <1>1, <1>2

\* verifyChain passes on exactly the rows that a sealer could have made of
\* their records: an edit, a gap or a broken link anywhere is reported, and
\* nothing else is.
THEOREM ChainVerificationExact ==
    ASSUME NEW t, NEW entries, IsSequence(entries)
    PROVE  ChainIssues(t, entries) = {} <=> SealedRows(t, entries)
<1> DEFINE prev(i)   == IF i = 1 THEN Genesis(t) ELSE entries[i - 1].hash
           gap(i)    == entries[i].seq # i - 1
           broken(i) == entries[i].prev # prev(i)
           edited(i) == entries[i].hash #
                           ChainHash(prev(i), EntryLeaf(t, entries[i].seq, entries[i].rec))
           bad       == {i \in 1 .. Len(entries) : gap(i) \/ broken(i) \/ edited(i)}
<1>1. ChainIssues(t, entries) = {} <=> bad = {}
  <2> DEFINE first == Min(bad)
             kind  == IF gap(first) THEN "sequence-gap"
                      ELSE IF broken(first) THEN "chain-break" ELSE "entry-tamper"
  <2>1. ChainIssues(t, entries) = IF bad = {} THEN {} ELSE {Issue(kind, first - 1)}
    BY Zenon DEF ChainIssues
  <2> HIDE DEF bad, first, kind
  <2> QED
    BY <2>1, Zenon
<1>2. ASSUME SealedRows(t, entries), NEW i \in 1 .. Len(entries)
      PROVE  ~gap(i) /\ ~broken(i) /\ ~edited(i)
  <2>1. prev(i) = RowDigest(t, entries, i - 1)
    <3>1. CASE i = 1
      BY <3>1, DigestStep
    <3>2. CASE i # 1
      <4>1. i - 1 \in 1 .. Len(entries)
        BY <3>2 DEF IsSequence
      <4> QED
        BY <1>2, <3>2, <4>1 DEF SealedRows
    <3> QED
      BY <3>1, <3>2
  <2>2. i - 1 \in Nat /\ (i - 1) + 1 = i
    BY DEF IsSequence
  <2>3. ChainHash(RowDigest(t, entries, i - 1), EntryLeaf(t, i - 1, entries[i].rec))
           = RowDigest(t, entries, i)
    BY <2>2, DigestStep
  <2> QED
    BY <1>2, <2>1, <2>3 DEF SealedRows
<1>3. ASSUME bad = {} PROVE SealedRows(t, entries)
  <2> DEFINE Good(n) == \A i \in 1 .. n : i \in 1 .. Len(entries) =>
                 /\ entries[i].seq = i - 1
                 /\ entries[i].prev = RowDigest(t, entries, i - 1)
                 /\ entries[i].hash = RowDigest(t, entries, i)
             S == {n \in Nat : Good(n)}
  <2>1. \A i \in 1 .. Len(entries) : ~gap(i) /\ ~broken(i) /\ ~edited(i)
    BY <1>3
  <2>2. Good(0)
    OBVIOUS
  <2>3. ASSUME NEW n \in Nat, Good(n), n + 1 \in 1 .. Len(entries)
        PROVE  /\ entries[n + 1].seq = n
               /\ entries[n + 1].prev = RowDigest(t, entries, n)
               /\ entries[n + 1].hash = RowDigest(t, entries, n + 1)
    <3>1. prev(n + 1) = RowDigest(t, entries, n)
      <4>1. CASE n = 0
        BY <4>1, DigestStep
      <4>2. CASE n # 0
        <5>1. n \in 1 .. n /\ n \in 1 .. Len(entries) /\ (n + 1) - 1 = n /\ n + 1 # 1
          BY <2>3, <4>2 DEF IsSequence
        <5> QED
          BY <2>3, <5>1
      <4> QED
        BY <4>1, <4>2
    <3>2. entries[n + 1].seq = n
      <4>1. entries[n + 1].seq = (n + 1) - 1
        BY <2>1, <2>3
      <4> QED
        BY <4>1
    <3>3. entries[n + 1].prev = RowDigest(t, entries, n)
      BY <2>1, <2>3, <3>1
    <3>4. entries[n + 1].hash
             = ChainHash(RowDigest(t, entries, n), EntryLeaf(t, n, entries[n + 1].rec))
      BY <2>1, <2>3, <3>1, <3>2
    <3> QED
      BY <3>2, <3>3, <3>4, DigestStep
  <2>4. ASSUME NEW n \in Nat, Good(n) PROVE Good(n + 1)
    <3> SUFFICES ASSUME NEW i \in 1 .. n + 1, i \in 1 .. Len(entries)
                 PROVE  /\ entries[i].seq = i - 1
                        /\ entries[i].prev = RowDigest(t, entries, i - 1)
                        /\ entries[i].hash = RowDigest(t, entries, i)
      OBVIOUS
    <3>1. CASE i = n + 1
      <4>1. i - 1 = n
        BY <3>1
      <4> QED
        BY <2>3, <2>4, <3>1, <4>1
    <3>2. CASE i # n + 1
      <4>1. i \in 1 .. n
        BY <3>2
      <4> QED
        BY <2>4, <4>1
    <3> QED
      BY <3>1, <3>2
  <2>5. 0 \in S /\ \A n \in Nat : n \in S => n + 1 \in S
    <3> HIDE DEF Good
    <3> QED
      BY <2>2, <2>4
  <2>6. \A n \in Nat : n \in S
    <3> HIDE DEF S
    <3> QED
      BY <2>5, InductionStep
  <2>7. Good(Len(entries))
    BY <2>6 DEF IsSequence
  <2> QED
    BY <2>7 DEF SealedRows
<1>4. SealedRows(t, entries) => bad = {}
  BY <1>2
<1> QED
  BY <1>1, <1>3, <1>4

-----------------------------------------------------------------------------
(* What chain verification alone catches.                                  *)

\* Rows of which one has another record than was sealed and the hash that was
\* sealed are reported.
LEMMA EditReported ==
    ASSUME NEW t, NEW entries, IsSequence(entries), SealedRows(t, entries),
           NEW changed, IsSequence(changed),
           NEW i \in 1 .. Len(entries), i \in 1 .. Len(changed),
           changed[i].hash = entries[i].hash, changed[i].rec # entries[i].rec
    PROVE  ChainIssues(t, changed) # {}
<1> SUFFICES ASSUME SealedRows(t, changed)
             PROVE  FALSE
  BY ChainVerificationExact
<1>1. RowDigest(t, changed, i) = RowDigest(t, entries, i)
  BY DEF SealedRows
<1>2. i \in 1 .. i
  BY DEF IsSequence
<1>3. RowDigest(t, changed, i).leaves[i] = EntryLeaf(t, i - 1, changed[i].rec)
  BY <1>2 DEF RowDigest
<1>4. RowDigest(t, entries, i).leaves[i] = EntryLeaf(t, i - 1, entries[i].rec)
  BY <1>2 DEF RowDigest
<1> QED
  BY <1>1, <1>3, <1>4 DEF EntryLeaf

\* So are rows from the body of which one is missing.
LEMMA DeletionReported ==
    ASSUME NEW t, NEW entries, IsSequence(entries), SealedRows(t, entries),
           NEW i \in 1 .. Len(entries), i < Len(entries)
    PROVE  ChainIssues(t, Delete(entries, entries[i].seq)) # {}
<1> DEFINE n    == Len(entries)
           kept == {j \in 1 .. n : entries[j].seq # entries[i].seq}
           left == Delete(entries, entries[i].seq)
           f    == InOrder(kept)
<1>1. \A j \in 1 .. n : entries[j].seq = j - 1
  BY DEF SealedRows
<1>2. kept = (1 .. n) \ {i}
  <2>1. \A j \in 1 .. n : entries[j].seq # entries[i].seq <=> j # i
    BY <1>1 DEF IsSequence
  <2> QED
    BY <2>1
<1>3. kept \in SUBSET Nat /\ IsFiniteSet(kept) /\ Cardinality(kept) = n - 1
  <2>1. n \in Nat /\ n >= 1
    BY DEF IsSequence
  <2>2. IsFiniteSet(1 .. n) /\ Cardinality(1 .. n) = n
    BY <2>1, IntervalSize
  <2>3. IsFiniteSet((1 .. n) \ {i}) /\ Cardinality((1 .. n) \ {i}) = n - 1
    <3> DEFINE D == 1 .. n
    <3>1. IsFiniteSet(D) /\ i \in D
      BY <2>2
    <3> HIDE DEF D, n
    <3>2. IsFiniteSet(D \ {i}) /\ Cardinality(D \ {i}) = Cardinality(D) - 1
      BY <3>1, FS_RemoveElement, Zenon
    <3> QED
      BY <2>2, <3>2 DEF D
  <2>4. kept \in SUBSET Nat
    OBVIOUS
  <2> HIDE DEF kept
  <2> QED
    BY <1>2, <2>3, <2>4
<1>4. /\ f \in [1 .. n - 1 -> kept] /\ Increasing(f, n - 1)
      /\ left = [k \in 1 .. n - 1 |-> entries[f[k]]]
  BY <1>3, InOrderCorrect DEF Delete
<1>5. n - 1 \in Nat /\ i \in 1 .. n - 1
  BY DEF IsSequence
<1>6. IsSequence(left) /\ Len(left) = n - 1
  <2> HIDE DEF left, f, kept, n
  <2> QED
    BY <1>4, <1>5 DEF IsSequence
<1> SUFFICES ASSUME SealedRows(t, left)
             PROVE  FALSE
  BY <1>6, ChainVerificationExact
<1>7. left[i].seq = i - 1
  BY <1>5, <1>6 DEF SealedRows
<1>8. f[i] \in 1 .. n /\ f[i] # i
  BY <1>2, <1>4, <1>5
<1>9. left[i].seq = f[i] - 1
  BY <1>1, <1>4, <1>5, <1>8
<1> QED
  BY <1>7, <1>8, <1>9

-----------------------------------------------------------------------------
(* Checkpoint verification.                                                *)

\* Equal digests are digests of equal records.
LEMMA DigestBinds ==
    ASSUME NEW t, NEW a, NEW b, NEW n \in Nat, RowDigest(t, a, n) = RowDigest(t, b, n)
    PROVE  \A i \in 1 .. n : a[i].rec = b[i].rec
<1> SUFFICES ASSUME NEW i \in 1 .. n
             PROVE  a[i].rec = b[i].rec
  OBVIOUS
<1>1. RowDigest(t, a, n).leaves[i] = EntryLeaf(t, i - 1, a[i].rec)
  BY DEF RowDigest
<1>2. RowDigest(t, b, n).leaves[i] = EntryLeaf(t, i - 1, b[i].rec)
  BY DEF RowDigest
<1> QED
  BY <1>1, <1>2 DEF EntryLeaf

\* Of numbered rows, Range finds each where it is.
LEMMA RangeOfSealed ==
    ASSUME NEW t, NEW entries, IsSequence(entries), SealedRows(t, entries),
           NEW start \in Nat, NEW end \in Nat, end < Len(entries)
    PROVE  RangeOf(entries, start, end) = [i \in 1 .. end - start + 1 |-> entries[start + i]]
<1>1. ASSUME NEW s \in 0 .. end PROVE RowAt(entries, s) = entries[s + 1]
  <2> DEFINE at == {i \in 1 .. Len(entries) : entries[i].seq = s}
  <2>1. s + 1 \in 1 .. Len(entries) /\ \A i \in 1 .. Len(entries) : entries[i].seq = i - 1
    BY DEF IsSequence, SealedRows
  <2>2. \A i \in 1 .. Len(entries) : i - 1 = s <=> i = s + 1
    BY DEF IsSequence
  <2>3. at = {s + 1}
    BY <2>1, <2>2
  <2>4. Max({s + 1}) = s + 1
    BY DEF Max
  <2> HIDE DEF at
  <2>5. RowAt(entries, s) = entries[Max(at)]
    BY DEF RowAt, at
  <2> QED
    BY <2>3, <2>4, <2>5
<1>2. ASSUME NEW i \in 1 .. end - start + 1
      PROVE  RowAt(entries, start + i - 1) = entries[start + i]
  <2>1. start + i - 1 \in 0 .. end /\ (start + i - 1) + 1 = start + i
    OBVIOUS
  <2> QED
    BY <1>1, <2>1
<1> QED
  BY <1>2 DEF RangeOf

\* What is needed of a checkpoint: its window is a window.
Windowed(cp) == cp.seqStart \in Nat /\ cp.seqEnd \in Nat /\ cp.seqStart <= cp.seqEnd

\* The last hash of the range that a checkpoint names.
LEMMA HeadOfRange ==
    ASSUME NEW t, NEW entries, IsSequence(entries), SealedRows(t, entries),
           NEW cp, Windowed(cp), cp.seqEnd < Len(entries)
    PROVE  LET range == RangeOf(entries, cp.seqStart, cp.seqEnd)
           IN  /\ Len(range) = cp.seqEnd - cp.seqStart + 1
               /\ range[1].seq = cp.seqStart
               /\ range[Len(range)].seq = cp.seqEnd
               /\ range[Len(range)].hash = RowDigest(t, entries, cp.seqEnd + 1)
<1> DEFINE range == RangeOf(entries, cp.seqStart, cp.seqEnd)
           n     == cp.seqEnd - cp.seqStart + 1
<1>1. n \in Nat /\ n >= 1 /\ cp.seqStart + n = cp.seqEnd + 1
  BY DEF Windowed
<1>2. range = [i \in 1 .. n |-> entries[cp.seqStart + i]]
  <2>1. PICK start \in Nat, end \in Nat : start = cp.seqStart /\ end = cp.seqEnd
    BY DEF Windowed
  <2>2. end < Len(entries)
    BY <2>1
  <2> HIDE DEF range, n
  <2>3. RangeOf(entries, start, end) = [i \in 1 .. end - start + 1 |-> entries[start + i]]
    BY <2>2, RangeOfSealed
  <2> QED
    BY <2>1, <2>3 DEF range, n
<1>3. 1 \in 1 .. n /\ n \in 1 .. n
  BY <1>1
<1> HIDE DEF range, n
<1>4. Len(range) = n /\ range[1] = entries[cp.seqStart + 1] /\ range[n] = entries[cp.seqEnd + 1]
  BY <1>1, <1>2, <1>3
<1>5. cp.seqStart + 1 \in 1 .. Len(entries) /\ cp.seqEnd + 1 \in 1 .. Len(entries)
  BY DEF Windowed, IsSequence
<1>6. /\ entries[cp.seqStart + 1].seq = cp.seqStart
      /\ entries[cp.seqEnd + 1].seq = cp.seqEnd
      /\ entries[cp.seqEnd + 1].hash = RowDigest(t, entries, cp.seqEnd + 1)
  <2>1. (cp.seqStart + 1) - 1 = cp.seqStart /\ (cp.seqEnd + 1) - 1 = cp.seqEnd
    BY DEF Windowed
  <2> QED
    BY <1>5, <2>1 DEF SealedRows
<1> QED
  BY <1>4, <1>6 DEF range, n

\* A checkpoint that passes against numbered rows has them all, and the hash
\* it commits to is the digest of their records.
LEMMA PassedCheckpoint ==
    ASSUME NEW t, NEW entries, IsSequence(entries), SealedRows(t, entries),
           NEW anchored, NEW ledger, NEW notaries, NEW k,
           CheckpointIssues(t, entries, anchored, ledger, notaries, k) = {},
           Windowed(anchored[k]), NEW window, NEW prev, NEW at,
           anchored[k] = Build(t, window, prev, at)
    PROVE  /\ anchored[k].seqEnd < Len(entries)
           /\ window[Len(window)].hash = RowDigest(t, entries, anchored[k].seqEnd + 1)
<1> DEFINE cp      == anchored[k]
           prevID  == IF k = 1 THEN <<>> ELSE anchored[k - 1].id
           missing == {s \in cp.seqStart .. cp.seqEnd :
                          \A i \in 1 .. Len(entries) : entries[i].seq # s}
           range   == RangeOf(entries, cp.seqStart, cp.seqEnd)
           rebuilt == Build(t, range, prevID, cp.anchoredAt)
<1>1. missing = {} /\ rebuilt.id = cp.id
  <2> DEFINE mismatch == {i \in {Issue("checkpoint-mismatch", cp.seqEnd)} : rebuilt.id # cp.id}
             unproved == {i \in {Issue("notary-mismatch", cp.seqEnd)} :
                             \E p \in LedgerGet(ledger, cp.seqEnd) :
                                 p.notary \in notaries /\ ~VerifyProof(p.notary, p, rebuilt.id)}
  <2>1. CheckpointIssues(t, entries, anchored, ledger, notaries, k)
           = IF missing # {} THEN {Issue("truncation", Min(missing))}
             ELSE mismatch \cup unproved
    BY Zenon DEF CheckpointIssues
  <2>2. (rebuilt.id # cp.id) => mismatch # {}
    OBVIOUS
  <2> HIDE DEF missing, mismatch, unproved, rebuilt
  <2> QED
    BY <2>1, <2>2, Zenon
<1>2. cp.seqEnd < Len(entries)
  <2>1. cp.seqEnd \in cp.seqStart .. cp.seqEnd
    BY DEF Windowed
  <2>2. PICK i \in 1 .. Len(entries) : entries[i].seq = cp.seqEnd
    BY <1>1, <2>1
  <2>3. entries[i].seq = i - 1
    BY DEF SealedRows
  <2> QED
    BY <2>2, <2>3 DEF IsSequence
<1>3. range[Len(range)].hash = RowDigest(t, entries, cp.seqEnd + 1)
  BY <1>2, HeadOfRange
<1>4. rebuilt.id[1].headHash = range[Len(range)].hash
  BY DEF Build, CheckpointID
<1>5. cp.id[1].headHash = window[Len(window)].hash
  BY DEF Build, CheckpointID
<1> QED
  BY <1>1, <1>2, <1>3, <1>4, <1>5

\* All lists every object of a store.
LEMMA AllLists ==
    ASSUME NEW objects, NEW max \in Nat, \A e \in DOMAIN objects : e \in Nat /\ e <= max
    PROVE  LET n == Cardinality(DOMAIN objects)
           IN  /\ n \in Nat /\ Len(All(objects)) = n
               /\ InOrder(DOMAIN objects) \in [1 .. n -> DOMAIN objects]
               /\ Increasing(InOrder(DOMAIN objects), n)
               /\ \A k \in 1 .. n : All(objects)[k] = objects[InOrder(DOMAIN objects)[k]]
               /\ \A e \in DOMAIN objects :
                     \E k \in 1 .. n : InOrder(DOMAIN objects)[k] = e
<1> DEFINE ends == DOMAIN objects
           n    == Cardinality(ends)
<1>1. ends \in SUBSET Nat /\ IsFiniteSet(ends)
  <2>1. ends \in SUBSET Nat /\ \A e \in ends : e <= max
    OBVIOUS
  <2> HIDE DEF ends
  <2> QED
    BY <2>1, FS_BoundedSetOfNaturals
<1>2. All(objects) = [k \in 1 .. n |-> objects[InOrder(ends)[k]]]
  BY DEF All
<1> HIDE DEF ends
<1>3. /\ n \in Nat
      /\ InOrder(ends) \in [1 .. n -> ends]
      /\ Increasing(InOrder(ends), n)
      /\ \A e \in ends : \E k \in 1 .. n : InOrder(ends)[k] = e
  BY <1>1, InOrderCorrect
<1> HIDE DEF n
<1>4. Len(All(objects)) = n /\ \A k \in 1 .. n : All(objects)[k] = objects[InOrder(ends)[k]]
  BY <1>2, <1>3
<1> QED
  BY <1>3, <1>4 DEF ends, n

\* The id of the last of the objects that end before n.
Below(objects, n) == {e \in DOMAIN objects : e < n}
PrevId(objects, n) == IF Below(objects, n) = {} THEN <<>> ELSE objects[Max(Below(objects, n))].id

\* The object before the k-th of All is the last that ends before it.
LEMMA PreviousObject ==
    ASSUME NEW objects, NEW max \in Nat, \A e \in DOMAIN objects : e \in Nat /\ e <= max,
           NEW k \in 1 .. Cardinality(DOMAIN objects)
    PROVE  PrevId(objects, InOrder(DOMAIN objects)[k])
              = IF k = 1 THEN <<>> ELSE All(objects)[k - 1].id
<1> DEFINE n == Cardinality(DOMAIN objects)
           f == InOrder(DOMAIN objects)
           S == Below(objects, f[k])
<1>1. /\ n \in Nat /\ f \in [1 .. n -> DOMAIN objects] /\ Increasing(f, n)
      /\ \A j \in 1 .. n : All(objects)[j] = objects[f[j]]
      /\ \A e \in DOMAIN objects : \E j \in 1 .. n : f[j] = e
  BY AllLists
<1>2. k \in 1 .. n /\ \A j \in 1 .. n : f[j] \in Nat /\ f[j] \in DOMAIN objects
  BY <1>1
<1> HIDE DEF n, f
<1>3. \A i, j \in 1 .. n : f[i] < f[j] => i < j
  <2> SUFFICES ASSUME NEW i \in 1 .. n, NEW j \in 1 .. n, f[i] < f[j], ~(i < j)
               PROVE  FALSE
    OBVIOUS
  <2>1. f[i] \in Nat /\ f[j] \in Nat
    BY <1>2
  <2>2. i = j \/ j < i
    OBVIOUS
  <2>3. j < i => f[j] < f[i]
    BY <1>1 DEF Increasing
  <2> QED
    BY <2>1, <2>2, <2>3
<1>4. CASE k = 1
  <2>1. S = {}
    <3> SUFFICES ASSUME NEW e \in DOMAIN objects, e < f[k] PROVE FALSE
      BY DEF Below
    <3>1. PICK j \in 1 .. n : f[j] = e
      BY <1>1
    <3> QED
      BY <1>2, <1>3, <1>4, <3>1
  <2> QED
    BY <1>4, <2>1 DEF PrevId, f
<1>5. CASE k # 1
  <2>1. k - 1 \in 1 .. n /\ k - 1 < k
    BY <1>1, <1>2, <1>5
  <2>2. f[k - 1] \in S
    BY <1>1, <1>2, <2>1 DEF Below, Increasing
  <2>3. ASSUME NEW e \in S PROVE f[k - 1] >= e
    <3>1. PICK j \in 1 .. n : f[j] = e
      BY <1>1 DEF Below
    <3>2. e < f[k]
      BY DEF Below
    <3>3. j < k
      BY <1>2, <1>3, <3>1, <3>2
    <3>4. j = k - 1 \/ j < k - 1
      BY <1>2, <3>3
    <3>5. j < k - 1 => f[j] < f[k - 1]
      BY <1>1, <2>1 DEF Increasing
    <3> QED
      BY <1>2, <2>1, <3>1, <3>4, <3>5
  <2> HIDE DEF S
  <2>4. Max(S) \in S /\ \A e \in S : Max(S) >= e
    BY <2>2, <2>3, MaxIsLast
  <2>5. S \subseteq Nat
    BY DEF S, Below
  <2>6. Max(S) = f[k - 1]
    <3>1. Max(S) \in Nat /\ f[k - 1] \in Nat /\ Max(S) >= f[k - 1] /\ f[k - 1] >= Max(S)
      BY <2>2, <2>3, <2>4, <2>5
    <3> QED
      BY <3>1
  <2>7. All(objects)[k - 1] = objects[f[k - 1]]
    BY <1>1, <2>1
  <2>8. PrevId(objects, f[k]) = objects[Max(S)].id
    BY <2>2 DEF PrevId, S
  <2> QED
    BY <1>5, <2>6, <2>7, <2>8 DEF f
<1> QED
  BY <1>4, <1>5

-----------------------------------------------------------------------------
(* What is reported of honest rows.                                        *)

\* Of a checkpoint that commits to the rows in its window and links to the one
\* before, and whose proofs are good, nothing is reported but that rows at the
\* end of its window are not there.
LEMMA CheckpointReport ==
    ASSUME NEW t, NEW entries, IsSequence(entries), SealedRows(t, entries),
           NEW anchored, NEW ledger, NEW notaries, NEW k, Windowed(anchored[k]),
           anchored[k].seqEnd < Len(entries) =>
              anchored[k].id = Build(t, RangeOf(entries, anchored[k].seqStart, anchored[k].seqEnd),
                                     IF k = 1 THEN <<>> ELSE anchored[k - 1].id,
                                     anchored[k].anchoredAt).id,
           \A p \in LedgerGet(ledger, anchored[k].seqEnd) : VerifyProof(p.notary, p, anchored[k].id)
    PROVE  \A i \in CheckpointIssues(t, entries, anchored, ledger, notaries, k) :
              /\ i.kind = "truncation" /\ i.seq \in Nat
              /\ i.seq >= Len(entries) /\ i.seq <= anchored[k].seqEnd
<1> DEFINE cp       == anchored[k]
           prevID   == IF k = 1 THEN <<>> ELSE anchored[k - 1].id
           missing  == {s \in cp.seqStart .. cp.seqEnd :
                           \A i \in 1 .. Len(entries) : entries[i].seq # s}
           rebuilt  == Build(t, RangeOf(entries, cp.seqStart, cp.seqEnd), prevID, cp.anchoredAt)
           mismatch == {i \in {Issue("checkpoint-mismatch", cp.seqEnd)} : rebuilt.id # cp.id}
           unproved == {i \in {Issue("notary-mismatch", cp.seqEnd)} :
                           \E p \in LedgerGet(ledger, cp.seqEnd) :
                               p.notary \in notaries /\ ~VerifyProof(p.notary, p, rebuilt.id)}
<1>1. CheckpointIssues(t, entries, anchored, ledger, notaries, k)
         = IF missing # {} THEN {Issue("truncation", Min(missing))}
           ELSE mismatch \cup unproved
  BY Zenon DEF CheckpointIssues
<1>2. ASSUME NEW s \in missing PROVE s \in Nat /\ s >= Len(entries) /\ s <= cp.seqEnd
  <2>1. s \in Nat /\ s <= cp.seqEnd
    BY DEF Windowed
  <2>2. ASSUME s < Len(entries) PROVE FALSE
    <3>1. s + 1 \in 1 .. Len(entries) /\ (s + 1) - 1 = s
      BY <2>1, <2>2 DEF IsSequence
    <3>2. entries[s + 1].seq = s
      BY <3>1 DEF SealedRows
    <3> QED
      BY <3>1, <3>2
  <2> QED
    BY <2>1, <2>2 DEF IsSequence
<1>3. CASE missing # {}
  <2>1. missing \subseteq Nat
    BY <1>2
  <2> HIDE DEF missing
  <2>2. Min(missing) \in missing
    BY <1>3, <2>1, MinIsLeast
  <2>3. \A i \in {Issue("truncation", Min(missing))} :
           /\ i.kind = "truncation" /\ i.seq \in Nat
           /\ i.seq >= Len(entries) /\ i.seq <= cp.seqEnd
    BY <1>2, <2>2 DEF Issue
  <2> QED
    BY <1>1, <1>3, <2>3
<1>4. CASE missing = {}
  <2>1. cp.seqEnd < Len(entries)
    <3>1. cp.seqEnd \in cp.seqStart .. cp.seqEnd
      BY DEF Windowed
    <3>2. PICK i \in 1 .. Len(entries) : entries[i].seq = cp.seqEnd
      BY <1>4, <3>1
    <3>3. entries[i].seq = i - 1
      BY DEF SealedRows
    <3> QED
      BY <3>2, <3>3 DEF IsSequence
  <2>2. rebuilt.id = cp.id
    BY <2>1
  <2> HIDE DEF rebuilt, missing
  <2>3. mismatch = {} /\ unproved = {}
    BY <2>2
  <2> HIDE DEF mismatch, unproved
  <2> QED
    BY <1>1, <1>4, <2>3
<1> QED
  BY <1>3, <1>4
=============================================================================
