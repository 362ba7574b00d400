----------------------------- MODULE Induction -----------------------------
(***************************************************************************)
(* Induction over the naturals in a first-order form: the set of numbers   *)
(* that have a property takes the place of the property.  And what several *)
(* proofs need of division, of sequences and of what FlattenSeq puts       *)
(* together.                                                               *)
(***************************************************************************)
EXTENDS Integers, SequencesExt, FiniteSetTheorems, WellFoundedInduction, SequenceTheorems, TLAPS

\* Every non-empty set of naturals has a least element.
LEMMA LeastElement ==
    ASSUME NEW S, S \subseteq Nat, S # {}
    PROVE  \E n \in S : \A m \in S : n <= m
<1>1. \E n \in S : \A m \in S : <<m, n>> \notin OpToRel(<, Nat)
  BY NatLessThanWellFounded, WFMin
<1>2. ASSUME NEW n \in S, NEW m \in S, <<m, n>> \notin OpToRel(<, Nat)
      PROVE  ~(m < n)
  <2>1. <<m, n>> \in Nat \X Nat
    OBVIOUS
  <2> QED
    BY <1>2, <2>1, Zenon DEF OpToRel
<1>3. PICK n \in S : \A m \in S : ~(m < n)
  BY <1>1, <1>2, Zenon
<1> QED
  BY <1>3

\* A set that holds 0 and the successor of each of its numbers holds them all.
LEMMA InductionStep ==
    ASSUME NEW S, 0 \in S, \A n \in Nat : n \in S => n + 1 \in S
    PROVE  \A n \in Nat : n \in S
<1> SUFFICES ASSUME NEW k \in Nat, k \notin S
             PROVE  FALSE
  OBVIOUS
<1>1. PICK n \in Nat \ S : \A m \in Nat \ S : n <= m
  BY LeastElement
<1>2. n - 1 \in Nat /\ n - 1 \in S /\ (n - 1) + 1 = n
  BY <1>1
<1> QED
  BY <1>1, <1>2

\* So does one that holds each number if it holds those below it.
LEMMA StrongInduction ==
    ASSUME NEW S, \A n \in Nat : (\A m \in 0 .. n - 1 : m \in S) => n \in S
    PROVE  \A n \in Nat : n \in S
<1> SUFFICES ASSUME NEW k \in Nat, k \notin S
             PROVE  FALSE
  OBVIOUS
<1>1. PICK n \in Nat \ S : \A m \in Nat \ S : n <= m
  BY LeastElement
<1>2. \A m \in 0 .. n - 1 : m \in Nat /\ ~(n <= m)
  BY <1>1
<1>3. \A m \in 0 .. n - 1 : m \in S
  BY <1>1, <1>2, Zenon
<1> QED
  BY <1>1, <1>3

\* A bounded non-empty set of naturals has a largest element.
LEMMA LargestElement ==
    ASSUME NEW S, S \subseteq Nat, S # {}, NEW n \in Nat, \A m \in S : m <= n
    PROVE  \E last \in S : \A m \in S : last >= m
<1> DEFINE T == {n - m : m \in S}
<1>1. T \subseteq Nat /\ T # {}
  <2>1. \A m \in S : n - m \in Nat
    OBVIOUS
  <2> QED
    BY <2>1
<1>2. PICK gap \in T : \A other \in T : gap <= other
  BY <1>1, LeastElement
<1>3. PICK last \in S : gap = n - last
  OBVIOUS
<1>4. ASSUME NEW m \in S PROVE last >= m
  <2>1. n - m \in T
    OBVIOUS
  <2>2. n - last <= n - m
    BY <1>2, <1>3, <2>1
  <2>3. last \in Nat /\ m \in Nat
    OBVIOUS
  <2> HIDE DEF T
  <2> QED
    BY <2>2, <2>3
<1> QED
  BY <1>4

\* So has a finite one: the element with the fewest others above it.
LEMMA LastOfFinite ==
    ASSUME NEW S, S \subseteq Nat, S # {}, IsFiniteSet(S)
    PROVE  \E last \in S : \A m \in S : last >= m
<1> DEFINE above(s) == {m \in S : m > s}
           counts   == {Cardinality(above(s)) : s \in S}
<1>1. \A s \in S : IsFiniteSet(above(s)) /\ Cardinality(above(s)) \in Nat
  BY FS_Subset, FS_CardinalityType
<1>2. counts \subseteq Nat /\ counts # {}
  BY <1>1
<1>3. PICK fewest \in counts : \A c \in counts : fewest <= c
  <2> HIDE DEF counts
  <2> QED
    BY <1>2, LeastElement
<1>4. PICK last \in S : fewest = Cardinality(above(last))
  BY DEF counts
<1>5. ASSUME NEW m \in S, m > last PROVE FALSE
  <2>1. last \in Nat /\ m \in Nat
    BY <1>4
  <2>2. m \in above(last) /\ m \notin above(m)
    BY <1>5, <2>1
  <2>3. above(m) \subseteq above(last)
    <3>1. ASSUME NEW x \in S, x > m PROVE x > last
      BY <1>5, <2>1, <3>1
    <3> QED
      BY <3>1
  <2> HIDE DEF above
  <2>4. Cardinality(above(m)) <= Cardinality(above(last)) /\ Cardinality(above(m)) # Cardinality(above(last))
    BY <1>1, <2>2, <2>3, FS_Subset
  <2>5. Cardinality(above(last)) <= Cardinality(above(m))
    BY <1>3, <1>4 DEF counts
  <2> QED
    BY <1>1, <1>4, <2>4, <2>5
<1> QED
  BY <1>4, <1>5

\* Max of a set that has a largest element.
LEMMA MaxIsLast ==
    ASSUME NEW S, NEW last \in S, \A e \in S : last >= e
    PROVE  Max(S) \in S /\ \A e \in S : Max(S) >= e
BY DEF Max

\* Min of two numbers.
LEMMA MinOfTwo ==
    ASSUME NEW a \in Nat, NEW b \in Nat
    PROVE  Min({a, b}) = IF a <= b THEN a ELSE b
<1> DEFINE m == IF a <= b THEN a ELSE b
<1>1. m \in {a, b} /\ \A y \in {a, b} : m =< y
  OBVIOUS
<1>2. \A x \in {a, b} : (\A y \in {a, b} : x =< y) => x = m
  OBVIOUS
<1> QED
  BY <1>1, <1>2 DEF Min

\* Min of a non-empty set of numbers.
LEMMA MinIsLeast ==
    ASSUME NEW S, S \subseteq Nat, S # {}
    PROVE  Min(S) \in S /\ \A m \in S : Min(S) <= m
<1>1. PICK n \in S : \A m \in S : n <= m
  BY LeastElement
<1>2. \E n2 \in S : \A m \in S : n2 =< m
  BY <1>1
<1> QED
  BY <1>2, Zenon DEF Min

\* The numbers from 1 to n are n.
LEMMA IntervalSize ==
    ASSUME NEW n \in Nat
    PROVE  IsFiniteSet(1 .. n) /\ Cardinality(1 .. n) = n
<1>1. n > 0 \/ n = 0
  OBVIOUS
<1>2. n >= 1 => Cardinality(1 .. n) = (n - 1) + 1
  BY FS_Interval
<1> QED
  BY <1>1, <1>2, FS_Interval

-----------------------------------------------------------------------------
(* Division.                                                               *)

\* What quotient and remainder give back.
LEMMA QuotientOf ==
    ASSUME NEW d \in Nat, NEW q \in Nat, NEW r \in 0 .. d - 1
    PROVE  (q * d + r) \div d = q /\ (q * d + r) % d = r
OBVIOUS

\* A number divided by a larger one.
LEMMA SmallRemainder ==
    ASSUME NEW d \in Nat, NEW n \in Nat, n < d
    PROVE  n % d = n
OBVIOUS

\* A number is put together from its quotient and its remainder.
LEMMA Quotient ==
    ASSUME NEW d \in Nat, d # 0, NEW n \in Nat
    PROVE  \E q \in Nat, r \in 0 .. d - 1 : n = q * d + r /\ n \div d = q /\ n % d = r
<1> DEFINE T == {m \in Nat : \E q \in Nat, r \in 0 .. d - 1 : m = q * d + r}
<1>1. 0 \in T
  <2>1. 0 \in Nat /\ 0 \in 0 .. d - 1 /\ 0 = 0 * d + 0
    OBVIOUS
  <2> QED
    BY <2>1
<1>2. ASSUME NEW m \in Nat, m \in T PROVE m + 1 \in T
  <2>1. PICK q \in Nat, r \in 0 .. d - 1 : m = q * d + r
    BY <1>2
  <2>2. CASE r + 1 < d
    <3>1. r + 1 \in 0 .. d - 1 /\ m + 1 = q * d + (r + 1)
      BY <2>1, <2>2
    <3> QED
      BY <3>1
  <2>3. CASE r + 1 = d
    <3>1. q + 1 \in Nat /\ 0 \in 0 .. d - 1
      OBVIOUS
    <3>2. (q + 1) * d = q * d + d
      OBVIOUS
    <3>3. q * d \in Nat
      OBVIOUS
    <3>4. m + 1 = (q + 1) * d + 0
      <4> DEFINE P == q * d
                 N == (q + 1) * d
      <4>1. P \in Nat /\ N = P + d /\ m = P + r
        BY <2>1, <3>2, <3>3
      <4> HIDE DEF P, N
      <4>2. m + 1 = N + 0
        BY <2>3, <4>1
      <4> QED
        BY <4>2, Zenon DEF N
    <3>5. \E p \in Nat, s \in 0 .. d - 1 : m + 1 = p * d + s
      BY <3>1, <3>4, Zenon
    <3>6. m + 1 \in Nat
      OBVIOUS
    <3> QED
      BY <3>5, <3>6, Zenon
  <2>4. r + 1 < d \/ r + 1 = d
    OBVIOUS
  <2> QED
    BY <2>2, <2>3, <2>4
<1>3. \A m \in Nat : m \in T
  <2> HIDE DEF T
  <2> QED
    BY <1>1, <1>2, InductionStep
<1>4. PICK q \in Nat, r \in 0 .. d - 1 : n = q * d + r
  BY <1>3
<1>5. (q * d + r) \div d = q /\ (q * d + r) % d = r
  BY QuotientOf
<1>6. n \div d = q /\ n % d = r
  BY <1>4, <1>5, Zenon
<1> QED
  BY <1>4, <1>6

\* A quotient is smaller than what was divided.
LEMMA QuotientIsSmaller ==
    ASSUME NEW d \in Nat, d > 1, NEW n \in Nat, n # 0
    PROVE  \E q \in 0 .. n - 1, r \in 0 .. d - 1 :
              n = q * d + r /\ n \div d = q /\ n % d = r /\ (n >= d => q # 0)
<1>1. PICK q \in Nat, r \in 0 .. d - 1 : n = q * d + r /\ n \div d = q /\ n % d = r
  BY Quotient
<1>2. q * d >= 2 * q
  <2>1. PICK e \in Nat : d = 2 + e
    <3>1. d - 2 \in Nat /\ d = 2 + (d - 2)
      OBVIOUS
    <3> QED
      BY <3>1
  <2>2. q * d = 2 * q + q * e /\ q * e \in Nat
    BY <2>1
  <2> QED
    BY <2>2
<1>3. q # 0 => q < n
  <2> DEFINE P == q * d
  <2>1. P \in Nat /\ P >= 2 * q /\ n = P + r
    BY <1>1, <1>2
  <2> HIDE DEF P
  <2> QED
    BY <2>1
<1>4. q \in 0 .. n - 1
  BY <1>3
<1>5. n >= d => q # 0
  BY <1>1
<1> QED
  BY <1>1, <1>4, <1>5, Zenon

\* So two numbers with the same quotient and remainder are the same.
LEMMA QuotientBinds ==
    ASSUME NEW d \in Nat, d # 0, NEW m \in Nat, NEW n \in Nat,
           m \div d = n \div d, m % d = n % d
    PROVE  m = n
<1>1. PICK q \in Nat, r \in 0 .. d - 1 : m = q * d + r /\ m \div d = q /\ m % d = r
  BY Quotient
<1>2. PICK p \in Nat, s \in 0 .. d - 1 : n = p * d + s /\ n \div d = p /\ n % d = s
  BY Quotient
<1>3. p = q /\ s = r
  BY <1>1, <1>2, Zenon
<1> QED
  BY <1>1, <1>2, <1>3, Zenon

-----------------------------------------------------------------------------
(* Sequences.                                                              *)

\* A sequence of which nothing is known, with one more element.
LEMMA AppendOne ==
    ASSUME NEW s, NEW e, Len(s) \in Nat, s = [j \in 1 .. Len(s) |-> s[j]]
    PROVE  LET t == Append(s, e)
           IN  /\ Len(t) = Len(s) + 1 /\ t = [j \in 1 .. Len(t) |-> t[j]]
               /\ t[Len(t)] = e /\ \A j \in 1 .. Len(s) : t[j] = s[j]
<1> DEFINE S == {s[j] : j \in 1 .. Len(s)} \cup {e}
<1>1. s \in [1 .. Len(s) -> S]
  BY Zenon
<1>2. s \in Seq(S) /\ e \in S
  BY <1>1
<1> HIDE DEF S
<1> DEFINE t == Append(s, e)
<1>3. /\ t \in Seq(S) /\ Len(t) = Len(s) + 1 /\ t[Len(s) + 1] = e
      /\ \A j \in 1 .. Len(s) : t[j] = s[j]
  BY <1>2, AppendProperties
<1>4. t = [j \in 1 .. Len(t) |-> t[j]]
  <2> HIDE DEF t
  <2> QED
    BY <1>3
<1> QED
  BY <1>3, <1>4

\* What FlattenSeq has put together after its first fields.
JoinedAt(flat, seqs, i) == IF i = 1 THEN seqs[i] ELSE flat[i - 1] \o seqs[i]
Joined(flat, seqs, n) == flat = [i \in 1 .. n |-> JoinedAt(flat, seqs, i)]

\* The recursion in FlattenSeq is well-founded.
LEMMA FlattenUnfolds ==
    ASSUME NEW seqs, Len(seqs) \in Nat, Len(seqs) # 0
    PROVE  \E flat : Joined(flat, seqs, Len(seqs)) /\ FlattenSeq(seqs) = flat[Len(seqs)]
<1> DEFINE T == {m \in Nat : \E flat : Joined(flat, seqs, m)}
<1>1. 0 \in T
  <2> DEFINE f == [i \in 1 .. 0 |-> seqs[i]]
  <2>1. f = [i \in 1 .. 0 |-> JoinedAt(f, seqs, i)]
    OBVIOUS
  <2> HIDE DEF f
  <2> QED
    BY <2>1 DEF Joined
<1>2. ASSUME NEW m \in Nat, m \in T PROVE m + 1 \in T
  <2>1. PICK old : Joined(old, seqs, m)
    BY <1>2
  <2> DEFINE f == [i \in 1 .. m + 1 |-> JoinedAt(old, seqs, i)]
  <2>2. \A i \in 1 .. m : f[i] = old[i]
    BY <2>1 DEF Joined
  <2>3. \A i \in 1 .. m + 1 : JoinedAt(f, seqs, i) = JoinedAt(old, seqs, i)
    <3>1. \A i \in 1 .. m + 1 : i # 1 => i - 1 \in 1 .. m
      OBVIOUS
    <3>2. \A i \in 1 .. m + 1 : i # 1 => f[i - 1] = old[i - 1]
      BY <2>2, <3>1
    <3> HIDE DEF f
    <3> QED
      BY <3>2 DEF JoinedAt
  <2>4. f = [i \in 1 .. m + 1 |-> JoinedAt(f, seqs, i)]
    BY <2>3
  <2> HIDE DEF f
  <2> QED
    BY <2>4 DEF Joined
<1>3. Len(seqs) \in T
  <2> HIDE DEF T
  <2> QED
    BY <1>1, <1>2, InductionStep
<1>4. \E flat : Joined(flat, seqs, Len(seqs))
  BY <1>3
<1>5. \E S : S = [i \in 1 .. Len(seqs) |-> IF i = 1 THEN seqs[i] ELSE S[i - 1] \o seqs[i]]
  BY <1>4, Zenon DEF Joined, JoinedAt
<1> QED
  BY <1>5, Zenon DEF FlattenSeq, Joined, JoinedAt

\* Where a field ends in what was put together.
EndOf(flat, i) == IF i = 0 THEN 0 ELSE Len(flat[i])

\* The first fields, each where the fields before it end.
InPlace(flat, seqs, k) ==
    /\ flat[k] \in Seq(Nat)
    /\ \A i \in 1 .. k :
          /\ EndOf(flat, i - 1) \in Nat
          /\ EndOf(flat, i) = EndOf(flat, i - 1) + Len(seqs[i])
          /\ EndOf(flat, i) <= Len(flat[k])
          /\ \A m \in 1 .. Len(seqs[i]) : flat[k][EndOf(flat, i - 1) + m] = seqs[i][m]

\* Every field is where the fields before it end, in what has been put together
\* since.
LEMMA FieldsInPlace ==
    ASSUME NEW seqs, NEW n \in Nat, Len(seqs) = n, \A i \in 1 .. n : seqs[i] \in Seq(Nat),
           NEW flat, Joined(flat, seqs, n), NEW k \in 1 .. n
    PROVE  InPlace(flat, seqs, k)
<1> DEFINE In(j, i) == /\ EndOf(flat, i - 1) \in Nat
                       /\ EndOf(flat, i) = EndOf(flat, i - 1) + Len(seqs[i])
                       /\ EndOf(flat, i) <= Len(flat[j])
                       /\ \A m \in 1 .. Len(seqs[i]) : flat[j][EndOf(flat, i - 1) + m] = seqs[i][m]
           Good(j) == flat[j] \in Seq(Nat) /\ \A i \in 1 .. j : In(j, i)
           T == {j \in Nat : j + 1 <= n => Good(j + 1)}
<1>1. \A i \in 1 .. n : flat[i] = JoinedAt(flat, seqs, i)
  BY DEF Joined
<1>2. 0 \in T
  <2> SUFFICES ASSUME 1 <= n PROVE Good(1)
    <3>1. 0 + 1 = 1
      OBVIOUS
    <3> HIDE DEF Good
    <3> QED
      BY <3>1
  <2>1. flat[1] = seqs[1] /\ seqs[1] \in Seq(Nat) /\ Len(seqs[1]) \in Nat
    BY <1>1 DEF JoinedAt
  <2>2. EndOf(flat, 1 - 1) = 0 /\ EndOf(flat, 1) = Len(seqs[1])
    BY <2>1 DEF EndOf
  <2>3. In(1, 1)
    BY <2>1, <2>2
  <2>4. \A i \in 1 .. 1 : i = 1
    OBVIOUS
  <2> HIDE DEF In
  <2> QED
    BY <2>1, <2>3, <2>4
<1>3. ASSUME NEW j \in Nat, j \in T PROVE j + 1 \in T
  <2> SUFFICES ASSUME (j + 1) + 1 <= n PROVE Good((j + 1) + 1)
    OBVIOUS
  <2> DEFINE a == j + 1
             b == a + 1
  <2>0. /\ a \in Nat /\ b \in Nat /\ a \in 1 .. n /\ b \in 1 .. n /\ b # 1 /\ b - 1 = a
        /\ a # 0 /\ b # 0
    OBVIOUS
  <2>1. Good(a)
    BY <1>3, <2>0
  <2> HIDE DEF a, b
  <2>2. flat[b] = flat[a] \o seqs[b] /\ flat[a] \in Seq(Nat) /\ seqs[b] \in Seq(Nat)
    <3>1. flat[b] = flat[b - 1] \o seqs[b]
      BY <1>1, <2>0 DEF JoinedAt
    <3> QED
      BY <2>0, <2>1, <3>1
  <2>3. PICK x \in Nat, y \in Nat :
           /\ x = Len(flat[a]) /\ y = Len(seqs[b]) /\ Len(flat[b]) = x + y
           /\ \A m \in 1 .. x + y : flat[b][m] = IF m <= x THEN flat[a][m] ELSE seqs[b][m - x]
    <3>1. /\ Len(flat[a] \o seqs[b]) = Len(flat[a]) + Len(seqs[b])
          /\ \A m \in 1 .. Len(flat[a]) + Len(seqs[b]) :
                (flat[a] \o seqs[b])[m]
                   = IF m <= Len(flat[a]) THEN flat[a][m] ELSE seqs[b][m - Len(flat[a])]
      BY <2>2, ConcatProperties
    <3>2. Len(flat[a]) \in Nat /\ Len(seqs[b]) \in Nat
      BY <2>2, LenProperties
    <3> QED
      BY <2>2, <3>1, <3>2, Zenon
  <2>a. flat[b] \in Seq(Nat)
    BY <2>2, ConcatProperties
  <2>4. EndOf(flat, a) = Len(flat[a]) /\ EndOf(flat, b) = Len(flat[b])
    BY <2>0 DEF EndOf
  <2>5. ASSUME NEW i \in 1 .. a PROVE In(b, i)
    <3>1. In(a, i)
      BY <2>1
    <3>2. PICK p, z, e : p = EndOf(flat, i - 1) /\ z = Len(seqs[i]) /\ e = EndOf(flat, i)
      OBVIOUS
    <3>3. z \in Nat
      BY <2>0, <3>2
    <3>4. p \in Nat /\ e = p + z /\ e <= x /\ \A m \in 1 .. z : flat[a][p + m] = seqs[i][m]
      BY <2>3, <3>1, <3>2, Zenon
    <3>5. e <= x + y /\ \A m \in 1 .. z : p + m \in 1 .. x + y /\ p + m <= x
      BY <3>3, <3>4
    <3>6. \A m \in 1 .. z : flat[b][p + m] = seqs[i][m]
      BY <2>3, <3>4, <3>5, Zenon
    <3> QED
      BY <2>3, <3>2, <3>4, <3>5, <3>6, Zenon
  <2>6. In(b, b)
    <3>1. EndOf(flat, b - 1) = x
      BY <2>0, <2>3, <2>4
    <3>2. \A m \in 1 .. y : x + m \in 1 .. x + y /\ ~(x + m <= x) /\ (x + m) - x = m
      OBVIOUS
    <3>3. \A m \in 1 .. y : flat[b][x + m] = seqs[b][m]
      BY <2>3, <3>2
    <3>4. EndOf(flat, b) = x + y /\ x + y <= x + y
      BY <2>3, <2>4
    <3> QED
      BY <2>3, <3>1, <3>3, <3>4, Zenon
  <2>7. \A i \in 1 .. b : i \in 1 .. a \/ i = b
    BY <2>0
  <2> HIDE DEF In
  <2>8. Good(b)
    BY <2>a, <2>5, <2>6, <2>7
  <2> QED
    BY <2>8 DEF a, b
<1>4. \A j \in Nat : j \in T
  <2> HIDE DEF T
  <2> QED
    BY <1>2, <1>3, InductionStep
<1>5. k - 1 \in Nat /\ (k - 1) + 1 = k /\ k <= n
  OBVIOUS
<1>6. Good(k)
  <2> HIDE DEF Good
  <2> QED
    BY <1>4, <1>5
<1> QED
  BY <1>6, Zenon DEF InPlace

\* A stretch of a sequence, by its elements.
LEMMA Stretch ==
    ASSUME NEW B \in Seq(Nat), NEW s \in Seq(Nat), NEW p \in Nat, NEW q \in Nat,
           q = p + Len(s), q <= Len(B), \A m \in 1 .. Len(s) : B[p + m] = s[m]
    PROVE  SubSeq(B, p + 1, q) = s
<1>1. Len(s) \in Nat /\ Len(B) \in Nat
  BY LenProperties
<1>2. PICK n \in Nat : n = Len(s) /\ q = p + n
  BY <1>1
<1>3. \A i \in p + 1 .. q : B[i] \in Nat
  <2>1. \A i \in p + 1 .. q : i \in 1 .. Len(B)
    BY <1>1
  <2> QED
    BY <2>1, ElementOfSeq
<1>4. /\ SubSeq(B, p + 1, q) \in Seq(Nat)
      /\ Len(SubSeq(B, p + 1, q)) = IF p + 1 <= q THEN q - (p + 1) + 1 ELSE 0
      /\ \A i \in 1 .. q - (p + 1) + 1 : SubSeq(B, p + 1, q)[i] = B[p + 1 + i - 1]
  <2>1. p + 1 \in Int /\ q \in Int
    OBVIOUS
  <2> QED
    BY <1>3, <2>1, SubSeqProperties
<1>5. (IF p + 1 <= q THEN q - (p + 1) + 1 ELSE 0) = n /\ q - (p + 1) + 1 = n
  BY <1>2
<1>6. \A i \in 1 .. n : p + 1 + i - 1 = p + i
  OBVIOUS
<1>7. \A i \in 1 .. n : SubSeq(B, p + 1, q)[i] = s[i]
  BY <1>2, <1>4, <1>5, <1>6, Zenon
<1>8. Len(SubSeq(B, p + 1, q)) = n
  BY <1>4, <1>5, Zenon
<1> HIDE <1>5
<1> QED
  BY <1>2, <1>4, <1>7, <1>8, SeqEqual, Zenon

\* A function on an interval from 1 is a sequence.
LEMMA FunctionIsSeq ==
    ASSUME NEW n \in Nat, NEW f, f = [i \in 1 .. n |-> f[i]]
    PROVE  Len(f) = n /\ f \in Seq({f[i] : i \in 1 .. n})
<1> DEFINE S == {f[i] : i \in 1 .. n}
<1>1. f \in [1 .. n -> S]
  BY Zenon
<1> HIDE DEF S
<1>2. f \in Seq(S) /\ Len(f) = n
  BY <1>1
<1> QED
  BY <1>2 DEF S

\* What is put together has its fields one after the other.
Placed(offset, seqs, n, all) ==
    /\ offset[0] = 0 /\ offset[n] = Len(all)
    /\ \A k \in 0 .. n : offset[k] \in Nat /\ offset[k] <= Len(all)
    /\ \A k \in 1 .. n : /\ offset[k] = offset[k - 1] + Len(seqs[k])
                         /\ \A m \in 1 .. Len(seqs[k]) : all[offset[k - 1] + m] = seqs[k][m]

LEMMA FlattenPlaces ==
    ASSUME NEW seqs, NEW n \in Nat \ {0}, Len(seqs) = n, \A i \in 1 .. n : seqs[i] \in Seq(Nat)
    PROVE  FlattenSeq(seqs) \in Seq(Nat) /\ \E offset : Placed(offset, seqs, n, FlattenSeq(seqs))
<1>1. PICK flat : Joined(flat, seqs, n) /\ FlattenSeq(seqs) = flat[n]
  BY FlattenUnfolds
<1>2. n \in Nat /\ n \in 1 .. n
  OBVIOUS
<1>3. InPlace(flat, seqs, n)
  BY <1>1, <1>2, FieldsInPlace
<1> DEFINE offset == [k \in 0 .. n |-> EndOf(flat, k)]
<1>4. offset[0] = 0 /\ offset[n] = Len(flat[n])
  BY DEF EndOf
<1>5. \A k \in 0 .. n : offset[k] = EndOf(flat, k)
  OBVIOUS
<1> HIDE DEF offset
<1>6. flat[n] \in Seq(Nat) /\ Len(flat[n]) \in Nat
  BY <1>3, LenProperties DEF InPlace
<1>7. ASSUME NEW k \in 0 .. n PROVE offset[k] \in Nat /\ offset[k] <= Len(flat[n])
  <2>1. CASE k = 0
    BY <1>4, <1>6, <2>1
  <2>2. CASE k # 0
    <3>1. k \in 1 .. n
      BY <2>2
    <3>2. EndOf(flat, k - 1) \in Nat /\ EndOf(flat, k) = EndOf(flat, k - 1) + Len(seqs[k])
          /\ EndOf(flat, k) <= Len(flat[n])
      BY <1>3, <3>1 DEF InPlace
    <3>3. Len(seqs[k]) \in Nat
      BY <3>1, LenProperties
    <3> QED
      BY <1>5, <3>2, <3>3
  <2> QED
    BY <2>1, <2>2
<1>8. ASSUME NEW k \in 1 .. n
      PROVE  /\ offset[k] = offset[k - 1] + Len(seqs[k])
             /\ \A m \in 1 .. Len(seqs[k]) : flat[n][offset[k - 1] + m] = seqs[k][m]
  <2>1. k \in 0 .. n /\ k - 1 \in 0 .. n
    OBVIOUS
  <2>2. offset[k] = EndOf(flat, k) /\ offset[k - 1] = EndOf(flat, k - 1)
    BY <1>5, <2>1
  <2>3. /\ EndOf(flat, k) = EndOf(flat, k - 1) + Len(seqs[k])
        /\ \A m \in 1 .. Len(seqs[k]) : flat[n][EndOf(flat, k - 1) + m] = seqs[k][m]
    BY <1>3, Zenon DEF InPlace
  <2> QED
    BY <2>2, <2>3, Zenon
<1>9. Placed(offset, seqs, n, flat[n])
  BY <1>4, <1>7, <1>8, Zenon DEF Placed
<1> QED
  BY <1>1, <1>6, <1>9, Zenon

\* What sequences have in them, one after the other.
LEMMA ElementsOfConcat ==
    ASSUME NEW S, NEW s \in Seq(S), NEW t \in Seq(S)
    PROVE  s \o t \in Seq(S) /\ ToSet(s \o t) = ToSet(s) \cup ToSet(t)
<1> DEFINE u == s \o t
<1>1. PICK m \in Nat, n \in Nat : m = Len(s) /\ n = Len(t)
  BY LenProperties
<1>2. /\ u \in Seq(S) /\ Len(u) = m + n
      /\ \A j \in 1 .. m + n : u[j] = IF j <= m THEN s[j] ELSE t[j - m]
  BY <1>1, ConcatProperties
<1> HIDE DEF u
<1>3. DOMAIN s = 1 .. m /\ DOMAIN t = 1 .. n /\ DOMAIN u = 1 .. m + n
  BY <1>1, <1>2
<1>4. \A j \in 1 .. m : j \in 1 .. m + n /\ u[j] = s[j]
  BY <1>1, <1>2
<1>5. \A j \in 1 .. n : m + j \in 1 .. m + n /\ u[m + j] = t[j]
  BY <1>1, <1>2
<1>6. \A j \in 1 .. m + n : (j \in 1 .. m) \/ (j - m \in 1 .. n /\ m + (j - m) = j)
  BY <1>1
<1>7. ToSet(u) = ToSet(s) \cup ToSet(t)
  <2>1. ASSUME NEW j \in 1 .. m + n PROVE u[j] \in ToSet(s) \cup ToSet(t)
    <3>1. CASE j \in 1 .. m
      BY <1>3, <1>4, <3>1, Zenon DEF ToSet
    <3>2. CASE j - m \in 1 .. n /\ m + (j - m) = j
      BY <1>3, <1>5, <3>2, Zenon DEF ToSet
    <3> QED
      BY <1>6, <3>1, <3>2
  <2>2. ASSUME NEW j \in 1 .. m PROVE s[j] \in ToSet(u)
    BY <1>3, <1>4, Zenon DEF ToSet
  <2>3. ASSUME NEW j \in 1 .. n PROVE t[j] \in ToSet(u)
    BY <1>3, <1>5, Zenon DEF ToSet
  <2> QED
    BY <1>3, <2>1, <2>2, <2>3, Zenon DEF ToSet
<1> QED
  BY <1>2, <1>7 DEF u

\* What FlattenSeq puts together has what its parts have.
ElementsOf(seqs, n) == UNION {ToSet(seqs[i]) : i \in 1 .. n}

LEMMA FlattenElements ==
    ASSUME NEW S, NEW n \in Nat, NEW seqs, Len(seqs) = n, n = 0 => seqs = <<>>,
           \A i \in 1 .. n : seqs[i] \in Seq(S)
    PROVE  FlattenSeq(seqs) \in Seq(S) /\ ToSet(FlattenSeq(seqs)) = ElementsOf(seqs, n)
<1> USE DEF ElementsOf
<1>1. CASE n = 0
  <2>1. FlattenSeq(seqs) = <<>>
    BY <1>1 DEF FlattenSeq
  <2>2. <<>> \in Seq(S) /\ ToSet(<<>>) = {}
    BY DEF ToSet
  <2>3. UNION {ToSet(seqs[i]) : i \in 1 .. n} = {}
    BY <1>1
  <2> QED
    BY <2>1, <2>2, <2>3
<1>2. CASE n # 0
  <2>1. PICK flat : Joined(flat, seqs, n) /\ FlattenSeq(seqs) = flat[n]
    BY <1>2, FlattenUnfolds
  <2>2. \A i \in 1 .. n : flat[i] = JoinedAt(flat, seqs, i)
    BY <2>1 DEF Joined
  <2> DEFINE All(k)  == UNION {ToSet(seqs[i]) : i \in 1 .. k}
             Good(k) == flat[k] \in Seq(S) /\ ToSet(flat[k]) = All(k)
             T       == {k \in Nat : k + 1 <= n => Good(k + 1)}
  <2>3. 0 \in T
    <3>1. 1 \in 1 .. n
      BY <1>2
    <3>2. flat[1] = seqs[1]
      BY <2>2, <3>1 DEF JoinedAt
    <3>3. All(1) = ToSet(seqs[1])
      OBVIOUS
    <3>4. Good(1)
      BY <3>1, <3>2, <3>3
    <3>5. 0 \in Nat /\ 0 + 1 = 1
      OBVIOUS
    <3> HIDE DEF Good
    <3> QED
      BY <3>4, <3>5
  <2>4. ASSUME NEW j \in Nat, j \in T PROVE j + 1 \in T
    <3> SUFFICES ASSUME (j + 1) + 1 <= n PROVE Good((j + 1) + 1)
      OBVIOUS
    <3> DEFINE a == j + 1
               b == a + 1
    <3>1. a \in 1 .. n /\ b \in 1 .. n /\ b # 1 /\ b - 1 = a
      OBVIOUS
    <3>2. Good(a)
      BY <2>4, <3>1
    <3>3. \A i \in 1 .. b : i \in 1 .. a \/ i = b
      OBVIOUS
    <3>4. b \in 1 .. b /\ \A i \in 1 .. a : i \in 1 .. b
      OBVIOUS
    <3> HIDE DEF a, b, T
    <3>5. flat[b] = flat[a] \o seqs[b]
      BY <2>2, <3>1 DEF JoinedAt
    <3>6. flat[b] \in Seq(S) /\ ToSet(flat[b]) = ToSet(flat[a]) \cup ToSet(seqs[b])
      <4>1. flat[a] \in Seq(S) /\ seqs[b] \in Seq(S)
        BY <3>1, <3>2
      <4> QED
        BY <3>5, <4>1, ElementsOfConcat
    <3>7. All(b) = All(a) \cup ToSet(seqs[b])
      BY <3>3, <3>4
    <3>8. Good(b)
      BY <3>2, <3>6, <3>7
    <3> QED
      BY <3>8 DEF a, b
  <2>5. \A j \in Nat : j \in T
    <3> HIDE DEF T
    <3> QED
      BY <2>3, <2>4, InductionStep
  <2>6. n - 1 \in Nat /\ (n - 1) + 1 = n
    BY <1>2
  <2>7. Good(n)
    <3> HIDE DEF Good
    <3> QED
      BY <2>5, <2>6
  <2> QED
    BY <2>1, <2>7
<1> QED
  BY <1>1, <1>2
=============================================================================
