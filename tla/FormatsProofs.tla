---------------------------- MODULE FormatsProofs ----------------------------
(***************************************************************************)
(* What Formats promises, for hashes, fields and lists of every size that  *)
(* a word can count: the Merkle root, the checkpoint id, the canonical     *)
(* encoding and the checkpoint's JSON document lose nothing.               *)
(***************************************************************************)
EXTENDS Formats, Induction, SequenceTheorems

-----------------------------------------------------------------------------
(* The Merkle root.                                                        *)

\* The leaves over entry hashes, and what the loop makes of a level.
Leaves(hashes) == [i \in 1 .. Len(hashes) |-> <<"leaf", hashes[i]>>]
LevelOf(levels, hashes, k) == IF k = 0 THEN Leaves(hashes) ELSE NextLevel(levels[k - 1])
Levels(levels, hashes, n) == levels = [k \in 0 .. n |-> LevelOf(levels, hashes, k)]

\* The recursion in MerkleRoot is well-founded: a level looks at the one before.
LEMMA LevelsExist ==
    ASSUME NEW hashes, NEW n \in Nat
    PROVE  \E levels : Levels(levels, hashes, n)
<1> DEFINE T == {m \in Nat : \E levels : Levels(levels, hashes, m)}
<1>1. 0 \in T
  <2> DEFINE f == [k \in 0 .. 0 |-> Leaves(hashes)]
  <2>1. f = [k \in 0 .. 0 |-> LevelOf(f, hashes, k)]
    BY DEF LevelOf
  <2> HIDE DEF f
  <2> QED
    BY <2>1 DEF Levels
<1>2. ASSUME NEW m \in Nat, m \in T PROVE m + 1 \in T
  <2>1. PICK old : Levels(old, hashes, m)
    BY <1>2
  <2> DEFINE f == [k \in 0 .. m + 1 |-> LevelOf(old, hashes, k)]
  <2>2. \A k \in 0 .. m : f[k] = old[k]
    BY <2>1 DEF Levels
  <2>3. \A k \in 0 .. m + 1 : LevelOf(f, hashes, k) = LevelOf(old, hashes, k)
    <3>1. \A k \in 0 .. m + 1 : k # 0 => f[k - 1] = old[k - 1]
      BY <2>2
    <3> HIDE DEF f
    <3> QED
      BY <3>1 DEF LevelOf
  <2>4. f = [k \in 0 .. m + 1 |-> LevelOf(f, hashes, k)]
    BY <2>3
  <2> HIDE DEF f
  <2> QED
    BY <2>4 DEF Levels
<1>3. \A m \in Nat : m \in T
  <2> HIDE DEF T
  <2> QED
    BY <1>1, <1>2, InductionStep
<1> QED
  BY <1>3

\* The round after which one node is left.
LastRound(levels, n, k) ==
    k \in 0 .. n /\ Len(levels[k]) = 1 /\ \A j \in 0 .. k - 1 : Len(levels[j]) > 1

\* MerkleRoot unfolded.
LEMMA MerkleRootUnfolds ==
    ASSUME NEW hashes, Len(hashes) \in Nat, Len(hashes) # 0
    PROVE  \E levels : /\ Levels(levels, hashes, Len(hashes))
                       /\ MerkleRoot(hashes)
                             = levels[CHOOSE k \in 0 .. Len(hashes) :
                                         /\ Len(levels[k]) = 1
                                         /\ \A j \in 0 .. k - 1 : Len(levels[j]) > 1][1]
<1>1. \E levels : Levels(levels, hashes, Len(hashes))
  BY LevelsExist
<1>2. \E levels : levels = [k \in 0 .. Len(hashes) |->
                               IF k = 0 THEN [i \in 1 .. Len(hashes) |-> <<"leaf", hashes[i]>>]
                                        ELSE NextLevel(levels[k - 1])]
  BY <1>1 DEF Levels, LevelOf, Leaves
<1> QED
  BY <1>2, Zenon DEF MerkleRoot, Levels, LevelOf, Leaves

\* A sequence, of whose elements nothing is known.
IsList(s) == Len(s) \in Nat /\ s = [i \in 1 .. Len(s) |-> s[i]]

\* Half of a number, rounded up.
LEMMA HalfUp ==
    ASSUME NEW n \in Nat, n # 0
    PROVE  LET h == (n + 1) \div 2 IN h \in Nat /\ h # 0 /\ (n # 1 => h < n)
OBVIOUS

\* A level has half as many nodes as the one below it, rounded up.
LEMMA NextLevelHalves ==
    ASSUME NEW level, Len(level) \in Nat, Len(level) # 0
    PROVE  LET next == NextLevel(level)
           IN  /\ IsList(next) /\ Len(next) = (Len(level) + 1) \div 2 /\ Len(next) # 0
               /\ Len(level) # 1 => Len(next) < Len(level)
<1> DEFINE n == Len(level)
           h == (n + 1) \div 2
<1>1. h \in Nat /\ h # 0 /\ (n # 1 => h < n)
  BY HalfUp
<1> HIDE DEF h
<1>2. IsList(NextLevel(level)) /\ Len(NextLevel(level)) = h
  <2> DEFINE node(i) == LET one == level[2 * i - 1]
                            two == IF 2 * i <= n THEN level[2 * i] ELSE one
                        IN  <<"node", one, two>>
  <2>1. NextLevel(level) = [i \in 1 .. h |-> node(i)]
    BY DEF NextLevel, h
  <2> HIDE DEF node
  <2> QED
    BY <1>1, <2>1 DEF IsList
<1> QED
  BY <1>1, <1>2 DEF h

\* No node of a level is lost on the way to the next one.
LEMMA NextLevelBinds ==
    ASSUME NEW a, NEW b, IsList(a), IsList(b), Len(a) = Len(b), NextLevel(a) = NextLevel(b)
    PROVE  a = b
<1> DEFINE n == Len(a)
           h == (n + 1) \div 2
           mate(level, i) == IF 2 * i <= n THEN level[2 * i] ELSE level[2 * i - 1]
<1>1. n \in Nat /\ h \in Nat /\ n <= 2 * h /\ 2 * h <= n + 1
  BY DEF IsList
<1>2. /\ NextLevel(a) = [i \in 1 .. h |-> <<"node", a[2 * i - 1], mate(a, i)>>]
      /\ NextLevel(b) = [i \in 1 .. h |-> <<"node", b[2 * i - 1], mate(b, i)>>]
  BY DEF NextLevel
<1> HIDE DEF h
<1>3. ASSUME NEW i \in 1 .. h
      PROVE  a[2 * i - 1] = b[2 * i - 1] /\ (2 * i <= n => a[2 * i] = b[2 * i])
  <2>1. <<"node", a[2 * i - 1], mate(a, i)>> = <<"node", b[2 * i - 1], mate(b, i)>>
    <3> HIDE DEF mate
    <3>1. NextLevel(a)[i] = <<"node", a[2 * i - 1], mate(a, i)>>
      BY <1>2
    <3>2. NextLevel(b)[i] = <<"node", b[2 * i - 1], mate(b, i)>>
      BY <1>2
    <3> QED
      BY <3>1, <3>2
  <2> QED
    BY <2>1
<1>4. ASSUME NEW j \in 1 .. n PROVE a[j] = b[j]
  <2>1. PICK i \in 1 .. h : j = 2 * i - 1 \/ j = 2 * i
    <3> DEFINE q == (j + 1) \div 2
    <3>1. q \in Nat /\ q >= 1 /\ (j = 2 * q - 1 \/ j = 2 * q)
      BY <1>1
    <3>2. q <= h
      BY <1>1, <3>1
    <3> HIDE DEF q
    <3> QED
      BY <1>1, <3>1, <3>2
  <2>2. j = 2 * i => 2 * i <= n
    BY <1>1
  <2> QED
    BY <1>3, <2>1, <2>2
<1>5. a = [i \in 1 .. n |-> a[i]] /\ b = [i \in 1 .. n |-> b[i]]
  BY DEF IsList
<1> HIDE DEF n
<1> QED
  BY <1>4, <1>5

\* How long the levels are, and which is the last.
LEMMA LevelSizes ==
    ASSUME NEW hashes, NEW n \in Nat, n # 0, n = Len(hashes), NEW levels, Levels(levels, hashes, n)
    PROVE  /\ \A k \in 0 .. n : IsList(levels[k]) /\ Len(levels[k]) # 0
           /\ Len(levels[0]) = n
           /\ \A k \in 0 .. n - 1 : levels[k + 1] = NextLevel(levels[k])
           /\ \E k \in 0 .. n : LastRound(levels, n, k)
<1>1. levels[0] = Leaves(hashes) /\ \A k \in 0 .. n - 1 : levels[k + 1] = NextLevel(levels[k])
  <2>1. \A k \in 0 .. n : levels[k] = LevelOf(levels, hashes, k)
    BY DEF Levels
  <2>2. \A k \in 0 .. n - 1 : k + 1 \in 0 .. n /\ k + 1 # 0 /\ (k + 1) - 1 = k
    OBVIOUS
  <2> QED
    BY <2>1, <2>2 DEF LevelOf
<1>2. IsList(levels[0]) /\ Len(levels[0]) = n
  <2> DEFINE leaf(i) == <<"leaf", hashes[i]>>
  <2>1. levels[0] = [i \in 1 .. n |-> leaf(i)]
    BY <1>1 DEF Leaves
  <2> HIDE DEF leaf
  <2> QED
    BY <2>1 DEF IsList
<1> DEFINE Good(k) == k <= n => /\ IsList(levels[k]) /\ Len(levels[k]) # 0
                                /\ Len(levels[k]) = 1 \/ Len(levels[k]) + k <= n
           T == {k \in Nat : Good(k)}
<1>3. 0 \in T
  BY <1>2
<1>4. ASSUME NEW k \in Nat, k \in T PROVE k + 1 \in T
  <2>0. Good(k + 1) => k + 1 \in T
    <3>1. k + 1 \in Nat
      OBVIOUS
    <3> HIDE DEF Good
    <3> QED
      BY <3>1
  <2> SUFFICES ASSUME k + 1 <= n
               PROVE  /\ IsList(levels[k + 1]) /\ Len(levels[k + 1]) # 0
                      /\ Len(levels[k + 1]) = 1 \/ Len(levels[k + 1]) + (k + 1) <= n
    <3> HIDE DEF T
    <3> QED
      BY <2>0
  <2>1. /\ k <= n /\ k \in 0 .. n - 1
        /\ IsList(levels[k]) /\ Len(levels[k]) \in Nat /\ Len(levels[k]) # 0
        /\ Len(levels[k]) = 1 \/ Len(levels[k]) + k <= n
    BY <1>4 DEF IsList
  <2>2. levels[k + 1] = NextLevel(levels[k])
    BY <1>1, <2>1
  <2> DEFINE s == Len(levels[k])
             r == Len(levels[k + 1])
  <2>3. /\ IsList(levels[k + 1]) /\ r = (s + 1) \div 2 /\ r # 0
        /\ s # 1 => r < s
    BY <2>1, <2>2, NextLevelHalves
  <2>4. r \in Nat /\ s \in Nat
    BY <2>1, <2>3 DEF IsList
  <2> HIDE DEF s, r
  <2>5. r = 1 \/ r + (k + 1) <= n
    <3>1. CASE s = 1
      BY <2>3, <3>1
    <3>2. CASE s # 1
      <4>1. s + k <= n /\ r < s
        BY <2>1, <2>3, <3>2 DEF s
      <4> QED
        BY <2>4, <4>1
    <3> QED
      BY <3>1, <3>2
  <2> QED
    BY <2>3, <2>5 DEF r
<1>5. \A k \in Nat : k \in T
  <2> HIDE DEF T
  <2> QED
    BY <1>3, <1>4, InductionStep
<1>6. ASSUME NEW k \in 0 .. n
      PROVE  /\ IsList(levels[k]) /\ Len(levels[k]) \in Nat /\ Len(levels[k]) # 0
             /\ Len(levels[k]) = 1 \/ Len(levels[k]) + k <= n
  <2>1. k \in T /\ k <= n
    BY <1>5
  <2> QED
    BY <2>1 DEF IsList
<1>7. \E k \in 0 .. n : LastRound(levels, n, k)
  <2> DEFINE ones == {k \in 0 .. n : Len(levels[k]) = 1}
  <2>1. n \in ones
    <3>1. Len(levels[n]) \in Nat /\ Len(levels[n]) # 0 /\ (Len(levels[n]) = 1 \/ Len(levels[n]) + n <= n)
      <4>1. n \in 0 .. n
        OBVIOUS
      <4> QED
        BY <1>6, <4>1
    <3> QED
      BY <3>1
  <2>2. ones \subseteq Nat /\ ones # {}
    BY <2>1
  <2> HIDE DEF ones
  <2>3. PICK k \in ones : \A j \in ones : k <= j
    BY <2>2, LeastElement
  <2>4. k \in 0 .. n /\ Len(levels[k]) = 1
    BY DEF ones
  <2>5. ASSUME NEW j \in 0 .. k - 1 PROVE Len(levels[j]) > 1
    <3>1. j \in 0 .. n /\ ~(k <= j)
      BY <2>4
    <3>2. Len(levels[j]) # 1
      BY <2>3, <3>1 DEF ones
    <3>3. Len(levels[j]) \in Nat /\ Len(levels[j]) # 0
      BY <1>6, <3>1
    <3>4. \A m \in Nat : m # 0 /\ m # 1 => m > 1
      OBVIOUS
    <3> QED
      BY <3>2, <3>3, <3>4
  <2> QED
    BY <2>4, <2>5 DEF LastRound
<1> QED
  BY <1>1, <1>2, <1>6, <1>7

\* MerkleRoot commits to the entry hashes once their number is known: of two
\* lists of equal length with equal roots every level is equal, from the root
\* down.  (Of unequal length they need not be: an odd last node stands twice.)
THEOREM MerkleRootBinds ==
    ASSUME NEW a, NEW b, IsList(a), IsList(b), Len(a) = Len(b), MerkleRoot(a) = MerkleRoot(b)
    PROVE  a = b
<1> DEFINE n == Len(a)
<1>1. n \in Nat /\ n = Len(b) /\ a = [i \in 1 .. n |-> a[i]] /\ b = [i \in 1 .. n |-> b[i]]
  BY DEF IsList
<1>2. CASE n = 0
  BY <1>1, <1>2
<1>3. CASE n # 0
  <2> DEFINE Round(levels) == CHOOSE k \in 0 .. n : /\ Len(levels[k]) = 1
                                                    /\ \A j \in 0 .. k - 1 : Len(levels[j]) > 1
  <2>1. PICK L : Levels(L, a, n) /\ MerkleRoot(a) = L[Round(L)][1]
    BY <1>1, <1>3, MerkleRootUnfolds
  <2>2. PICK M : Levels(M, b, n) /\ MerkleRoot(b) = M[Round(M)][1]
    <3>1. \E M : /\ Levels(M, b, Len(b))
                 /\ MerkleRoot(b) = M[CHOOSE k \in 0 .. Len(b) :
                                         /\ Len(M[k]) = 1
                                         /\ \A j \in 0 .. k - 1 : Len(M[j]) > 1][1]
      BY <1>1, <1>3, MerkleRootUnfolds
    <3> QED
      BY <1>1, <3>1
  <2>3. /\ \A k \in 0 .. n : IsList(L[k]) /\ Len(L[k]) # 0
        /\ Len(L[0]) = n
        /\ \A k \in 0 .. n - 1 : L[k + 1] = NextLevel(L[k])
        /\ \E k \in 0 .. n : LastRound(L, n, k)
    BY <1>1, <1>3, <2>1, LevelSizes
  <2>4. /\ \A k \in 0 .. n : IsList(M[k]) /\ Len(M[k]) # 0
        /\ Len(M[0]) = n
        /\ \A k \in 0 .. n - 1 : M[k + 1] = NextLevel(M[k])
        /\ \E k \in 0 .. n : LastRound(M, n, k)
    BY <1>1, <1>3, <2>2, LevelSizes
  <2>5. LastRound(L, n, Round(L)) /\ LastRound(M, n, Round(M))
    BY <2>3, <2>4, Zenon DEF LastRound
  <2> HIDE DEF n, Round
  <2>6. \A k \in 0 .. n : Len(L[k]) = Len(M[k])
    <3> DEFINE T == {k \in Nat : k <= n => Len(L[k]) = Len(M[k])}
    <3>1. 0 \in T
      BY <2>3, <2>4
    <3>2. ASSUME NEW k \in Nat, k \in T PROVE k + 1 \in T
      <4> SUFFICES ASSUME k + 1 <= n PROVE Len(L[k + 1]) = Len(M[k + 1])
        OBVIOUS
      <4>1. k \in 0 .. n /\ k \in 0 .. n - 1 /\ Len(L[k]) = Len(M[k])
        BY <1>1, <3>2
      <4>2. /\ Len(L[k]) \in Nat /\ Len(L[k]) # 0 /\ Len(M[k]) \in Nat /\ Len(M[k]) # 0
            /\ L[k + 1] = NextLevel(L[k]) /\ M[k + 1] = NextLevel(M[k])
        BY <2>3, <2>4, <4>1 DEF IsList
      <4>3. /\ Len(NextLevel(L[k])) = (Len(L[k]) + 1) \div 2
            /\ Len(NextLevel(M[k])) = (Len(M[k]) + 1) \div 2
        BY <4>2, NextLevelHalves
      <4> QED
        BY <4>1, <4>2, <4>3
    <3>3. \A k \in Nat : k \in T
      <4> HIDE DEF T
      <4> QED
        BY <3>1, <3>2, InductionStep
    <3> QED
      BY <3>3
  <2>7. PICK r \in 0 .. n : r = Round(L) /\ r = Round(M) /\ Len(L[r]) = 1 /\ Len(M[r]) = 1
    <3> DEFINE x == Round(L)
               y == Round(M)
    <3>1. /\ x \in 0 .. n /\ Len(L[x]) = 1 /\ \A j \in 0 .. x - 1 : Len(L[j]) > 1
          /\ y \in 0 .. n /\ Len(M[y]) = 1 /\ \A j \in 0 .. y - 1 : Len(M[j]) > 1
      BY <2>5 DEF LastRound
    <3> HIDE DEF x, y
    <3>2. ~(1 > 1)
      OBVIOUS
    <3>3. ~(x < y)
      <4> SUFFICES ASSUME x < y PROVE FALSE
        OBVIOUS
      <4>1. x \in 0 .. y - 1
        BY <1>1, <3>1
      <4>2. Len(M[x]) > 1 /\ Len(M[x]) = 1
        BY <2>6, <3>1, <4>1
      <4> QED
        BY <3>2, <4>2
    <3>4. ~(y < x)
      <4> SUFFICES ASSUME y < x PROVE FALSE
        OBVIOUS
      <4>1. y \in 0 .. x - 1
        BY <1>1, <3>1
      <4>2. Len(L[y]) > 1 /\ Len(L[y]) = 1
        BY <2>6, <3>1, <4>1
      <4> QED
        BY <3>2, <4>2
    <3>5. x = y
      BY <1>1, <3>1, <3>3, <3>4
    <3> QED
      BY <3>1, <3>5 DEF x, y
  <2>8. L[r] = M[r]
    <3>1. L[r][1] = M[r][1]
      BY <2>1, <2>2, <2>7
    <3>2. L[r] = [i \in 1 .. 1 |-> L[r][i]] /\ M[r] = [i \in 1 .. 1 |-> M[r][i]]
      BY <2>3, <2>4, <2>7 DEF IsList
    <3>3. \A i \in 1 .. 1 : L[r][i] = M[r][i]
      BY <3>1
    <3> QED
      BY <3>2, <3>3
  <2>9. L[0] = M[0]
    <3> DEFINE T == {k \in Nat : k <= r => L[r - k] = M[r - k]}
    <3>1. 0 \in T
      BY <2>8
    <3>2. ASSUME NEW k \in Nat, k \in T PROVE k + 1 \in T
      <4> SUFFICES ASSUME k + 1 <= r PROVE L[r - (k + 1)] = M[r - (k + 1)]
        OBVIOUS
      <4> DEFINE q == r - (k + 1)
      <4>1. q \in 0 .. n /\ q \in 0 .. n - 1 /\ q + 1 = r - k /\ k <= r
        <5>1. n \in Nat /\ r \in Nat /\ r <= n
          BY <1>1
        <5> QED
          BY <5>1
      <4>2. L[r - k] = M[r - k]
        BY <3>2, <4>1
      <4> HIDE DEF q
      <4>3. NextLevel(L[q]) = NextLevel(M[q])
        BY <2>3, <2>4, <4>1, <4>2
      <4>4. IsList(L[q]) /\ IsList(M[q]) /\ Len(L[q]) = Len(M[q])
        BY <2>3, <2>4, <2>6, <4>1
      <4>5. L[q] = M[q]
        BY <4>3, <4>4, NextLevelBinds
      <4> QED
        BY <4>5 DEF q
    <3>3. \A k \in Nat : k \in T
      <4> HIDE DEF T
      <4> QED
        BY <3>1, <3>2, InductionStep
    <3>4. r \in T /\ r - r = 0 /\ r <= r
      BY <3>3
    <3> QED
      BY <3>4
  <2>10. L[0] = Leaves(a) /\ M[0] = Leaves(b)
    <3>1. 0 \in 0 .. n
      BY <1>1
    <3> QED
      BY <2>1, <2>2, <3>1 DEF Levels, LevelOf
  <2>11. ASSUME NEW i \in 1 .. n PROVE a[i] = b[i]
    <3>1. Leaves(a)[i] = <<"leaf", a[i]>> /\ Leaves(b)[i] = <<"leaf", b[i]>>
      BY <1>1 DEF Leaves, n
    <3>2. <<"leaf", a[i]>> = <<"leaf", b[i]>>
      BY <2>9, <2>10, <3>1
    <3> QED
      BY <3>2
  <2> QED
    BY <1>1, <2>11
<1> QED
  BY <1>2, <1>3

\* Equal checkpoint ids are ids of one tenant, one window, one previous
\* checkpoint, and the same entry hashes, under the chain hash and again under
\* the Merkle root.
THEOREM CheckpointIdBinds ==
    ASSUME NEW t, NEW u, NEW a, NEW b, Len(a) \in Nat, Len(b) \in Nat,
           NEW p, NEW q, NEW x, NEW y, Build(t, a, p, x).id = Build(u, b, q, y).id
    PROVE  /\ t = u /\ p = q /\ x = y /\ Len(a) = Len(b)
           /\ a[1].seq = b[1].seq /\ a[Len(a)].seq = b[Len(b)].seq
           /\ \A i \in 1 .. Len(a) : a[i].hash = b[i].hash
<1> DEFINE hashes(w) == [i \in 1 .. Len(w) |-> w[i].hash]
           Fields(v, w, prev, at) ==
              [tenant |-> v, seqStart |-> w[1].seq, seqEnd |-> w[Len(w)].seq,
               entryCount |-> Len(w), headHash |-> w[Len(w)].hash,
               merkleRoot |-> MerkleRoot(hashes(w)), prev |-> prev, anchoredAt |-> at]
<1>1. Build(t, a, p, x).id = <<Fields(t, a, p, x)>> /\ Build(u, b, q, y).id = <<Fields(u, b, q, y)>>
  BY DEF Build, CheckpointID
<1>2. Fields(t, a, p, x) = Fields(u, b, q, y)
  <2> HIDE DEF Fields
  <2>1. <<Fields(t, a, p, x)>> = <<Fields(u, b, q, y)>>
    BY <1>1
  <2>2. \A v, w : <<v>> = <<w>> => v = w
    OBVIOUS
  <2> QED
    BY <2>1, <2>2, Zenon
<1> HIDE DEF hashes
<1>3. /\ t = u /\ p = q /\ x = y /\ Len(a) = Len(b)
      /\ a[1].seq = b[1].seq /\ a[Len(a)].seq = b[Len(b)].seq
      /\ MerkleRoot(hashes(a)) = MerkleRoot(hashes(b))
  BY <1>2
<1>4. \A w : Len(w) \in Nat => IsList(hashes(w)) /\ Len(hashes(w)) = Len(w)
  <2> SUFFICES ASSUME NEW w, Len(w) \in Nat PROVE IsList(hashes(w)) /\ Len(hashes(w)) = Len(w)
    OBVIOUS
  <2> DEFINE hash(i) == w[i].hash
  <2>1. hashes(w) = [i \in 1 .. Len(w) |-> hash(i)]
    BY DEF hashes
  <2> HIDE DEF hash
  <2> QED
    BY <2>1 DEF IsList
<1>5. hashes(a) = hashes(b)
  BY <1>3, <1>4, MerkleRootBinds
<1>6. \A i \in 1 .. Len(a) : hashes(a)[i] = a[i].hash /\ hashes(b)[i] = b[i].hash
  BY <1>3 DEF hashes
<1> QED
  BY <1>3, <1>5, <1>6

-----------------------------------------------------------------------------
(* Numbers as bytes.                                                       *)

\* The recursion in Shifted is well-founded.
LEMMA ShiftedUnfolds ==
    ASSUME NEW n \in Nat
    PROVE  /\ Shifted(n)[0] = n
           /\ \A k \in 0 .. Width : Shifted(n)[k] \in Nat
           /\ \A k \in 0 .. Width - 1 : Shifted(n)[k + 1] = Shifted(n)[k] \div Base
<1> DEFINE Has(m) == \E S : S = [k \in 0 .. m |-> IF k = 0 THEN n ELSE S[k - 1] \div Base]
           T == {m \in Nat : Has(m)}
<1>1. 0 \in T
  <2> DEFINE f == [k \in 0 .. 0 |-> n]
  <2>1. f = [k \in 0 .. 0 |-> IF k = 0 THEN n ELSE f[k - 1] \div Base]
    OBVIOUS
  <2> HIDE DEF f
  <2> QED
    BY <2>1
<1>2. ASSUME NEW m \in Nat, m \in T PROVE m + 1 \in T
  <2>1. PICK old : old = [k \in 0 .. m |-> IF k = 0 THEN n ELSE old[k - 1] \div Base]
    BY <1>2
  <2> DEFINE f == [k \in 0 .. m + 1 |-> IF k = 0 THEN n ELSE old[k - 1] \div Base]
  <2>2. \A k \in 0 .. m : f[k] = old[k]
    BY <2>1
  <2>3. \A k \in 0 .. m + 1 : k # 0 => f[k - 1] = old[k - 1]
    <3>1. \A k \in 0 .. m + 1 : k # 0 => k - 1 \in 0 .. m
      OBVIOUS
    <3> HIDE DEF f
    <3> QED
      BY <2>2, <3>1
  <2>4. f = [k \in 0 .. m + 1 |-> IF k = 0 THEN n ELSE f[k - 1] \div Base]
    BY <2>3
  <2> HIDE DEF f
  <2> QED
    BY <2>4
<1>3. Width \in T
  <2>1. Width \in Nat
    BY EncodingConstants
  <2> HIDE DEF T
  <2> QED
    BY <1>1, <1>2, <2>1, InductionStep
<1> DEFINE S == Shifted(n)
<1>4. S = [k \in 0 .. Width |-> IF k = 0 THEN n ELSE S[k - 1] \div Base]
  BY <1>3, Zenon DEF Shifted
<1> HIDE DEF S
<1>5. Width \in Nat /\ Base \in Nat /\ Base # 0
  BY EncodingConstants
<1>6. S[0] = n
  BY <1>4, <1>5
<1>7. \A k \in 0 .. Width - 1 : S[k + 1] = S[k] \div Base
  <2> SUFFICES ASSUME NEW k \in 0 .. Width - 1 PROVE S[k + 1] = S[k] \div Base
    OBVIOUS
  <2>1. k + 1 \in 0 .. Width /\ k + 1 # 0 /\ (k + 1) - 1 = k
    BY <1>5
  <2> QED
    BY <1>4, <2>1
<1> DEFINE U == {k \in Nat : k <= Width => S[k] \in Nat}
<1>8. 0 \in U
  BY <1>6
<1>9. ASSUME NEW k \in Nat, k \in U PROVE k + 1 \in U
  <2> SUFFICES ASSUME k + 1 <= Width PROVE S[k + 1] \in Nat
    OBVIOUS
  <2>1. k \in 0 .. Width - 1 /\ S[k] \in Nat
    BY <1>5, <1>9
  <2>2. S[k + 1] = S[k] \div Base
    BY <1>7, <2>1
  <2> QED
    BY <1>5, <2>1, <2>2, Quotient
<1>10. \A k \in Nat : k \in U
  <2> HIDE DEF U
  <2> QED
    BY <1>8, <1>9, InductionStep
<1> QED
  BY <1>5, <1>6, <1>7, <1>10 DEF S

\* Words with the same bytes are the same.
LEMMA BigEndianBinds ==
    ASSUME NEW m \in Nat, NEW n \in Nat, IsWord(m), IsWord(n), BigEndian(m) = BigEndian(n)
    PROVE  m = n
<1> DEFINE S == Shifted(m)
           R == Shifted(n)
<1>1. Width \in Nat /\ Base \in Nat /\ Base # 0
  BY EncodingConstants
<1>2. /\ S[0] = m /\ R[0] = n
      /\ \A k \in 0 .. Width : S[k] \in Nat /\ R[k] \in Nat
      /\ \A k \in 0 .. Width - 1 : S[k + 1] = S[k] \div Base /\ R[k + 1] = R[k] \div Base
  BY ShiftedUnfolds
<1>3. S[Width] = R[Width]
  BY DEF IsWord
<1>4. \A k \in 0 .. Width - 1 : S[k] % Base = R[k] % Base
  <2> SUFFICES ASSUME NEW k \in 0 .. Width - 1 PROVE S[k] % Base = R[k] % Base
    OBVIOUS
  <2>1. Width - k \in 1 .. Width /\ Width - (Width - k) = k
    BY <1>1
  <2>2. BigEndian(m)[Width - k] = S[k] % Base /\ BigEndian(n)[Width - k] = R[k] % Base
    BY <2>1 DEF BigEndian
  <2> QED
    BY <2>2
<1> HIDE DEF S, R
<1> DEFINE T == {j \in Nat : j <= Width => S[Width - j] = R[Width - j]}
<1>5. 0 \in T
  BY <1>1, <1>3
<1>6. ASSUME NEW j \in Nat, j \in T PROVE j + 1 \in T
  <2> SUFFICES ASSUME j + 1 <= Width PROVE S[Width - (j + 1)] = R[Width - (j + 1)]
    OBVIOUS
  <2> DEFINE k == Width - (j + 1)
  <2>1. k \in 0 .. Width - 1 /\ k \in 0 .. Width /\ k + 1 = Width - j /\ j <= Width
    BY <1>1
  <2>2. S[Width - j] = R[Width - j]
    BY <1>6, <2>1
  <2> HIDE DEF k
  <2>3. S[k] \div Base = R[k] \div Base /\ S[k] % Base = R[k] % Base
    BY <1>2, <1>4, <2>1, <2>2
  <2>4. S[k] \in Nat /\ R[k] \in Nat
    BY <1>2, <2>1
  <2>5. S[k] = R[k]
    BY <1>1, <2>3, <2>4, QuotientBinds
  <2> QED
    BY <2>5 DEF k
<1>7. \A j \in Nat : j \in T
  <2> HIDE DEF T
  <2> QED
    BY <1>5, <1>6, InductionStep
<1>8. Width \in T /\ Width <= Width /\ Width - Width = 0
  BY <1>1, <1>7
<1> QED
  BY <1>2, <1>8

\* The bytes of a number.
LEMMA BigEndianBytes ==
    ASSUME NEW n \in Nat
    PROVE  BigEndian(n) \in Seq(Nat) /\ Len(BigEndian(n)) = Width
<1>1. Width \in Nat /\ Base \in Nat /\ Base # 0
  BY EncodingConstants
<1>2. ASSUME NEW i \in 1 .. Width PROVE Shifted(n)[Width - i] % Base \in Nat
  <2>1. Width - i \in 0 .. Width
    BY <1>1
  <2>2. Shifted(n)[Width - i] \in Nat
    BY <2>1, ShiftedUnfolds
  <2> QED
    BY <1>1, <2>2, Quotient
<1> DEFINE byte(i) == Shifted(n)[Width - i] % Base
<1>3. BigEndian(n) = [i \in 1 .. Width |-> byte(i)]
  BY DEF BigEndian
<1>4. \A i \in 1 .. Width : byte(i) \in Nat
  BY <1>2
<1> HIDE DEF byte
<1> QED
  BY <1>1, <1>3, <1>4

-----------------------------------------------------------------------------
(* The checkpoint's JSON document.                                         *)

Bytes == 0 .. Base - 1

\* Two digits stand for each byte.
LEMMA HexDigits ==
    ASSUME NEW b \in Seq(Bytes)
    PROVE  /\ Len(b) \in Nat /\ Len(HexEncode(b)) = 2 * Len(b)
           /\ \A i \in 1 .. Len(b) : /\ HexEncode(b)[2 * i - 1] = b[i] \div Digit
                                     /\ HexEncode(b)[2 * i] = b[i] % Digit
<1> DEFINE digit(i) == LET byte == b[(i + 1) \div 2]
                       IN  IF i % 2 = 1 THEN byte \div Digit ELSE byte % Digit
<1>1. Len(b) \in Nat
  OBVIOUS
<1>2. HexEncode(b) = [i \in 1 .. 2 * Len(b) |-> digit(i)]
  BY DEF HexEncode
<1>3. ASSUME NEW i \in 1 .. Len(b)
      PROVE  digit(2 * i - 1) = b[i] \div Digit /\ digit(2 * i) = b[i] % Digit
  <2>1. /\ ((2 * i - 1) + 1) \div 2 = i /\ (2 * i - 1) % 2 = 1
        /\ (2 * i + 1) \div 2 = i /\ (2 * i) % 2 # 1
    BY <1>1
  <2> QED
    BY <2>1, Zenon
<1> HIDE DEF digit
<1>4. \A i \in 1 .. Len(b) : 2 * i - 1 \in 1 .. 2 * Len(b) /\ 2 * i \in 1 .. 2 * Len(b)
  BY <1>1
<1>5. Len(HexEncode(b)) = 2 * Len(b)
  BY <1>1, <1>2
<1> QED
  BY <1>1, <1>2, <1>3, <1>4, <1>5

\* Which give the byte back.
LEMMA HexRoundTrip ==
    ASSUME NEW b \in Seq(Bytes)
    PROVE  Dec(HexEncode(b)) = b
<1>0. Digit \in Nat /\ Digit # 0 /\ Base \in Nat
  BY EncodingConstants
<1>1. /\ Len(b) \in Nat /\ Len(HexEncode(b)) = 2 * Len(b)
      /\ \A i \in 1 .. Len(b) : /\ HexEncode(b)[2 * i - 1] = b[i] \div Digit
                                /\ HexEncode(b)[2 * i] = b[i] % Digit
  BY HexDigits
<1> DEFINE s == HexEncode(b)
<1> HIDE DEF s
<1>2. (2 * Len(b)) \div 2 = Len(b)
  BY <1>1
<1>3. ASSUME NEW i \in 1 .. Len(b) PROVE s[2 * i - 1] * Digit + s[2 * i] = b[i]
  <2>1. b[i] \in Nat
    BY <1>0 DEF Bytes
  <2>2. PICK q \in Nat, r \in 0 .. Digit - 1 :
           b[i] = q * Digit + r /\ b[i] \div Digit = q /\ b[i] % Digit = r
    BY <1>0, <2>1, Quotient
  <2>3. s[2 * i - 1] = q /\ s[2 * i] = r
    BY <1>1, <2>2, Zenon DEF s
  <2> QED
    BY <2>2, <2>3, Zenon
<1>4. b = [i \in 1 .. Len(b) |-> b[i]]
  OBVIOUS
<1>5. HexDecode(s) = b
  <2> DEFINE byte(i) == s[2 * i - 1] * Digit + s[2 * i]
  <2>1. HexDecode(s) = [i \in 1 .. Len(b) |-> byte(i)]
    BY <1>1, <1>2 DEF HexDecode, s
  <2>2. \A i \in 1 .. Len(b) : byte(i) = b[i]
    BY <1>3
  <2> HIDE DEF byte
  <2> QED
    BY <1>4, <2>1, <2>2
<1>6. s = <<>> => b = <<>>
  <2> SUFFICES ASSUME s = <<>> PROVE b = <<>>
    OBVIOUS
  <2>1. Len(s) = 0
    OBVIOUS
  <2>2. Len(b) = 0
    BY <1>1, <2>1 DEF s
  <2> QED
    BY <2>2
<1> QED
  BY <1>5, <1>6 DEF Dec, s

\* A checkpoint, by what it is made of.
CheckpointOf(t, i, j, n, x, h, m, p, d) ==
    [tenant |-> t, seqStart |-> i, seqEnd |-> j, entryCount |-> n, anchoredAt |-> x,
     headHash |-> h, merkleRoot |-> m, prev |-> p, id |-> d]

\* So the document gives back the checkpoint it was made from.
LEMMA CodecRoundTrip ==
    ASSUME NEW t, NEW i, NEW j, NEW n, NEW x,
           NEW h \in Seq(Bytes), NEW m \in Seq(Bytes), NEW p \in Seq(Bytes), NEW d \in Seq(Bytes)
    PROVE  Unmarshal(Marshal(CheckpointOf(t, i, j, n, x, h, m, p, d)))
              = CheckpointOf(t, i, j, n, x, h, m, p, d)
<1> DEFINE Doc(a, b, c, e) == CheckpointOf(t, i, j, n, x, a, b, c, e)
           cp == CheckpointOf(t, i, j, n, x, h, m, p, d)
<1> USE DEF CheckpointOf
<1>1. ASSUME NEW a, NEW b, NEW c, NEW e, NEW v
      PROVE  /\ [Doc(a, b, c, e) EXCEPT !.headHash = v] = Doc(v, b, c, e)
             /\ [Doc(a, b, c, e) EXCEPT !.merkleRoot = v] = Doc(a, v, c, e)
             /\ [Doc(a, b, c, e) EXCEPT !.prev = v] = Doc(a, b, v, e)
             /\ [Doc(a, b, c, e) EXCEPT !.id = v] = Doc(a, b, c, v)
  <2>1. [Doc(a, b, c, e) EXCEPT !.headHash = v] = Doc(v, b, c, e)
    BY SMTT(30)
  <2>2. [Doc(a, b, c, e) EXCEPT !.merkleRoot = v] = Doc(a, v, c, e)
    BY SMTT(30)
  <2>3. [Doc(a, b, c, e) EXCEPT !.prev = v] = Doc(a, b, v, e)
    BY SMTT(30)
  <2>4. [Doc(a, b, c, e) EXCEPT !.id = v] = Doc(a, b, c, v)
    BY SMTT(30)
  <2> HIDE DEF Doc
  <2> QED
    BY <2>1, <2>2, <2>3, <2>4
<1>2. ASSUME NEW a, NEW b, NEW c, NEW e
      PROVE  /\ Doc(a, b, c, e).headHash = a /\ Doc(a, b, c, e).merkleRoot = b
             /\ Doc(a, b, c, e).prev = c /\ Doc(a, b, c, e).id = e
  OBVIOUS
<1>3. cp = Doc(h, m, p, d)
  OBVIOUS
<1> HIDE DEF Doc, cp, CheckpointOf
<1>4. Marshal(cp) = Doc(HexEncode(h), HexEncode(m), HexEncode(p), HexEncode(d))
  <2>1. PICK r1 : r1 = [cp EXCEPT !.headHash = HexEncode(cp.headHash)]
    OBVIOUS
  <2>2. PICK r2 : r2 = [r1 EXCEPT !.merkleRoot = HexEncode(r1.merkleRoot)]
    OBVIOUS
  <2>3. PICK r3 : r3 = [r2 EXCEPT !.prev = HexEncode(r2.prev)]
    OBVIOUS
  <2>4. Marshal(cp) = [r3 EXCEPT !.id = HexEncode(r3.id)]
    BY <2>1, <2>2, <2>3 DEF Marshal
  <2>5. r1 = Doc(HexEncode(h), m, p, d)
    BY <1>1, <1>2, <1>3, <2>1
  <2>6. r2 = Doc(HexEncode(h), HexEncode(m), p, d)
    BY <1>1, <1>2, <2>2, <2>5
  <2>7. r3 = Doc(HexEncode(h), HexEncode(m), HexEncode(p), d)
    BY <1>1, <1>2, <2>3, <2>6
  <2> QED
    BY <1>1, <1>2, <2>4, <2>7
<1>5. ASSUME NEW a, NEW b, NEW c, NEW e
      PROVE  Unmarshal(Doc(a, b, c, e)) = Doc(Dec(a), Dec(b), Dec(c), Dec(e))
  <2>1. PICK r1 : r1 = [Doc(a, b, c, e) EXCEPT !.headHash = Dec(Doc(a, b, c, e).headHash)]
    OBVIOUS
  <2>2. PICK r2 : r2 = [r1 EXCEPT !.merkleRoot = Dec(r1.merkleRoot)]
    OBVIOUS
  <2>3. PICK r3 : r3 = [r2 EXCEPT !.prev = Dec(r2.prev)]
    OBVIOUS
  <2>4. Unmarshal(Doc(a, b, c, e)) = [r3 EXCEPT !.id = Dec(r3.id)]
    BY <2>1, <2>2, <2>3 DEF Unmarshal
  <2>5. r1 = Doc(Dec(a), b, c, e)
    BY <1>1, <1>2, <2>1
  <2>6. r2 = Doc(Dec(a), Dec(b), c, e)
    BY <1>1, <1>2, <2>2, <2>5
  <2>7. r3 = Doc(Dec(a), Dec(b), Dec(c), e)
    BY <1>1, <1>2, <2>3, <2>6
  <2> QED
    BY <1>1, <1>2, <2>4, <2>7
<1>6. /\ Dec(HexEncode(h)) = h /\ Dec(HexEncode(m)) = m
      /\ Dec(HexEncode(p)) = p /\ Dec(HexEncode(d)) = d
  BY HexRoundTrip
<1>7. Unmarshal(Marshal(cp)) = cp
  BY <1>3, <1>4, <1>5, <1>6
<1> QED
  BY <1>7 DEF cp

-----------------------------------------------------------------------------
(* Fields one after the other.                                             *)

\* A field: its length, then its bytes.
LEMMA FieldBytes ==
    ASSUME NEW b \in Seq(Nat)
    PROVE  /\ Len(b) \in Nat /\ Field(b) \in Seq(Nat) /\ Len(Field(b)) = Width + Len(b)
           /\ \A m \in 1 .. Width : Field(b)[m] = BigEndian(Len(b))[m]
           /\ \A m \in 1 .. Len(b) : Field(b)[Width + m] = b[m]
<1>1. Len(b) \in Nat /\ Width \in Nat
  BY LenProperties, EncodingConstants
<1>2. BigEndian(Len(b)) \in Seq(Nat) /\ Len(BigEndian(Len(b))) = Width
  BY <1>1, BigEndianBytes
<1>3. PICK n \in Nat : n = Len(b)
  BY <1>1
<1> DEFINE e == BigEndian(n)
<1> HIDE DEF e
<1>4. /\ e \o b \in Seq(Nat)
      /\ Len(e \o b) = Width + n
      /\ \A m \in 1 .. Width + n : (e \o b)[m] = IF m <= Width THEN e[m] ELSE b[m - Width]
  <2>1. e \in Seq(Nat) /\ Len(e) = Width
    BY <1>2, <1>3, Zenon DEF e
  <2>2. /\ e \o b \in Seq(Nat)
        /\ Len(e \o b) = Len(e) + Len(b)
        /\ \A m \in 1 .. Len(e) + Len(b) : (e \o b)[m] = IF m <= Len(e) THEN e[m] ELSE b[m - Len(e)]
    BY <2>1, ConcatProperties
  <2> QED
    BY <1>3, <2>1, <2>2, Zenon
<1>5. \A m \in 1 .. Width : m \in 1 .. Width + n /\ m <= Width
  BY <1>1
<1>6. \A m \in 1 .. n : Width + m \in 1 .. Width + n /\ ~(Width + m <= Width) /\ (Width + m) - Width = m
  BY <1>1
<1>7. \A m \in 1 .. Width : (e \o b)[m] = e[m]
  BY <1>4, <1>5, Zenon
<1>8. \A m \in 1 .. n : (e \o b)[Width + m] = b[m]
  BY <1>4, <1>6
<1>9. Field(b) = e \o b
  BY <1>3, Zenon DEF Field, e
<1> QED
  BY <1>1, <1>3, <1>4, <1>7, <1>8, <1>9, Zenon DEF e

\* Where the fields of an encoding end.
Layout(f, bytes, ends) ==
    /\ ends[0] = 0 /\ ends[Len(f)] = Len(bytes)
    /\ \A i \in 1 .. Len(f) :
          /\ ends[i - 1] \in Nat /\ ends[i] = ends[i - 1] + Width + Len(f[i]) /\ ends[i] <= Len(bytes)
          /\ SubSeq(bytes, ends[i - 1] + 1, ends[i - 1] + Width) = BigEndian(Len(f[i]))
          /\ SubSeq(bytes, ends[i - 1] + Width + 1, ends[i]) = f[i]

\* Raw lays the fields out one after the other.
LEMMA RawLayout ==
    ASSUME NEW f \in Seq(Seq(Nat))
    PROVE  Raw(f) \in Seq(Nat) /\ \E ends : Layout(f, Raw(f), ends)
<1> DEFINE n == Len(f)
           seqs == [i \in 1 .. n |-> Field(f[i])]
<1>1. n \in Nat /\ Width \in Nat /\ Width # 0
  BY EncodingConstants
<1>2. Raw(f) = FlattenSeq(seqs)
  BY DEF Raw
<1>3. \A i \in 1 .. n : f[i] \in Seq(Nat)
  OBVIOUS
<1> HIDE DEF n
<1>4. seqs \in Seq(Seq(Nat)) /\ Len(seqs) = n /\ \A i \in 1 .. n : seqs[i] = Field(f[i])
  <2> DEFINE field(i) == Field(f[i])
  <2>1. seqs = [i \in 1 .. n |-> field(i)]
    OBVIOUS
  <2> HIDE DEF field, seqs
  <2>2. Len(seqs) = n /\ \A i \in 1 .. n : seqs[i] = field(i)
    BY <1>1, <2>1
  <2>3. \A i \in 1 .. n : field(i) \in Seq(Nat)
    BY <1>3, FieldBytes, Zenon DEF field
  <2>4. seqs \in Seq(Seq(Nat))
    BY <1>1, <2>1, <2>3
  <2> QED
    BY <2>2, <2>4, Zenon DEF field
<1>5. CASE n = 0
  <2>1. seqs = <<>>
    <3> HIDE DEF seqs
    <3> QED
      BY <1>4, <1>5
  <2>2. FlattenSeq(seqs) = seqs
    BY <1>4, <1>5, Zenon DEF FlattenSeq
  <2>3. Raw(f) = <<>>
    BY <1>2, <2>1, <2>2, Zenon
  <2> DEFINE ends == [i \in 0 .. 0 |-> 0]
  <2>4. ends[0] = 0 /\ Len(<<>>) = 0 /\ <<>> \in Seq(Nat)
    OBVIOUS
  <2> HIDE DEF ends, seqs
  <2>5. 1 .. Len(f) = {} /\ Len(f) = 0
    BY <1>5 DEF n
  <2>6. Layout(f, Raw(f), ends)
    BY <2>3, <2>4, <2>5 DEF Layout
  <2> QED
    BY <2>3, <2>4, <2>6
<1>6. CASE n # 0
  <2> HIDE DEF seqs
  <2>1. PICK flat : Joined(flat, seqs, n) /\ FlattenSeq(seqs) = flat[n]
    BY <1>1, <1>4, <1>6, FlattenUnfolds
  <2>2. \A i \in 1 .. n : /\ seqs[i] \in Seq(Nat) /\ Len(seqs[i]) = Width + Len(f[i]) /\ Len(f[i]) \in Nat
                          /\ \A m \in 1 .. Width : seqs[i][m] = BigEndian(Len(f[i]))[m]
                          /\ \A m \in 1 .. Len(f[i]) : seqs[i][Width + m] = f[i][m]
    <3> SUFFICES ASSUME NEW i \in 1 .. n
                 PROVE  /\ seqs[i] \in Seq(Nat) /\ Len(seqs[i]) = Width + Len(f[i]) /\ Len(f[i]) \in Nat
                        /\ \A m \in 1 .. Width : seqs[i][m] = BigEndian(Len(f[i]))[m]
                        /\ \A m \in 1 .. Len(f[i]) : seqs[i][Width + m] = f[i][m]
      BY Zenon
    <3>1. PICK b \in Seq(Nat) : b = f[i] /\ seqs[i] = Field(b)
      BY <1>3, <1>4, Zenon
    <3>2. /\ Len(b) \in Nat /\ Field(b) \in Seq(Nat) /\ Len(Field(b)) = Width + Len(b)
          /\ \A m \in 1 .. Width : Field(b)[m] = BigEndian(Len(b))[m]
          /\ \A m \in 1 .. Len(b) : Field(b)[Width + m] = b[m]
      BY FieldBytes
    <3> QED
      BY <3>1, <3>2, Zenon
  <2>3. n \in 1 .. n
    BY <1>1, <1>6
  <2>4. /\ flat[n] \in Seq(Nat)
        /\ \A i \in 1 .. n :
                 /\ EndOf(flat, i - 1) \in Nat
                 /\ EndOf(flat, i) = EndOf(flat, i - 1) + Len(seqs[i])
                 /\ EndOf(flat, i) <= Len(flat[n])
                 /\ \A m \in 1 .. Len(seqs[i]) : flat[n][EndOf(flat, i - 1) + m] = seqs[i][m]
    <3>1. \A i \in 1 .. n : seqs[i] \in Seq(Nat)
      BY <2>2
    <3>2. Len(seqs) = n /\ Joined(flat, seqs, n)
      BY <1>4, <2>1, Zenon
    <3>3. InPlace(flat, seqs, n)
      BY <1>1, <2>3, <3>1, <3>2, FieldsInPlace, Zenon
    <3> QED
      BY <3>3, Zenon DEF InPlace
  <2>5. PICK bytes : bytes = Raw(f) /\ bytes = flat[n] /\ bytes \in Seq(Nat)
    BY <1>2, <2>1, <2>4, Zenon
  <2> DEFINE ends == [i \in 0 .. n |-> EndOf(flat, i)]
  <2>6. /\ ends[0] = EndOf(flat, 0) /\ ends[n] = EndOf(flat, n)
        /\ \A i \in 1 .. n : ends[i] = EndOf(flat, i) /\ ends[i - 1] = EndOf(flat, i - 1)
    BY <1>1
  <2> HIDE DEF ends
  <2>7. ends[0] = 0 /\ ends[n] = Len(bytes)
    BY <1>6, <2>5, <2>6 DEF EndOf
  <2>8. ASSUME NEW i \in 1 .. n
        PROVE  /\ ends[i - 1] \in Nat /\ ends[i] = ends[i - 1] + Width + Len(f[i]) /\ ends[i] <= Len(bytes)
               /\ SubSeq(bytes, ends[i - 1] + 1, ends[i - 1] + Width) = BigEndian(Len(f[i]))
               /\ SubSeq(bytes, ends[i - 1] + Width + 1, ends[i]) = f[i]
    <3>1. PICK p \in Nat, k \in Nat : p = ends[i - 1] /\ k = Len(f[i])
      BY <2>2, <2>4, <2>6
    <3>2. Len(seqs[i]) = Width + k
      BY <2>2, <3>1, Zenon
    <3>3. /\ ends[i] = p + (Width + k) /\ ends[i] <= Len(bytes)
          /\ \A m \in 1 .. Width + k : bytes[p + m] = seqs[i][m]
      BY <2>4, <2>5, <2>6, <3>1, <3>2, Zenon
    <3>4. PICK e, b : e = BigEndian(k) /\ b = f[i]
      OBVIOUS
    <3>5. e \in Seq(Nat) /\ Len(e) = Width /\ b \in Seq(Nat) /\ Len(b) = k
      BY <1>3, <3>1, <3>4, BigEndianBytes
    <3>6. /\ \A m \in 1 .. Width : seqs[i][m] = e[m]
          /\ \A m \in 1 .. k : seqs[i][Width + m] = b[m]
      BY <2>2, <3>1, <3>4, Zenon
    <3>7. Len(bytes) \in Nat
      BY <2>5, LenProperties
    <3>8. \A m \in 1 .. Width : m \in 1 .. Width + k
      BY <1>1
    <3>9. \A m \in 1 .. k : Width + m \in 1 .. Width + k /\ p + (Width + m) = (p + Width) + m
      BY <1>1
    <3>10. \A m \in 1 .. Width : bytes[p + m] = e[m]
      BY <3>3, <3>6, <3>8, Zenon
    <3>11. \A m \in 1 .. k : bytes[(p + Width) + m] = b[m]
      BY <3>3, <3>6, <3>9, Zenon
    <3>12. PICK w \in Nat, q \in Nat : w = p + Width /\ q = w + k /\ q = ends[i] /\ q <= Len(bytes) /\ w <= Len(bytes)
      BY <1>1, <3>3, <3>7
    <3>13. SubSeq(bytes, p + 1, w) = e
      BY <2>5, <3>5, <3>10, <3>12, Stretch
    <3>14. SubSeq(bytes, w + 1, q) = b
      BY <2>5, <3>5, <3>11, <3>12, Stretch
    <3>15. q = p + Width + k
      BY <3>12
    <3> QED
      BY <3>1, <3>4, <3>12, <3>13, <3>14, <3>15, Zenon
  <2>9. Layout(f, bytes, ends)
    BY <2>7, <2>8, Zenon DEF Layout, n
  <2> QED
    BY <2>5, <2>9, Zenon
<1> QED
  BY <1>5, <1>6

-----------------------------------------------------------------------------
(* Reading an encoding back.                                               *)

\* The lengths that the bytes at a place can stand for, and what FieldsOf reads
\* from there on.
LengthsAt(bytes, at) ==
    {n \in 0 .. Len(bytes) + 1 - at - Width : SubSeq(bytes, at, at + Width - 1) = BigEndian(n)}
NextAt(bytes, at) == at + Width + Min(LengthsAt(bytes, at))
ReadAt(From, bytes, at) ==
    IF LengthsAt(bytes, at) = {} THEN <<>>
    ELSE <<SubSeq(bytes, at + Width, NextAt(bytes, at) - 1)>> \o From[NextAt(bytes, at)]
Reading(From, bytes, first) == From = [at \in first .. Len(bytes) + 1 |-> ReadAt(From, bytes, at)]

\* A field that is read ends after the place where it begins, within the bytes.
LEMMA ReadingAdvances ==
    ASSUME NEW bytes, Len(bytes) \in Nat, NEW at \in Int, LengthsAt(bytes, at) # {}
    PROVE  /\ Min(LengthsAt(bytes, at)) \in LengthsAt(bytes, at)
           /\ \A n \in LengthsAt(bytes, at) : Min(LengthsAt(bytes, at)) <= n
           /\ NextAt(bytes, at) \in at + 1 .. Len(bytes) + 1
<1> DEFINE S == LengthsAt(bytes, at)
<1>1. Width \in Nat /\ Width # 0
  BY EncodingConstants
<1>2. S \subseteq Nat /\ \A n \in S : n <= Len(bytes) + 1 - at - Width
  BY <1>1 DEF LengthsAt
<1> HIDE DEF S
<1>3. PICK least : least = Min(S) /\ least \in S /\ \A n \in S : least <= n
  BY <1>2, MinIsLeast DEF S
<1>4. least \in Nat /\ least <= Len(bytes) + 1 - at - Width
  BY <1>2, <1>3
<1>5. NextAt(bytes, at) = at + Width + least
  BY <1>3, Zenon DEF NextAt, S
<1>6. at + Width + least \in at + 1 .. Len(bytes) + 1
  BY <1>1, <1>4
<1> QED
  BY <1>3, <1>5, <1>6, Zenon DEF S

\* The recursion in FieldsOf is well-founded.
LEMMA FieldsOfUnfolds ==
    ASSUME NEW bytes, Len(bytes) \in Nat
    PROVE  \E From : Reading(From, bytes, 1) /\ FieldsOf(bytes) = From[1]
<1> DEFINE L == Len(bytes) + 1
           T == {k \in Nat : \E From : Reading(From, bytes, L + 1 - k)}
<1>1. 0 \in T
  <2> DEFINE f == [at \in L + 1 - 0 .. L |-> <<>>]
  <2>1. f = [at \in L + 1 - 0 .. L |-> ReadAt(f, bytes, at)]
    <3>1. L + 1 - 0 .. L = {}
      OBVIOUS
    <3> QED
      BY <3>1
  <2> HIDE DEF f
  <2> QED
    BY <2>1 DEF Reading
<1>2. ASSUME NEW k \in Nat, k \in T PROVE k + 1 \in T
  <2> DEFINE p == L + 1 - k
             q == L + 1 - (k + 1)
  <2>0. p \in Int /\ q \in Int /\ p = q + 1 /\ L \in Nat
    OBVIOUS
  <2>1. PICK old : Reading(old, bytes, p)
    BY <1>2
  <2> HIDE DEF p, q, T
  <2> DEFINE f == [at \in q .. L |-> ReadAt(old, bytes, at)]
  <2>2. \A at \in p .. L : f[at] = old[at]
    <3>1. \A at \in p .. L : old[at] = ReadAt(old, bytes, at)
      BY <2>1 DEF Reading
    <3>2. \A at \in p .. L : at \in q .. L
      BY <2>0
    <3> QED
      BY <3>1, <3>2
  <2> HIDE DEF f
  <2>3. ASSUME NEW at \in q .. L PROVE ReadAt(f, bytes, at) = ReadAt(old, bytes, at)
    <3>1. CASE LengthsAt(bytes, at) = {}
      BY <3>1, Zenon DEF ReadAt
    <3>2. CASE LengthsAt(bytes, at) # {}
      <4>1. NextAt(bytes, at) \in at + 1 .. L
        BY <2>0, <3>2, ReadingAdvances
      <4>2. NextAt(bytes, at) \in p .. L
        BY <2>0, <4>1
      <4>3. f[NextAt(bytes, at)] = old[NextAt(bytes, at)]
        BY <2>2, <4>2
      <4> QED
        BY <3>2, <4>3, Zenon DEF ReadAt
    <3> QED
      BY <3>1, <3>2
  <2>4. f = [at \in q .. L |-> ReadAt(f, bytes, at)]
    BY <2>3 DEF f
  <2>5. Reading(f, bytes, q)
    BY <2>4 DEF Reading
  <2> QED
    BY <2>5 DEF T, q
<1>3. L \in T
  <2>1. L \in Nat
    OBVIOUS
  <2> HIDE DEF T, L
  <2> QED
    BY <1>1, <1>2, <2>1, InductionStep
<1>4. \E From : Reading(From, bytes, 1)
  <2>1. L + 1 - L = 1
    OBVIOUS
  <2> QED
    BY <1>3, <2>1
<1>5. \E From : From = [at \in 1 .. Len(bytes) + 1 |->
                    LET lengths == {n \in 0 .. Len(bytes) + 1 - at - Width :
                                       SubSeq(bytes, at, at + Width - 1) = BigEndian(n)}
                        start   == at + Width
                        next    == start + Min(lengths)
                    IN  IF lengths = {} THEN <<>>
                        ELSE <<SubSeq(bytes, start, next - 1)>> \o From[next]]
  BY <1>4, Zenon DEF Reading, ReadAt, NextAt, LengthsAt
<1> QED
  BY <1>5, Zenon DEF FieldsOf, Reading, ReadAt, NextAt, LengthsAt

\* A byte string is a sequence of numbers, with a length that a word can count.
LEMMA ByteStringType ==
    ASSUME NEW b \in ByteStrings
    PROVE  b \in Seq(Nat) /\ b \in Seq(Bytes) /\ Len(b) \in 0 .. MaxField
<1>1. Base \in Nat /\ MaxField \in Nat
  BY EncodingConstants, FormatsConstants
<1>2. PICK m \in 0 .. MaxField : b \in [1 .. m -> 0 .. Base - 1]
  BY <1>1 DEF ByteStrings, BoundedSeq, SeqOf
<1>3. \A i \in 1 .. m : b[i] \in Nat /\ b[i] \in Bytes
  BY <1>1, <1>2 DEF Bytes
<1>4. b = [i \in 1 .. m |-> b[i]] /\ m \in Nat
  BY <1>1, <1>2
<1>5. b \in Seq(Nat) /\ b \in Seq(Bytes) /\ Len(b) = m
  BY <1>1, <1>3, <1>4
<1> QED
  BY <1>5

\* The bytes before a field give its length, and no other that is smaller.
LEMMA LengthIsRead ==
    ASSUME NEW bytes, NEW at \in Nat, NEW n \in 0 .. MaxField, n \in LengthsAt(bytes, at)
    PROVE  Min(LengthsAt(bytes, at)) = n
<1> DEFINE S == LengthsAt(bytes, at)
<1>1. SubSeq(bytes, at, at + Width - 1) = BigEndian(n)
  BY DEF LengthsAt
<1>2. S \subseteq Nat
  BY DEF LengthsAt
<1>3. \A m \in S : SubSeq(bytes, at, at + Width - 1) = BigEndian(m)
  BY DEF LengthsAt
<1> HIDE DEF S
<1>4. PICK least \in S : least = Min(S) /\ \A m \in S : least <= m
  BY <1>2, MinIsLeast DEF S
<1>5. MaxField \in Nat /\ \A m \in 0 .. MaxField : IsWord(m)
  BY FormatsConstants
<1>6. least \in Nat /\ n \in Nat /\ least <= n
  BY <1>2, <1>4, <1>5 DEF S
<1>7. least \in 0 .. MaxField
  BY <1>5, <1>6
<1>8. IsWord(least) /\ IsWord(n)
  BY <1>5, <1>7
<1>9. BigEndian(least) = BigEndian(n)
  BY <1>1, <1>3, <1>4, Zenon
<1>10. least = n
  BY <1>6, <1>8, <1>9, BigEndianBinds
<1> QED
  BY <1>4, <1>10 DEF S

\* Encoder: no two field sequences have the same encoding, since the fields can
\* be read back from it.
LEMMA EncodingReadsBack ==
    ASSUME NEW f \in Seq(ByteStrings)
    PROVE  FieldsOf(Raw(f)) = f
<1>1. Width \in Nat /\ Width # 0 /\ MaxField \in Nat
  BY EncodingConstants, FormatsConstants
<1>2. PICK n \in Nat : n = Len(f)
  OBVIOUS
<1>3. \A i \in 1 .. n : f[i] \in ByteStrings
  BY <1>2
<1>4. f \in Seq(Seq(Nat))
  <2>1. \A i \in 1 .. n : f[i] \in Seq(Nat)
    BY <1>3, ByteStringType
  <2> QED
    BY <1>2, <2>1
<1>5. PICK bytes \in Seq(Nat) : bytes = Raw(f) /\ \E ends : Layout(f, bytes, ends)
  BY <1>4, RawLayout
<1>6. PICK ends : Layout(f, bytes, ends)
  BY <1>5
<1>7. PICK L \in Nat : L = Len(bytes)
  BY LenProperties
<1>8. PICK From : Reading(From, bytes, 1) /\ FieldsOf(bytes) = From[1]
  BY <1>7, FieldsOfUnfolds
<1>9. \A at \in 1 .. L + 1 : From[at] = ReadAt(From, bytes, at)
  BY <1>7, <1>8 DEF Reading
<1>10. From[L + 1] = <<>>
  <2>1. L + 1 \in 1 .. L + 1
    OBVIOUS
  <2>2. LengthsAt(bytes, L + 1) = {}
    <3>1. 0 .. Len(bytes) + 1 - (L + 1) - Width = {}
      BY <1>1, <1>7
    <3> QED
      BY <3>1 DEF LengthsAt
  <2> QED
    BY <1>9, <2>1, <2>2 DEF ReadAt
<1>11. ASSUME NEW i \in 1 .. n
       PROVE  From[ends[i - 1] + 1] = <<f[i]>> \o From[ends[i] + 1]
  <2>1. Len(f[i]) \in 0 .. MaxField
    BY <1>3, ByteStringType
  <2>2. PICK p \in Nat, k \in 0 .. MaxField, e \in Nat :
           /\ p = ends[i - 1] /\ k = Len(f[i]) /\ e = ends[i] /\ e = p + Width + k /\ e <= L
           /\ SubSeq(bytes, p + 1, p + Width) = BigEndian(k)
           /\ SubSeq(bytes, p + Width + 1, e) = f[i]
    <3>1. /\ ends[i - 1] \in Nat /\ ends[i] = ends[i - 1] + Width + Len(f[i]) /\ ends[i] <= L
          /\ SubSeq(bytes, ends[i - 1] + 1, ends[i - 1] + Width) = BigEndian(Len(f[i]))
          /\ SubSeq(bytes, ends[i - 1] + Width + 1, ends[i]) = f[i]
      BY <1>2, <1>6, <1>7, Zenon DEF Layout
    <3>2. PICK p \in Nat, k \in 0 .. MaxField : p = ends[i - 1] /\ k = Len(f[i])
      BY <2>1, <3>1, Zenon
    <3>3. ends[i] = p + Width + k
      BY <3>1, <3>2, Zenon
    <3>4. p + Width + k \in Nat
      BY <1>1
    <3> QED
      BY <3>1, <3>2, <3>3, <3>4, Zenon
  <2> DEFINE at == p + 1
  <2>a. e = p + Width + k /\ e <= L
    BY <2>2
  <2>b. at \in Nat /\ at \in 1 .. L + 1 /\ at + Width - 1 = p + Width /\ k \in 0 .. L + 1 - at - Width
    BY <1>1, <2>a
  <2>3. /\ at \in Nat /\ at \in 1 .. L + 1 /\ at + Width - 1 = p + Width
        /\ k \in 0 .. Len(bytes) + 1 - at - Width
    BY <1>7, <2>b, Zenon
  <2> HIDE DEF at
  <2>4. k \in LengthsAt(bytes, at)
    <3>1. SubSeq(bytes, at, at + Width - 1) = BigEndian(k)
      BY <2>2, <2>3, Zenon DEF at
    <3> QED
      BY <2>3, <3>1, Zenon DEF LengthsAt
  <2>5. Min(LengthsAt(bytes, at)) = k
    BY <2>3, <2>4, LengthIsRead
  <2>6. at + Width + k = e + 1 /\ (e + 1) - 1 = e /\ at + Width = p + Width + 1
    BY <1>1, <2>a DEF at
  <2>7. NextAt(bytes, at) = e + 1
    BY <2>5, <2>6, Zenon DEF NextAt
  <2>8. LengthsAt(bytes, at) # {}
    BY <2>4
  <2>9. From[at] = <<SubSeq(bytes, at + Width, NextAt(bytes, at) - 1)>> \o From[NextAt(bytes, at)]
    BY <1>9, <2>3, <2>8, Zenon DEF ReadAt
  <2> QED
    BY <2>2, <2>6, <2>7, <2>9, Zenon DEF at
<1>12. ends[0] = 0 /\ ends[n] = L
  BY <1>2, <1>6, <1>7 DEF Layout
<1> DEFINE T == {k \in Nat : k <= n => From[ends[n - k] + 1] = SubSeq(f, n - k + 1, n)}
<1>13. 0 \in T
  <2>1. SubSeq(f, n - 0 + 1, n) = <<>>
    <3>1. n - 0 + 1 \in Int /\ n \in Int /\ n < n - 0 + 1
      OBVIOUS
    <3> QED
      BY <3>1, SubSeqEmpty
  <2>2. n - 0 = n
    OBVIOUS
  <2>3. From[ends[n - 0] + 1] = <<>>
    BY <1>10, <1>12, <2>2
  <2> QED
    BY <2>1, <2>3
<1>14. ASSUME NEW k \in Nat, k \in T PROVE k + 1 \in T
  <2> SUFFICES ASSUME k + 1 <= n
               PROVE  From[ends[n - (k + 1)] + 1] = SubSeq(f, n - (k + 1) + 1, n)
    OBVIOUS
  <2> DEFINE i == n - k
  <2>1. /\ i \in 1 .. n /\ i - 1 = n - (k + 1) /\ n - (k + 1) + 1 = i /\ k <= n /\ n \in i .. n
        /\ n - k + 1 = i + 1
    OBVIOUS
  <2>2. From[ends[i] + 1] = SubSeq(f, n - k + 1, n)
    BY <1>14, <2>1
  <2> HIDE DEF i, T
  <2>3. SubSeq(f, i, n) = <<f[i]>> \o SubSeq(f, i + 1, n)
    BY <1>2, <2>1, SubSeqRecursiveFirst
  <2> QED
    BY <1>11, <2>1, <2>2, <2>3, Zenon
<1>15. n \in T
  <2> HIDE DEF T
  <2> QED
    BY <1>13, <1>14, InductionStep
<1>16. n <= n /\ n - n = 0 /\ 0 + 1 = 1
  OBVIOUS
<1>17. From[ends[n - n] + 1] = SubSeq(f, n - n + 1, n)
  BY <1>15, <1>16
<1>18. From[1] = SubSeq(f, 1, n)
  BY <1>12, <1>16, <1>17, Zenon
<1>19. SubSeq(f, 1, n) = f
  BY <1>2, SubSeqFull
<1> QED
  BY <1>5, <1>8, <1>18, <1>19

-----------------------------------------------------------------------------
(* The formats' promises, of whatever has been built up.                   *)

\* A body as it is sent: lines, one after the other, all of them whole.
IsBody(body) ==
    /\ Len(body) \in Nat
    /\ \A i \in 1 .. Len(body) :
          /\ body[i] = [line |-> i, len |-> body[i].len, ink |-> body[i].ink,
                        object |-> body[i].object, whole |-> TRUE]
          /\ body[i].len \in Nat /\ body[i].ink \subseteq 1 .. body[i].len

Lines == [line : Nat, len : Nat, ink : SUBSET Nat, object : Nat, whole : {TRUE}]

\* The invariant: lists of hashes, and a list of byte strings.
FormatsInv ==
    /\ left \in Seq(EntryHashes) /\ right \in Seq(EntryHashes) /\ fields \in Seq(ByteStrings)
    /\ lines \in Seq(Lines) /\ IsBody(lines)

\* Every step adds one piece of the right kind.
LEMMA FormatsInvariant == FormatsSpec => []FormatsInv
<1>1. FormatsInit => FormatsInv
  BY EmptySeq DEF FormatsInit, FormatsInv, IsBody
<1>2. FormatsInv /\ [FormatsNext]_formats => FormatsInv'
  <2> SUFFICES ASSUME FormatsInv, [FormatsNext]_formats PROVE FormatsInv'
    OBVIOUS
  <2> USE DEF FormatsInv
  <2>1. CASE GrowLeft
    <3>1. PICK h \in EntryHashes : left' = Append(left, h)
      BY <2>1 DEF GrowLeft
    <3> QED
      BY <2>1, <3>1, AppendProperties DEF GrowLeft
  <2>2. CASE GrowRight
    <3>1. PICK h \in EntryHashes : right' = Append(right, h)
      BY <2>2 DEF GrowRight
    <3> QED
      BY <2>2, <3>1, AppendProperties DEF GrowRight
  <2>3. CASE AddField
    <3>1. PICK b \in ByteStrings : fields' = Append(fields, b)
      BY <2>3 DEF AddField
    <3> QED
      BY <2>3, <3>1, AppendProperties DEF AddField
  <2>4. CASE AddLine
    <3>1. PICK len \in Nat, ink \in SUBSET Nat, object \in Nat :
             /\ ink \subseteq 1 .. len
             /\ lines' = Append(lines, [line |-> Len(lines) + 1, len |-> len, ink |-> ink,
                                        object |-> object, whole |-> TRUE])
      <4>1. PICK len \in 0 .. MaxLine : \E ink \in SUBSET (1 .. len) :
                \E object \in {0} \cup {p \in ink : \E q \in ink : q < p} :
                   lines' = Append(lines, [line |-> Len(lines) + 1, len |-> len, ink |-> ink,
                                           object |-> object, whole |-> TRUE])
        BY <2>4 DEF AddLine
      <4>2. PICK ink \in SUBSET (1 .. len) :
                \E object \in {0} \cup {p \in ink : \E q \in ink : q < p} :
                   lines' = Append(lines, [line |-> Len(lines) + 1, len |-> len, ink |-> ink,
                                           object |-> object, whole |-> TRUE])
        BY <4>1
      <4>3. PICK object \in {0} \cup {p \in ink : \E q \in ink : q < p} :
                   lines' = Append(lines, [line |-> Len(lines) + 1, len |-> len, ink |-> ink,
                                           object |-> object, whole |-> TRUE])
        BY <4>2
      <4>4. len \in Nat /\ ink \subseteq 1 .. len /\ ink \in SUBSET Nat /\ object \in Nat
        OBVIOUS
      <4> QED
        BY <4>3, <4>4
    <3> DEFINE n == Len(lines)
               l == [line |-> n + 1, len |-> len, ink |-> ink, object |-> object, whole |-> TRUE]
    <3>2. n \in Nat /\ l \in Lines
      BY DEF Lines
    <3>3. /\ lines' \in Seq(Lines) /\ Len(lines') = n + 1 /\ lines'[n + 1] = l
          /\ \A i \in 1 .. n : lines'[i] = lines[i]
      <4> HIDE DEF l
      <4> QED
        BY <3>1, <3>2, AppendProperties DEF l
    <3>4. IsBody(lines')
      <4>1. \A i \in 1 .. n + 1 : i \in 1 .. n \/ i = n + 1
        BY <3>2
      <4>2. /\ l = [line |-> n + 1, len |-> l.len, ink |-> l.ink, object |-> l.object, whole |-> TRUE]
            /\ l.len \in Nat /\ l.ink \subseteq 1 .. l.len
        BY <3>1
      <4> HIDE DEF l
      <4>3. \A i \in 1 .. n :
               /\ lines[i] = [line |-> i, len |-> lines[i].len, ink |-> lines[i].ink,
                              object |-> lines[i].object, whole |-> TRUE]
               /\ lines[i].len \in Nat /\ lines[i].ink \subseteq 1 .. lines[i].len
        BY DEF IsBody
      <4> HIDE DEF n
      <4>4. ASSUME NEW i \in 1 .. n + 1
            PROVE  /\ lines'[i] = [line |-> i, len |-> lines'[i].len, ink |-> lines'[i].ink,
                                   object |-> lines'[i].object, whole |-> TRUE]
                   /\ lines'[i].len \in Nat /\ lines'[i].ink \subseteq 1 .. lines'[i].len
        <5>1. CASE i \in 1 .. n
          <6>1. lines'[i] = lines[i]
            BY <3>3, <5>1
          <6> QED
            BY <4>3, <5>1, <6>1, Zenon
        <5>2. CASE i = n + 1
          <6>1. lines'[i] = l
            BY <3>3, <5>2
          <6> QED
            BY <4>2, <5>2, <6>1, Zenon
        <5> QED
          BY <4>1, <5>1, <5>2
      <4> QED
        BY <3>2, <3>3, <4>4 DEF IsBody
    <3> QED
      BY <2>4, <3>3, <3>4 DEF AddLine
  <2>5. CASE UNCHANGED formats
    BY <2>5 DEF formats
  <2> QED
    BY <2>1, <2>2, <2>3, <2>4, <2>5 DEF FormatsNext
<1> QED
  BY <1>1, <1>2, PTL DEF FormatsSpec

\* Two windows of equal length with equal roots are equal, whatever their
\* length: CheckpointID may hash the root in place of the entry hashes.
THEOREM RootCommits == FormatsSpec => []RootBinds
<1>1. ASSUME NEW s, s \in Seq(EntryHashes) PROVE IsList(s)
  BY <1>1 DEF IsList
<1>2. FormatsInv => RootBinds
  BY <1>1, MerkleRootBinds DEF FormatsInv, RootBinds
<1> QED
  BY <1>2, FormatsInvariant, PTL

\* The Encoder's comment holds: no two sequences of fields have one encoding,
\* as long as a word can count the bytes of a field.
THEOREM EncodingIsInjective == FormatsSpec => []EncodingBinds
<1>1. FormatsInv => EncodingBinds
  BY EncodingReadsBack DEF FormatsInv, EncodingBinds
<1> QED
  BY <1>1, FormatsInvariant, PTL

\* A checkpoint that was written to WORM or Postgres and read back hashes to
\* the id it was stored with: Unmarshal undoes Marshal.
THEOREM CodecKeepsTheId == FormatsSpec => []IdSurvivesCodec
<1>1. ASSUME FormatsInv PROVE IdSurvivesCodec
  <2>1. \A b \in {1, 2, 3} : Pad(b) \in Seq(Bytes)
    <3>1. <<>> \in Seq(Bytes)
      BY EmptySeq
    <3>2. \A b \in {1, 2, 3} : Len(fields) >= b => fields[b] \in ByteStrings
      BY <1>1 DEF FormatsInv
    <3> QED
      BY <3>1, <3>2, ByteStringType DEF Pad
  <2>2. PICK h \in Seq(Bytes), m \in Seq(Bytes), p \in Seq(Bytes) : h = Pad(1) /\ m = Pad(2) /\ p = Pad(3)
    BY <2>1
  <2>3. PICK cp : cp = CheckpointOf(<<1>>, 0, 2, 3, 5, h, m, p, h)
    OBVIOUS
  <2>3a. \A t, i, j, n, x : Unmarshal(Marshal(CheckpointOf(t, i, j, n, x, h, m, p, h)))
                             = CheckpointOf(t, i, j, n, x, h, m, p, h)
    BY CodecRoundTrip
  <2>4. Unmarshal(Marshal(cp)) = cp
    BY <2>3, <2>3a, Zenon
  <2>5. LET back == Unmarshal(Marshal(cp))
        IN  CheckpointBytes(<<2>>, 1, back) = CheckpointBytes(<<2>>, 1, cp) /\ back.id = cp.id
    BY <2>4, Zenon
  <2> QED
    BY <2>2, <2>3, <2>5, Zenon DEF IdSurvivesCodec, CheckpointOf
<1> QED
  BY <1>1, FormatsInvariant, PTL

-----------------------------------------------------------------------------
(* The Merkle root is the reference tree's.                                *)

\* Doubling.
LEMMA Doubling ==
    ASSUME NEW n \in Nat
    PROVE  LET P == PowersOfTwo(n)
           IN  /\ P[0] = 1
               /\ \A k \in 0 .. n : P[k] \in Nat /\ P[k] > k
               /\ \A k \in 0 .. n - 1 : P[k + 1] = 2 * P[k]
<1> DEFINE Step(old, k) == IF k = 0 THEN 1 ELSE 2 * old[k - 1]
           T == {m \in Nat : \E S : S = [k \in 0 .. m |-> Step(S, k)]}
<1>1. 0 \in T
  <2> DEFINE f == [k \in 0 .. 0 |-> 1]
  <2>1. f = [k \in 0 .. 0 |-> Step(f, k)]
    OBVIOUS
  <2> HIDE DEF f, Step
  <2> QED
    BY <2>1
<1>2. ASSUME NEW m \in Nat, m \in T PROVE m + 1 \in T
  <2>1. PICK old : old = [k \in 0 .. m |-> Step(old, k)]
    BY <1>2
  <2> DEFINE f == [k \in 0 .. m + 1 |-> Step(old, k)]
  <2>2. \A k \in 0 .. m : f[k] = old[k]
    <3> HIDE DEF Step
    <3> QED
      BY <2>1
  <2>3. \A k \in 0 .. m + 1 : Step(f, k) = Step(old, k)
    <3>1. \A k \in 0 .. m + 1 : k # 0 => k - 1 \in 0 .. m
      OBVIOUS
    <3> HIDE DEF f
    <3> QED
      BY <2>2, <3>1
  <2> HIDE DEF Step
  <2>4. f = [k \in 0 .. m + 1 |-> Step(f, k)]
    BY <2>3
  <2> HIDE DEF f
  <2> QED
    BY <2>4
<1>3. n \in T
  <2> HIDE DEF T
  <2> QED
    BY <1>1, <1>2, InductionStep
<1> DEFINE P == PowersOfTwo(n)
<1>4. P = [k \in 0 .. n |-> IF k = 0 THEN 1 ELSE 2 * P[k - 1]]
  BY <1>3, Zenon DEF PowersOfTwo
<1> HIDE DEF P
<1>5. P[0] = 1
  BY <1>4
<1>6. \A k \in 0 .. n - 1 : P[k + 1] = 2 * P[k]
  <2> SUFFICES ASSUME NEW k \in 0 .. n - 1 PROVE P[k + 1] = 2 * P[k]
    OBVIOUS
  <2>1. k + 1 \in 0 .. n /\ k + 1 # 0 /\ (k + 1) - 1 = k
    OBVIOUS
  <2> QED
    BY <1>4, <2>1
<1> DEFINE U == {k \in Nat : k <= n => P[k] \in Nat /\ P[k] > k}
<1>7. 0 \in U
  BY <1>5
<1>8. ASSUME NEW k \in Nat, k \in U PROVE k + 1 \in U
  <2> SUFFICES ASSUME k + 1 <= n PROVE P[k + 1] \in Nat /\ P[k + 1] > k + 1
    OBVIOUS
  <2>1. k \in 0 .. n - 1 /\ P[k] \in Nat /\ P[k] > k
    BY <1>8
  <2>2. P[k + 1] = 2 * P[k]
    BY <1>6, <2>1
  <2> QED
    BY <2>1, <2>2
<1>9. \A k \in Nat : k \in U
  <2> HIDE DEF U
  <2> QED
    BY <1>7, <1>8, InductionStep
<1> QED
  BY <1>5, <1>6, <1>9 DEF P

\* What Reference makes of the trees that are one less deep.
TreeFrom(half, hashes, n, d, from) ==
    IF d = 0 THEN <<"leaf", hashes[from]>>
    ELSE LET middle == from + PowersOfTwo(n)[d - 1]
         IN  <<"node", half[from], half[IF middle <= n THEN middle ELSE from]>>
TreesOf(trees, hashes, n, d) == [from \in 1 .. n |-> TreeFrom(trees[d - 1], hashes, n, d, from)]
Trees(trees, hashes, n, m) == trees = [d \in 0 .. m |-> TreesOf(trees, hashes, n, d)]

\* The depth of a tree for n leaves.
LeastDepth(n, d) ==
    /\ d \in 0 .. n /\ PowersOfTwo(n)[d] >= n
    /\ \A c \in 0 .. d - 1 : PowersOfTwo(n)[c] < n

\* The recursion in Reference is well-founded.
LEMMA ReferenceUnfolds ==
    ASSUME NEW hashes, Len(hashes) \in Nat, Len(hashes) # 0
    PROVE  \E trees : /\ Trees(trees, hashes, Len(hashes), Len(hashes))
                      /\ Reference(hashes)
                            = trees[CHOOSE d \in 0 .. Len(hashes) : LeastDepth(Len(hashes), d)][1]
<1> DEFINE n == Len(hashes)
           T == {m \in Nat : \E trees : Trees(trees, hashes, n, m)}
<1>1. 0 \in T
  <2> DEFINE f == [d \in 0 .. 0 |-> [from \in 1 .. n |-> <<"leaf", hashes[from]>>]]
  <2>1. \A d \in 0 .. 0 : TreesOf(f, hashes, n, d) = [from \in 1 .. n |-> <<"leaf", hashes[from]>>]
    <3> HIDE DEF f
    <3> QED
      BY DEF TreesOf, TreeFrom
  <2>2. f = [d \in 0 .. 0 |-> TreesOf(f, hashes, n, d)]
    BY <2>1
  <2> HIDE DEF f
  <2> QED
    BY <2>2 DEF Trees
<1>2. ASSUME NEW m \in Nat, m \in T PROVE m + 1 \in T
  <2>1. PICK old : Trees(old, hashes, n, m)
    BY <1>2
  <2> DEFINE f == [d \in 0 .. m + 1 |-> TreesOf(old, hashes, n, d)]
  <2>2. \A d \in 0 .. m : f[d] = old[d]
    BY <2>1 DEF Trees
  <2>3. \A d \in 0 .. m + 1 : TreesOf(f, hashes, n, d) = TreesOf(old, hashes, n, d)
    <3>1. \A d \in 0 .. m + 1 : d # 0 => d - 1 \in 0 .. m
      OBVIOUS
    <3>2. \A d \in 0 .. m + 1 : d # 0 => f[d - 1] = old[d - 1]
      BY <2>2, <3>1
    <3> HIDE DEF f
    <3> QED
      BY <3>2, Zenon DEF TreesOf, TreeFrom
  <2>4. f = [d \in 0 .. m + 1 |-> TreesOf(f, hashes, n, d)]
    BY <2>3
  <2> HIDE DEF f
  <2> QED
    BY <2>4 DEF Trees
<1>3. \E trees : Trees(trees, hashes, n, n)
  <2> HIDE DEF T
  <2>1. n \in T
    BY <1>1, <1>2, InductionStep
  <2> QED
    BY <2>1 DEF T
<1>4. \E trees : trees = [d \in 0 .. Len(hashes) |->
                    [from \in 1 .. Len(hashes) |->
                        IF d = 0 THEN <<"leaf", hashes[from]>>
                        ELSE LET middle == from + PowersOfTwo(Len(hashes))[d - 1]
                                 half   == trees[d - 1]
                             IN  <<"node", half[from],
                                   half[IF middle <= Len(hashes) THEN middle ELSE from]>>]]
  BY <1>3, Zenon DEF Trees, TreesOf, TreeFrom
<1> QED
  BY <1>4, Zenon DEF Reference, Trees, TreesOf, TreeFrom, LeastDepth

\* Products keep the order.
LEMMA ProductOrder ==
    ASSUME NEW a \in Int, NEW b \in Int, NEW p \in Nat, a <= b
    PROVE  a * p <= b * p
OBVIOUS

\* The nodes of a level stand for 2 ^ k hashes each, but for the last one.
LEMMA LevelCovers ==
    ASSUME NEW hashes, NEW n \in Nat, n # 0, n = Len(hashes), NEW levels, Levels(levels, hashes, n)
    PROVE  \A k \in 0 .. n :
              LET len == Len(levels[k])
                  p   == PowersOfTwo(n)[k]
              IN  len \in Nat /\ len # 0 /\ (len - 1) * p < n /\ n <= len * p
<1> DEFINE P == PowersOfTwo(n)
           Covers(k) == /\ Len(levels[k]) \in Nat /\ Len(levels[k]) # 0
                        /\ (Len(levels[k]) - 1) * P[k] < n /\ n <= Len(levels[k]) * P[k]
           T == {k \in Nat : k <= n => Covers(k)}
<1>1. /\ P[0] = 1
      /\ \A k \in 0 .. n : P[k] \in Nat
      /\ \A k \in 0 .. n - 1 : P[k + 1] = 2 * P[k]
  BY Doubling
<1>2. /\ \A k \in 0 .. n : IsList(levels[k]) /\ Len(levels[k]) # 0
      /\ Len(levels[0]) = n
      /\ \A k \in 0 .. n - 1 : levels[k + 1] = NextLevel(levels[k])
  BY LevelSizes
<1> HIDE DEF P
<1>3. 0 \in T
  BY <1>1, <1>2
<1>4. ASSUME NEW k \in Nat, k \in T PROVE k + 1 \in T
  <2> SUFFICES ASSUME k + 1 <= n PROVE Covers(k + 1)
    <3> HIDE DEF Covers
    <3> QED
      OBVIOUS
  <2>1. k \in 0 .. n - 1 /\ k \in 0 .. n /\ k <= n
    OBVIOUS
  <2>2. PICK m \in Nat, p \in Nat : /\ m = Len(levels[k]) /\ m # 0 /\ p = P[k]
                                    /\ (m - 1) * p < n /\ n <= m * p
    BY <1>1, <1>4, <2>1
  <2>3. PICK h : /\ h = Len(levels[k + 1]) /\ h = (m + 1) \div 2 /\ h # 0
    <3>1. Len(NextLevel(levels[k])) = (m + 1) \div 2 /\ Len(NextLevel(levels[k])) # 0
      BY <2>2, NextLevelHalves
    <3>2. levels[k + 1] = NextLevel(levels[k])
      BY <1>2, <2>1
    <3> QED
      BY <3>1, <3>2
  <2>4. h \in Nat /\ h # 0 /\ m <= 2 * h /\ 2 * h - 2 <= m - 1
    BY <2>3
  <2>5. P[k + 1] = 2 * p
    BY <1>1, <2>1, <2>2
  <2>6. m * p <= (2 * h) * p /\ (2 * h - 2) * p <= (m - 1) * p
    BY <2>4, ProductOrder
  <2>7. (2 * h) * p = h * (2 * p) /\ (2 * h - 2) * p = (h - 1) * (2 * p)
    BY <2>4
  <2>8. (h - 1) * (2 * p) < n /\ n <= h * (2 * p)
    <3> DEFINE a == (2 * h) * p
               b == (2 * h - 2) * p
               c == m * p
               d == (m - 1) * p
    <3>1. a \in Int /\ b \in Int /\ c \in Int /\ d \in Int
      BY <2>4
    <3>2. c <= a /\ b <= d /\ d < n /\ n <= c
      BY <2>2, <2>6
    <3> HIDE DEF a, b, c, d
    <3>3. b < n /\ n <= a
      BY <3>1, <3>2
    <3> QED
      BY <2>7, <3>3, Zenon DEF a, b
  <2> QED
    BY <2>3, <2>4, <2>5, <2>8, Zenon
<1>5. \A k \in Nat : k \in T
  <2> HIDE DEF T
  <2> QED
    BY <1>3, <1>4, InductionStep
<1>6. \A k \in 0 .. n : Covers(k)
  <2> HIDE DEF Covers
  <2> QED
    BY <1>5
<1> QED
  BY <1>6 DEF P

\* A node of a level is the tree over the hashes that it stands for.
LEMMA LevelsAreTrees ==
    ASSUME NEW hashes, NEW n \in Nat, n # 0, n = Len(hashes),
           NEW levels, Levels(levels, hashes, n), NEW trees, Trees(trees, hashes, n, n)
    PROVE  \A k \in 0 .. n : \A i \in 1 .. Len(levels[k]) :
              levels[k][i] = trees[k][(i - 1) * PowersOfTwo(n)[k] + 1]
<1> DEFINE P == PowersOfTwo(n)
           Same(k) == \A i \in 1 .. Len(levels[k]) : levels[k][i] = trees[k][(i - 1) * P[k] + 1]
           T == {k \in Nat : k <= n => Same(k)}
<1>1. /\ P[0] = 1
      /\ \A k \in 0 .. n : P[k] \in Nat
      /\ \A k \in 0 .. n - 1 : P[k + 1] = 2 * P[k]
  BY Doubling
<1>2. \A k \in 0 .. n : /\ Len(levels[k]) \in Nat /\ Len(levels[k]) # 0
                        /\ (Len(levels[k]) - 1) * P[k] < n /\ n <= Len(levels[k]) * P[k]
  BY LevelCovers
<1>3. /\ levels[0] = Leaves(hashes) /\ Len(levels[0]) = n
      /\ \A k \in 0 .. n - 1 : levels[k + 1] = NextLevel(levels[k])
  <2>1. Len(levels[0]) = n /\ \A k \in 0 .. n - 1 : levels[k + 1] = NextLevel(levels[k])
    BY LevelSizes
  <2>2. levels[0] = Leaves(hashes)
    BY DEF Levels, LevelOf
  <2> QED
    BY <2>1, <2>2
<1>4. \A d \in 0 .. n : \A from \in 1 .. n : trees[d][from] = TreeFrom(trees[d - 1], hashes, n, d, from)
  <2>1. \A d \in 0 .. n : trees[d] = TreesOf(trees, hashes, n, d)
    BY DEF Trees
  <2>2. ASSUME NEW d \in 0 .. n, NEW from \in 1 .. n
        PROVE  trees[d][from] = TreeFrom(trees[d - 1], hashes, n, d, from)
    <3>1. trees[d] = [x \in 1 .. n |-> TreeFrom(trees[d - 1], hashes, n, d, x)]
      BY <2>1, Zenon DEF TreesOf
    <3> QED
      BY <3>1, Zenon
  <2> QED
    BY <2>2
<1>5. 0 \in T
  <2>1. ASSUME NEW i \in 1 .. n PROVE levels[0][i] = trees[0][(i - 1) * P[0] + 1]
    <3>1. (i - 1) * P[0] + 1 = i
      <4> HIDE DEF P
      <4> QED
        BY <1>1
    <3>2. levels[0][i] = <<"leaf", hashes[i]>>
      <4>1. levels[0] = [j \in 1 .. n |-> <<"leaf", hashes[j]>>]
        BY <1>3 DEF Leaves
      <4> QED
        BY <4>1, Zenon
    <3>3. trees[0][i] = <<"leaf", hashes[i]>>
      <4>1. 0 \in 0 .. n
        OBVIOUS
      <4>2. trees[0][i] = TreeFrom(trees[0 - 1], hashes, n, 0, i)
        BY <1>4, <4>1, Zenon
      <4> QED
        BY <4>2, Zenon DEF TreeFrom
    <3> QED
      BY <3>1, <3>2, <3>3, Zenon
  <2> HIDE DEF P
  <2> QED
    BY <1>3, <2>1
<1> HIDE DEF P
<1>6. ASSUME NEW k \in Nat, k \in T PROVE k + 1 \in T
  <2> SUFFICES ASSUME k + 1 <= n, NEW i \in 1 .. Len(levels[k + 1])
               PROVE  levels[k + 1][i] = trees[k + 1][(i - 1) * P[k + 1] + 1]
    OBVIOUS
  <2>1. k \in 0 .. n - 1 /\ k \in 0 .. n /\ k + 1 \in 0 .. n /\ k + 1 # 0 /\ (k + 1) - 1 = k
    OBVIOUS
  <2>2. PICK m \in Nat, p \in Nat : m = Len(levels[k]) /\ m # 0 /\ p = P[k]
                                    /\ (m - 1) * p < n /\ n <= m * p
    BY <1>1, <1>2, <2>1
  <2>3. \A j \in 1 .. m : levels[k][j] = trees[k][(j - 1) * p + 1]
    BY <1>6, <2>1, <2>2
  <2>4. PICK h \in Nat : h = Len(levels[k + 1]) /\ h = (m + 1) \div 2
    <3>1. Len(NextLevel(levels[k])) = (m + 1) \div 2
      BY <2>2, NextLevelHalves
    <3>2. levels[k + 1] = NextLevel(levels[k])
      BY <1>3, <2>1
    <3>3. (m + 1) \div 2 \in Nat
      BY <2>2, HalfUp
    <3> QED
      BY <3>1, <3>2, <3>3
  <2>5. i \in Nat /\ i >= 1 /\ 2 * i - 1 \in 1 .. m /\ (2 * i <= m => 2 * i \in 1 .. m)
    BY <2>4
  <2>6. PICK q \in Nat, r \in Nat :
           /\ q = (2 * i - 2) * p /\ r = (2 * i - 1) * p /\ r = q + p
           /\ (i - 1) * P[k + 1] = q
    <3>1. P[k + 1] = 2 * p
      BY <1>1, <2>1, <2>2
    <3>2. /\ (2 * i - 2) * p \in Nat /\ (2 * i - 1) * p \in Nat
          /\ (2 * i - 1) * p = (2 * i - 2) * p + p
          /\ (i - 1) * (2 * p) = (2 * i - 2) * p
      <4>1. PICK a \in Nat : a = i - 1
        BY <2>5
      <4>2. 2 * i - 2 = 2 * a /\ 2 * i - 1 = 2 * a + 1
        BY <2>5, <4>1
      <4>3. (2 * a) * p \in Nat /\ (2 * a + 1) * p = (2 * a) * p + p /\ a * (2 * p) = (2 * a) * p
        OBVIOUS
      <4> QED
        BY <4>1, <4>2, <4>3
    <3> QED
      BY <3>1, <3>2
  <2>7. q < n
    <3>1. 2 * i - 2 \in Int /\ m - 1 \in Int /\ 2 * i - 2 <= m - 1
      BY <2>5
    <3>2. q <= (m - 1) * p
      BY <2>6, <3>1, ProductOrder
    <3> DEFINE c == (m - 1) * p
    <3>3. c \in Int /\ q <= c /\ c < n
      BY <2>2, <3>2
    <3> HIDE DEF c
    <3> QED
      BY <3>3
  <2>8. 2 * i <= m <=> q + 1 + p <= n
    <3>1. CASE 2 * i <= m
      <4>1. 2 * i - 1 \in Int /\ m - 1 \in Int /\ 2 * i - 1 <= m - 1
        BY <2>5, <3>1
      <4>2. r <= (m - 1) * p
        BY <2>6, <4>1, ProductOrder
      <4> DEFINE c == (m - 1) * p
      <4>3. c \in Int /\ r <= c /\ c < n
        BY <2>2, <4>2
      <4> HIDE DEF c
      <4> QED
        BY <2>6, <3>1, <4>3
    <3>2. CASE ~(2 * i <= m)
      <4>1. 2 * i - 1 \in Int /\ m \in Int /\ m <= 2 * i - 1
        BY <2>5, <3>2
      <4>2. m * p <= r
        BY <2>6, <4>1, ProductOrder
      <4> DEFINE c == m * p
      <4>3. c \in Int /\ c <= r /\ n <= c
        BY <2>2, <4>2
      <4> HIDE DEF c
      <4> QED
        BY <2>6, <3>2, <4>3
    <3> QED
      BY <3>1, <3>2
  <2>9. levels[k][2 * i - 1] = trees[k][q + 1]
    <3>1. (2 * i - 1) - 1 = 2 * i - 2
      BY <2>5
    <3> QED
      BY <2>3, <2>5, <2>6, <3>1
  <2>10. 2 * i <= m => levels[k][2 * i] = trees[k][q + 1 + p]
    <3>1. q + 1 + p = r + 1
      BY <2>6
    <3> QED
      BY <2>3, <2>5, <2>6, <3>1
  <2>11. levels[k + 1][i] = <<"node", levels[k][2 * i - 1],
                              IF 2 * i <= m THEN levels[k][2 * i] ELSE levels[k][2 * i - 1]>>
    <3>1. levels[k + 1] = NextLevel(levels[k])
      BY <1>3, <2>1
    <3>2. i \in 1 .. (m + 1) \div 2
      BY <2>4
    <3> QED
      BY <2>2, <3>1, <3>2 DEF NextLevel
  <2>12. trees[k + 1][q + 1] = <<"node", trees[k][q + 1],
                                 trees[k][IF q + 1 + p <= n THEN q + 1 + p ELSE q + 1]>>
    <3>1. q + 1 \in 1 .. n
      BY <2>6, <2>7
    <3>2. trees[k + 1][q + 1] = TreeFrom(trees[k], hashes, n, k + 1, q + 1)
      BY <1>4, <2>1, <3>1
    <3> QED
      BY <2>1, <2>2, <3>2 DEF TreeFrom, P
  <2>13. levels[k + 1][i] = trees[k + 1][q + 1]
    BY <2>8, <2>9, <2>10, <2>11, <2>12
  <2> QED
    BY <2>6, <2>13
<1>7. \A k \in Nat : k \in T
  <2> HIDE DEF T
  <2> QED
    BY <1>5, <1>6, InductionStep
<1>8. \A k \in 0 .. n : Same(k)
  <2> HIDE DEF Same
  <2> QED
    BY <1>7
<1> QED
  BY <1>8 DEF P

\* One node is left as soon as a tree of that depth holds all the hashes.
LEMMA LastRoundIsLeastDepth ==
    ASSUME NEW hashes, NEW n \in Nat, n # 0, n = Len(hashes), NEW levels, Levels(levels, hashes, n)
    PROVE  \A k, d : LastRound(levels, n, k) /\ LeastDepth(n, d) => k = d
<1> DEFINE P == PowersOfTwo(n)
<1>1. \A k \in 0 .. n : P[k] \in Nat
  BY Doubling
<1> HIDE DEF P
<1>2. ASSUME NEW k \in 0 .. n PROVE Len(levels[k]) = 1 <=> P[k] >= n
  <2>1. PICK m \in Nat, p \in Nat : /\ m = Len(levels[k]) /\ m # 0 /\ p = P[k]
                                    /\ (m - 1) * p < n /\ n <= m * p
    BY <1>1, LevelCovers DEF P
  <2>2. CASE m = 1
    BY <2>1, <2>2
  <2>3. CASE m # 1
    <3>1. 1 \in Int /\ m - 1 \in Int /\ 1 <= m - 1
      <4>1. m # 0
        BY <2>1
      <4> QED
        BY <2>3, <4>1
    <3>2. 1 * p <= (m - 1) * p
      BY <3>1, ProductOrder
    <3> DEFINE c == (m - 1) * p
    <3>3. c \in Int /\ p <= c /\ c < n
      BY <2>1, <3>2
    <3> HIDE DEF c
    <3> QED
      BY <2>1, <2>3, <3>3
  <2> QED
    BY <2>2, <2>3
<1>3. SUFFICES ASSUME NEW k, NEW d, LastRound(levels, n, k), LeastDepth(n, d) PROVE k = d
  OBVIOUS
<1>4. /\ k \in 0 .. n /\ Len(levels[k]) = 1 /\ \A j \in 0 .. k - 1 : Len(levels[j]) > 1
      /\ d \in 0 .. n /\ P[d] >= n /\ \A c \in 0 .. d - 1 : P[c] < n
  BY <1>3 DEF LastRound, LeastDepth, P
<1>5. ~(k < d)
  <2> SUFFICES ASSUME k < d PROVE FALSE
    OBVIOUS
  <2>1. k \in 0 .. d - 1
    BY <1>4
  <2>2. P[k] < n /\ P[k] >= n /\ P[k] \in Nat
    BY <1>1, <1>2, <1>4, <2>1
  <2> QED
    BY <2>2
<1>6. ~(d < k)
  <2> SUFFICES ASSUME d < k PROVE FALSE
    OBVIOUS
  <2>1. d \in 0 .. k - 1
    BY <1>4
  <2>2. Len(levels[d]) > 1 /\ Len(levels[d]) = 1
    BY <1>2, <1>4, <2>1
  <2>3. ~(1 > 1)
    OBVIOUS
  <2> QED
    BY <2>2, <2>3
<1> QED
  BY <1>4, <1>5, <1>6

\* The level-by-level loop computes the tree that the recursion describes, for
\* a list of any length.
LEMMA RootIsReference ==
    ASSUME NEW hashes, Len(hashes) \in Nat
    PROVE  MerkleRoot(hashes) = Reference(hashes)
<1> DEFINE n == Len(hashes)
<1>1. CASE n = 0
  BY <1>1 DEF MerkleRoot, Reference
<1>2. CASE n # 0
  <2> DEFINE Round(levels) == CHOOSE k \in 0 .. n : /\ Len(levels[k]) = 1
                                                    /\ \A j \in 0 .. k - 1 : Len(levels[j]) > 1
             Depth == CHOOSE d \in 0 .. n : LeastDepth(n, d)
             P == PowersOfTwo(n)
  <2>1. PICK levels : Levels(levels, hashes, n) /\ MerkleRoot(hashes) = levels[Round(levels)][1]
    BY <1>2, MerkleRootUnfolds
  <2>2. PICK trees : Trees(trees, hashes, n, n) /\ Reference(hashes) = trees[Depth][1]
    BY <1>2, ReferenceUnfolds
  <2> DEFINE k == Round(levels)
  <2>3. LastRound(levels, n, k)
    <3>1. \E r \in 0 .. n : LastRound(levels, n, r)
      BY <1>2, <2>1, LevelSizes
    <3> HIDE DEF n
    <3> QED
      BY <3>1, Zenon DEF LastRound
  <2>4. \E d \in 0 .. n : LeastDepth(n, d)
    <3> DEFINE deep == {d \in 0 .. n : P[d] >= n}
    <3>1. P[n] \in Nat /\ P[n] > n
      <4>1. n \in 0 .. n
        OBVIOUS
      <4> QED
        BY <4>1, Doubling
    <3>2. \A d \in 0 .. n : P[d] \in Nat
      BY Doubling
    <3> HIDE DEF P
    <3>3. deep \subseteq Nat /\ deep # {}
      <4>1. n \in deep
        BY <3>1
      <4> QED
        BY <4>1
    <3> HIDE DEF deep
    <3>4. PICK d \in deep : \A c \in deep : d <= c
      BY <3>3, LeastElement
    <3>5. d \in 0 .. n /\ P[d] >= n
      BY DEF deep
    <3>6. ASSUME NEW c \in 0 .. d - 1 PROVE P[c] < n
      <4>1. c \in 0 .. n /\ ~(d <= c)
        BY <3>5
      <4>2. ~(P[c] >= n)
        BY <3>4, <4>1 DEF deep
      <4> QED
        BY <3>2, <4>1, <4>2
    <3> QED
      BY <3>5, <3>6 DEF LeastDepth, P
  <2>5. LeastDepth(n, Depth)
    <3> HIDE DEF n
    <3> QED
      BY <2>4, Zenon
  <2>6. k = Depth
    <3> HIDE DEF k, Depth
    <3> QED
      BY <1>2, <2>1, <2>3, <2>5, LastRoundIsLeastDepth
  <2>7. levels[k][1] = trees[k][1]
    <3> HIDE DEF k
    <3>1. k \in 0 .. n /\ Len(levels[k]) = 1
      BY <2>3 DEF LastRound
    <3>2. levels[k][1] = trees[k][(1 - 1) * P[k] + 1]
      <4>1. \A i \in 1 .. Len(levels[k]) : levels[k][i] = trees[k][(i - 1) * P[k] + 1]
        <5>1. \A j \in 0 .. n : \A i \in 1 .. Len(levels[j]) :
                 levels[j][i] = trees[j][(i - 1) * PowersOfTwo(n)[j] + 1]
          <6>1. Levels(levels, hashes, n) /\ Trees(trees, hashes, n, n) /\ n \in Nat /\ n # 0
            BY <1>2, <2>1, <2>2
          <6>2. n = Len(hashes)
            OBVIOUS
          <6> HIDE DEF n
          <6> QED
            BY <6>1, <6>2, LevelsAreTrees
        <5> HIDE DEF n
        <5> QED
          BY <3>1, <5>1, Zenon DEF P
      <4>2. 1 \in 1 .. Len(levels[k])
        BY <3>1
      <4> QED
        BY <4>1, <4>2, Zenon
    <3>3. P[k] \in Nat
      BY <3>1, Doubling
    <3> HIDE DEF P
    <3>4. (1 - 1) * P[k] + 1 = 1
      BY <3>3
    <3> QED
      BY <3>2, <3>4
  <2> QED
    BY <2>1, <2>2, <2>6, <2>7
<1> QED
  BY <1>1, <1>2

\* For two lists of any length: the root that the loop of MerkleRoot returns is
\* the root of the tree that repeats the left half where there is no right one.
THEOREM MerkleRootIsReference == FormatsSpec => []RootMatchesReference
<1>1. FormatsInv => RootMatchesReference
  BY RootIsReference DEF FormatsInv, RootMatchesReference, IsList
<1> QED
  BY <1>1, FormatsInvariant, PTL

-----------------------------------------------------------------------------
(* The body of a request.                                                  *)

\* Offset, as a recursion.
LEMMA OffsetUnfolds ==
    ASSUME NEW body, IsBody(body)
    PROVE  /\ Offset(body, 1) = 0
           /\ \A i \in 1 .. Len(body) :
                 /\ Offset(body, i) \in Nat
                 /\ Offset(body, i + 1) = Offset(body, i) + body[i].len + 1
<1> DEFINE n == Len(body)
           Step(old, j) == IF j = 1 THEN 0 ELSE old[j - 1] + body[j - 1].len + 1
           T == {m \in Nat : \E S : S = [j \in 1 .. m + 1 |-> Step(S, j)]}
<1>0. n \in Nat
  BY DEF IsBody
<1>1. 0 \in T
  <2> DEFINE f == [j \in 1 .. 0 + 1 |-> 0]
  <2>1. f = [j \in 1 .. 0 + 1 |-> Step(f, j)]
    OBVIOUS
  <2> HIDE DEF f, Step
  <2> QED
    BY <2>1
<1>2. ASSUME NEW m \in Nat, m \in T PROVE m + 1 \in T
  <2>1. PICK old : old = [j \in 1 .. m + 1 |-> Step(old, j)]
    BY <1>2
  <2> DEFINE f == [j \in 1 .. (m + 1) + 1 |-> Step(old, j)]
  <2>2. \A j \in 1 .. m + 1 : f[j] = old[j]
    <3> HIDE DEF Step
    <3> QED
      BY <2>1
  <2>3. \A j \in 1 .. (m + 1) + 1 : Step(f, j) = Step(old, j)
    <3>1. \A j \in 1 .. (m + 1) + 1 : j # 1 => j - 1 \in 1 .. m + 1
      OBVIOUS
    <3> HIDE DEF f
    <3> QED
      BY <2>2, <3>1
  <2> HIDE DEF Step
  <2>4. f = [j \in 1 .. (m + 1) + 1 |-> Step(f, j)]
    BY <2>3
  <2> HIDE DEF f
  <2> QED
    BY <2>4
<1>3. n \in T
  <2> HIDE DEF T, n
  <2> QED
    BY <1>0, <1>1, <1>2, InductionStep
<1> DEFINE At == CHOOSE S : S = [j \in 1 .. n + 1 |-> Step(S, j)]
<1>4. At = [j \in 1 .. n + 1 |-> Step(At, j)]
  BY <1>3, Zenon
<1>5. \A i : Offset(body, i) = At[i]
  BY DEF Offset
<1> HIDE DEF At, n
<1>6. At[1] = 0
  BY <1>0, <1>4
<1>7. \A i \in 1 .. n : At[i + 1] = At[i] + body[i].len + 1
  <2> SUFFICES ASSUME NEW i \in 1 .. n PROVE At[i + 1] = At[i] + body[i].len + 1
    OBVIOUS
  <2>1. i + 1 \in 1 .. n + 1 /\ i + 1 # 1 /\ (i + 1) - 1 = i
    BY <1>0
  <2> QED
    BY <1>4, <2>1
<1> DEFINE U == {k \in Nat : k + 1 <= n => At[k + 1] \in Nat}
<1>8. 0 \in U
  BY <1>6
<1>9. ASSUME NEW k \in Nat, k \in U PROVE k + 1 \in U
  <2> SUFFICES ASSUME (k + 1) + 1 <= n PROVE At[(k + 1) + 1] \in Nat
    OBVIOUS
  <2>1. k + 1 \in 1 .. n /\ At[k + 1] \in Nat
    BY <1>0, <1>9
  <2>2. body[k + 1].len \in Nat
    BY <2>1 DEF IsBody, n
  <2>3. At[(k + 1) + 1] = At[k + 1] + body[k + 1].len + 1
    BY <1>7, <2>1
  <2> QED
    BY <2>1, <2>2, <2>3
<1>10. \A i \in 1 .. n : At[i] \in Nat
  <2>1. \A k \in Nat : k \in U
    <3> HIDE DEF U
    <3> QED
      BY <1>8, <1>9, InductionStep
  <2> SUFFICES ASSUME NEW i \in 1 .. n PROVE At[i] \in Nat
    OBVIOUS
  <2>2. i - 1 \in Nat /\ (i - 1) + 1 = i /\ i <= n
    BY <1>0
  <2> QED
    BY <2>1, <2>2
<1> QED
  BY <1>5, <1>6, <1>7, <1>10 DEF n

\* Objects, as a recursion.
ObjectsStep(read, out, i) ==
    IF read[i].ink # {} THEN Append(out, ObjectOf(read[i])) ELSE out

LEMMA ObjectsUnfold ==
    ASSUME NEW read, Len(read) \in Nat
    PROVE  \E out : /\ out[0] = <<>>
                    /\ \A i \in 1 .. Len(read) : out[i] = ObjectsStep(read, out[i - 1], i)
                    /\ Objects(read) = out[Len(read)]
<1> DEFINE n == Len(read)
           Step(old, i) == IF i = 0 THEN <<>> ELSE ObjectsStep(read, old[i - 1], i)
           T == {m \in Nat : \E S : S = [i \in 0 .. m |-> Step(S, i)]}
<1>1. 0 \in T
  <2> DEFINE f == [i \in 0 .. 0 |-> <<>>]
  <2>1. f = [i \in 0 .. 0 |-> Step(f, i)]
    OBVIOUS
  <2> HIDE DEF f, Step
  <2> QED
    BY <2>1
<1>2. ASSUME NEW m \in Nat, m \in T PROVE m + 1 \in T
  <2>1. PICK old : old = [i \in 0 .. m |-> Step(old, i)]
    BY <1>2
  <2> DEFINE f == [i \in 0 .. m + 1 |-> Step(old, i)]
  <2>2. \A i \in 0 .. m : f[i] = old[i]
    <3> HIDE DEF Step
    <3> QED
      BY <2>1
  <2>3. \A i \in 0 .. m + 1 : Step(f, i) = Step(old, i)
    <3>1. \A i \in 0 .. m + 1 : i # 0 => i - 1 \in 0 .. m
      OBVIOUS
    <3>2. \A i \in 0 .. m + 1 : i # 0 => f[i - 1] = old[i - 1]
      BY <2>2, <3>1
    <3> HIDE DEF f
    <3> QED
      BY <3>2, Zenon
  <2> HIDE DEF Step
  <2>4. f = [i \in 0 .. m + 1 |-> Step(f, i)]
    BY <2>3
  <2> HIDE DEF f
  <2> QED
    BY <2>4
<1>3. n \in T
  <2> HIDE DEF T
  <2> QED
    BY <1>1, <1>2, InductionStep
<1> DEFINE Out == CHOOSE S : S = [i \in 0 .. n |-> Step(S, i)]
<1>4. Out = [i \in 0 .. n |-> Step(Out, i)]
  BY <1>3, Zenon
<1>5. Objects(read) = Out[n]
  BY Zenon DEF Objects, ObjectsStep
<1> HIDE DEF Out
<1>6. Out[0] = <<>> /\ \A i \in 1 .. n : Out[i] = ObjectsStep(read, Out[i - 1], i)
  <2>1. \A i \in 0 .. n : Out[i] = Step(Out, i)
    <3> HIDE DEF Step
    <3> QED
      BY <1>4
  <2>2. 0 \in 0 .. n /\ \A i \in 1 .. n : i \in 0 .. n /\ i # 0
    OBVIOUS
  <2> QED
    BY <2>1, <2>2, Zenon
<1> QED
  BY <1>5, <1>6

\* A line starts before the next one.
LEMMA LineSpan ==
    ASSUME NEW body, IsBody(body), NEW i \in 1 .. Len(body)
    PROVE  \E a \in Nat, z \in Nat : Offset(body, i) = a /\ Offset(body, i + 1) = z /\ a < z
<1> DEFINE off(j) == Offset(body, j)
<1>1. off(i) \in Nat /\ off(i + 1) = off(i) + body[i].len + 1
  BY OffsetUnfolds
<1>2. body[i].len \in Nat
  BY DEF IsBody
<1> HIDE DEF off
<1>3. PICK a \in Nat, c \in Nat : off(i) = a /\ body[i].len = c
  BY <1>1, <1>2
<1>4. off(i + 1) = a + c + 1
  BY <1>1, <1>3
<1>5. a + c + 1 \in Nat /\ a < a + c + 1
  OBVIOUS
<1> QED
  BY <1>3, <1>4, <1>5, Zenon DEF off

\* Where a line starts grows with it.
LEMMA OffsetsGrow ==
    ASSUME NEW body, IsBody(body), NEW i \in 1 .. Len(body)
    PROVE  \A j \in i .. Len(body) : Offset(body, i + 1) <= Offset(body, j + 1)
<1> DEFINE n == Len(body)
           off(j) == Offset(body, j)
           U == {k \in Nat : i + k <= n => off(i + 1) <= off(i + k + 1)}
<1>1. n \in Nat /\ \A j \in 1 .. n : body[j].len \in Nat
  BY DEF IsBody
<1>2. \A j \in 1 .. n : off(j) \in Nat /\ off(j + 1) = off(j) + body[j].len + 1
  BY OffsetUnfolds
<1> HIDE DEF off, n
<1>3. i \in 1 .. n
  BY DEF n
<1>4. ASSUME NEW j \in 1 .. n PROVE off(j + 1) \in Nat /\ off(j) <= off(j + 1)
  <2>1. PICK a \in Nat, c \in Nat : off(j) = a /\ body[j].len = c
    BY <1>1, <1>2
  <2>2. off(j + 1) = a + c + 1
    BY <1>2, <2>1
  <2> QED
    BY <2>1, <2>2
<1>5. 0 \in U
  BY <1>1, <1>3, <1>4
<1>6. ASSUME NEW k \in Nat, k \in U PROVE k + 1 \in U
  <2> SUFFICES ASSUME i + (k + 1) <= n PROVE off(i + 1) <= off(i + (k + 1) + 1)
    OBVIOUS
  <2>1. i + k \in 1 .. n /\ i + k + 1 \in 1 .. n /\ i + (k + 1) + 1 = (i + k + 1) + 1
    BY <1>1, <1>3
  <2>2. off(i + 1) <= off(i + k + 1)
    BY <1>1, <1>3, <1>6, <2>1
  <2>3. off(i + k + 1) <= off((i + k + 1) + 1) /\ off(i + k + 1) \in Nat /\ off((i + k + 1) + 1) \in Nat
    BY <1>4, <2>1
  <2>4. off(i + 1) \in Nat
    BY <1>3, <1>4
  <2> QED
    BY <2>1, <2>2, <2>3, <2>4
<1>7. \A k \in Nat : k \in U
  <2> HIDE DEF U
  <2> QED
    BY <1>5, <1>6, InductionStep
<1> SUFFICES ASSUME NEW j \in i .. n PROVE off(i + 1) <= off(j + 1)
  BY DEF off, n
<1>8. j - i \in Nat /\ i + (j - i) = j /\ j <= n
  BY <1>1, <1>3
<1>9. j - i \in U
  BY <1>7, <1>8
<1> QED
  BY <1>8, <1>9

\* What is kept of the first i lines: what was read of those that are not blank.
Kept(read, out, i) ==
    LET n == Len(out)
    IN  /\ n \in Nat /\ out = [j \in 1 .. n |-> out[j]]
        /\ \A j \in 1 .. n : \E l \in 1 .. i : read[l].ink # {} /\ out[j] = ObjectOf(read[l])
        /\ \A j, k \in 1 .. n : j < k => out[j].line < out[k].line
        /\ \A l \in 1 .. i : read[l].ink # {} => \E j \in 1 .. n : out[j] = ObjectOf(read[l])

\* Objects keeps them, in their order.
LEMMA ObjectsKept ==
    ASSUME NEW read, Len(read) \in Nat, \A i \in 1 .. Len(read) : read[i].line = i
    PROVE  Kept(read, Objects(read), Len(read))
<1> DEFINE n == Len(read)
<1>1. PICK out : /\ out[0] = <<>> /\ Objects(read) = out[n]
                 /\ \A i \in 1 .. n : out[i] = ObjectsStep(read, out[i - 1], i)
  BY ObjectsUnfold
<1> DEFINE T == {k \in Nat : k <= n => Kept(read, out[k], k)}
<1>2. 0 \in T
  <2>1. Len(<<>>) = 0 /\ <<>> = [j \in 1 .. 0 |-> <<>>[j]]
    OBVIOUS
  <2>2. Kept(read, <<>>, 0)
    BY <2>1 DEF Kept
  <2> QED
    BY <1>1, <2>2
<1>3. ASSUME NEW k \in Nat, k \in T PROVE k + 1 \in T
  <2> SUFFICES ASSUME k + 1 <= n PROVE Kept(read, out[k + 1], k + 1)
    OBVIOUS
  <2> DEFINE i == k + 1
             s == out[k]
             m == Len(s)
             e == ObjectOf(read[i])
  <2>1. i \in 1 .. n /\ i - 1 = k /\ k <= n
    BY <1>3
  <2>2. out[i] = (IF read[i].ink # {} THEN Append(s, e) ELSE s)
    BY <1>1, <2>1 DEF ObjectsStep
  <2>3. Kept(read, s, k)
    BY <1>3, <2>1
  <2>4. /\ m \in Nat /\ s = [j \in 1 .. m |-> s[j]]
        /\ \A j \in 1 .. m : \E l \in 1 .. k : read[l].ink # {} /\ s[j] = ObjectOf(read[l])
        /\ \A j, l \in 1 .. m : j < l => s[j].line < s[l].line
        /\ \A l \in 1 .. k : read[l].ink # {} => \E j \in 1 .. m : s[j] = ObjectOf(read[l])
    <3> HIDE DEF s
    <3> QED
      BY <2>3 DEF Kept
  <2>5. \A l \in 1 .. n : ObjectOf(read[l]).line = l
    BY DEF ObjectOf
  <2>6. \A l \in 1 .. k : l \in 1 .. i /\ l \in 1 .. n /\ l < i
    BY <2>1
  <2>7. \A l \in 1 .. i : l \in 1 .. k \/ l = i
    OBVIOUS
  <2> HIDE DEF s, e, i
  <2>8. CASE read[i].ink = {}
    <3>1. out[i] = s
      BY <2>2, <2>8
    <3>2. \A j \in 1 .. m : \E l \in 1 .. i : read[l].ink # {} /\ s[j] = ObjectOf(read[l])
      BY <2>4, <2>6
    <3>3. \A l \in 1 .. i : read[l].ink # {} => \E j \in 1 .. m : s[j] = ObjectOf(read[l])
      BY <2>4, <2>7, <2>8
    <3>4. Kept(read, s, i)
      BY <2>4, <3>2, <3>3 DEF Kept
    <3> QED
      BY <3>1, <3>4 DEF i
  <2>9. CASE read[i].ink # {}
    <3> DEFINE t == Append(s, e)
    <3>0. Len(s) \in Nat /\ s = [j \in 1 .. Len(s) |-> s[j]]
      BY <2>4, Zenon
    <3>1. Len(t) = m + 1 /\ t = [j \in 1 .. Len(t) |-> t[j]] /\ t[Len(t)] = e /\ \A j \in 1 .. m : t[j] = s[j]
      <4> HIDE DEF m
      <4>1. LET u == Append(s, e)
            IN  /\ Len(u) = Len(s) + 1 /\ u = [j \in 1 .. Len(u) |-> u[j]]
                /\ u[Len(u)] = e /\ \A j \in 1 .. Len(s) : u[j] = s[j]
        BY <3>0, AppendOne
      <4> QED
        BY <4>1, Zenon DEF m
    <3>2. out[i] = t
      BY <2>2, <2>9
    <3> HIDE DEF t
    <3>3. \A j \in 1 .. Len(t) : j \in 1 .. m \/ j = m + 1
      BY <2>4, <3>1
    <3>4. (\A j \in 1 .. m : j \in 1 .. Len(t)) /\ m + 1 \in 1 .. Len(t) /\ i \in 1 .. i
      BY <2>1, <2>4, <3>1
    <3>5. \A j \in 1 .. Len(t) : \E l \in 1 .. i : read[l].ink # {} /\ t[j] = ObjectOf(read[l])
      <4> SUFFICES ASSUME NEW j \in 1 .. Len(t)
                   PROVE  \E l \in 1 .. i : read[l].ink # {} /\ t[j] = ObjectOf(read[l])
        OBVIOUS
      <4>1. CASE j \in 1 .. m
        BY <2>4, <2>6, <3>1, <4>1
      <4>2. CASE j = m + 1
        BY <2>9, <3>1, <3>4, <4>2 DEF e
      <4> QED
        BY <3>3, <4>1, <4>2
    <3>6. \A j, l \in 1 .. Len(t) : j < l => t[j].line < t[l].line
      <4> SUFFICES ASSUME NEW j \in 1 .. Len(t), NEW l \in 1 .. Len(t), j < l PROVE t[j].line < t[l].line
        OBVIOUS
      <4>1. j \in 1 .. m /\ t[j] = s[j]
        <5>1. j \in 1 .. m
          BY <2>4, <3>1
        <5> QED
          BY <3>1, <5>1
      <4>2. CASE l \in 1 .. m
        BY <2>4, <3>1, <4>1, <4>2
      <4>3. CASE l = m + 1
        <5>1. PICK p \in 1 .. k : s[j] = ObjectOf(read[p])
          BY <2>4, <4>1
        <5>2. t[j].line = p /\ p < i
          BY <2>5, <2>6, <4>1, <5>1
        <5>3. t[l].line = i
          BY <2>1, <2>5, <3>1, <4>3 DEF e
        <5> QED
          BY <5>2, <5>3
      <4> QED
        BY <3>3, <4>2, <4>3
    <3>7. \A l \in 1 .. i : read[l].ink # {} => \E j \in 1 .. Len(t) : t[j] = ObjectOf(read[l])
      <4> SUFFICES ASSUME NEW l \in 1 .. i, read[l].ink # {}
                   PROVE  \E j \in 1 .. Len(t) : t[j] = ObjectOf(read[l])
        OBVIOUS
      <4>1. CASE l \in 1 .. k
        <5>1. PICK j \in 1 .. m : s[j] = ObjectOf(read[l])
          BY <2>4, <4>1
        <5> QED
          BY <3>1, <3>4, <5>1
      <4>2. CASE l = i
        BY <3>1, <3>4, <4>2 DEF e
      <4> QED
        BY <2>7, <4>1, <4>2
    <3>8. Kept(read, t, i)
      <4>1. Len(t) \in Nat /\ t = [j \in 1 .. Len(t) |-> t[j]]
        BY <2>4, <3>1
      <4> QED
        BY <3>5, <3>6, <3>7, <4>1, Zenon DEF Kept
    <3> QED
      BY <3>2, <3>8 DEF i
  <2> QED
    BY <2>8, <2>9
<1>4. \A k \in Nat : k \in T
  <2> HIDE DEF T
  <2> QED
    BY <1>2, <1>3, InductionStep
<1>5. n \in T
  BY <1>4
<1> QED
  BY <1>1, <1>5

\* A line that is cut.
LEMMA CutLine ==
    ASSUME NEW i, NEW len, NEW ink, NEW object, NEW room, NEW whole,
           whole = [line |-> i, len |-> len, ink |-> ink, object |-> object, whole |-> TRUE]
    PROVE  LET cut == [whole EXCEPT !.len = room, !.ink = {p \in @ : p <= room}, !.whole = FALSE]
           IN  cut.line = i /\ cut.whole = FALSE /\ cut.ink = {p \in ink : p <= room}
OBVIOUS

\* What is read of a line: all of it if it lies within the limit, and otherwise
\* less, and nothing that is not blank if the limit lies before it.
LEMMA LineRead ==
    ASSUME NEW body, IsBody(body), NEW i \in 1 .. Len(body)
    PROVE  LET read == ReadLimited(body)[i]
           IN  /\ read.line = i
               /\ Fits(body, i) => read = body[i] /\ read.whole = TRUE
               /\ ~Fits(body, i) => /\ read.whole = FALSE
                                    /\ read.ink # {} => Offset(body, i) - 1 <= MaxBody
<1> DEFINE room(j) == MaxBody - Offset(body, j)
           cut(j) == IF body[j].len <= room(j) THEN body[j]
                     ELSE [body[j] EXCEPT !.len = room(j), !.ink = {p \in @ : p <= room(j)}, !.whole = FALSE]
           read == ReadLimited(body)[i]
           off == Offset(body, i)
<1>1. MaxBody \in Nat /\ off \in Nat /\ Offset(body, i + 1) = off + body[i].len + 1
  BY BodyConstants, OffsetUnfolds
<1>2. PICK len, ink, object :
         /\ body[i] = [line |-> i, len |-> len, ink |-> ink, object |-> object, whole |-> TRUE]
         /\ len \in Nat /\ ink \subseteq 1 .. len
  <2>1. /\ body[i] = [line |-> i, len |-> body[i].len, ink |-> body[i].ink,
                      object |-> body[i].object, whole |-> TRUE]
        /\ body[i].len \in Nat /\ body[i].ink \subseteq 1 .. body[i].len
    BY DEF IsBody
  <2> QED
    BY <2>1
<1>3. read = cut(i)
  <2>1. ReadLimited(body) = [j \in 1 .. Len(body) |-> cut(j)]
    BY DEF ReadLimited
  <2> HIDE DEF cut
  <2> QED
    BY <2>1
<1>4. body[i].len = len /\ body[i].line = i /\ body[i].whole = TRUE
  BY <1>2
<1>5. Fits(body, i) <=> body[i].len <= room(i)
  <2> HIDE DEF off
  <2>1. Fits(body, i) <=> (off + len + 1) - 1 <= MaxBody
    BY <1>1, <1>4 DEF Fits
  <2>2. (off + len + 1) - 1 <= MaxBody <=> len <= MaxBody - off
    BY <1>1, <1>2
  <2> QED
    BY <1>4, <2>1, <2>2 DEF off
<1> HIDE DEF read, off
<1>6. CASE Fits(body, i)
  <2>1. read = body[i]
    BY <1>3, <1>5, <1>6
  <2> QED
    BY <1>4, <1>6, <2>1 DEF read
<1>7. CASE ~Fits(body, i)
  <2>1. read = [body[i] EXCEPT !.len = room(i), !.ink = {p \in @ : p <= room(i)}, !.whole = FALSE]
    BY <1>3, <1>5, <1>7
  <2>2. read.line = i /\ read.whole = FALSE /\ read.ink = {p \in ink : p <= room(i)}
    <3> HIDE DEF room
    <3> QED
      BY <1>2, <2>1, CutLine
  <2>3. read.ink # {} => off - 1 <= MaxBody
    <3> SUFFICES ASSUME read.ink # {} PROVE off - 1 <= MaxBody
      OBVIOUS
    <3>1. PICK p \in ink : p <= MaxBody - off
      BY <2>2 DEF off
    <3>2. p \in Nat
      BY <1>2
    <3> QED
      BY <1>1, <3>1, <3>2
  <2> QED
    BY <1>7, <2>2, <2>3 DEF read, off
<1> QED
  BY <1>6, <1>7

\* No accepted body loses anything within the limit, and an array loses nothing.
LEMMA BodyIsKept ==
    ASSUME NEW body, IsBody(body), NEW array \in 0 .. Len(body)
    PROVE  BodyKept(array, body)
<1> DEFINE n == Len(body)
           read == ReadLimited(body)
           got == Objects(read)
           m == Len(got)
           kept(I) == {got[i].line : i \in I}
           fits(j) == Fits(body, j)
<1>1. n \in Nat /\ Len(read) = n
  BY DEF IsBody, ReadLimited
<1>2. SUFFICES ASSUME ParseLogObjects(array, body) # Refused PROVE BodyKept(array, body)
  BY DEF BodyKept
<1>3. /\ ParseLogObjects(array, body) = got
      /\ array # 0 => /\ \A i \in 1 .. array : read[i].ink = body[i].ink
                      /\ \A i \in array + 1 .. n : read[i].ink = {}
  BY <1>1, <1>2, Zenon DEF ParseLogObjects
<1>4. \A i \in 1 .. n : /\ read[i].line = i
                        /\ fits(i) => read[i] = body[i] /\ read[i].whole = TRUE
                        /\ ~fits(i) => /\ read[i].whole = FALSE
                                       /\ read[i].ink # {} => Offset(body, i) - 1 <= MaxBody
  BY LineRead
<1>5. Kept(read, got, n)
  <2> HIDE DEF read
  <2> QED
    BY <1>1, <1>4, ObjectsKept
<1>6. \A i \in 1 .. n : /\ ObjectOf(read[i]).line = i
                        /\ ObjectOf(read[i]).whole = read[i].whole
                        /\ ObjectOf(read[i]).as = "object" <=> IsObject(read[i])
  BY <1>4, Zenon DEF ObjectOf
<1> HIDE DEF got, read
<1>7. \A j \in 1 .. m : /\ got[j].line \in 1 .. n /\ read[got[j].line].ink # {}
                        /\ got[j] = ObjectOf(read[got[j].line])
  BY <1>5, <1>6 DEF Kept
<1>8. \A j \in 1 .. m : got[j].whole = TRUE <=> fits(got[j].line)
  <2> SUFFICES ASSUME NEW j \in 1 .. m PROVE got[j].whole = TRUE <=> fits(got[j].line)
    OBVIOUS
  <2> DEFINE l == got[j].line
  <2>1. l \in 1 .. n /\ got[j] = ObjectOf(read[l])
    BY <1>7
  <2>2. got[j].whole = read[l].whole
    BY <1>6, <2>1, Zenon
  <2> HIDE DEF l, fits
  <2>3. read[l].whole = TRUE <=> fits(l)
    <3>1. (fits(l) => read[l].whole = TRUE) /\ (~fits(l) => read[l].whole = FALSE)
      BY <1>4, <2>1, Zenon
    <3> QED
      BY <3>1
  <2> QED
    BY <2>2, <2>3 DEF l
<1>9. /\ m \in Nat
      /\ \A j, k \in 1 .. m : j < k => got[j].line < got[k].line
      /\ \A l \in 1 .. n : read[l].ink # {} => \E j \in 1 .. m : got[j] = ObjectOf(read[l])
  BY <1>5 DEF Kept
<1>10. \A j \in 1 .. m : got[j].whole \in BOOLEAN
  <2>1. \A i \in 1 .. n : read[i].whole \in BOOLEAN
    BY <1>4
  <2> QED
    BY <1>6, <1>7, <2>1
<1> HIDE DEF m, fits
<1>11. kept({i \in 1 .. m : got[i].whole}) = {j \in 1 .. n : fits(j) /\ body[j].ink # {}}
  <2>1. ASSUME NEW j \in 1 .. m, got[j].whole
        PROVE  got[j].line \in {l \in 1 .. n : fits(l) /\ body[l].ink # {}}
    <3>1. fits(got[j].line) /\ got[j].line \in 1 .. n /\ read[got[j].line].ink # {}
      BY <1>7, <1>8, <1>10, <2>1
    <3>2. read[got[j].line] = body[got[j].line]
      BY <1>4, <3>1
    <3> QED
      BY <3>1, <3>2
  <2>2. ASSUME NEW l \in 1 .. n, fits(l), body[l].ink # {}
        PROVE  \E j \in 1 .. m : got[j].whole /\ got[j].line = l
    <3>1. read[l].ink # {}
      BY <1>4, <2>2
    <3>2. PICK j \in 1 .. m : got[j] = ObjectOf(read[l])
      BY <1>9, <3>1
    <3>3. got[j].line = l /\ got[j].whole = TRUE
      BY <1>6, <1>8, <2>2, <3>2
    <3> QED
      BY <3>3
  <2>3. \A l \in kept({i \in 1 .. m : got[i].whole}) : l \in {j \in 1 .. n : fits(j) /\ body[j].ink # {}}
    BY <2>1
  <2>4. \A l \in {j \in 1 .. n : fits(j) /\ body[j].ink # {}} : l \in kept({i \in 1 .. m : got[i].whole})
    BY <2>2
  <2> QED
    BY <2>3, <2>4
<1>12. \A j \in 1 .. m : IF got[j].whole THEN got[j].as = "object" <=> IsObject(body[got[j].line])
                         ELSE j = m /\ ~fits(got[j].line)
  <2> SUFFICES ASSUME NEW j \in 1 .. m
               PROVE  IF got[j].whole THEN got[j].as = "object" <=> IsObject(body[got[j].line])
                      ELSE j = m /\ ~fits(got[j].line)
    OBVIOUS
  <2> DEFINE l == got[j].line
  <2>1. l \in 1 .. n /\ read[l].ink # {} /\ got[j] = ObjectOf(read[l])
    BY <1>7
  <2> HIDE DEF l
  <2>2. CASE got[j].whole
    <3>1. fits(l)
      BY <1>8, <1>10, <2>2 DEF l
    <3>2. read[l] = body[l]
      BY <1>4, <2>1, <3>1
    <3>3. got[j].as = "object" <=> IsObject(read[l])
      BY <1>6, <2>1, Zenon
    <3> QED
      BY <2>2, <3>2, <3>3 DEF l
  <2>3. CASE ~got[j].whole
    <3>1. ~fits(l)
      BY <1>8, <2>3 DEF l
    <3>2. j = m
      <4> SUFFICES ASSUME j # m PROVE FALSE
        OBVIOUS
      <4>1. j + 1 \in 1 .. m /\ j < j + 1
        BY <1>9
      <4> DEFINE k == got[j + 1].line
      <4>2. k \in 1 .. n /\ read[k].ink # {} /\ l < k
        BY <1>7, <1>9, <4>1 DEF l
      <4> HIDE DEF k
      <4>3. PICK x \in Nat, z \in Nat : Offset(body, k) = x /\ Offset(body, k + 1) = z /\ x < z
        BY <4>2, LineSpan
      <4>4. x - 1 <= MaxBody
        <5>1. CASE fits(k)
          <6>1. z - 1 <= MaxBody
            BY <4>3, <5>1, Zenon DEF fits, Fits
          <6> QED
            BY <4>3, <6>1, BodyConstants
        <5>2. CASE ~fits(k)
          <6>1. Offset(body, k) - 1 <= MaxBody
            BY <1>4, <4>2, <5>2, Zenon
          <6> QED
            BY <4>3, <6>1, Zenon
        <5> QED
          BY <5>1, <5>2
      <4>5. k - 1 \in l .. n /\ (k - 1) + 1 = k
        BY <1>1, <2>1, <4>2
      <4>6. Offset(body, l + 1) <= Offset(body, k)
        <5>1. \A i \in l .. n : Offset(body, l + 1) <= Offset(body, i + 1)
          BY <2>1, OffsetsGrow
        <5>2. Offset(body, l + 1) <= Offset(body, (k - 1) + 1)
          BY <4>5, <5>1
        <5> QED
          BY <4>5, <5>2
      <4>7. Offset(body, l + 1) - 1 <= MaxBody
        <5>1. PICK e \in Nat : Offset(body, l + 1) = e
          BY <2>1, LineSpan
        <5>2. e <= x
          BY <4>3, <4>6, <5>1, Zenon
        <5>3. e - 1 <= MaxBody
          BY <4>4, <5>2, BodyConstants
        <5> QED
          BY <5>1, <5>3, Zenon
      <4> QED
        BY <3>1, <4>7 DEF fits, Fits
    <3> QED
      BY <2>3, <3>1, <3>2 DEF l
  <2> QED
    BY <2>2, <2>3
<1>13. array # 0 => kept(1 .. m) = {j \in 1 .. array : body[j].ink # {}}
  <2> SUFFICES ASSUME array # 0 PROVE kept(1 .. m) = {j \in 1 .. array : body[j].ink # {}}
    OBVIOUS
  <2>1. array \in 1 .. n
    BY <1>1
  <2>2. \A j \in 1 .. array : j \in 1 .. n /\ read[j].ink = body[j].ink
    BY <1>1, <1>3, <2>1
  <2>3. ASSUME NEW j \in 1 .. m PROVE got[j].line \in {l \in 1 .. array : body[l].ink # {}}
    <3>1. got[j].line \in 1 .. n /\ read[got[j].line].ink # {}
      BY <1>7
    <3>2. got[j].line \notin array + 1 .. n
      BY <1>3, <3>1
    <3>3. got[j].line \in 1 .. array
      BY <1>1, <2>1, <3>1, <3>2
    <3> QED
      BY <2>2, <3>1, <3>3
  <2>4. ASSUME NEW l \in 1 .. array, body[l].ink # {} PROVE \E j \in 1 .. m : got[j].line = l
    <3>1. l \in 1 .. n /\ read[l].ink # {}
      BY <2>2, <2>4
    <3>2. PICK j \in 1 .. m : got[j] = ObjectOf(read[l])
      BY <1>9, <3>1
    <3> QED
      BY <1>6, <3>1, <3>2
  <2>5. \A l \in kept(1 .. m) : l \in {j \in 1 .. array : body[j].ink # {}}
    BY <2>3
  <2>6. \A l \in {j \in 1 .. array : body[j].ink # {}} : l \in kept(1 .. m)
    BY <2>4
  <2> QED
    BY <2>5, <2>6
<1> QED
  BY <1>3, <1>9, <1>11, <1>12, <1>13 DEF BodyKept, m, fits

\* Of every body that the gateway accepts, whatever its lines hold and wherever
\* the limit cuts it: no line within the limit is lost, doubled, reordered or
\* taken for what it is not, only the last object may be made of part of a line,
\* and of an array nothing is missing.
THEOREM NothingButTheTailIsLost == FormatsSpec => []BodyKeptOrCut
<1>1. FormatsInv => BodyKeptOrCut
  BY BodyIsKept DEF FormatsInv, BodyKeptOrCut
<1> QED
  BY <1>1, FormatsInvariant, PTL
=============================================================================
